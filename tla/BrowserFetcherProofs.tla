------------------------- MODULE BrowserFetcherProofs -------------------------
(****************************************************************************)
(* Proofs about BrowserFetcher and its page registry for any set of         *)
(* fetches, any limits and any number of drivers: no page is lost, no more  *)
(* are open than the limits allow, one driver runs, and an aclose() that    *)
(* nothing races leaves nothing.                                            *)
(****************************************************************************)
EXTENDS BrowserFetcher, FiniteSetTheorems, TLAPS

BusyInit  == {"starting", "launching", "abandoning"}
InHand    == {"loading", "registering", "sweeping", "closing"}
BusyPages == Kept \cup doomed

(* _init_lock and the registry's lock are held by the task that is in the   *)
(* code they cover, and a page is doomed only under the latter.             *)
LocksHeld ==
  /\ \A f \in Fetches : initLock = f <=> pc[f] \in BusyInit
  /\ \A f \in Fetches : lock = f <=> pc[f] \in {"sweeping", "evicting"}
  /\ lock = Closer <=> aclose = "clearing"
  /\ lock = Nobody => doomed = {}

(* EveryPageHasAnOwner, and what a step needs to keep it: a page in hand is *)
(* open, one being evicted was kept and is kept no longer.                  *)
PagesOwned ==
  /\ EveryPageHasAnOwner
  /\ \A f \in Fetches : pc[f] \in InHand => page[f] = "open"
  /\ \A f \in doomed : pc[f] = "kept"
  /\ Kept \cap doomed = {}

(* A page that is not in the hands of a fetch counts for max_open_pages     *)
(* from its eviction's start to its end.                                    *)
PagesBounded ==
  /\ IsFiniteSet(Holding) /\ Cardinality(Holding) <= MaxConcurrency
  /\ IsFiniteSet(Kept) /\ Cardinality(Kept) <= MaxOpenPages
  /\ IsFiniteSet(doomed)
  /\ Cardinality(BusyPages \ Holding) <= MaxOpenPages

(* While no aclose() has raced a fetch, the driver that runs is the one in  *)
(* self._pw, under _init_lock too; outside of it, while the fetcher is      *)
(* open, self._browser is its browser.                                      *)
DriverHeld ==
  /\ closed <=> aclose # "open"
  /\ ~closed => quiet
  /\ quiet => \A k \in Drivers : Running(k) => k = pw
  /\ ~closed /\ initLock = Nobody => browser = pw
  /\ \A f \in Fetches : quiet /\ pc[f] \in BusyInit =>
       browser = None /\ pw = IF pc[f] = "starting" THEN None ELSE home[f]

(* A quiet aclose() meets no fetch, and what it has done stays done.        *)
QuietClose ==
  quiet /\ closed =>
    /\ Active = {}
    /\ aclose \in {"clearing", "closing_browser", "stopping", "returned"} => pages = <<>>
    /\ aclose \in {"closing_browser", "stopping", "returned"} => doomed = {}
    /\ aclose = "stopping" => stopping = pw
    /\ aclose = "returned" => pw = None

IInv == TypeOK /\ LocksHeld /\ PagesOwned /\ PagesBounded /\ DriverHeld /\ QuietClose

-----------------------------------------------------------------------------
(* Induction, with the set of the numbers that have the property.           *)
LEMMA Induction ==
  ASSUME NEW T \in SUBSET Nat, 0 \in T, \A n \in T : n + 1 \in T
  PROVE  T = Nat
<1> DEFINE Out == Nat \ T
           Less == OpToRel(<, Nat)
<1> SUFFICES ASSUME Out # {} PROVE FALSE
  OBVIOUS
<1>1. IsWellFoundedOn(Less, Nat)
  BY NatLessThanWellFounded
<1>2. PICK n \in Out : \A m \in Out : ~ (<<m, n>> \in Less)
  <2> HIDE DEF Less
  <2>1. Out \subseteq Nat
    OBVIOUS
  <2> HIDE DEF Out
  <2> QED
    BY <1>1, <2>1, WFMin
<1>3. n \in Nat \ {0} /\ n - 1 \in Nat /\ n - 1 < n
  OBVIOUS
<1>4. <<n - 1, n>> \in Less
  BY <1>3 DEF OpToRel
<1>5. n - 1 \in T
  BY <1>2, <1>3, <1>4
<1> QED
  BY <1>3, <1>5

-----------------------------------------------------------------------------
(* Remaining(s, S): the recursive function exists, and what it returns.     *)

RemainingStep(s, S, g, n) ==
  IF n = 0 THEN <<>> ELSE IF s[n] \in S THEN g[n - 1] ELSE Append(g[n - 1], s[n])

LEMMA RemainingFunction ==
  ASSUME NEW A, NEW s \in Seq(A), NEW S
  PROVE  \E g : /\ g = [n \in 0 .. Len(s) |-> RemainingStep(s, S, g, n)]
                /\ Remaining(s, S) = g[Len(s)]
<1> DEFINE Good(g, m) == g = [n \in 0 .. m |-> RemainingStep(s, S, g, n)]
           T == {m \in Nat : \E g : Good(g, m)}
<1>1. 0 \in T
  <2> DEFINE g == [n \in 0 .. 0 |-> <<>>]
  <2>1. g = [n \in 0 .. 0 |-> RemainingStep(s, S, g, n)]
    BY DEF RemainingStep
  <2> QED
    BY <2>1
<1>2. ASSUME NEW m \in T PROVE m + 1 \in T
  <2>1. PICK g : Good(g, m)
    BY <1>2
  <2> DEFINE h == [n \in 0 .. (m + 1) |-> RemainingStep(s, S, g, n)]
  <2>2. \A n \in 0 .. m : h[n] = g[n]
    BY <2>1
  <2>3. \A n \in 0 .. (m + 1) : RemainingStep(s, S, g, n) = RemainingStep(s, S, h, n)
    <3> SUFFICES ASSUME NEW n \in 0 .. (m + 1)
                 PROVE  RemainingStep(s, S, g, n) = RemainingStep(s, S, h, n)
      OBVIOUS
    <3>1. CASE n = 0
      BY <3>1 DEF RemainingStep
    <3>2. CASE n # 0
      <4> HIDE DEF h
      <4>1. n - 1 \in 0 .. m
        BY <3>2
      <4>2. h[n - 1] = g[n - 1]
        BY <2>2, <4>1
      <4> QED
        BY <4>2 DEF RemainingStep
    <3> QED
      BY <3>1, <3>2
  <2>4. Good(h, m + 1)
    <3>1. h = [n \in 0 .. (m + 1) |-> RemainingStep(s, S, g, n)]
      OBVIOUS
    <3> HIDE DEF h
    <3> QED
      BY <2>3, <3>1
  <2> QED
    <3> HIDE DEF h, Good
    <3> QED
      BY <2>4
<1>3. \E g : Good(g, Len(s))
  <2>1. T = Nat
    <3>1. T \in SUBSET Nat
      OBVIOUS
    <3> HIDE DEF T
    <3> QED
      BY <1>1, <1>2, <3>1, Induction
  <2> QED
    BY <2>1
<1> DEFINE g == CHOOSE g : g = [n \in 0 .. Len(s) |-> RemainingStep(s, S, g, n)]
<1>4. g = [n \in 0 .. Len(s) |-> RemainingStep(s, S, g, n)]
  BY <1>3
<1>5. Remaining(s, S) = g[Len(s)]
  BY DEF Remaining, RemainingStep
<1> QED
  BY <1>4, <1>5

LEMMA AppendSet ==
  ASSUME NEW A, NEW q \in Seq(A), NEW x \in A
  PROVE  /\ Append(q, x) \in Seq(A)
         /\ ToSet(Append(q, x)) = ToSet(q) \cup {x}
         /\ IsInjective(q) /\ x \notin ToSet(q) => IsInjective(Append(q, x))
<1>1. /\ Append(q, x) \in Seq(A) /\ Len(q) \in Nat
      /\ DOMAIN q = 1 .. Len(q) /\ DOMAIN Append(q, x) = 1 .. (Len(q) + 1)
      /\ \A i \in 1 .. Len(q) : Append(q, x)[i] = q[i]
      /\ Append(q, x)[Len(q) + 1] = x
  OBVIOUS
<1>2. 1 .. (Len(q) + 1) = (1 .. Len(q)) \cup {Len(q) + 1}
  BY <1>1
<1>3. ToSet(Append(q, x)) = ToSet(q) \cup {x}
  BY <1>1, <1>2 DEF ToSet
<1>4. ASSUME IsInjective(q), x \notin ToSet(q) PROVE IsInjective(Append(q, x))
  BY <1>1, <1>2, <1>4 DEF ToSet, IsInjective
<1> QED
  BY <1>1, <1>3, <1>4

(* What is left are the members that are not in S, each once.               *)
LEMMA RemainingMembers ==
  ASSUME NEW A, NEW s \in Seq(A), IsInjective(s), NEW S
  PROVE  /\ Remaining(s, S) \in Seq(A)
         /\ IsInjective(Remaining(s, S))
         /\ ToSet(Remaining(s, S)) = ToSet(s) \ S
<1>1. PICK g : /\ g = [n \in 0 .. Len(s) |-> RemainingStep(s, S, g, n)]
               /\ Remaining(s, S) = g[Len(s)]
  BY RemainingFunction
<1>2. Len(s) \in Nat /\ DOMAIN s = 1 .. Len(s) /\ \A i \in 1 .. Len(s) : s[i] \in A
  OBVIOUS
<1>3. g[0] = <<>>
  BY <1>1, <1>2 DEF RemainingStep
<1>4. \A n \in 1 .. Len(s) : g[n] = IF s[n] \in S THEN g[n - 1] ELSE Append(g[n - 1], s[n])
  <2>1. \A n \in 0 .. Len(s) : g[n] = RemainingStep(s, S, g, n)
    BY <1>1
  <2>2. \A n \in 1 .. Len(s) : n \in 0 .. Len(s) /\ n # 0
    BY <1>2
  <2> QED
    BY <2>1, <2>2 DEF RemainingStep
<1> DEFINE First(n) == {s[i] : i \in 1 .. n}
           Good(n) == g[n] \in Seq(A) /\ IsInjective(g[n]) /\ ToSet(g[n]) = First(n) \ S
           T == {n \in Nat : n <= Len(s) => Good(n)}
<1>5. 0 \in T
  <2>1. First(0) = {} /\ ToSet(g[0]) = {} /\ IsInjective(g[0]) /\ g[0] \in Seq(A)
    BY <1>3 DEF ToSet, IsInjective
  <2> HIDE DEF First
  <2> QED
    BY <2>1
<1>6. ASSUME NEW n \in T PROVE n + 1 \in T
  <2> SUFFICES ASSUME n + 1 <= Len(s) PROVE Good(n + 1)
    OBVIOUS
  <2>1. Good(n)
    BY <1>2
  <2>2. n + 1 \in 1 .. Len(s) /\ (n + 1) - 1 = n /\ s[n + 1] \in A
    BY <1>2
  <2>3. First(n + 1) = First(n) \cup {s[n + 1]}
    <3>1. 1 .. (n + 1) = (1 .. n) \cup {n + 1}
      OBVIOUS
    <3> QED
      BY <3>1
  <2>4. s[n + 1] \notin First(n)
    BY <1>2, <2>2 DEF IsInjective
  <2>5. g[n + 1] = IF s[n + 1] \in S THEN g[n] ELSE Append(g[n], s[n + 1])
    BY <1>4, <2>2
  <2> HIDE DEF First
  <2>6. CASE s[n + 1] \in S
    BY <2>1, <2>3, <2>5, <2>6
  <2>7. CASE s[n + 1] \notin S
    <3>1. s[n + 1] \notin ToSet(g[n])
      BY <2>1, <2>4
    <3> QED
      BY <2>1, <2>2, <2>3, <2>5, <2>7, <3>1, AppendSet
  <2> QED
    BY <2>6, <2>7
<1>7. Good(Len(s))
  <2>1. T \in SUBSET Nat
    OBVIOUS
  <2>2. T = Nat
    <3> HIDE DEF T
    <3> QED
      BY <1>5, <1>6, <2>1, Induction
  <2>3. Len(s) \in T
    BY <1>2, <2>2
  <2> HIDE DEF Good
  <2> QED
    BY <1>2, <2>3
<1>8. First(Len(s)) = ToSet(s)
  BY <1>2 DEF ToSet
<1> QED
  BY <1>1, <1>7, <1>8

LEMMA NoMembers ==
  ASSUME NEW A, NEW q \in Seq(A), ToSet(q) = {}
  PROVE  q = <<>>
BY DEF ToSet

(* What is left of kept once its overflow is evicted is within the limit,   *)
(* and its last page is not evicted.                                        *)
LEMMA OverflowMembers ==
  ASSUME NEW kept \in Seq(Fetches), IsInjective(kept), Len(kept) > 0
  PROVE  /\ Overflow(kept) \subseteq ToSet(kept)
         /\ kept[Len(kept)] \in ToSet(kept) \ Overflow(kept)
         /\ IsFiniteSet(Overflow(kept))
         /\ IsFiniteSet(ToSet(kept) \ Overflow(kept))
         /\ Cardinality(ToSet(kept) \ Overflow(kept)) <= MaxOpenPages
<1> DEFINE n == Len(kept)
           lo == IF n <= MaxOpenPages THEN 1 ELSE (n - MaxOpenPages) + 1
           f == [i \in lo .. n |-> kept[i]]
           Rest == {kept[i] : i \in lo .. n}
           o == [i \in 1 .. (lo - 1) |-> kept[i]]
           Old == {kept[i] : i \in 1 .. (lo - 1)}
<1>1. /\ n \in Nat \ {0} /\ MaxOpenPages \in Nat \ {0} /\ lo \in 1 .. n
      /\ DOMAIN kept = 1 .. n /\ \A i \in 1 .. n : kept[i] \in Fetches
  BY RegistryAssumption
<1>2. lo \in Int /\ n \in Int /\ lo - 1 \in Int /\ 1 \in Int
  BY <1>1
<1>3. /\ IsFiniteSet(lo .. n) /\ IsFiniteSet(1 .. (lo - 1))
      /\ Cardinality(lo .. n) = IF lo > n THEN 0 ELSE (n - lo) + 1
  <2> HIDE DEF lo, n
  <2> QED
    BY <1>2, FS_Interval
<1>4. Overflow(kept) = Old
  <2>1. SubSeq(kept, 1, n - MaxOpenPages) = o
    <3>1. CASE n <= MaxOpenPages
      <4>1. n - MaxOpenPages < 1 /\ lo - 1 = 0
        BY <1>1, <3>1
      <4> QED
        BY <1>1, <4>1
    <3>2. CASE n > MaxOpenPages
      <4>1. n - MaxOpenPages \in 1 .. n /\ lo - 1 = n - MaxOpenPages
        BY <1>1, <3>2
      <4> HIDE DEF lo, n
      <4> QED
        BY <1>1, <4>1
    <3> QED
      BY <1>1, <3>1, <3>2
  <2>2. DOMAIN o = 1 .. (lo - 1) /\ \A i \in 1 .. (lo - 1) : o[i] = kept[i]
    OBVIOUS
  <2> HIDE DEF lo, n, o
  <2> QED
    BY <2>1, <2>2 DEF Overflow, ToSet, n
<1>5. 1 .. n = (1 .. (lo - 1)) \cup (lo .. n) /\ (1 .. (lo - 1)) \cap (lo .. n) = {}
  BY <1>1
<1>6. ToSet(kept) = Old \cup Rest /\ Old \cap Rest = {}
  <2> HIDE DEF lo, n
  <2> QED
    BY <1>1, <1>5 DEF ToSet, IsInjective
<1>7. IsFiniteSet(Rest) /\ Cardinality(Rest) <= Cardinality(lo .. n)
  <2>1. f \in Surjection(lo .. n, Rest)
    <3> HIDE DEF lo, n
    <3> QED
      BY DEF Surjection
  <2> HIDE DEF f, Rest
  <2> QED
    BY <1>3, <2>1, FS_Surjection
<1>8. IsFiniteSet(Old)
  <2>1. o \in Surjection(1 .. (lo - 1), Old)
    <3> HIDE DEF lo, n
    <3> QED
      BY DEF Surjection
  <2> HIDE DEF o, Old
  <2> QED
    BY <1>3, <2>1, FS_Surjection
<1>9. Cardinality(lo .. n) <= MaxOpenPages
  <2>1. ~(lo > n) /\ (n - lo) + 1 <= MaxOpenPages
    BY <1>1
  <2> HIDE DEF lo, n
  <2> QED
    BY <1>3, <2>1
<1>10. kept[n] \in Rest
  BY <1>1
<1>11. ToSet(kept) \ Overflow(kept) = Rest
  <2> HIDE DEF Old, Rest
  <2> QED
    BY <1>4, <1>6
<1>12. Cardinality(Rest) \in Nat /\ Cardinality(lo .. n) \in Nat
  <2> HIDE DEF Rest
  <2> QED
    BY <1>7, <1>3, FS_CardinalityType
<1> HIDE DEF Old, Rest, lo, n
<1>13. Cardinality(Rest) <= MaxOpenPages
  BY <1>1, <1>7, <1>9, <1>12
<1> QED
  BY <1>4, <1>6, <1>7, <1>8, <1>10, <1>11, <1>13 DEF n

-----------------------------------------------------------------------------
(* What a step of the registry, and a step past it, can do to the pages.    *)

(* The pages popped are doomed, the others stay as they were.               *)
LEMMA PopMembers ==
  ASSUME RegistryTypeOK, NEW S, Pop(S)
  PROVE  /\ pages' \in Seq(Fetches) /\ IsInjective(pages')
         /\ Kept' = Kept \ S
         /\ doomed' = S
         /\ expired' \subseteq Kept'
BY RemainingMembers DEF Pop, RegistryTypeOK, Kept

(* Where no page is kept or loses its fetch, the bounds stay.               *)
LEMMA BoundsShrink ==
  ASSUME PagesBounded, Holding' \subseteq Holding, Kept' \subseteq Kept,
         IsFiniteSet(doomed'), BusyPages' \ Holding' \subseteq BusyPages \ Holding
  PROVE  PagesBounded'
<1>1. IsFiniteSet(BusyPages \ Holding) /\ IsFiniteSet(BusyPages' \ Holding')
  BY FS_Union, FS_Subset DEF PagesBounded, BusyPages
<1>2. /\ IsFiniteSet(Holding') /\ Cardinality(Holding') <= Cardinality(Holding)
      /\ IsFiniteSet(Kept') /\ Cardinality(Kept') <= Cardinality(Kept)
      /\ Cardinality(BusyPages' \ Holding') <= Cardinality(BusyPages \ Holding)
  BY <1>1, FS_Subset DEF PagesBounded
<1>3. /\ Cardinality(Holding) \in Nat /\ Cardinality(Holding') \in Nat
      /\ Cardinality(Kept) \in Nat /\ Cardinality(Kept') \in Nat
      /\ Cardinality(BusyPages \ Holding) \in Nat
      /\ Cardinality(BusyPages' \ Holding') \in Nat
  BY <1>1, <1>2, FS_CardinalityType DEF PagesBounded
<1> QED
  BY <1>2, <1>3, RegistryAssumption, FetcherAssumption DEF PagesBounded

(* A step of a fetch that is neither kept nor about to be, nor becomes so.  *)
LEMMA OwnersStay ==
  ASSUME PagesOwned, NEW f \in Fetches, UNCHANGED <<pages, doomed>>, Kept \subseteq Fetches,
         doomed \subseteq Fetches,
         \A g \in Fetches \ {f} : pc'[g] = pc[g] /\ page'[g] = page[g],
         pc[f] \notin {"evicting", "kept"}, pc'[f] # "evicting",
         page'[f] = "open" <=> pc'[f] \in InHand
  PROVE  PagesOwned'
<1>1. f \notin Kept \cup doomed
  BY DEF PagesOwned, EveryPageHasAnOwner
<1>2. Kept' = Kept
  BY DEF Kept
<1> QED
  BY <1>1, <1>2 DEF PagesOwned, EveryPageHasAnOwner, InHand

(* Abbreviations that the steps below unfold everywhere.                    *)
USE DEF At, Goto, Kept, registryVars, fetchVars, driverVars, closeVars

LEMMA InitInv == Init => IInv
<1> SUFFICES ASSUME Init PROVE IInv
  OBVIOUS
<1>1. Kept = {} /\ IsInjective(pages)
  BY DEF Init, RegistryInit, ToSet, IsInjective
<1>2. TypeOK
  <2>1. RegistryTypeOK
    BY <1>1 DEF Init, RegistryInit, RegistryTypeOK, PageStates
  <2>2. pc \in [Fetches -> FetchStates] /\ \A f \in Fetches : pc[f] = "idle"
    BY DEF Init, FetchStates
  <2> QED
    BY <2>1, <2>2 DEF Init, TypeOK
<1>3. LocksHeld
  BY RegistryAssumption, FetcherAssumption DEF Init, RegistryInit, LocksHeld, BusyInit
<1>4. PagesOwned
  BY <1>1 DEF Init, RegistryInit, PagesOwned, EveryPageHasAnOwner, InHand
<1>5. PagesBounded
  <2>1. Holding = {} /\ BusyPages \ Holding = {} /\ doomed = {}
    BY <1>1 DEF Init, RegistryInit, Holding, InSemaphore, BusyPages
  <2>2. 0 <= MaxConcurrency /\ 0 <= MaxOpenPages
    BY RegistryAssumption, FetcherAssumption
  <2> QED
    BY <1>1, <2>1, <2>2, FS_EmptySet DEF PagesBounded
<1>6. DriverHeld /\ QuietClose
  BY DEF Init, RegistryInit, DriverHeld, QuietClose, Running, BusyInit
<1> QED
  BY <1>2, <1>3, <1>4, <1>5, <1>6 DEF IInv

-----------------------------------------------------------------------------
(* fetch(), up to its page: the registry is left alone.                     *)

LEMMA CallInv == \A f \in Fetches : IInv /\ Call(f) => IInv'
<1> SUFFICES ASSUME NEW f \in Fetches, IInv, Call(f) PROVE IInv'
  OBVIOUS
<1>1. TypeOK'
  BY DEF IInv, TypeOK, RegistryTypeOK, FetchStates, InSemaphore, Final, Call
<1>2. LocksHeld'
  BY DEF IInv, TypeOK, LocksHeld, BusyInit, Call
<1>3. PagesOwned'
  <2>1. Kept \subseteq Fetches /\ doomed \subseteq Fetches
    BY DEF IInv, TypeOK, RegistryTypeOK, ToSet
  <2>2. /\ UNCHANGED <<pages, doomed>>
        /\ \A g \in Fetches \ {f} : pc'[g] = pc[g] /\ page'[g] = page[g]
        /\ pc[f] \notin {"evicting", "kept"} /\ pc'[f] # "evicting"
    BY DEF IInv, TypeOK, RegistryTypeOK, Call
  <2>3. page'[f] = "open" <=> pc'[f] \in InHand
    BY DEF IInv, TypeOK, RegistryTypeOK, PagesOwned, EveryPageHasAnOwner, InHand, Call
  <2> QED
    BY <2>1, <2>2, <2>3, OwnersStay DEF IInv
<1>4. PagesBounded'
  <2>1. Holding' \subseteq Holding /\ Kept' = Kept /\ BusyPages' = BusyPages
    BY DEF IInv, TypeOK, Holding, InSemaphore, BusyPages, Call
  <2>2. BusyPages' \ Holding' \subseteq BusyPages \ Holding
    BY DEF IInv, TypeOK, PagesOwned, EveryPageHasAnOwner, Holding, InSemaphore, BusyPages, Call
  <2> QED
    BY <2>1, <2>2, BoundsShrink DEF IInv, PagesBounded, Call
<1>5. DriverHeld'
  BY DEF IInv, TypeOK, LocksHeld, DriverHeld, QuietClose, BusyInit, Active, Final, Running, Call
<1>6. QuietClose'
  BY DEF IInv, TypeOK, QuietClose, Active, Final, Call
<1> QED
  BY <1>1, <1>2, <1>3, <1>4, <1>5, <1>6 DEF IInv

LEMMA EnterSemaphoreInv == \A f \in Fetches : IInv /\ EnterSemaphore(f) => IInv'
<1> SUFFICES ASSUME NEW f \in Fetches, IInv, EnterSemaphore(f) PROVE IInv'
  OBVIOUS
<1>1. TypeOK'
  BY DEF IInv, TypeOK, RegistryTypeOK, FetchStates, InSemaphore, Final, EnterSemaphore, UseBrowser
<1>2. LocksHeld'
  BY DEF IInv, TypeOK, LocksHeld, BusyInit, EnterSemaphore, UseBrowser
<1>3. PagesOwned'
  <2>1. Kept \subseteq Fetches /\ doomed \subseteq Fetches
    BY DEF IInv, TypeOK, RegistryTypeOK, ToSet
  <2>2. /\ UNCHANGED <<pages, doomed>>
        /\ \A g \in Fetches \ {f} : pc'[g] = pc[g] /\ page'[g] = page[g]
        /\ pc[f] \notin {"evicting", "kept"} /\ pc'[f] # "evicting"
    BY DEF IInv, TypeOK, RegistryTypeOK, EnterSemaphore, UseBrowser
  <2>3. page'[f] = "open" <=> pc'[f] \in InHand
    BY DEF IInv, TypeOK, RegistryTypeOK, PagesOwned, EveryPageHasAnOwner, InHand, EnterSemaphore, UseBrowser
  <2> QED
    BY <2>1, <2>2, <2>3, OwnersStay DEF IInv
<1>4. PagesBounded'
  <2>1. Holding' = Holding \cup {f} /\ f \notin Holding /\ Cardinality(Holding) < MaxConcurrency
    BY DEF IInv, TypeOK, Holding, InSemaphore, EnterSemaphore, UseBrowser
  <2>2. /\ IsFiniteSet(Holding') /\ Cardinality(Holding) \in Nat
        /\ Cardinality(Holding') = Cardinality(Holding) + 1
    BY <2>1, FS_AddElement, FS_CardinalityType DEF IInv, PagesBounded
  <2>3. Cardinality(Holding') <= MaxConcurrency
    BY <2>1, <2>2, FetcherAssumption
  <2>4. Kept' = Kept /\ BusyPages' = BusyPages /\ doomed' = doomed
    BY DEF BusyPages, EnterSemaphore
  <2>5. Cardinality(BusyPages' \ Holding') <= MaxOpenPages
    <3>1. IsFiniteSet(BusyPages \ Holding)
      BY FS_Union, FS_Subset DEF IInv, PagesBounded, BusyPages
    <3>2. BusyPages' \ Holding' \subseteq BusyPages \ Holding
      BY <2>1, <2>4
    <3>3. /\ Cardinality(BusyPages' \ Holding') <= Cardinality(BusyPages \ Holding)
          /\ Cardinality(BusyPages' \ Holding') \in Nat
          /\ Cardinality(BusyPages \ Holding) \in Nat
      BY <3>1, <3>2, FS_Subset, FS_CardinalityType
    <3> QED
      BY <3>3, RegistryAssumption DEF IInv, PagesBounded
  <2> QED
    BY <2>2, <2>3, <2>4, <2>5 DEF IInv, PagesBounded
<1>5. DriverHeld'
  BY DEF IInv, TypeOK, LocksHeld, DriverHeld, QuietClose, BusyInit, Active, Final, Running,
     EnterSemaphore, UseBrowser
<1>6. QuietClose'
  BY DEF IInv, TypeOK, QuietClose, Active, Final, EnterSemaphore, UseBrowser
<1> QED
  BY <1>1, <1>2, <1>3, <1>4, <1>5, <1>6 DEF IInv

LEMMA TakeInitLockInv == \A f \in Fetches : IInv /\ TakeInitLock(f) => IInv'
<1> SUFFICES ASSUME NEW f \in Fetches, IInv, TakeInitLock(f) PROVE IInv'
  OBVIOUS
<1>1. TypeOK'
  BY DEF IInv, TypeOK, RegistryTypeOK, FetchStates, InSemaphore, Final, TakeInitLock, UseBrowser
<1>2. LocksHeld'
  BY RegistryAssumption DEF IInv, TypeOK, LocksHeld, BusyInit, TakeInitLock, UseBrowser
<1>3. PagesOwned'
  <2>1. Kept \subseteq Fetches /\ doomed \subseteq Fetches
    BY DEF IInv, TypeOK, RegistryTypeOK, ToSet
  <2>2. /\ UNCHANGED <<pages, doomed>>
        /\ \A g \in Fetches \ {f} : pc'[g] = pc[g] /\ page'[g] = page[g]
        /\ pc[f] \notin {"evicting", "kept"} /\ pc'[f] # "evicting"
    BY DEF IInv, TypeOK, RegistryTypeOK, TakeInitLock, UseBrowser
  <2>3. page'[f] = "open" <=> pc'[f] \in InHand
    BY DEF IInv, TypeOK, RegistryTypeOK, PagesOwned, EveryPageHasAnOwner, InHand, TakeInitLock, UseBrowser
  <2> QED
    BY <2>1, <2>2, <2>3, OwnersStay DEF IInv
<1>4. PagesBounded'
  <2>1. Holding' \subseteq Holding /\ Kept' = Kept /\ BusyPages' = BusyPages
    BY DEF IInv, TypeOK, Holding, InSemaphore, BusyPages, TakeInitLock, UseBrowser
  <2>2. BusyPages' \ Holding' \subseteq BusyPages \ Holding
    BY DEF IInv, TypeOK, PagesOwned, EveryPageHasAnOwner, Holding, InSemaphore, BusyPages,
       TakeInitLock, UseBrowser
  <2> QED
    BY <2>1, <2>2, BoundsShrink DEF IInv, PagesBounded, TakeInitLock, UseBrowser
<1>5. DriverHeld'
  BY DEF IInv, TypeOK, LocksHeld, DriverHeld, QuietClose, BusyInit, Active, Final, Running,
     TakeInitLock, UseBrowser
<1>6. QuietClose'
  BY DEF IInv, TypeOK, QuietClose, Active, Final, TakeInitLock, UseBrowser
<1> QED
  BY <1>1, <1>2, <1>3, <1>4, <1>5, <1>6 DEF IInv

LEMMA StartDriverInv == \A f \in Fetches : IInv /\ StartDriver(f) => IInv'
<1> SUFFICES ASSUME NEW f \in Fetches, IInv, StartDriver(f) PROVE IInv'
  OBVIOUS
<1>1. TypeOK'
  BY RegistryAssumption
  DEF IInv, TypeOK, RegistryTypeOK, FetchStates, InSemaphore, Final, StartDriver, GiveUp
<1>2. LocksHeld'
  BY RegistryAssumption DEF IInv, TypeOK, LocksHeld, BusyInit, StartDriver, GiveUp
<1>3. PagesOwned'
  <2>1. Kept \subseteq Fetches /\ doomed \subseteq Fetches
    BY DEF IInv, TypeOK, RegistryTypeOK, ToSet
  <2>2. /\ UNCHANGED <<pages, doomed>>
        /\ \A g \in Fetches \ {f} : pc'[g] = pc[g] /\ page'[g] = page[g]
        /\ pc[f] \notin {"evicting", "kept"} /\ pc'[f] # "evicting"
    BY DEF IInv, TypeOK, RegistryTypeOK, StartDriver, GiveUp
  <2>3. page'[f] = "open" <=> pc'[f] \in InHand
    BY DEF IInv, TypeOK, RegistryTypeOK, PagesOwned, EveryPageHasAnOwner, InHand, StartDriver, GiveUp
  <2> QED
    BY <2>1, <2>2, <2>3, OwnersStay DEF IInv
<1>4. PagesBounded'
  <2>1. Holding' \subseteq Holding /\ Kept' = Kept /\ BusyPages' = BusyPages
    BY DEF IInv, TypeOK, Holding, InSemaphore, BusyPages, StartDriver, GiveUp
  <2>2. BusyPages' \ Holding' \subseteq BusyPages \ Holding
    BY DEF IInv, TypeOK, PagesOwned, EveryPageHasAnOwner, Holding, InSemaphore, BusyPages,
       StartDriver, GiveUp
  <2> QED
    BY <2>1, <2>2, BoundsShrink DEF IInv, PagesBounded, StartDriver, GiveUp
<1>5. DriverHeld'
  BY RegistryAssumption, FetcherAssumption
  DEF IInv, TypeOK, LocksHeld, DriverHeld, QuietClose, BusyInit, Active, Final, Running,
     StartDriver, GiveUp
<1>6. QuietClose'
  BY DEF IInv, TypeOK, QuietClose, Active, Final, StartDriver, GiveUp
<1> QED
  BY <1>1, <1>2, <1>3, <1>4, <1>5, <1>6 DEF IInv

LEMMA LaunchInv == \A f \in Fetches : IInv /\ Launch(f) => IInv'
<1> SUFFICES ASSUME NEW f \in Fetches, IInv, Launch(f) PROVE IInv'
  OBVIOUS
<1>1. TypeOK'
  BY RegistryAssumption DEF IInv, TypeOK, RegistryTypeOK, FetchStates, InSemaphore, Final, Launch, GiveUp
<1>2. LocksHeld'
  BY RegistryAssumption DEF IInv, TypeOK, LocksHeld, BusyInit, Launch, GiveUp
<1>3. PagesOwned'
  <2>1. Kept \subseteq Fetches /\ doomed \subseteq Fetches
    BY DEF IInv, TypeOK, RegistryTypeOK, ToSet
  <2>2. /\ UNCHANGED <<pages, doomed>>
        /\ \A g \in Fetches \ {f} : pc'[g] = pc[g] /\ page'[g] = page[g]
        /\ pc[f] \notin {"evicting", "kept"} /\ pc'[f] # "evicting"
    BY DEF IInv, TypeOK, RegistryTypeOK, Launch, GiveUp
  <2>3. page'[f] = "open" <=> pc'[f] \in InHand
    BY DEF IInv, TypeOK, RegistryTypeOK, PagesOwned, EveryPageHasAnOwner, InHand, Launch, GiveUp
  <2> QED
    BY <2>1, <2>2, <2>3, OwnersStay DEF IInv
<1>4. PagesBounded'
  <2>1. Holding' \subseteq Holding /\ Kept' = Kept /\ BusyPages' = BusyPages
    BY DEF IInv, TypeOK, Holding, InSemaphore, BusyPages, Launch, GiveUp
  <2>2. BusyPages' \ Holding' \subseteq BusyPages \ Holding
    BY DEF IInv, TypeOK, PagesOwned, EveryPageHasAnOwner, Holding, InSemaphore, BusyPages, Launch, GiveUp
  <2> QED
    BY <2>1, <2>2, BoundsShrink DEF IInv, PagesBounded, Launch, GiveUp
<1>5. DriverHeld'
  BY RegistryAssumption, FetcherAssumption
  DEF IInv, TypeOK, LocksHeld, DriverHeld, QuietClose, BusyInit, Active, Final, Running, Launch,
     GiveUp
<1>6. QuietClose'
  BY DEF IInv, TypeOK, QuietClose, Active, Final, Launch, GiveUp
<1> QED
  BY <1>1, <1>2, <1>3, <1>4, <1>5, <1>6 DEF IInv

LEMMA AbandonInv == \A f \in Fetches : IInv /\ Abandon(f) => IInv'
<1> SUFFICES ASSUME NEW f \in Fetches, IInv, Abandon(f) PROVE IInv'
  OBVIOUS
<1>1. TypeOK'
  BY DEF IInv, TypeOK, RegistryTypeOK, FetchStates, InSemaphore, Final, Abandon
<1>2. LocksHeld'
  BY RegistryAssumption DEF IInv, TypeOK, LocksHeld, BusyInit, Abandon
<1>3. PagesOwned'
  <2>1. Kept \subseteq Fetches /\ doomed \subseteq Fetches
    BY DEF IInv, TypeOK, RegistryTypeOK, ToSet
  <2>2. /\ UNCHANGED <<pages, doomed>>
        /\ \A g \in Fetches \ {f} : pc'[g] = pc[g] /\ page'[g] = page[g]
        /\ pc[f] \notin {"evicting", "kept"} /\ pc'[f] # "evicting"
    BY DEF IInv, TypeOK, RegistryTypeOK, Abandon
  <2>3. page'[f] = "open" <=> pc'[f] \in InHand
    BY DEF IInv, TypeOK, RegistryTypeOK, PagesOwned, EveryPageHasAnOwner, InHand, Abandon
  <2> QED
    BY <2>1, <2>2, <2>3, OwnersStay DEF IInv
<1>4. PagesBounded'
  <2>1. Holding' \subseteq Holding /\ Kept' = Kept /\ BusyPages' = BusyPages
    BY DEF IInv, TypeOK, Holding, InSemaphore, BusyPages, Abandon
  <2>2. BusyPages' \ Holding' \subseteq BusyPages \ Holding
    BY DEF IInv, TypeOK, PagesOwned, EveryPageHasAnOwner, Holding, InSemaphore, BusyPages, Abandon
  <2> QED
    BY <2>1, <2>2, BoundsShrink DEF IInv, PagesBounded, Abandon
<1>5. DriverHeld'
  BY RegistryAssumption, FetcherAssumption
  DEF IInv, TypeOK, LocksHeld, DriverHeld, QuietClose, BusyInit, Active, Final, Running, Abandon
<1>6. QuietClose'
  BY DEF IInv, TypeOK, QuietClose, Active, Final, Abandon
<1> QED
  BY <1>1, <1>2, <1>3, <1>4, <1>5, <1>6 DEF IInv

LEMMA OpenPageInv == \A f \in Fetches : IInv /\ OpenPage(f) => IInv'
<1> SUFFICES ASSUME NEW f \in Fetches, IInv, OpenPage(f) PROVE IInv'
  OBVIOUS
<1>1. TypeOK'
  BY DEF IInv, TypeOK, RegistryTypeOK, FetchStates, InSemaphore, Final, PageStates, OpenPage
<1>2. LocksHeld'
  BY DEF IInv, TypeOK, LocksHeld, BusyInit, OpenPage
<1>3. PagesOwned'
  <2>1. Kept \subseteq Fetches /\ doomed \subseteq Fetches
    BY DEF IInv, TypeOK, RegistryTypeOK, ToSet
  <2>2. /\ UNCHANGED <<pages, doomed>>
        /\ \A g \in Fetches \ {f} : pc'[g] = pc[g] /\ page'[g] = page[g]
        /\ pc[f] \notin {"evicting", "kept"} /\ pc'[f] # "evicting"
    BY DEF IInv, TypeOK, RegistryTypeOK, OpenPage
  <2>3. page'[f] = "open" <=> pc'[f] \in InHand
    BY DEF IInv, TypeOK, RegistryTypeOK, PagesOwned, EveryPageHasAnOwner, InHand, OpenPage
  <2> QED
    BY <2>1, <2>2, <2>3, OwnersStay DEF IInv
<1>4. PagesBounded'
  <2>1. Holding' \subseteq Holding /\ Kept' = Kept /\ BusyPages' = BusyPages
    BY DEF IInv, TypeOK, Holding, InSemaphore, BusyPages, OpenPage
  <2>2. BusyPages' \ Holding' \subseteq BusyPages \ Holding
    BY DEF IInv, TypeOK, PagesOwned, EveryPageHasAnOwner, Holding, InSemaphore, BusyPages, OpenPage
  <2> QED
    BY <2>1, <2>2, BoundsShrink DEF IInv, PagesBounded, OpenPage
<1>5. DriverHeld'
  BY DEF IInv, TypeOK, LocksHeld, DriverHeld, QuietClose, BusyInit, Active, Final, Running, OpenPage
<1>6. QuietClose'
  BY DEF IInv, TypeOK, QuietClose, Active, Final, OpenPage
<1> QED
  BY <1>1, <1>2, <1>3, <1>4, <1>5, <1>6 DEF IInv

LEMMA LoadInv == \A f \in Fetches : IInv /\ Load(f) => IInv'
<1> SUFFICES ASSUME NEW f \in Fetches, IInv, Load(f) PROVE IInv'
  OBVIOUS
<1>1. TypeOK'
  BY DEF IInv, TypeOK, RegistryTypeOK, FetchStates, InSemaphore, Final, Load
<1>2. LocksHeld'
  BY DEF IInv, TypeOK, LocksHeld, BusyInit, Load
<1>3. PagesOwned'
  <2>1. Kept \subseteq Fetches /\ doomed \subseteq Fetches
    BY DEF IInv, TypeOK, RegistryTypeOK, ToSet
  <2>2. /\ UNCHANGED <<pages, doomed>>
        /\ \A g \in Fetches \ {f} : pc'[g] = pc[g] /\ page'[g] = page[g]
        /\ pc[f] \notin {"evicting", "kept"} /\ pc'[f] # "evicting"
    BY DEF IInv, TypeOK, RegistryTypeOK, Load
  <2>3. page'[f] = "open" <=> pc'[f] \in InHand
    BY DEF IInv, TypeOK, RegistryTypeOK, PagesOwned, EveryPageHasAnOwner, InHand, Load
  <2> QED
    BY <2>1, <2>2, <2>3, OwnersStay DEF IInv
<1>4. PagesBounded'
  <2>1. Holding' \subseteq Holding /\ Kept' = Kept /\ BusyPages' = BusyPages
    BY DEF IInv, TypeOK, Holding, InSemaphore, BusyPages, Load
  <2>2. BusyPages' \ Holding' \subseteq BusyPages \ Holding
    BY DEF IInv, TypeOK, PagesOwned, EveryPageHasAnOwner, Holding, InSemaphore, BusyPages, Load
  <2> QED
    BY <2>1, <2>2, BoundsShrink DEF IInv, PagesBounded, Load
<1>5. DriverHeld'
  BY DEF IInv, TypeOK, LocksHeld, DriverHeld, QuietClose, BusyInit, Active, Final, Running, Load
<1>6. QuietClose'
  BY DEF IInv, TypeOK, QuietClose, Active, Final, Load
<1> QED
  BY <1>1, <1>2, <1>3, <1>4, <1>5, <1>6 DEF IInv

LEMMA ClosePageInv == \A f \in Fetches : IInv /\ ClosePage(f) => IInv'
<1> SUFFICES ASSUME NEW f \in Fetches, IInv, ClosePage(f) PROVE IInv'
  OBVIOUS
<1>1. TypeOK'
  BY DEF IInv, TypeOK, RegistryTypeOK, FetchStates, InSemaphore, Final, PageStates, ClosePage
<1>2. LocksHeld'
  BY DEF IInv, TypeOK, LocksHeld, BusyInit, ClosePage
<1>3. PagesOwned'
  <2>1. Kept \subseteq Fetches /\ doomed \subseteq Fetches
    BY DEF IInv, TypeOK, RegistryTypeOK, ToSet
  <2>2. /\ UNCHANGED <<pages, doomed>>
        /\ \A g \in Fetches \ {f} : pc'[g] = pc[g] /\ page'[g] = page[g]
        /\ pc[f] \notin {"evicting", "kept"} /\ pc'[f] # "evicting"
    BY DEF IInv, TypeOK, RegistryTypeOK, ClosePage
  <2>3. page'[f] = "open" <=> pc'[f] \in InHand
    BY DEF IInv, TypeOK, RegistryTypeOK, PagesOwned, EveryPageHasAnOwner, InHand, ClosePage
  <2> QED
    BY <2>1, <2>2, <2>3, OwnersStay DEF IInv
<1>4. PagesBounded'
  <2>1. Holding' \subseteq Holding /\ Kept' = Kept /\ BusyPages' = BusyPages
    BY DEF IInv, TypeOK, Holding, InSemaphore, BusyPages, ClosePage
  <2>2. BusyPages' \ Holding' \subseteq BusyPages \ Holding
    BY DEF IInv, TypeOK, PagesOwned, EveryPageHasAnOwner, Holding, InSemaphore, BusyPages, ClosePage
  <2> QED
    BY <2>1, <2>2, BoundsShrink DEF IInv, PagesBounded, ClosePage
<1>5. DriverHeld'
  BY DEF IInv, TypeOK, LocksHeld, DriverHeld, QuietClose, BusyInit, Active, Final, Running, ClosePage
<1>6. QuietClose'
  BY DEF IInv, TypeOK, QuietClose, Active, Final, ClosePage
<1> QED
  BY <1>1, <1>2, <1>3, <1>4, <1>5, <1>6 DEF IInv

-----------------------------------------------------------------------------
(* The registry's lock: whoever takes it pops pages, and closes them.       *)

LEMMA PopPages ==
  ASSUME IInv, NEW S \in SUBSET Kept, lock = Nobody, Pop(S), page' = page,
         \A g \in Fetches : pc'[g] = pc[g] \/ (pc[g] = "registering" /\ pc'[g] = "sweeping")
  PROVE  PagesOwned' /\ PagesBounded'
<1>1. /\ Kept' = Kept \ S /\ doomed' = S /\ doomed = {} /\ Kept \subseteq Fetches
      /\ \A g \in Fetches : pc[g] # "evicting"
  BY PopMembers, RegistryAssumption DEF IInv, TypeOK, RegistryTypeOK, LocksHeld, ToSet
<1>2. PagesOwned'
  BY <1>1 DEF IInv, PagesOwned, EveryPageHasAnOwner, InHand
<1>3. Holding' = Holding /\ BusyPages' = BusyPages
  BY <1>1 DEF Holding, InSemaphore, BusyPages
<1>4. IsFiniteSet(doomed')
  BY <1>1, FS_Subset DEF IInv, PagesBounded
<1>5. PagesBounded'
  BY <1>1, <1>3, <1>4, BoundsShrink DEF IInv
<1> QED
  BY <1>2, <1>5

LEMMA PageClosedInv == IInv /\ PageClosed => IInv'
<1> SUFFICES ASSUME IInv, PageClosed PROVE IInv'
  OBVIOUS
<1>1. PICK p \in doomed : /\ page' = [page EXCEPT ![p] = "closed"]
                          /\ doomed' = doomed \ {p}
  BY DEF PageClosed, CloseDoomed
<1>2. UNCHANGED <<pages, expired, lock, pc, home, initLock, browser, pw, driver,
                  closed, aclose, stopping, quiet>>
  BY DEF PageClosed, CloseDoomed
<1>3. TypeOK'
  BY <1>1, <1>2 DEF IInv, TypeOK, RegistryTypeOK, PageStates
<1>4. LocksHeld'
  BY <1>1, <1>2 DEF IInv, LocksHeld
<1>5. PagesOwned'
  BY <1>1, <1>2 DEF IInv, TypeOK, RegistryTypeOK, PagesOwned, EveryPageHasAnOwner, InHand
<1>6. PagesBounded'
  <2>1. Holding' = Holding /\ Kept' = Kept /\ BusyPages' \subseteq BusyPages
    BY <1>1, <1>2 DEF Holding, BusyPages
  <2>2. IsFiniteSet(doomed')
    BY <1>1, FS_RemoveElement DEF IInv, PagesBounded
  <2> QED
    BY <2>1, <2>2, BoundsShrink DEF IInv
<1>7. DriverHeld' /\ QuietClose'
  BY <1>1, <1>2 DEF IInv, DriverHeld, QuietClose, Running, Active
<1> QED
  BY <1>3, <1>4, <1>5, <1>6, <1>7 DEF IInv

LEMMA TimePassesInv == IInv /\ TimePasses => IInv'
<1> SUFFICES ASSUME IInv, TimePasses PROVE IInv'
  OBVIOUS
<1>1. UNCHANGED <<pages, lock, doomed, page, pc, home, initLock, browser, pw, driver,
                  closed, aclose, stopping, quiet>>
  BY DEF TimePasses, Expire
<1>2. TypeOK'
  <2>1. expired' \subseteq Kept
    BY DEF IInv, TypeOK, RegistryTypeOK, TimePasses, Expire, ToSet
  <2> QED
    BY <1>1, <2>1 DEF IInv, TypeOK, RegistryTypeOK
<1>3. LocksHeld' /\ PagesOwned'
  BY <1>1 DEF IInv, LocksHeld, PagesOwned, EveryPageHasAnOwner
<1>4. PagesBounded' /\ DriverHeld' /\ QuietClose'
  BY <1>1 DEF IInv, PagesBounded, Holding, BusyPages, DriverHeld, QuietClose, Running, Active
<1> QED
  BY <1>2, <1>3, <1>4 DEF IInv

LEMMA RegisterSweepInv == \A f \in Fetches : IInv /\ RegisterSweep(f) => IInv'
<1> SUFFICES ASSUME NEW f \in Fetches, IInv, RegisterSweep(f) PROVE IInv'
  OBVIOUS
<1>1. /\ pc[f] = "registering" /\ pc' = [pc EXCEPT ![f] = "sweeping"]
      /\ lock = Nobody /\ lock' = f /\ Pop(expired)
      /\ UNCHANGED <<page, home, initLock, browser, pw, driver, closed, aclose, stopping, quiet>>
  BY DEF RegisterSweep, BeginRegister
<1>2. expired \in SUBSET Kept /\ doomed' = expired
  BY <1>1 DEF IInv, TypeOK, RegistryTypeOK, Pop
<1>3. TypeOK'
  <2>1. RegistryTypeOK'
    BY <1>1, <1>2, PopMembers DEF IInv, TypeOK, RegistryTypeOK, ToSet
  <2> QED
    BY <1>1, <2>1 DEF IInv, TypeOK, FetchStates, InSemaphore
<1>4. LocksHeld'
  BY <1>1, RegistryAssumption, FetcherAssumption DEF IInv, TypeOK, LocksHeld, BusyInit
<1>5. PagesOwned' /\ PagesBounded'
  BY <1>1, <1>2, PopPages DEF IInv, TypeOK
<1>6. DriverHeld' /\ QuietClose'
  BY <1>1 DEF IInv, TypeOK, DriverHeld, QuietClose, Running, Active, Final, BusyInit
<1> QED
  BY <1>3, <1>4, <1>5, <1>6 DEF IInv

LEMMA RegisterInsertInv == \A f \in Fetches : IInv /\ RegisterInsert(f) => IInv'
<1> SUFFICES ASSUME NEW f \in Fetches, IInv, RegisterInsert(f) PROVE IInv'
  OBVIOUS
<1> DEFINE kept == Append(pages, f)
<1>1. /\ pc[f] = "sweeping" /\ pc' = [pc EXCEPT ![f] = "evicting"]
      /\ lock = f /\ doomed = {} /\ doomed' = Overflow(kept)
      /\ pages' = Remaining(kept, Overflow(kept))
      /\ expired' = expired \ Overflow(kept)
      /\ UNCHANGED <<lock, page, home, initLock, browser, pw, driver,
                     closed, aclose, stopping, quiet>>
  BY DEF RegisterInsert, Insert
<1>2. f \notin Kept /\ Kept \subseteq Fetches /\ page[f] = "open"
  BY <1>1 DEF IInv, TypeOK, RegistryTypeOK, PagesOwned, EveryPageHasAnOwner, InHand, ToSet
<1>3. /\ kept \in Seq(Fetches) /\ IsInjective(kept) /\ ToSet(kept) = Kept \cup {f}
      /\ Len(kept) > 0 /\ kept[Len(kept)] = f
  BY <1>2, AppendSet DEF IInv, TypeOK, RegistryTypeOK
<1> HIDE DEF kept
<1>4. /\ Overflow(kept) \subseteq Kept /\ f \notin Overflow(kept)
      /\ IsFiniteSet(Overflow(kept))
      /\ IsFiniteSet(ToSet(kept) \ Overflow(kept))
      /\ Cardinality(ToSet(kept) \ Overflow(kept)) <= MaxOpenPages
  BY <1>3, OverflowMembers
<1>5. /\ pages' \in Seq(Fetches) /\ IsInjective(pages')
      /\ Kept' = (Kept \cup {f}) \ Overflow(kept)
  BY <1>1, <1>3, RemainingMembers
<1>6. TypeOK'
  BY <1>1, <1>2, <1>4, <1>5 DEF IInv, TypeOK, RegistryTypeOK, FetchStates, InSemaphore
<1>7. LocksHeld'
  BY <1>1, RegistryAssumption, FetcherAssumption DEF IInv, TypeOK, LocksHeld, BusyInit
<1>8. PagesOwned'
  <2>1. \A g \in Kept : pc[g] = "kept"
    BY <1>1, <1>2 DEF IInv, LocksHeld, PagesOwned, EveryPageHasAnOwner
  <2> QED
    BY <1>1, <1>2, <1>4, <1>5, <2>1
       DEF IInv, TypeOK, RegistryTypeOK, PagesOwned, EveryPageHasAnOwner, InHand
<1>9. PagesBounded'
  <2>1. Holding' = Holding /\ f \in Holding
    BY <1>1 DEF IInv, TypeOK, Holding, InSemaphore
  <2>2. BusyPages' \ Holding' = BusyPages \ Holding
    BY <1>1, <1>4, <1>5, <2>1 DEF BusyPages
  <2> QED
    BY <1>1, <1>3, <1>4, <1>5, <2>1, <2>2 DEF IInv, PagesBounded
<1>10. DriverHeld' /\ QuietClose'
  BY <1>1 DEF IInv, TypeOK, DriverHeld, QuietClose, Running, Active, Final, BusyInit
<1> QED
  BY <1>6, <1>7, <1>8, <1>9, <1>10 DEF IInv

LEMMA RegisterReturnsInv == \A f \in Fetches : IInv /\ RegisterReturns(f) => IInv'
<1> SUFFICES ASSUME NEW f \in Fetches, IInv, RegisterReturns(f) PROVE IInv'
  OBVIOUS
<1>1. /\ pc[f] = "evicting" /\ pc' = [pc EXCEPT ![f] = "kept"]
      /\ lock = f /\ doomed = {} /\ lock' = Nobody
      /\ UNCHANGED <<pages, expired, doomed, page, home, initLock, browser, pw, driver,
                     closed, aclose, stopping, quiet>>
  BY DEF RegisterReturns, Release
<1>2. TypeOK'
  BY <1>1 DEF IInv, TypeOK, RegistryTypeOK, FetchStates, Final
<1>3. LocksHeld'
  BY <1>1, RegistryAssumption, FetcherAssumption DEF IInv, TypeOK, LocksHeld, BusyInit
<1>4. PagesOwned'
  BY <1>1 DEF IInv, TypeOK, RegistryTypeOK, PagesOwned, EveryPageHasAnOwner, InHand, ToSet
<1>5. PagesBounded'
  <2>1. Holding' = Holding \ {f} /\ Kept' = Kept /\ BusyPages' \ Holding' \subseteq Kept
    BY <1>1 DEF IInv, TypeOK, Holding, InSemaphore, BusyPages
  <2>2. /\ IsFiniteSet(Holding') /\ Cardinality(Holding') <= Cardinality(Holding)
        /\ Cardinality(BusyPages' \ Holding') <= Cardinality(Kept)
        /\ IsFiniteSet(BusyPages' \ Holding')
    BY <2>1, FS_Subset DEF IInv, PagesBounded
  <2>3. /\ Cardinality(Holding') \in Nat /\ Cardinality(Holding) \in Nat
        /\ Cardinality(BusyPages' \ Holding') \in Nat /\ Cardinality(Kept) \in Nat
    BY <2>2, FS_CardinalityType DEF IInv, PagesBounded
  <2> QED
    BY <1>1, <2>1, <2>2, <2>3, RegistryAssumption, FetcherAssumption DEF IInv, PagesBounded
<1>6. DriverHeld' /\ QuietClose'
  BY <1>1 DEF IInv, TypeOK, DriverHeld, QuietClose, Running, Active, Final, BusyInit
<1> QED
  BY <1>2, <1>3, <1>4, <1>5, <1>6 DEF IInv

-----------------------------------------------------------------------------
(* The registry's other callers, the browser and aclose().                  *)

(* Every pop of the user's, whatever it pops.                               *)
LEMMA UserPops ==
  ASSUME IInv, NEW S \in SUBSET Kept, lock = Nobody, lock' = User, Pop(S),
         UNCHANGED <<page, fetchVars, driverVars, closeVars>>
  PROVE  IInv'
<1>1. TypeOK'
  <2>1. RegistryTypeOK'
    BY PopMembers, FetcherAssumption DEF IInv, TypeOK, RegistryTypeOK, ToSet
  <2> QED
    BY <2>1 DEF IInv, TypeOK
<1>2. LocksHeld'
  BY RegistryAssumption, FetcherAssumption DEF IInv, TypeOK, LocksHeld
<1>3. PagesOwned' /\ PagesBounded'
  BY PopPages
<1>4. DriverHeld'
  BY DEF IInv, DriverHeld, Running
<1>5. QuietClose'
  <2>1. SUFFICES ASSUME quiet, closed PROVE QuietClose'
    BY DEF QuietClose
  <2>2. CASE pages = <<>>
    <3>1. S = {} /\ Kept' = {} /\ doomed' = {} /\ pages' \in Seq(Fetches)
      BY <2>2, PopMembers DEF IInv, TypeOK, ToSet
    <3>2. pages' = <<>>
      BY <3>1, NoMembers
    <3> QED
      BY <2>2, <3>1, <3>2 DEF IInv, QuietClose, Active
  <2>3. CASE pages # <<>>
    BY <2>1, <2>3 DEF IInv, QuietClose, Active
  <2> QED
    BY <2>2, <2>3
<1> QED
  BY <1>1, <1>2, <1>3, <1>4, <1>5 DEF IInv

(* A page that is handed out becomes the most recently accessed.            *)
LEMMA UserGetsPage ==
  ASSUME IInv, NEW p \in Kept, pages' = Append(Remaining(pages, {p}), p),
         UNCHANGED <<expired, lock, doomed, page, fetchVars, driverVars, closeVars>>
  PROVE  IInv'
<1> DEFINE rest == Remaining(pages, {p})
<1>1. pages \in Seq(Fetches) /\ IsInjective(pages) /\ p \in Fetches /\ pages # <<>>
  BY DEF IInv, TypeOK, RegistryTypeOK, ToSet
<1>2. rest \in Seq(Fetches) /\ IsInjective(rest) /\ ToSet(rest) = ToSet(pages) \ {p}
  BY <1>1, RemainingMembers
<1>3. /\ pages' \in Seq(Fetches) /\ IsInjective(pages') /\ pages # <<>>
      /\ Kept' = Kept
  <2>1. pages' = Append(rest, p) /\ p \notin ToSet(rest)
    BY <1>2
  <2> HIDE DEF rest
  <2>2. /\ Append(rest, p) \in Seq(Fetches) /\ IsInjective(Append(rest, p))
        /\ ToSet(Append(rest, p)) = ToSet(rest) \cup {p}
    BY <1>1, <1>2, <2>1, AppendSet
  <2>3. ToSet(pages) = (ToSet(pages) \ {p}) \cup {p}
    OBVIOUS
  <2> QED
    BY <1>1, <1>2, <2>1, <2>2, <2>3
<1>4. TypeOK'
  BY <1>3 DEF IInv, TypeOK, RegistryTypeOK
<1>5. LocksHeld' /\ PagesOwned' /\ PagesBounded'
  BY <1>3 DEF IInv, LocksHeld, PagesOwned, EveryPageHasAnOwner, PagesBounded, Holding, BusyPages
<1>6. DriverHeld' /\ QuietClose'
  BY <1>3 DEF IInv, DriverHeld, Running, QuietClose, Active
<1> QED
  BY <1>4, <1>5, <1>6 DEF IInv

LEMMA UserOperationInv == IInv /\ UserOperation => IInv'
<1> SUFFICES ASSUME IInv, UserOperation PROVE IInv'
  OBVIOUS
<1>1. UNCHANGED <<fetchVars, driverVars, closeVars>> /\ User \notin Fetches \cup {Closer, Nobody}
  BY RegistryAssumption, FetcherAssumption DEF UserOperation
<1>2. ASSUME NEW p \in Kept, Get(User, p) PROVE IInv'
  <2>1. CASE p \in expired
    BY <1>1, <1>2, <2>1, UserPops DEF Get
  <2>2. CASE p \notin expired
    BY <1>1, <1>2, <2>2, UserGetsPage DEF Get
  <2> QED
    BY <2>1, <2>2
<1>3. ASSUME NEW p \in Kept, Close(User, p) PROVE IInv'
  BY <1>1, <1>3, UserPops DEF Close
<1>4. ASSUME SweepExpired(User) PROVE IInv'
  BY <1>1, <1>4, UserPops DEF SweepExpired, IInv, TypeOK, RegistryTypeOK
<1>5. ASSUME Release(User) PROVE IInv'
  <2>1. TypeOK' /\ LocksHeld'
    BY <1>1, <1>5, RegistryAssumption, FetcherAssumption
       DEF Release, IInv, TypeOK, RegistryTypeOK, LocksHeld
  <2>2. PagesOwned' /\ PagesBounded'
    BY <1>1, <1>5 DEF Release, IInv, PagesOwned, EveryPageHasAnOwner, PagesBounded, Holding,
                      BusyPages
  <2>3. DriverHeld' /\ QuietClose'
    BY <1>1, <1>5 DEF Release, IInv, DriverHeld, Running, QuietClose, Active
  <2> QED
    BY <2>1, <2>2, <2>3 DEF IInv
<1> QED
  BY <1>2, <1>3, <1>4, <1>5 DEF UserOperation

LEMMA BrowserDiesInv == IInv /\ BrowserDies => IInv'
<1> SUFFICES ASSUME IInv, BrowserDies PROVE IInv'
  OBVIOUS
<1>1. UNCHANGED <<registryVars, fetchVars, initLock, browser, pw, closeVars>>
  BY DEF BrowserDies
<1>2. TypeOK' /\ LocksHeld'
  BY <1>1 DEF BrowserDies, IInv, TypeOK, RegistryTypeOK, LocksHeld
<1>3. PagesOwned' /\ PagesBounded'
  BY <1>1 DEF IInv, PagesOwned, EveryPageHasAnOwner, PagesBounded, Holding, BusyPages
<1>4. \A k \in Drivers : Running(k)' <=> Running(k)
  BY DEF BrowserDies, IInv, TypeOK, Running
<1>5. DriverHeld' /\ QuietClose'
  BY <1>1, <1>4 DEF IInv, DriverHeld, QuietClose, Active
<1> QED
  BY <1>2, <1>3, <1>5 DEF IInv

(* Past the registry aclose() touches no page and no lock.                  *)
LEMMA AclosePages ==
  ASSUME IInv, UNCHANGED <<registryVars, fetchVars, initLock>>,
         aclose # "clearing", aclose' # "clearing"
  PROVE  RegistryTypeOK' /\ LocksHeld' /\ PagesOwned' /\ PagesBounded'
BY DEF IInv, TypeOK, RegistryTypeOK, LocksHeld, PagesOwned, EveryPageHasAnOwner, PagesBounded,
       Holding, BusyPages

LEMMA AcloseCalledInv == IInv /\ AcloseCalled => IInv'
<1> SUFFICES ASSUME IInv, AcloseCalled PROVE IInv'
  OBVIOUS
<1>1. RegistryTypeOK' /\ LocksHeld' /\ PagesOwned' /\ PagesBounded'
  BY AclosePages DEF AcloseCalled
<1>2. TypeOK'
  BY <1>1 DEF AcloseCalled, IInv, TypeOK
<1>3. DriverHeld' /\ QuietClose'
  BY DEF AcloseCalled, IInv, TypeOK, DriverHeld, QuietClose, Running, Active
<1> QED
  BY <1>1, <1>2, <1>3 DEF IInv

LEMMA AcloseCloseAllInv == IInv /\ AcloseCloseAll => IInv'
<1> SUFFICES ASSUME IInv, AcloseCloseAll PROVE IInv'
  OBVIOUS
<1>1. /\ aclose = "waiting" /\ aclose' = "clearing"
      /\ lock = Nobody /\ lock' = Closer /\ Pop(Kept)
      /\ UNCHANGED <<page, fetchVars, driverVars, closed, stopping, quiet>>
  BY DEF AcloseCloseAll, CloseAll
<1>2. pages' \in Seq(Fetches) /\ Kept' = {} /\ doomed' = Kept
  BY <1>1, PopMembers DEF IInv, TypeOK
<1>3. TypeOK'
  <2>1. RegistryTypeOK'
    BY <1>1, PopMembers, FetcherAssumption DEF IInv, TypeOK, RegistryTypeOK, ToSet
  <2> QED
    BY <1>1, <2>1 DEF IInv, TypeOK
<1>4. LocksHeld'
  BY <1>1, RegistryAssumption, FetcherAssumption DEF IInv, TypeOK, LocksHeld
<1>5. PagesOwned' /\ PagesBounded'
  BY <1>1, PopPages
<1>6. DriverHeld'
  BY <1>1 DEF IInv, DriverHeld, Running
<1>7. QuietClose'
  <2>1. pages' = <<>>
    BY <1>2, NoMembers
  <2> QED
    BY <1>1, <2>1 DEF IInv, QuietClose, Active
<1> QED
  BY <1>3, <1>4, <1>5, <1>6, <1>7 DEF IInv

LEMMA AcloseClearedInv == IInv /\ AcloseCleared => IInv'
<1> SUFFICES ASSUME IInv, AcloseCleared PROVE IInv'
  OBVIOUS
<1>1. /\ aclose = "clearing" /\ lock = Closer /\ lock' = Nobody /\ doomed = {}
      /\ UNCHANGED <<pages, expired, doomed, page, fetchVars, driverVars, closed, quiet>>
  BY DEF AcloseCleared, Release
<1>2. /\ aclose' \in {"closing_browser", "stopping", "returned"}
      /\ stopping' \in Drivers \cup {None}
      /\ aclose' = "stopping" => stopping' = pw /\ pw \in Drivers
      /\ aclose' = "returned" => pw = None
  BY DEF AcloseCleared, ToDriver, IInv, TypeOK
<1>3. TypeOK'
  BY <1>1, <1>2 DEF IInv, TypeOK, RegistryTypeOK
<1>4. LocksHeld'
  BY <1>1, <1>2, RegistryAssumption, FetcherAssumption DEF IInv, LocksHeld
<1>5. PagesOwned' /\ PagesBounded'
  BY <1>1 DEF IInv, PagesOwned, EveryPageHasAnOwner, PagesBounded, Holding, BusyPages
<1>6. DriverHeld' /\ QuietClose'
  BY <1>1, <1>2 DEF IInv, DriverHeld, QuietClose, Running, Active
<1> QED
  BY <1>3, <1>4, <1>5, <1>6 DEF IInv

LEMMA AcloseBrowserInv == IInv /\ AcloseBrowser => IInv'
<1> SUFFICES ASSUME IInv, AcloseBrowser PROVE IInv'
  OBVIOUS
<1>1. /\ aclose = "closing_browser" /\ browser' = None
      /\ UNCHANGED <<registryVars, fetchVars, initLock, pw, closed, quiet>>
  BY DEF AcloseBrowser
<1>2. /\ aclose' \in {"stopping", "returned", "raised"}
      /\ stopping' \in Drivers \cup {None}
      /\ aclose' = "stopping" => stopping' = pw /\ pw \in Drivers
      /\ aclose' = "returned" => pw = None
  BY DEF AcloseBrowser, ToDriver, IInv, TypeOK
<1>3. RegistryTypeOK' /\ LocksHeld' /\ PagesOwned' /\ PagesBounded'
  BY <1>1, <1>2, AclosePages
<1>4. /\ driver' \in [Drivers -> {"absent", "started", "launched", "stopped"}]
      /\ \A k \in Drivers : Running(k)' => Running(k)
  BY DEF AcloseBrowser, IInv, TypeOK, Running
<1>5. TypeOK'
  BY <1>1, <1>2, <1>3, <1>4 DEF IInv, TypeOK
<1>6. DriverHeld' /\ QuietClose'
  BY <1>1, <1>2, <1>4 DEF IInv, TypeOK, DriverHeld, QuietClose, Active, Final, BusyInit
<1> QED
  BY <1>3, <1>5, <1>6 DEF IInv

LEMMA AcloseDriverInv == IInv /\ AcloseDriver => IInv'
<1> SUFFICES ASSUME IInv, AcloseDriver PROVE IInv'
  OBVIOUS
<1>1. /\ aclose = "stopping" /\ aclose' \in {"returned", "raised"}
      /\ driver' = [driver EXCEPT ![stopping] = "stopped"] /\ pw' = None /\ stopping' = None
      /\ UNCHANGED <<registryVars, fetchVars, initLock, browser, closed, quiet>>
  BY DEF AcloseDriver
<1>2. RegistryTypeOK' /\ LocksHeld' /\ PagesOwned' /\ PagesBounded'
  BY <1>1, AclosePages
<1>3. TypeOK'
  BY <1>1, <1>2 DEF IInv, TypeOK
<1>4. \A k \in Drivers : Running(k)' => Running(k) /\ k # stopping
  BY <1>1 DEF IInv, TypeOK, Running
<1>5. DriverHeld' /\ QuietClose'
  BY <1>1, <1>4 DEF IInv, TypeOK, DriverHeld, QuietClose, Active, Final, BusyInit
<1> QED
  BY <1>2, <1>3, <1>5 DEF IInv

-----------------------------------------------------------------------------
(* The invariant and the theorems.                                          *)

LEMMA StepInv == IInv /\ [Next]_vars => IInv'
<1> SUFFICES ASSUME IInv, [Next]_vars PROVE IInv'
  OBVIOUS
<1>1. ASSUME NEW f \in Fetches, Call(f) \/ FetchStep(f) \/ RegisterSweep(f) PROVE IInv'
  BY <1>1, CallInv, RegisterSweepInv, EnterSemaphoreInv, TakeInitLockInv, StartDriverInv,
     LaunchInv, AbandonInv, OpenPageInv, LoadInv, RegisterInsertInv, RegisterReturnsInv,
     ClosePageInv DEF FetchStep
<1>2. ASSUME AcloseCalled \/ AcloseCloseAll \/ AcloseStep PROVE IInv'
  BY <1>2, AcloseCalledInv, AcloseCloseAllInv, AcloseClearedInv, AcloseBrowserInv,
     AcloseDriverInv DEF AcloseStep
<1>3. ASSUME UserOperation \/ PageClosed \/ TimePasses \/ BrowserDies PROVE IInv'
  BY <1>3, UserOperationInv, PageClosedInv, TimePassesInv, BrowserDiesInv
<1>4. ASSUME UNCHANGED vars PROVE IInv'
  <2>1. TypeOK' /\ LocksHeld' /\ PagesOwned'
    BY <1>4 DEF vars, IInv, TypeOK, RegistryTypeOK, LocksHeld, PagesOwned, EveryPageHasAnOwner
  <2>2. PagesBounded' /\ DriverHeld' /\ QuietClose'
    BY <1>4 DEF vars, IInv, PagesBounded, Holding, BusyPages, DriverHeld, QuietClose, Running,
                Active
  <2> QED
    BY <2>1, <2>2 DEF IInv
<1> QED
  BY <1>1, <1>2, <1>3, <1>4 DEF Next

LEMMA Inductive == Spec => []IInv
BY InitInv, StepInv, PTL DEF Spec

(* Every variable of the fetcher and of its registry has its type; the      *)
(* registry holds no page twice and nothing expires that it does not hold.  *)
THEOREM TypeCorrect == Spec => []TypeOK
<1>1. IInv => TypeOK
  BY DEF IInv
<1> QED
  BY <1>1, Inductive, PTL

(* No interleaving of fetches, evictions, expiries and aclose() loses an    *)
(* open page, closes one in a fetch's hands or hands out a closed one.      *)
THEOREM NoPageIsLost == Spec => []EveryPageHasAnOwner
<1>1. IInv => EveryPageHasAnOwner
  BY DEF IInv, PagesOwned
<1> QED
  BY <1>1, Inductive, PTL

(* Never more open pages than max_open_pages and the fetches in progress,   *)
(* which the semaphore limits, though evictions take time.                  *)
THEOREM PagesStayBounded == Spec => []OpenPagesBounded
<1>1. IInv => OpenPagesBounded
  <2> SUFFICES ASSUME IInv PROVE OpenPagesBounded
    OBVIOUS
  <2> DEFINE Opened == {f \in Fetches : page[f] = "open"}
  <2>1. Opened \subseteq (BusyPages \ Holding) \cup Holding
    BY DEF IInv, PagesOwned, EveryPageHasAnOwner, BusyPages, Holding, InSemaphore
  <2>2. IsFiniteSet(BusyPages \ Holding) /\ IsFiniteSet(Holding)
    BY FS_Union, FS_Subset DEF IInv, PagesBounded, BusyPages
  <2>3. /\ IsFiniteSet((BusyPages \ Holding) \cup Holding)
        /\ Cardinality((BusyPages \ Holding) \cup Holding)
             = Cardinality(BusyPages \ Holding) + Cardinality(Holding)
    <3>1. (BusyPages \ Holding) \cap Holding = {}
      OBVIOUS
    <3>2. Cardinality({}) = 0
      BY FS_EmptySet
    <3>3. Cardinality(BusyPages \ Holding) \in Nat /\ Cardinality(Holding) \in Nat
      BY <2>2, FS_CardinalityType
    <3>4. ASSUME NEW A, NEW B, IsFiniteSet(A), IsFiniteSet(B), A \cap B = {},
                 Cardinality(A) \in Nat, Cardinality(B) \in Nat
          PROVE  IsFiniteSet(A \cup B) /\ Cardinality(A \cup B) = Cardinality(A) + Cardinality(B)
      <4>1. /\ IsFiniteSet(A \cup B)
            /\ Cardinality(A \cup B) = Cardinality(A) + Cardinality(B) - Cardinality(A \cap B)
        BY <3>4, FS_Union
      <4>2. Cardinality(A \cap B) = 0
        BY <3>2, <3>4
      <4> QED
        BY <3>4, <4>1, <4>2
    <3> QED
      BY <2>2, <3>1, <3>3, <3>4
  <2> HIDE DEF Opened
  <2>4. /\ IsFiniteSet(Opened)
        /\ Cardinality(Opened) <= Cardinality((BusyPages \ Holding) \cup Holding)
    BY <2>1, <2>3, FS_Subset
  <2>5. /\ Cardinality(Opened) \in Nat /\ Cardinality(Holding) \in Nat
        /\ Cardinality(BusyPages \ Holding) \in Nat
    BY <2>2, <2>4, FS_CardinalityType
  <2>6. /\ Cardinality(BusyPages \ Holding) <= MaxOpenPages
        /\ Cardinality(Holding) <= MaxConcurrency
    BY DEF IInv, PagesBounded
  <2>7. Cardinality(Opened) <= MaxOpenPages + Cardinality(Holding)
    BY <2>3, <2>4, <2>5, <2>6, RegistryAssumption
  <2> QED
    BY <2>6, <2>7 DEF OpenPagesBounded, Opened
<1> QED
  BY <1>1, Inductive, PTL

(* However many fetches come first together and however often a launch      *)
(* fails, only the driver in self._pw runs until aclose() is called.        *)
THEOREM OneDriverRuns == Spec => []RunningDriverIsHeld
<1>1. IInv => RunningDriverIsHeld
  BY DEF IInv, DriverHeld, RunningDriverIsHeld
<1> QED
  BY <1>1, Inductive, PTL

(* An aclose() that no fetch races, called again after each error of its    *)
(* own, leaves no process, no page and no entry once it returns.            *)
THEOREM QuietAcloseIsClean == Spec => []QuietAcloseLeavesNothing
<1>1. IInv => QuietAcloseLeavesNothing
  <2> SUFFICES ASSUME IInv, aclose = "returned", quiet PROVE NothingLeft
    BY DEF QuietAcloseLeavesNothing
  <2>1. closed /\ Active = {} /\ pages = <<>> /\ doomed = {} /\ pw = None
    BY DEF IInv, DriverHeld, QuietClose
  <2>2. \A f \in Fetches : page[f] # "open"
    BY <2>1 DEF IInv, PagesOwned, EveryPageHasAnOwner, Active, Final, ToSet
  <2>3. \A k \in Drivers : ~Running(k)
    BY <2>1, FetcherAssumption DEF IInv, DriverHeld
  <2> QED
    BY <2>1, <2>2, <2>3 DEF NothingLeft
<1> QED
  BY <1>1, Inductive, PTL
=============================================================================
