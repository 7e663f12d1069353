-------------------------- MODULE BrowserLoginProofs --------------------------
(****************************************************************************)
(* Proofs about BrowserLogin for any set of fetches, any pages and whatever *)
(* the gate sees of them: a login that was saved is not lost to the fetches *)
(* after it, and what an answer says of the login wait is so.               *)
(****************************************************************************)
EXTENDS BrowserLogin, TLAPS

(* What a fetch has in hand where it is; nothing is left of it at the end.  *)
InHand(f) ==
  /\ ~Active(f) => cookie[f] = None /\ shown[f] = None
  /\ pc[f] \in {"loaded", "poll", "polling", "rereading", "saving"} => shown[f] \in Pages
  /\ pc[f] \in {"poll", "polling", "rereading"} => first[f] \in Pages
  /\ pc[f] = "polling" => url[f] \in Pages

(* A wait that ended for what it read has seen another page than the first. *)
WaitIsTrue(f) ==
  /\ waited[f] \in {"density_improved_not_login", "source_url_returned_not_login"} => moved[f]
  /\ pc[f] \in {"poll", "polling"} /\ ~moved[f] => shown[f] = first[f]

(* The state file is what the context was given, and the context has every  *)
(* saved login that is still good, so that a wall means there is none.      *)
StateIsGiven(f) ==
  ~overlapped /\ Active(f) =>
    /\ given[f] = (profiled /\ disk # NoFile)
    /\ profiled => disk # Torn
    /\ \A g \in Fetches : saved[g] \in valid => cookie[f] = saved[g]
    /\ shown[f] \in Walls => cookie[f] \notin valid

(* Nobody else has the login of a fetch that has not ended.                 *)
OwnLogin(f) ==
  pc[f] \notin Ended =>
    /\ disk # f
    /\ \A g \in Fetches : saved[g] # f /\ (g # f => cookie[g] # f)

FetchInv(f) == InHand(f) /\ WaitIsTrue(f) /\ StateIsGiven(f) /\ OwnLogin(f)

(* LoginIsKept, with the reason: of the saved logins at most one is good,   *)
(* and that is the one in the file.                                         *)
SavedIsKept ==
  /\ ~overlapped => \A f, g \in Fetches : Active(f) /\ Active(g) => f = g
  /\ ~overlapped /\ disk # Torn => \A f \in Fetches : saved[f] \in valid => disk = saved[f]
  /\ ~profiled => \A f \in Fetches : saved[f] = None

IInv == TypeOK /\ SavedIsKept /\ \A f \in Fetches : FetchInv(f)

-----------------------------------------------------------------------------
(* Lemmas                                                                   *)

USE DEF tabVars, askVars

LEMMA Pages0 ==
  /\ None \notin Pages /\ None \notin Fetches /\ NoFile # Torn /\ None # NoFile /\ None # Torn
  /\ NoFile \notin Fetches /\ Torn \notin Fetches /\ Walls \subseteq Pages
BY LoginAssumption

(* A poll is content for one of four reasons, and where it is for a denser  *)
(* page, the page is denser than the first one.                             *)
LEMMA PollReasons ==
  ASSUME NEW u \in PageType, NEW h \in PageType, NEW before \in Nat, NEW selected \in BOOLEAN
  PROVE  LET reason == PollSuccess(u, h, before, selected) IN
         /\ reason \in Reasons \cup {"none"}
         /\ reason \in {"density_improved_not_login", "source_url_returned_not_login"}
              => h.density > before
<1>1. h.density \in Nat /\ u.pattern \in BOOLEAN
  BY DEF PageType
<1> DEFINE login == LoginRequired(SignalsOf(u, h))
           reason == PollSuccess(u, h, before, selected)
<1>2. CASE reason = "density_improved_not_login"
  <2>1. Denser(h.density, before, 1)
    BY <1>1, <1>2 DEF PollSuccess
  <2> QED
    BY <1>1, <1>2, <2>1 DEF Denser, Reasons
<1>3. CASE reason = "source_url_returned_not_login"
  <2>1. Denser(h.density, before, 0)
    BY <1>1, <1>3 DEF PollSuccess
  <2> QED
    BY <1>1, <1>3, <2>1 DEF Denser, Reasons
<1>4. reason \in Reasons \cup {"none"}
  BY <1>1 DEF PollSuccess, Reasons
<1> QED
  BY <1>2, <1>3, <1>4

LEMMA LookTypes ==
  ASSUME NEW p \in Pages
  PROVE  Look[p] \in PageType /\ Look[p].density \in Nat
BY LoginAssumption DEF PageType

(* What PollContent does with its reason.                                   *)
PollReason(f, selected) ==
  PollSuccess(Look[url[f]], Look[shown[f]], Look[first[f]].density, selected)

PollEnds(f, selected) ==
  \/ PollReason(f, selected) # "none" /\ EndWait(f, PollReason(f, selected))
  \/ /\ PollReason(f, selected) = "none"
     /\ pc' = [pc EXCEPT ![f] = "poll"]
     /\ url' = [url EXCEPT ![f] = None]
     /\ UNCHANGED waited

(* A step of one fetch that leaves the file, the logins and the history     *)
(* alone has only to be looked at for that fetch.                           *)
LEMMA Local ==
  ASSUME IInv, NEW f \in Fetches, TypeOK', FetchInv(f)',
         UNCHANGED <<profiled, disk, saved, valid, overlapped>>,
         Active(f), cookie'[f] \in {cookie[f], None},
         \A g \in Fetches \ {f} :
           /\ pc'[g] = pc[g] /\ given'[g] = given[g] /\ cookie'[g] = cookie[g]
           /\ shown'[g] = shown[g] /\ first'[g] = first[g] /\ url'[g] = url[g]
           /\ waited'[g] = waited[g] /\ moved'[g] = moved[g]
  PROVE  IInv'
<1>1. \A g \in Fetches \ {f} : Active(g)' <=> Active(g)
  BY DEF Active
<1>2. SavedIsKept'
  BY <1>1 DEF IInv, SavedIsKept, Active
<1>3. ASSUME NEW g \in Fetches \ {f} PROVE FetchInv(g)'
  <2>1. FetchInv(g)
    BY DEF IInv
  <2>2. InHand(g)' /\ WaitIsTrue(g)'
    BY <1>1, <2>1 DEF FetchInv, InHand, WaitIsTrue
  <2>3. StateIsGiven(g)'
    BY <1>1, <2>1 DEF FetchInv, StateIsGiven
  <2>4. OwnLogin(g)'
    BY <2>1, LoginAssumption DEF FetchInv, OwnLogin
  <2> QED
    BY <2>2, <2>3, <2>4 DEF FetchInv
<1> QED
  BY <1>2, <1>3 DEF IInv

LEMMA InitInv == Init => IInv
<1> SUFFICES ASSUME Init PROVE IInv
  OBVIOUS
<1>1. TypeOK
  BY LoginAssumption DEF Init, TypeOK, Reasons
<1>2. SavedIsKept
  BY LoginAssumption DEF Init, SavedIsKept, Active
<1>3. ASSUME NEW f \in Fetches PROVE FetchInv(f)
  BY LoginAssumption DEF Init, FetchInv, InHand, WaitIsTrue, StateIsGiven, OwnLogin, Active
<1> QED
  BY <1>1, <1>2, <1>3 DEF IInv

-----------------------------------------------------------------------------
(* Steps of one fetch                                                       *)

LEMMA GotoInv == \A f \in Fetches : IInv /\ Goto(f) => IInv'
<1> SUFFICES ASSUME NEW f \in Fetches, IInv, Goto(f) PROVE IInv'
  OBVIOUS
<1>1. Active(f) /\ FetchInv(f)
  BY LoginAssumption DEF IInv, FetchInv, InHand, Active, Ended, Goto, ShownTo
<1>2. TypeOK'
  BY <1>1, LoginAssumption DEF IInv, TypeOK, FetchInv, InHand, Answer, Ended, Goto, ShownTo
<1>3. FetchInv(f)'
  <2>1. InHand(f)'
    BY <1>1, LoginAssumption DEF IInv, TypeOK, FetchInv, InHand, Active, Ended, Goto, ShownTo
  <2>2. WaitIsTrue(f)'
    BY <1>1 DEF IInv, TypeOK, FetchInv, InHand, WaitIsTrue, Goto, ShownTo
  <2>3. StateIsGiven(f)'
    BY <1>1, LoginAssumption DEF IInv, TypeOK, FetchInv, InHand, StateIsGiven, Active, Ended, Goto, ShownTo
  <2>4. OwnLogin(f)'
    BY <1>1, LoginAssumption DEF IInv, TypeOK, FetchInv, OwnLogin, Ended, Goto, ShownTo
  <2> QED
    BY <2>1, <2>2, <2>3, <2>4 DEF FetchInv
<1>4. /\ UNCHANGED <<profiled, disk, saved, valid, overlapped>>
      /\ cookie'[f] \in {cookie[f], None}
      /\ \A g \in Fetches \ {f} :
           /\ pc'[g] = pc[g] /\ given'[g] = given[g] /\ cookie'[g] = cookie[g]
           /\ shown'[g] = shown[g] /\ first'[g] = first[g] /\ url'[g] = url[g]
           /\ waited'[g] = waited[g] /\ moved'[g] = moved[g]
  BY DEF IInv, TypeOK, Goto, ShownTo
<1> QED
  BY <1>1, <1>2, <1>3, <1>4, Local

LEMMA ReadFirstInv == \A f \in Fetches : IInv /\ ReadFirst(f) => IInv'
<1> SUFFICES ASSUME NEW f \in Fetches, IInv, ReadFirst(f) PROVE IInv'
  OBVIOUS
<1>1. Active(f) /\ FetchInv(f)
  BY LoginAssumption DEF IInv, FetchInv, InHand, Active, Ended, ReadFirst
<1>2. TypeOK'
  BY <1>1, LoginAssumption DEF IInv, TypeOK, FetchInv, InHand, Answer, Ended, ReadFirst
<1>3. FetchInv(f)'
  <2>1. InHand(f)'
    BY <1>1, LoginAssumption DEF IInv, TypeOK, FetchInv, InHand, Active, Ended, ReadFirst
  <2>2. WaitIsTrue(f)'
    BY <1>1 DEF IInv, TypeOK, FetchInv, InHand, WaitIsTrue, ReadFirst
  <2>3. StateIsGiven(f)'
    BY <1>1, LoginAssumption DEF IInv, TypeOK, FetchInv, InHand, StateIsGiven, Active, Ended, ReadFirst
  <2>4. OwnLogin(f)'
    BY <1>1, LoginAssumption DEF IInv, TypeOK, FetchInv, OwnLogin, Ended, ReadFirst
  <2> QED
    BY <2>1, <2>2, <2>3, <2>4 DEF FetchInv
<1>4. /\ UNCHANGED <<profiled, disk, saved, valid, overlapped>>
      /\ cookie'[f] \in {cookie[f], None}
      /\ \A g \in Fetches \ {f} :
           /\ pc'[g] = pc[g] /\ given'[g] = given[g] /\ cookie'[g] = cookie[g]
           /\ shown'[g] = shown[g] /\ first'[g] = first[g] /\ url'[g] = url[g]
           /\ waited'[g] = waited[g] /\ moved'[g] = moved[g]
  BY DEF IInv, TypeOK, ReadFirst
<1> QED
  BY <1>1, <1>2, <1>3, <1>4, Local

LEMMA PollUrlInv == \A f \in Fetches : IInv /\ PollUrl(f) => IInv'
<1> SUFFICES ASSUME NEW f \in Fetches, IInv, PollUrl(f) PROVE IInv'
  OBVIOUS
<1>1. Active(f) /\ FetchInv(f)
  BY LoginAssumption DEF IInv, FetchInv, InHand, Active, Ended, PollUrl
<1>2. TypeOK'
  BY <1>1, LoginAssumption DEF IInv, TypeOK, FetchInv, InHand, Answer, Ended, PollUrl
<1>3. FetchInv(f)'
  <2>1. InHand(f)'
    BY <1>1, LoginAssumption DEF IInv, TypeOK, FetchInv, InHand, Active, Ended, PollUrl
  <2>2. WaitIsTrue(f)'
    BY <1>1 DEF IInv, TypeOK, FetchInv, InHand, WaitIsTrue, PollUrl
  <2>3. StateIsGiven(f)'
    BY <1>1, LoginAssumption DEF IInv, TypeOK, FetchInv, InHand, StateIsGiven, Active, Ended, PollUrl
  <2>4. OwnLogin(f)'
    BY <1>1, LoginAssumption DEF IInv, TypeOK, FetchInv, OwnLogin, Ended, PollUrl
  <2> QED
    BY <2>1, <2>2, <2>3, <2>4 DEF FetchInv
<1>4. /\ UNCHANGED <<profiled, disk, saved, valid, overlapped>>
      /\ cookie'[f] \in {cookie[f], None}
      /\ \A g \in Fetches \ {f} :
           /\ pc'[g] = pc[g] /\ given'[g] = given[g] /\ cookie'[g] = cookie[g]
           /\ shown'[g] = shown[g] /\ first'[g] = first[g] /\ url'[g] = url[g]
           /\ waited'[g] = waited[g] /\ moved'[g] = moved[g]
  BY DEF IInv, TypeOK, PollUrl
<1> QED
  BY <1>1, <1>2, <1>3, <1>4, Local

LEMMA TimesOutInv == \A f \in Fetches : IInv /\ TimesOut(f) => IInv'
<1> SUFFICES ASSUME NEW f \in Fetches, IInv, TimesOut(f) PROVE IInv'
  OBVIOUS
<1>1. Active(f) /\ FetchInv(f)
  BY LoginAssumption DEF IInv, FetchInv, InHand, Active, Ended, TimesOut, EndWait
<1>2. TypeOK'
  BY <1>1, LoginAssumption DEF IInv, TypeOK, FetchInv, InHand, Answer, Ended, TimesOut, EndWait
<1>3. FetchInv(f)'
  <2>1. InHand(f)'
    BY <1>1, LoginAssumption DEF IInv, TypeOK, FetchInv, InHand, Active, Ended, TimesOut, EndWait
  <2>2. WaitIsTrue(f)'
    BY <1>1 DEF IInv, TypeOK, FetchInv, InHand, WaitIsTrue, TimesOut, EndWait
  <2>3. StateIsGiven(f)'
    BY <1>1, LoginAssumption DEF IInv, TypeOK, FetchInv, InHand, StateIsGiven, Active, Ended, TimesOut, EndWait
  <2>4. OwnLogin(f)'
    BY <1>1, LoginAssumption DEF IInv, TypeOK, FetchInv, OwnLogin, Ended, TimesOut, EndWait
  <2> QED
    BY <2>1, <2>2, <2>3, <2>4 DEF FetchInv
<1>4. /\ UNCHANGED <<profiled, disk, saved, valid, overlapped>>
      /\ cookie'[f] \in {cookie[f], None}
      /\ \A g \in Fetches \ {f} :
           /\ pc'[g] = pc[g] /\ given'[g] = given[g] /\ cookie'[g] = cookie[g]
           /\ shown'[g] = shown[g] /\ first'[g] = first[g] /\ url'[g] = url[g]
           /\ waited'[g] = waited[g] /\ moved'[g] = moved[g]
  BY DEF IInv, TypeOK, TimesOut, EndWait
<1> QED
  BY <1>1, <1>2, <1>3, <1>4, Local

LEMMA PollContentInv == \A f \in Fetches : IInv /\ PollContent(f) => IInv'
<1> SUFFICES ASSUME NEW f \in Fetches, IInv, PollContent(f) PROVE IInv'
  OBVIOUS
<1>1. Active(f) /\ FetchInv(f)
  BY LoginAssumption DEF IInv, FetchInv, InHand, Active, Ended, PollContent, EndWait
<1>2. TypeOK'
  <2>1. url[f] \in Pages /\ shown[f] \in Pages /\ first[f] \in Pages
    BY <1>1 DEF FetchInv, InHand, PollContent
  <2>2. PICK selected \in BOOLEAN : PollEnds(f, selected)
    BY <2>1, LookTypes DEF PollContent, PollEnds, PollReason, PageType
  <2>3. PollReason(f, selected) \in Reasons \cup {"none"}
    BY <2>1, <2>2, LookTypes, PollReasons DEF PollReason
  <2> QED
    BY <1>1, <2>2, <2>3, LoginAssumption
       DEF IInv, TypeOK, FetchInv, InHand, Answer, Ended, PollContent, PollEnds, EndWait
<1>3. FetchInv(f)'
  <2>1. InHand(f)'
    BY <1>1, LoginAssumption DEF IInv, TypeOK, FetchInv, InHand, Active, Ended, PollContent, EndWait
  <2>2. WaitIsTrue(f)'
    <3>1. url[f] \in Pages /\ shown[f] \in Pages /\ first[f] \in Pages
      BY <1>1 DEF FetchInv, InHand, PollContent
    <3>2. PICK selected \in BOOLEAN : PollEnds(f, selected)
      BY <3>1, LookTypes DEF PollContent, PollEnds, PollReason, PageType
    <3>3. PollReason(f, selected) \in {"density_improved_not_login", "source_url_returned_not_login"}
            => Look[shown[f]].density > Look[first[f]].density
      BY <3>1, <3>2, LookTypes, PollReasons DEF PollReason
    <3>4. Look[first[f]].density \in Nat
      BY <3>1, LookTypes
    <3>5. PollReason(f, selected) \in {"density_improved_not_login", "source_url_returned_not_login"}
            => moved[f]
      BY <1>1, <3>3, <3>4 DEF FetchInv, WaitIsTrue, PollContent, IInv, TypeOK
    <3> QED
      BY <1>1, <3>2, <3>5
         DEF IInv, TypeOK, FetchInv, WaitIsTrue, PollContent, PollEnds, EndWait
  <2>3. StateIsGiven(f)'
    BY <1>1, LoginAssumption DEF IInv, TypeOK, FetchInv, InHand, StateIsGiven, Active, Ended, PollContent, EndWait
  <2>4. OwnLogin(f)'
    BY <1>1, LoginAssumption DEF IInv, TypeOK, FetchInv, OwnLogin, Ended, PollContent, EndWait
  <2> QED
    BY <2>1, <2>2, <2>3, <2>4 DEF FetchInv
<1>4. /\ UNCHANGED <<profiled, disk, saved, valid, overlapped>>
      /\ cookie'[f] \in {cookie[f], None}
      /\ \A g \in Fetches \ {f} :
           /\ pc'[g] = pc[g] /\ given'[g] = given[g] /\ cookie'[g] = cookie[g]
           /\ shown'[g] = shown[g] /\ first'[g] = first[g] /\ url'[g] = url[g]
           /\ waited'[g] = waited[g] /\ moved'[g] = moved[g]
  BY DEF IInv, TypeOK, PollContent, EndWait
<1> QED
  BY <1>1, <1>2, <1>3, <1>4, Local

LEMMA PollNothingInv == \A f \in Fetches : IInv /\ PollNothing(f) => IInv'
<1> SUFFICES ASSUME NEW f \in Fetches, IInv, PollNothing(f) PROVE IInv'
  OBVIOUS
<1>1. Active(f) /\ FetchInv(f)
  BY LoginAssumption DEF IInv, FetchInv, InHand, Active, Ended, PollNothing
<1>2. TypeOK'
  BY <1>1, LoginAssumption DEF IInv, TypeOK, FetchInv, InHand, Answer, Ended, PollNothing
<1>3. FetchInv(f)'
  <2>1. InHand(f)'
    BY <1>1, LoginAssumption DEF IInv, TypeOK, FetchInv, InHand, Active, Ended, PollNothing
  <2>2. WaitIsTrue(f)'
    BY <1>1 DEF IInv, TypeOK, FetchInv, InHand, WaitIsTrue, PollNothing
  <2>3. StateIsGiven(f)'
    BY <1>1, LoginAssumption DEF IInv, TypeOK, FetchInv, InHand, StateIsGiven, Active, Ended, PollNothing
  <2>4. OwnLogin(f)'
    BY <1>1, LoginAssumption DEF IInv, TypeOK, FetchInv, OwnLogin, Ended, PollNothing
  <2> QED
    BY <2>1, <2>2, <2>3, <2>4 DEF FetchInv
<1>4. /\ UNCHANGED <<profiled, disk, saved, valid, overlapped>>
      /\ cookie'[f] \in {cookie[f], None}
      /\ \A g \in Fetches \ {f} :
           /\ pc'[g] = pc[g] /\ given'[g] = given[g] /\ cookie'[g] = cookie[g]
           /\ shown'[g] = shown[g] /\ first'[g] = first[g] /\ url'[g] = url[g]
           /\ waited'[g] = waited[g] /\ moved'[g] = moved[g]
  BY DEF IInv, TypeOK, PollNothing
<1> QED
  BY <1>1, <1>2, <1>3, <1>4, Local

LEMMA RereadInv == \A f \in Fetches : IInv /\ Reread(f) => IInv'
<1> SUFFICES ASSUME NEW f \in Fetches, IInv, Reread(f) PROVE IInv'
  OBVIOUS
<1>1. Active(f) /\ FetchInv(f)
  BY LoginAssumption DEF IInv, FetchInv, InHand, Active, Ended, Reread
<1>2. TypeOK'
  BY <1>1, LoginAssumption DEF IInv, TypeOK, FetchInv, InHand, Answer, Ended, Reread
<1>3. FetchInv(f)'
  <2>1. InHand(f)'
    BY <1>1, LoginAssumption DEF IInv, TypeOK, FetchInv, InHand, Active, Ended, Reread
  <2>2. WaitIsTrue(f)'
    BY <1>1 DEF IInv, TypeOK, FetchInv, InHand, WaitIsTrue, Reread
  <2>3. StateIsGiven(f)'
    BY <1>1, LoginAssumption DEF IInv, TypeOK, FetchInv, InHand, StateIsGiven, Active, Ended, Reread
  <2>4. OwnLogin(f)'
    BY <1>1, LoginAssumption DEF IInv, TypeOK, FetchInv, OwnLogin, Ended, Reread
  <2> QED
    BY <2>1, <2>2, <2>3, <2>4 DEF FetchInv
<1>4. /\ UNCHANGED <<profiled, disk, saved, valid, overlapped>>
      /\ cookie'[f] \in {cookie[f], None}
      /\ \A g \in Fetches \ {f} :
           /\ pc'[g] = pc[g] /\ given'[g] = given[g] /\ cookie'[g] = cookie[g]
           /\ shown'[g] = shown[g] /\ first'[g] = first[g] /\ url'[g] = url[g]
           /\ waited'[g] = waited[g] /\ moved'[g] = moved[g]
  BY DEF IInv, TypeOK, Reread
<1> QED
  BY <1>1, <1>2, <1>3, <1>4, Local

LEMMA TabMovesInv == \A f \in Fetches : IInv /\ TabMoves(f) => IInv'
<1> SUFFICES ASSUME NEW f \in Fetches, IInv, TabMoves(f) PROVE IInv'
  OBVIOUS
<1>1. Active(f) /\ FetchInv(f)
  BY LoginAssumption DEF IInv, FetchInv, InHand, Active, Ended, TabMoves, ShownTo
<1>2. TypeOK'
  BY <1>1, LoginAssumption DEF IInv, TypeOK, FetchInv, InHand, Answer, Ended, TabMoves, ShownTo
<1>3. FetchInv(f)'
  <2>1. InHand(f)'
    BY <1>1, LoginAssumption DEF IInv, TypeOK, FetchInv, InHand, Active, Ended, TabMoves, ShownTo
  <2>2. WaitIsTrue(f)'
    <3>1. moved' = [moved EXCEPT ![f] = moved[f] \/ first[f] # None]
      BY DEF TabMoves
    <3>2. moved \in [Fetches -> BOOLEAN] /\ f \in Fetches
      BY DEF IInv, TypeOK
    <3>3. moved'[f] <=> (moved[f] \/ first[f] # None)
      BY <3>1, <3>2, Zenon
    <3>4. pc[f] \in {"poll", "polling"} => first[f] # None
      BY <1>1, LoginAssumption DEF FetchInv, InHand
    <3>5. pc' = pc /\ waited' = waited /\ first' = first
      BY DEF TabMoves
    <3> QED
      BY <1>1, <3>3, <3>4, <3>5 DEF FetchInv, WaitIsTrue
  <2>3. StateIsGiven(f)'
    BY <1>1, LoginAssumption DEF IInv, TypeOK, FetchInv, InHand, StateIsGiven, Active, Ended, TabMoves, ShownTo
  <2>4. OwnLogin(f)'
    BY <1>1, LoginAssumption DEF IInv, TypeOK, FetchInv, OwnLogin, Ended, TabMoves, ShownTo
  <2> QED
    BY <2>1, <2>2, <2>3, <2>4 DEF FetchInv
<1>4. /\ UNCHANGED <<profiled, disk, saved, valid, overlapped>>
      /\ cookie'[f] \in {cookie[f], None}
      /\ \A g \in Fetches \ {f} :
           /\ pc'[g] = pc[g] /\ given'[g] = given[g] /\ cookie'[g] = cookie[g]
           /\ shown'[g] = shown[g] /\ first'[g] = first[g] /\ url'[g] = url[g]
           /\ waited'[g] = waited[g] /\ moved'[g] = moved[g]
  BY DEF IInv, TypeOK, TabMoves, ShownTo
<1> QED
  BY <1>1, <1>2, <1>3, <1>4, Local

LEMMA RaiseInv == \A f \in Fetches : IInv /\ Raise(f) => IInv'
<1> SUFFICES ASSUME NEW f \in Fetches, IInv, Raise(f) PROVE IInv'
  OBVIOUS
<1>1. Active(f) /\ FetchInv(f)
  BY LoginAssumption DEF IInv, FetchInv, InHand, Active, Ended, Raise, Fails, Close
<1>2. TypeOK'
  BY <1>1, LoginAssumption DEF IInv, TypeOK, FetchInv, InHand, Answer, Ended, Raise, Fails, Close
<1>3. FetchInv(f)'
  <2>1. InHand(f)'
    BY <1>1, LoginAssumption DEF IInv, TypeOK, FetchInv, InHand, Active, Ended, Raise, Fails, Close
  <2>2. WaitIsTrue(f)'
    BY <1>1 DEF IInv, TypeOK, FetchInv, InHand, WaitIsTrue, Raise, Fails, Close
  <2>3. StateIsGiven(f)'
    BY <1>1, LoginAssumption DEF IInv, TypeOK, FetchInv, InHand, StateIsGiven, Active, Ended, Raise, Fails, Close
  <2>4. OwnLogin(f)'
    BY <1>1, LoginAssumption DEF IInv, TypeOK, FetchInv, OwnLogin, Ended, Raise, Fails, Close
  <2> QED
    BY <2>1, <2>2, <2>3, <2>4 DEF FetchInv
<1>4. /\ UNCHANGED <<profiled, disk, saved, valid, overlapped>>
      /\ cookie'[f] \in {cookie[f], None}
      /\ \A g \in Fetches \ {f} :
           /\ pc'[g] = pc[g] /\ given'[g] = given[g] /\ cookie'[g] = cookie[g]
           /\ shown'[g] = shown[g] /\ first'[g] = first[g] /\ url'[g] = url[g]
           /\ waited'[g] = waited[g] /\ moved'[g] = moved[g]
  BY DEF IInv, TypeOK, Raise, Fails, Close
<1> QED
  BY <1>1, <1>2, <1>3, <1>4, Local
-----------------------------------------------------------------------------
(* Steps that others notice: a fetch opens, saves what it has, a person     *)
(* logs in, a login ends.                                                   *)

(* A fetch that ends leaves nothing in its variables.                       *)
LEMMA Closed ==
  ASSUME IInv, NEW f \in Fetches, NEW how \in Ended, Close(f, how)
  PROVE  /\ FetchInv(f)'
         /\ pc' \in [Fetches -> {"idle", "going", "loaded", "poll", "polling", "rereading", "saving"}
                                  \cup Ended]
         /\ interactive' \in [Fetches -> BOOLEAN] /\ given' \in [Fetches -> BOOLEAN]
         /\ moved' \in [Fetches -> BOOLEAN] /\ cookie' \in [Fetches -> Fetches \cup {None}]
         /\ \A seen \in {shown', first', url', html'} : seen \in [Fetches -> Pages \cup {None}]
         /\ waited' \in [Fetches -> Reasons \cup {"login_wait_timeout", "none"}]
         /\ UNCHANGED <<headless, profiled, valid>>
         /\ \A g \in Fetches : pc'[g] = "saving" => html'[g] # None
<1>1. pc'[f] = how /\ cookie'[f] = None /\ shown'[f] = None /\ waited'[f] = "none"
  BY DEF Close, IInv, TypeOK
<1>2. ~Active(f)'
  BY <1>1 DEF Active
<1>3. InHand(f)' /\ WaitIsTrue(f)'
  BY <1>1, <1>2 DEF InHand, WaitIsTrue, Ended
<1>4. StateIsGiven(f)' /\ OwnLogin(f)'
  BY <1>1, <1>2 DEF StateIsGiven, OwnLogin
<1>5. /\ pc' \in [Fetches -> {"idle", "going", "loaded", "poll", "polling", "rereading", "saving"}
                              \cup Ended]
      /\ interactive' \in [Fetches -> BOOLEAN] /\ given' \in [Fetches -> BOOLEAN]
      /\ moved' \in [Fetches -> BOOLEAN] /\ cookie' \in [Fetches -> Fetches \cup {None}]
  BY DEF Close, IInv, TypeOK
<1>6. /\ \A seen \in {shown', first', url', html'} : seen \in [Fetches -> Pages \cup {None}]
      /\ waited' \in [Fetches -> Reasons \cup {"login_wait_timeout", "none"}]
      /\ UNCHANGED <<headless, profiled, valid>>
  BY DEF Close, IInv, TypeOK
<1>7. \A g \in Fetches : pc'[g] = "saving" => html'[g] # None
  BY DEF Close, IInv, TypeOK, Answer, Ended
<1> QED
  BY <1>3, <1>4, <1>5, <1>6, <1>7 DEF FetchInv

LEMMA OpenInv == \A f \in Fetches : IInv /\ Open(f) => IInv'
<1> SUFFICES ASSUME NEW f \in Fetches, IInv, Open(f) PROVE IInv'
  OBVIOUS
<1>1. /\ pc[f] = "idle" /\ FetchInv(f) /\ ~Active(f)
      /\ overlapped' = (overlapped \/ \E g \in Fetches : Active(g))
  BY DEF Open, IInv, Active, Ended
<1>2. CASE Fails(f)
  <2>1. /\ UNCHANGED <<profiled, headless, valid, saved, disk>>
        /\ pc' = [pc EXCEPT ![f] = "failed"]
        /\ \A g \in Fetches \ {f} :
             /\ given'[g] = given[g] /\ cookie'[g] = cookie[g] /\ shown'[g] = shown[g]
             /\ first'[g] = first[g] /\ url'[g] = url[g] /\ waited'[g] = waited[g]
             /\ moved'[g] = moved[g]
    BY <1>2 DEF Fails, Close, IInv, TypeOK
  <2>2. TypeOK'
    BY <1>1, <1>2, LoginAssumption DEF Fails, Close, IInv, TypeOK, Answer, Ended
  <2>3. \A g \in Fetches : Active(g)' <=> Active(g)
    BY <1>1, <2>1 DEF IInv, TypeOK, Active, Ended
  <2>4. SavedIsKept'
    BY <1>1, <2>1, <2>3 DEF IInv, SavedIsKept
  <2>5. ASSUME NEW g \in Fetches PROVE FetchInv(g)'
    <3>1. FetchInv(g)
      BY DEF IInv
    <3>2. CASE g = f
      BY <1>2, <3>2, Closed DEF Fails, Ended
    <3>3. CASE g # f
      <4>1. InHand(g)' /\ WaitIsTrue(g)'
        BY <2>1, <2>3, <3>1, <3>3 DEF IInv, TypeOK, FetchInv, InHand, WaitIsTrue
      <4>2. StateIsGiven(g)'
        BY <1>1, <2>1, <2>3, <3>1, <3>3 DEF FetchInv, StateIsGiven
      <4>3. OwnLogin(g)'
        BY <1>2, <2>1, <3>1, <3>3, LoginAssumption
           DEF Fails, Close, IInv, TypeOK, FetchInv, OwnLogin
      <4> QED
        BY <4>1, <4>2, <4>3 DEF FetchInv
    <3> QED
      BY <3>2, <3>3
  <2> QED
    BY <2>2, <2>4, <2>5 DEF IInv
<1>3. CASE /\ ContextState(f) # Torn
           /\ pc' = [pc EXCEPT ![f] = "going"]
           /\ \E ask \in BOOLEAN : interactive' = [interactive EXCEPT ![f] = ask]
           /\ given' = [given EXCEPT ![f] = ContextState(f) # NoFile]
           /\ cookie' = [cookie EXCEPT ![f] =
                           IF ContextState(f) = NoFile THEN None ELSE ContextState(f)]
           /\ UNCHANGED <<headless, profiled, shown, valid, moved, first, url, html, waited,
                          saved, disk>>
  <2>1. /\ cookie'[f] \in Fetches \cup {None}
        /\ given'[f] = (profiled /\ disk # NoFile)
        /\ profiled => disk # Torn
        /\ profiled /\ disk # NoFile => cookie'[f] = disk
        /\ cookie'[f] \in {None, disk}
    BY <1>3, LoginAssumption DEF ContextState, IInv, TypeOK
  <2>2. TypeOK'
    BY <1>1, <1>3, <2>1 DEF IInv, TypeOK, Answer
  <2>3. \A g \in Fetches : Active(g)' <=> (Active(g) \/ g = f)
    BY <1>1, <1>3 DEF IInv, TypeOK, Active, Ended
  <2>4. SavedIsKept'
    BY <1>1, <1>3, <2>3 DEF IInv, SavedIsKept
  <2>5. StateIsGiven(f)'
    <3> SUFFICES ASSUME ~overlapped' PROVE StateIsGiven(f)'
      BY DEF StateIsGiven
    <3>1. ~overlapped
      BY <1>1
    <3>2. ASSUME NEW g \in Fetches, saved[g] \in valid PROVE cookie'[f] = saved[g]
      <4>1. profiled /\ saved[g] \in Fetches
        BY <3>2, LoginAssumption DEF IInv, TypeOK, SavedIsKept
      <4>2. disk = saved[g]
        BY <2>1, <3>1, <3>2, <4>1 DEF IInv, SavedIsKept
      <4> QED
        BY <2>1, <4>1, <4>2, LoginAssumption
    <3>3. shown'[f] \notin Walls
      BY <1>1, <1>3, LoginAssumption DEF FetchInv, InHand
    <3> QED
      BY <1>3, <2>1, <3>2, <3>3 DEF StateIsGiven
  <2>6. ASSUME NEW g \in Fetches PROVE FetchInv(g)'
    <3>1. FetchInv(g)
      BY DEF IInv
    <3>2. CASE g = f
      <4>1. InHand(f)' /\ WaitIsTrue(f)'
        BY <1>1, <1>3, <2>3 DEF IInv, TypeOK, FetchInv, InHand, WaitIsTrue
      <4>2. OwnLogin(f)'
        BY <1>1, <1>3, LoginAssumption DEF IInv, TypeOK, FetchInv, OwnLogin, Ended
      <4> QED
        BY <2>5, <3>2, <4>1, <4>2 DEF FetchInv
    <3>3. CASE g # f
      <4>1. InHand(g)' /\ WaitIsTrue(g)'
        BY <1>3, <2>3, <3>1, <3>3 DEF IInv, TypeOK, FetchInv, InHand, WaitIsTrue
      <4>2. StateIsGiven(g)'
        BY <1>1, <1>3, <2>3, <3>1, <3>3 DEF StateIsGiven
      <4>3. OwnLogin(g)'
        <5> SUFFICES ASSUME pc[g] \notin Ended PROVE OwnLogin(g)'
          BY <1>3, <3>3 DEF IInv, TypeOK, OwnLogin
        <5>1. disk # g /\ \A h \in Fetches : saved[h] # g /\ (h # g => cookie[h] # g)
          BY <3>1 DEF FetchInv, OwnLogin
        <5>2. cookie'[f] # g
          BY <2>1, <5>1, LoginAssumption
        <5>3. \A h \in Fetches \ {f} : cookie'[h] = cookie[h]
          BY <1>3 DEF IInv, TypeOK
        <5> QED
          BY <1>3, <5>1, <5>2, <5>3 DEF OwnLogin
      <4> QED
        BY <4>1, <4>2, <4>3 DEF FetchInv
    <3> QED
      BY <3>2, <3>3
  <2> QED
    BY <2>2, <2>4, <2>6 DEF IInv
<1> QED
  BY <1>2, <1>3 DEF Open

LEMMA SaveInv == \A f \in Fetches : IInv /\ Save(f) => IInv'
<1> SUFFICES ASSUME NEW f \in Fetches, IInv, Save(f) PROVE IInv'
  OBVIOUS
<1>1. /\ pc[f] = "saving" /\ FetchInv(f) /\ Active(f) /\ Close(f, "returned")
      /\ overlapped' = overlapped
  BY DEF Save, IInv, Active, Ended
<1>2. /\ UNCHANGED <<profiled, headless, valid>>
      /\ pc' = [pc EXCEPT ![f] = "returned"]
      /\ cookie' = [cookie EXCEPT ![f] = None]
      /\ \A g \in Fetches \ {f} :
           /\ given'[g] = given[g] /\ shown'[g] = shown[g]
           /\ first'[g] = first[g] /\ url'[g] = url[g] /\ waited'[g] = waited[g]
           /\ moved'[g] = moved[g]
  BY <1>1 DEF Close, IInv, TypeOK
<1>3. \/ ~profiled /\ saved' = saved /\ disk' = disk
      \/ profiled /\ disk' = cookie[f] /\ saved' = [saved EXCEPT ![f] = cookie[f]]
      \/ profiled /\ disk' \in {disk, Torn} /\ saved' = saved
  BY DEF Save
<1>4. TypeOK'
  <2>1. disk' \in Fetches \cup {None, NoFile, Torn} /\ saved' \in [Fetches -> Fetches \cup {None}]
    BY <1>3 DEF IInv, TypeOK
  <2> QED
    <3>1. "returned" \in Ended
      BY DEF Ended
    <3>2. /\ pc' \in [Fetches -> {"idle", "going", "loaded", "poll", "polling", "rereading", "saving"}
                                  \cup Ended]
          /\ interactive' \in [Fetches -> BOOLEAN] /\ given' \in [Fetches -> BOOLEAN]
          /\ moved' \in [Fetches -> BOOLEAN] /\ cookie' \in [Fetches -> Fetches \cup {None}]
          /\ \A seen \in {shown', first', url', html'} : seen \in [Fetches -> Pages \cup {None}]
          /\ waited' \in [Fetches -> Reasons \cup {"login_wait_timeout", "none"}]
          /\ \A g \in Fetches : pc'[g] = "saving" => html'[g] # None
      BY <1>1, <3>1, Closed
    <3> QED
      BY <1>1, <1>2, <2>1, <3>2 DEF IInv, TypeOK, Answer
<1>5. \A g \in Fetches : Active(g)' <=> (Active(g) /\ g # f)
  BY <1>2 DEF IInv, TypeOK, Active, Ended
<1>6. SavedIsKept'
  <2>1. ASSUME ~overlapped, disk' # Torn, NEW g \in Fetches, saved'[g] \in valid
        PROVE  disk' = saved'[g]
    <3>1. \A h \in Fetches : saved[h] \in valid => cookie[f] = saved[h]
      BY <1>1, <2>1 DEF FetchInv, StateIsGiven
    <3>2. profiled => disk # Torn
      BY <1>1, <2>1 DEF FetchInv, StateIsGiven
    <3>3. CASE profiled /\ disk' = cookie[f] /\ saved' = [saved EXCEPT ![f] = cookie[f]]
      BY <2>1, <3>1, <3>3 DEF IInv, TypeOK
    <3>4. CASE saved' = saved /\ disk' \in {disk, Torn} /\ profiled
      BY <2>1, <3>2, <3>4 DEF IInv, SavedIsKept
    <3>5. CASE ~profiled /\ saved' = saved /\ disk' = disk
      BY <2>1, <3>5 DEF IInv, SavedIsKept
    <3> QED
      BY <1>3, <3>3, <3>4, <3>5
  <2>2. ~profiled' => \A g \in Fetches : saved'[g] = None
    BY <1>2, <1>3 DEF IInv, SavedIsKept
  <2>3. ~overlapped' => \A g, h \in Fetches : Active(g)' /\ Active(h)' => g = h
    BY <1>1, <1>5 DEF IInv, SavedIsKept
  <2> QED
    BY <1>1, <1>2, <2>1, <2>2, <2>3 DEF SavedIsKept
<1>7. ASSUME NEW g \in Fetches PROVE FetchInv(g)'
  <2>1. FetchInv(g)
    BY DEF IInv
  <2>2. CASE g = f
    BY <1>1, <2>2, Closed DEF Ended
  <2>3. CASE g # f
    <3>1. InHand(g)' /\ WaitIsTrue(g)'
      BY <1>2, <1>5, <2>1, <2>3 DEF IInv, TypeOK, FetchInv, InHand, WaitIsTrue
    <3>2. StateIsGiven(g)'
      BY <1>1, <1>5, <2>3 DEF IInv, SavedIsKept, StateIsGiven
    <3>3. OwnLogin(g)'
      <4> SUFFICES ASSUME pc[g] \notin Ended PROVE OwnLogin(g)'
        BY <1>2, <2>3 DEF IInv, TypeOK, OwnLogin
      <4>1. disk # g /\ \A h \in Fetches : saved[h] # g /\ (h # g => cookie[h] # g)
        BY <2>1 DEF FetchInv, OwnLogin
      <4>2. disk' # g /\ \A h \in Fetches : saved'[h] # g
        BY <1>3, <2>3, <4>1, LoginAssumption DEF IInv, TypeOK
      <4>3. \A h \in Fetches : cookie'[h] \in {cookie[h], None}
        BY <1>2 DEF IInv, TypeOK
      <4> QED
        BY <4>1, <4>2, <4>3, LoginAssumption DEF OwnLogin
    <3> QED
      BY <3>1, <3>2, <3>3 DEF FetchInv
  <2> QED
    BY <2>2, <2>3
<1> QED
  BY <1>4, <1>6, <1>7 DEF IInv

LEMMA LogInInv == \A f \in Fetches : IInv /\ LogIn(f) => IInv'
<1> SUFFICES ASSUME NEW f \in Fetches, IInv, LogIn(f) PROVE IInv'
  OBVIOUS
<1>1. /\ FetchInv(f) /\ shown[f] \in Walls /\ Active(f)
      /\ cookie' = [cookie EXCEPT ![f] = f] /\ valid' = valid \cup {f}
      /\ UNCHANGED <<askVars, pc, given, first, url, html, waited, saved, disk, overlapped>>
  BY LoginAssumption DEF LogIn, IInv, FetchInv, InHand
<1>2. PICK p \in Pages \ Walls : shown' = [shown EXCEPT ![f] = p]
  BY DEF LogIn
<1>3. /\ moved' \in [Fetches -> BOOLEAN]
      /\ \A g \in Fetches \ {f} : moved'[g] = moved[g]
      /\ moved'[f] <=> (moved[f] \/ first[f] # None)
  <2>1. moved' = [moved EXCEPT ![f] = moved[f] \/ first[f] # None]
    BY DEF LogIn
  <2>2. moved \in [Fetches -> BOOLEAN]
    BY DEF IInv, TypeOK
  <2>3. moved'[f] <=> (moved[f] \/ first[f] # None)
    BY <2>1, <2>2, Zenon
  <2> QED
    BY <2>1, <2>2, <2>3
<1>4. TypeOK'
  <2>1. valid' \subseteq Fetches /\ cookie' \in [Fetches -> Fetches \cup {None}]
    BY <1>1 DEF IInv, TypeOK
  <2>2. shown' \in [Fetches -> Pages \cup {None}]
    BY <1>2 DEF IInv, TypeOK
  <2> QED
    BY <1>1, <1>3, <2>1, <2>2 DEF IInv, TypeOK, Answer
<1>5. \A g \in Fetches : Active(g)' <=> Active(g)
  BY <1>1 DEF Active
<1>6. \A g \in Fetches : saved[g] # f /\ disk # f
  BY <1>1 DEF FetchInv, OwnLogin, Active
<1>7. SavedIsKept'
  BY <1>1, <1>5, <1>6 DEF IInv, SavedIsKept
<1>8. ASSUME NEW g \in Fetches PROVE FetchInv(g)'
  <2>1. FetchInv(g)
    BY DEF IInv
  <2>2. OwnLogin(g)'
    BY <1>1, <2>1 DEF IInv, TypeOK, FetchInv, OwnLogin
  <2>3. InHand(g)'
    BY <1>1, <1>2, <1>5, <2>1 DEF IInv, TypeOK, FetchInv, InHand
  <2>4. WaitIsTrue(g)'
    <3>1. pc[f] \in {"poll", "polling"} => first[f] # None
      BY <1>1, LoginAssumption DEF FetchInv, InHand
    <3> QED
      BY <1>1, <1>2, <1>3, <2>1, <3>1 DEF IInv, TypeOK, FetchInv, WaitIsTrue
  <2>5. StateIsGiven(g)'
    <3> SUFFICES ASSUME ~overlapped, Active(g) PROVE StateIsGiven(g)'
      BY <1>1, <1>5 DEF StateIsGiven
    <3>1. g = f
      BY <1>1 DEF IInv, SavedIsKept
    <3>2. \A h \in Fetches : saved[h] \notin valid'
      BY <1>1, <1>6 DEF FetchInv, StateIsGiven
    <3>3. shown'[f] \notin Walls
      BY <1>2 DEF IInv, TypeOK
    <3> QED
      BY <1>1, <3>1, <3>2, <3>3 DEF FetchInv, StateIsGiven
  <2> QED
    BY <2>2, <2>3, <2>4, <2>5 DEF FetchInv
<1> QED
  BY <1>4, <1>7, <1>8 DEF IInv

LEMMA LoginEndsInv == IInv /\ LoginEnds => IInv'
<1> SUFFICES ASSUME IInv, LoginEnds PROVE IInv'
  OBVIOUS
<1>1. valid' \subseteq valid
  BY DEF LoginEnds
<1>2. UNCHANGED <<askVars, pc, given, cookie, shown, moved, first, url, html, waited, saved, disk,
                  overlapped>>
  BY DEF LoginEnds
<1>3. TypeOK' /\ SavedIsKept'
  BY <1>1, <1>2 DEF IInv, TypeOK, Answer, SavedIsKept, Active
<1>4. ASSUME NEW f \in Fetches PROVE FetchInv(f)'
  BY <1>1, <1>2 DEF IInv, FetchInv, InHand, WaitIsTrue, StateIsGiven, OwnLogin, Active
<1> QED
  BY <1>3, <1>4 DEF IInv

-----------------------------------------------------------------------------
(* The invariant and the theorems                                           *)

LEMMA StepInv == IInv /\ [Next]_vars => IInv'
<1> SUFFICES ASSUME IInv, [Next]_vars PROVE IInv'
  OBVIOUS
<1>1. ASSUME NEW f \in Fetches, Open(f) \/ FetchStep(f) \/ TabMoves(f) \/ LogIn(f) PROVE IInv'
  BY <1>1, OpenInv, GotoInv, ReadFirstInv, PollUrlInv, TimesOutInv, PollContentInv,
     PollNothingInv, RereadInv, SaveInv, RaiseInv, TabMovesInv, LogInInv DEF FetchStep
<1>2. ASSUME UNCHANGED vars PROVE IInv'
  BY <1>2 DEF vars, IInv, TypeOK, Answer, SavedIsKept, FetchInv, InHand, WaitIsTrue, StateIsGiven,
              OwnLogin, Active
<1> QED
  BY <1>1, <1>2, LoginEndsInv DEF Next

LEMMA Inductive == Spec => []IInv
BY InitInv, StepInv, PTL DEF Spec

(* Every variable has its type, and a fetch that comes to save its state    *)
(* has the content of a page to return.                                     *)
THEOREM TypeCorrect == Spec => []TypeOK
<1>1. IInv => TypeOK
  BY DEF IInv
<1> QED
  BY <1>1, Inductive, PTL

(* Of fetches that do not overlap none loses a login that one before it has *)
(* saved and that the site still accepts, whatever state writes are cut.    *)
THEOREM SavedLoginsAreKept == Spec => []LoginIsKept
<1>1. IInv => LoginIsKept
  BY DEF IInv, SavedIsKept, LoginIsKept
<1> QED
  BY <1>1, Inductive, PTL

(* A login wait that ended because the page got denser has seen the page    *)
(* change, for all pages and densities; storage_state_used is what the      *)
(* context was given, if no fetch ran beside it.                            *)
THEOREM WaitsTellTheTruth == Spec => []AnswersTellTheTruth
<1>1. IInv => AnswersTellTheTruth
  <2> SUFFICES ASSUME IInv, NEW f \in Fetches, pc[f] = "saving"
               PROVE  /\ Answer(f).login_wait_reason
                           \in {"density_improved_not_login", "source_url_returned_not_login"}
                           => moved[f]
                      /\ ~overlapped => Answer(f).storage_state_used = given[f]
    BY DEF AnswersTellTheTruth
  <2>1. WaitIsTrue(f) /\ StateIsGiven(f) /\ Active(f)
    BY DEF IInv, FetchInv, Active, Ended
  <2> QED
    BY <2>1 DEF WaitIsTrue, StateIsGiven, Answer
<1> QED
  BY <1>1, Inductive, PTL
=============================================================================
