--------------------------- MODULE HttpFetcherProofs ---------------------------
(****************************************************************************)
(* Proofs about HttpFetcher for any number of concurrent fetches, versions  *)
(* of the page and attempts: what is served is one page with its validator, *)
(* and what a 304 has confirmed is the page that the server confirmed.      *)
(****************************************************************************)
EXTENDS HttpFetcher, TLAPS

Whole(p) == p.body \in Versions /\ (p.cut \/ p.tag = Tag(p.body))

(* The two files are never cut themselves; they can only be of two saves.   *)
FilesAreWhole ==
  /\ body \in Versions \cup {None}
  /\ meta \in Metas \cup {None}
  /\ Loadable => Whole(Loaded)

(* What a fetch has loaded to have it revalidated.                          *)
LoadedIsWhole(f) == cached[f] # None => Whole(cached[f])

(* The server says "unmodified" only of the validator it was sent, and that *)
(* validator is the one of the version it has.                              *)
ConfirmedTag(f) ==
  pc[f] = "answered" =>
    /\ reply[f] \in Replies
    /\ reply[f].kind = "unmodified" =>
         cached[f] # None /\ cached[f].tag # None /\ cached[f].tag = Tag(reply[f].version)

(* A fetch under way, or one that raised, has no answer of an earlier call. *)
AnswerOfThisCall(f) == pc[f] # "returned" => answer[f] = None

(* AnswersAreWhole and RevalidatedIsCurrent for one fetch.                  *)
AnswerIsGood(f) ==
  answer[f] # None =>
    /\ answer[f].pair # None => Whole(answer[f].pair)
    /\ answer[f].how = "revalidated" =>
         answer[f].pair.cut \/ answer[f].pair.body = reply[f].version

FetchInv(f) == LoadedIsWhole(f) /\ ConfirmedTag(f) /\ AnswerOfThisCall(f) /\ AnswerIsGood(f)

IInv == TypeOK /\ FilesAreWhole /\ \A f \in Fetches : FetchInv(f)

-----------------------------------------------------------------------------
(* Lemmas                                                                   *)

LEMMA TagTypes ==
  ASSUME NEW v \in Versions
  PROVE  /\ Tag(v) \in Tagged \cup {None}
         /\ \A w \in Versions : Tag(v) # None /\ Tag(v) = Tag(w) => v = w
BY HttpAssumption DEF Tag

LEMMA LoadedPair ==
  ASSUME IInv, Loadable
  PROVE  Loaded \in Pairs /\ Whole(Loaded)
BY DEF IInv, FilesAreWhole, Loadable, Loaded, Pairs, Metas, Whole

(* What is saved is whole, and if it is a cached page that the server has   *)
(* just confirmed, it is the page of that answer.                           *)
LEMMA SavedPair ==
  ASSUME IInv, NEW f \in Fetches, Saves(f)
  PROVE  /\ ToSave(f) \in Pairs
         /\ Whole(ToSave(f))
         /\ Unmodified(f) => ToSave(f).cut \/ ToSave(f).body = reply[f].version
<1>1. pc[f] = "answered" /\ reply[f] \in Replies /\ reply[f].version \in Versions
  BY DEF Saves, IInv, FetchInv, ConfirmedTag, Replies
<1>2. CASE Unmodified(f)
  <2>1. /\ ToSave(f) = cached[f]
        /\ cached[f] \in Pairs /\ Whole(cached[f])
        /\ cached[f].tag # None /\ cached[f].tag = Tag(reply[f].version)
    BY <1>1, <1>2 DEF ToSave, Unmodified, IInv, TypeOK, FetchInv, LoadedIsWhole, ConfirmedTag
  <2> QED
    BY <1>1, <2>1, TagTypes DEF Whole
<1>3. CASE ~Unmodified(f)
  BY <1>1, <1>3, TagTypes DEF ToSave, Pairs, Whole
<1> QED
  BY <1>2, <1>3

(* A save, whole or cut between its renames, leaves whole files.            *)
LEMMA SaveKeepsFiles ==
  ASSUME IInv, NEW p \in Pairs, Whole(p), Saved(p) \/ SaveCut(p)
  PROVE  FilesAreWhole'
<1>1. CASE Saved(p)
  BY <1>1 DEF Saved, FilesAreWhole, Loadable, Loaded, Whole, Pairs, Metas
<1>2. CASE UNCHANGED <<body, meta>>
  BY <1>2 DEF IInv, FilesAreWhole, Loadable, Loaded, Whole
<1>3. CASE body' = p.body /\ meta' = IF meta = None THEN None ELSE [meta EXCEPT !.cut = TRUE]
  <2>1. meta' = None \/ (meta' \in Metas /\ meta'.cut)
    BY <1>3 DEF IInv, FilesAreWhole, Metas
  <2> QED
    BY <1>3, <2>1 DEF FilesAreWhole, Loadable, Loaded, Whole
<1> QED
  BY <1>1, <1>2, <1>3 DEF SaveCut

LEMMA FilesKept ==
  ASSUME IInv, UNCHANGED <<body, meta>>
  PROVE  FilesAreWhole' /\ body' \in Versions \cup {None, Torn} /\ meta' \in Metas \cup {None, Torn}
BY DEF IInv, FilesAreWhole, Loadable, Loaded, Whole

(* A step of one fetch has only to be looked at for that fetch.             *)
LEMMA Local ==
  ASSUME IInv, NEW f \in Fetches, TypeOK', FilesAreWhole', FetchInv(f)',
         \A g \in Fetches \ {f} : /\ pc'[g] = pc[g] /\ cached'[g] = cached[g]
                                  /\ reply'[g] = reply[g] /\ answer'[g] = answer[g]
  PROVE  IInv'
<1>1. \A g \in Fetches \ {f} : FetchInv(g)'
  BY DEF IInv, FetchInv, LoadedIsWhole, ConfirmedTag, AnswerOfThisCall, AnswerIsGood, Whole
<1> QED
  BY <1>1 DEF IInv

LEMMA InitInv == Init => IInv
<1> SUFFICES ASSUME Init PROVE IInv
  OBVIOUS
<1>1. 0 \in 0 .. MaxAttempts
  BY HttpAssumption
<1>2. TypeOK
  BY <1>1 DEF Init, TypeOK, Idle
<1>3. FilesAreWhole
  BY DEF Init, FilesAreWhole, Loadable
<1>4. ASSUME NEW f \in Fetches PROVE FetchInv(f)
  BY DEF Init, FetchInv, LoadedIsWhole, ConfirmedTag, AnswerOfThisCall, AnswerIsGood
<1> QED
  BY <1>2, <1>3, <1>4 DEF IInv

-----------------------------------------------------------------------------
(* Steps                                                                    *)

LEMMA RaiseInv ==
  ASSUME IInv, NEW f \in Fetches, pc[f] \notin Idle, Raise(f), FilesAreWhole',
         UNCHANGED <<limiter, page>>,
         body' \in Versions \cup {None, Torn}, meta' \in Metas \cup {None, Torn}
  PROVE  IInv'
<1>1. 0 \in 0 .. MaxAttempts
  BY HttpAssumption
<1>2. TypeOK'
  BY <1>1 DEF IInv, TypeOK, Raise, Idle
<1>3. FetchInv(f)'
  BY DEF IInv, TypeOK, FetchInv, LoadedIsWhole, ConfirmedTag, AnswerOfThisCall, AnswerIsGood,
         Raise, Idle
<1> QED
  BY <1>2, <1>3, Local DEF Raise, IInv, TypeOK

LEMMA RetryInv ==
  ASSUME IInv, NEW f \in Fetches, pc[f] \notin Idle, Retry(f), UNCHANGED <<limiter, page, body, meta>>
  PROVE  IInv'
<1>1. CASE attempt[f] < MaxAttempts
  <2>1. attempt[f] + 1 \in 0 .. MaxAttempts
    BY <1>1, HttpAssumption DEF IInv, TypeOK
  <2>2. TypeOK'
    BY <1>1, <2>1 DEF IInv, TypeOK, Retry, Idle
  <2>3. FetchInv(f)'
    BY <1>1 DEF IInv, TypeOK, FetchInv, LoadedIsWhole, ConfirmedTag, AnswerOfThisCall,
       AnswerIsGood, Retry, Idle, Whole
  <2> QED
    BY <1>1, <2>2, <2>3, FilesKept, Local DEF Retry, IInv, TypeOK
<1>2. CASE ~(attempt[f] < MaxAttempts)
  BY <1>2, FilesKept, RaiseInv DEF Retry
<1> QED
  BY <1>1, <1>2

(* A hit is whole because the files are.                                    *)
LEMMA StartInv == \A f \in Fetches : IInv /\ (Start(f) \/ StartOther(f)) => IInv'
<1> SUFFICES ASSUME NEW f \in Fetches, IInv, Start(f) \/ StartOther(f) PROVE IInv'
  OBVIOUS
<1>1. 0 \in 0 .. MaxAttempts /\ (MaxAttempts # 0 => 1 \in 0 .. MaxAttempts)
  BY HttpAssumption
<1>2. /\ pc[f] \in Idle /\ UNCHANGED <<limiter, page, body, meta>>
      /\ reply' = [reply EXCEPT ![f] = None]
  BY DEF Start, StartOther
<1>3. CASE Start(f) /\ Loadable /\ ~meta.stale
  <2>1. Return(f, "hit", Loaded) /\ Loaded \in Pairs /\ Whole(Loaded)
    BY <1>3, LoadedPair DEF Start
  <2>2. TypeOK'
    BY <1>1, <1>2, <2>1 DEF IInv, TypeOK, Return, Idle, Answers
  <2>3. FetchInv(f)'
    BY <1>2, <2>1 DEF IInv, TypeOK, FetchInv, LoadedIsWhole, ConfirmedTag, AnswerOfThisCall,
       AnswerIsGood, Return, Whole
  <2> QED
    BY <1>2, <2>1, <2>2, <2>3, FilesKept, Local DEF Return, IInv, TypeOK
<1>4. CASE Start(f) /\ ~(Loadable /\ ~meta.stale)
  <2>1. /\ pc' = [pc EXCEPT ![f] = IF MaxAttempts = 0 THEN "raised" ELSE "waiting"]
        /\ attempt' = [attempt EXCEPT ![f] = IF MaxAttempts = 0 THEN 0 ELSE 1]
        /\ cached' = [cached EXCEPT ![f] = IF Loadable THEN Loaded ELSE None]
        /\ answer' = [answer EXCEPT ![f] = None]
    BY <1>4 DEF Start
  <2>2. Loadable => Loaded \in Pairs /\ Whole(Loaded)
    BY LoadedPair
  <2>3. TypeOK'
    BY <1>1, <1>2, <2>1, <2>2 DEF IInv, TypeOK, Idle
  <2>4. FetchInv(f)'
    BY <1>2, <2>1, <2>2 DEF IInv, TypeOK, FetchInv, LoadedIsWhole, ConfirmedTag,
       AnswerOfThisCall, AnswerIsGood, Whole
  <2> QED
    BY <1>2, <2>1, <2>3, <2>4, FilesKept, Local DEF IInv, TypeOK
<1>5. CASE StartOther(f)
  <2>1. TypeOK'
    BY <1>1, <1>2, <1>5 DEF IInv, TypeOK, Idle, StartOther
  <2>2. FetchInv(f)'
    BY <1>2, <1>5 DEF IInv, TypeOK, FetchInv, LoadedIsWhole, ConfirmedTag,
       AnswerOfThisCall, AnswerIsGood, StartOther
  <2> QED
    BY <1>2, <1>5, <2>1, <2>2, FilesKept, Local DEF IInv, TypeOK, StartOther
<1> QED
  BY <1>3, <1>4, <1>5

LEMMA EnterGuardInv == \A f \in Fetches : IInv /\ EnterGuard(f) => IInv'
<1> SUFFICES ASSUME NEW f \in Fetches, IInv, EnterGuard(f) PROVE IInv'
  OBVIOUS
<1>1. TypeOK'
  BY DEF EnterGuard, IInv, TypeOK, Idle
<1>2. FetchInv(f)'
  BY DEF EnterGuard, IInv, TypeOK, FetchInv, LoadedIsWhole, ConfirmedTag, AnswerOfThisCall,
     AnswerIsGood, Whole
<1> QED
  BY <1>1, <1>2, FilesKept, Local DEF EnterGuard, IInv, TypeOK

(* A 304 is an answer to the validator of what the fetch has loaded.        *)
LEMMA ServerAnswersInv == \A f \in Fetches : IInv /\ ServerAnswers(f) => IInv'
<1> SUFFICES ASSUME NEW f \in Fetches, IInv, ServerAnswers(f) PROVE IInv'
  OBVIOUS
<1>1. PICK r \in Replying(f) : reply' = [reply EXCEPT ![f] = r]
  BY DEF ServerAnswers
<1>2. /\ pc[f] = "asking" /\ pc' = [pc EXCEPT ![f] = "answered"]
      /\ UNCHANGED <<limiter, page, body, meta, attempt, cached, answer>>
  BY DEF ServerAnswers
<1>3. /\ r \in Replies
      /\ r.kind = "unmodified" => Condition(f) # None /\ Condition(f) = Tag(r.version)
  BY DEF Replying, Replies, IInv, TypeOK
<1>4. TypeOK'
  BY <1>1, <1>2, <1>3 DEF IInv, TypeOK, Idle
<1>5. FetchInv(f)'
  BY <1>1, <1>2, <1>3 DEF IInv, TypeOK, FetchInv, LoadedIsWhole, ConfirmedTag, AnswerOfThisCall,
     AnswerIsGood, Whole, Condition
<1> QED
  BY <1>1, <1>2, <1>4, <1>5, FilesKept, Local DEF IInv, TypeOK

LEMMA FailureInv ==
  \A f \in Fetches :
    IInv /\ (GuardRaises(f) \/ Disconnected(f) \/ RequestRaises(f) \/ Busy(f)) => IInv'
<1> SUFFICES ASSUME NEW f \in Fetches, IInv,
                    GuardRaises(f) \/ Disconnected(f) \/ RequestRaises(f) \/ Busy(f)
             PROVE  IInv'
  OBVIOUS
<1>1. UNCHANGED <<limiter, page, body, meta>> /\ pc[f] \notin Idle
  BY DEF GuardRaises, Disconnected, RequestRaises, Busy, Idle
<1>2. CASE GuardRaises(f) \/ RequestRaises(f)
  BY <1>1, <1>2, FilesKept, RaiseInv DEF GuardRaises, RequestRaises
<1>3. CASE Disconnected(f) \/ Busy(f)
  BY <1>1, <1>3, RetryInv DEF Disconnected, Busy
<1> QED
  BY <1>2, <1>3

(* What is saved is what is returned.                                       *)
LEMMA SaveAndReturnInv == \A f \in Fetches : IInv /\ SaveAndReturn(f) => IInv'
<1> SUFFICES ASSUME NEW f \in Fetches, IInv, SaveAndReturn(f) PROVE IInv'
  OBVIOUS
<1>1. /\ ToSave(f) \in Pairs
      /\ Whole(ToSave(f))
      /\ Unmodified(f) => ToSave(f).cut \/ ToSave(f).body = reply[f].version
  BY SavedPair DEF SaveAndReturn
<1> DEFINE how == IF Unmodified(f) THEN "revalidated" ELSE "fetched"
<1>2. Saved(ToSave(f)) /\ Return(f, how, ToSave(f)) /\ UNCHANGED <<limiter, page, reply>>
  BY DEF SaveAndReturn
<1>3. FilesAreWhole'
  BY <1>1, <1>2, SaveKeepsFiles
<1>4. 0 \in 0 .. MaxAttempts
  BY HttpAssumption
<1>5. TypeOK'
  BY <1>1, <1>2, <1>3, <1>4 DEF IInv, TypeOK, FilesAreWhole, Return, Idle, Answers
<1>6. FetchInv(f)'
  BY <1>1, <1>2 DEF IInv, TypeOK, FetchInv, LoadedIsWhole, ConfirmedTag, AnswerOfThisCall,
     AnswerIsGood, Return, Whole
<1> QED
  BY <1>2, <1>3, <1>5, <1>6, Local DEF Return, IInv, TypeOK

LEMMA SaveRaisesInv == \A f \in Fetches : IInv /\ SaveRaises(f) => IInv'
<1> SUFFICES ASSUME NEW f \in Fetches, IInv, SaveRaises(f) PROVE IInv'
  OBVIOUS
<1>1. FilesAreWhole'
  BY SavedPair, SaveKeepsFiles DEF SaveRaises
<1> QED
  BY <1>1, RaiseInv DEF SaveRaises, Saves, Idle, FilesAreWhole

LEMMA ReturnStatusInv == \A f \in Fetches : IInv /\ ReturnStatus(f) => IInv'
<1> SUFFICES ASSUME NEW f \in Fetches, IInv, ReturnStatus(f) PROVE IInv'
  OBVIOUS
<1>1. Return(f, "status", None) /\ UNCHANGED <<limiter, page, body, meta, reply>>
  BY DEF ReturnStatus
<1>2. 0 \in 0 .. MaxAttempts
  BY HttpAssumption
<1>3. TypeOK'
  BY <1>1, <1>2 DEF IInv, TypeOK, Return, Idle, Answers
<1>4. FetchInv(f)'
  BY <1>1 DEF IInv, TypeOK, FetchInv, LoadedIsWhole, ConfirmedTag, AnswerOfThisCall,
     AnswerIsGood, Return
<1> QED
  BY <1>1, <1>3, <1>4, FilesKept, Local DEF Return, IInv, TypeOK

(* The server's page and the age of an entry change nothing that a fetch    *)
(* relies on.                                                               *)
LEMMA WorldInv == IInv /\ (Publish \/ Expire) => IInv'
<1> SUFFICES ASSUME IInv, Publish \/ Expire PROVE IInv'
  OBVIOUS
<1>1. UNCHANGED <<limiter, body, pc, attempt, cached, reply, answer>>
  BY DEF Publish, Expire
<1>2. FilesAreWhole' /\ TypeOK'
  <2>1. CASE Publish
    BY <2>1, FilesKept DEF Publish, IInv, TypeOK
  <2>2. CASE Expire
    BY <2>2 DEF Expire, IInv, TypeOK, FilesAreWhole, Metas, Loadable, Loaded, Whole
  <2> QED
    BY <2>1, <2>2
<1>3. ASSUME NEW f \in Fetches PROVE FetchInv(f)'
  BY <1>1 DEF IInv, FetchInv, LoadedIsWhole, ConfirmedTag, AnswerOfThisCall, AnswerIsGood, Whole
<1> QED
  BY <1>2, <1>3 DEF IInv

LEMMA CrashInv == IInv /\ Crash => IInv'
<1> SUFFICES ASSUME IInv, Crash PROVE IInv'
  OBVIOUS
<1>1. FilesAreWhole'
  <2>1. CASE UNCHANGED <<body, meta>>
    BY <2>1, FilesKept
  <2>2. CASE \E f \in Fetches : Saves(f) /\ SaveCut(ToSave(f))
    BY <2>2, SavedPair, SaveKeepsFiles
  <2> QED
    BY <2>1, <2>2 DEF Crash
<1>2. 0 \in 0 .. MaxAttempts
  BY HttpAssumption
<1>3. TypeOK'
  BY <1>1, <1>2 DEF Crash, IInv, TypeOK, FilesAreWhole, Idle
<1>4. ASSUME NEW f \in Fetches PROVE FetchInv(f)'
  BY DEF Crash, FetchInv, LoadedIsWhole, ConfirmedTag, AnswerOfThisCall, AnswerIsGood
<1> QED
  BY <1>1, <1>3, <1>4 DEF IInv

LEMMA StepInv == IInv /\ [Next]_vars => IInv'
<1> SUFFICES ASSUME IInv, [Next]_vars PROVE IInv'
  OBVIOUS
<1>1. ASSUME NEW f \in Fetches, Start(f) \/ StartOther(f) PROVE IInv'
  BY <1>1, StartInv
<1>2. ASSUME NEW f \in Fetches, FetchStep(f) PROVE IInv'
  BY <1>2, EnterGuardInv, ServerAnswersInv, FailureInv, SaveAndReturnInv, SaveRaisesInv,
     ReturnStatusInv DEF FetchStep
<1>3. CASE Publish \/ Expire
  BY <1>3, WorldInv
<1>4. CASE Crash
  BY <1>4, CrashInv
<1>5. CASE UNCHANGED vars
  <2>1. TypeOK' /\ FilesAreWhole'
    BY <1>5, FilesKept DEF vars, IInv, TypeOK
  <2>2. ASSUME NEW f \in Fetches PROVE FetchInv(f)'
    BY <1>5 DEF vars, IInv, FetchInv, LoadedIsWhole, ConfirmedTag, AnswerOfThisCall,
       AnswerIsGood, Whole
  <2> QED
    BY <2>1, <2>2 DEF IInv
<1> QED
  BY <1>1, <1>2, <1>3, <1>4, <1>5 DEF Next

LEMMA Inductive == Spec => []IInv
<1> QED
  BY InitInv, StepInv, PTL DEF Spec

-----------------------------------------------------------------------------
(* Theorems                                                                 *)

(* Every variable keeps its type, so that no fetch makes more attempts than *)
(* its policy allows.                                                       *)
THEOREM TypeCorrect == Spec => []TypeOK
<1>1. IInv => TypeOK
  BY DEF IInv
<1> QED
  BY <1>1, Inductive, PTL

(* However fetches overlap, saves fail and the process dies: what fetch()   *)
(* returns is a whole page, with its own validator unless a save was cut    *)
(* between its renames.                                                     *)
THEOREM WholeAnswers == Spec => []AnswersAreWhole
<1>1. IInv => AnswersAreWhole
  BY DEF IInv, FetchInv, AnswerIsGood, AnswersAreWhole, Whole
<1> QED
  BY <1>1, Inductive, PTL

(* A page returned after a 304 is the one the server had when it said so,   *)
(* though another fetch may have saved a later one meanwhile.               *)
THEOREM RevalidationIsSound == Spec => []RevalidatedIsCurrent
<1>1. IInv => RevalidatedIsCurrent
  BY DEF IInv, FetchInv, AnswerIsGood, RevalidatedIsCurrent
<1> QED
  BY <1>1, Inductive, PTL
=============================================================================
