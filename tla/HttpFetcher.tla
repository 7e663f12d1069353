----------------------------- MODULE HttpFetcher -----------------------------
(****************************************************************************)
(* HttpFetcher.fetch with its DiskCache (webkit/fetchers/http.py): the      *)
(* concurrent fetches of one url by the tasks of one process, the two files *)
(* they cache the page in, and crashes of that process. The tasks switch    *)
(* only where the code awaits: a load or a save of the cache is one step,   *)
(* unless the process dies in it.                                           *)
(*                                                                          *)
(* A page is its version. The validator a server sends with it (ETag,       *)
(* Last-Modified) tells versions apart. "cut" is history: body and meta     *)
(* were not written by one save.                                            *)
(****************************************************************************)
EXTENDS Naturals

CONSTANTS
  Fetches,          \* tasks, each of which calls fetch() again and again
  Versions,         \* of the page
  Tagged,           \* the versions that are sent with a validator
  MaxAttempts,      \* RetryPolicy.max_attempts
  Expiring,         \* ttl_s > 0
  Limiters,         \* "HostLimiter", which is the default, or "other"
  Torn,             \* the content of a file whose writing was cut
  None

ASSUME HttpAssumption ==
  /\ Tagged \subseteq Versions
  /\ MaxAttempts \in Nat
  /\ Expiring \in BOOLEAN
  /\ Torn \notin Versions /\ None \notin Versions /\ Torn # None

VARIABLES
  limiter,          \* the limiter of the fetcher
  page,             \* what the server has
  body,             \* <key>.bin
  meta,             \* <key>.json
  pc,               \* where each fetch is
  attempt,          \* the number of its request
  cached,           \* what it loaded and will have revalidated
  reply,            \* what the server answered
  answer            \* what it returned

vars == <<limiter, page, body, meta, pc, attempt, cached, reply, answer>>

Tag(v) == IF v \in Tagged THEN v ELSE None

Metas   == [tag : Tagged \cup {None}, stale : BOOLEAN, cut : BOOLEAN]
Pairs   == [body : Versions \cup {Torn}, tag : Tagged \cup {None}, cut : BOOLEAN]
Replies == [kind : {"page", "unmodified", "busy", "other"}, version : Versions]
Answers == [how : {"hit", "revalidated", "fetched", "status"}, pair : Pairs \cup {None}]
Idle    == {"idle", "returned", "raised"}

Init ==
  /\ limiter \in Limiters
  /\ page \in Versions
  /\ body = None
  /\ meta = None
  /\ pc = [f \in Fetches |-> "idle"]
  /\ attempt = [f \in Fetches |-> 0]
  /\ cached = [f \in Fetches |-> None]
  /\ reply = [f \in Fetches |-> None]
  /\ answer = [f \in Fetches |-> None]

-----------------------------------------------------------------------------
(* The disk cache                                                           *)

Loadable == body # None /\ meta # None /\ meta # Torn

Loaded == [body |-> body, tag |-> meta.tag, cut |-> meta.cut]

Saved(p) ==
  /\ body' = p.body
  /\ meta' = [tag |-> p.tag, stale |-> FALSE, cut |-> p.cut]

(* Variant: the files are written where they are read.                      *)
CutInPlace(p) ==
  \/ body' = Torn /\ UNCHANGED meta
  \/ body' = p.body /\ meta' = Torn

(* The process dies in save(): both files have a temporary name until they  *)
(* are complete, the body is the first to be renamed.                       *)
SaveCut(p) ==
  \/ UNCHANGED <<body, meta>>
  \/ /\ body' = p.body
     /\ meta' = IF meta = None THEN None ELSE [meta EXCEPT !.cut = TRUE]

-----------------------------------------------------------------------------
(* fetch()                                                                  *)

Return(f, how, pair) ==
  /\ pc' = [pc EXCEPT ![f] = "returned"]
  /\ answer' = [answer EXCEPT ![f] = [how |-> how, pair |-> pair]]
  /\ cached' = [cached EXCEPT ![f] = None]
  /\ attempt' = [attempt EXCEPT ![f] = 0]

Raise(f) ==
  /\ pc' = [pc EXCEPT ![f] = "raised"]
  /\ cached' = [cached EXCEPT ![f] = None]
  /\ attempt' = [attempt EXCEPT ![f] = 0]
  /\ reply' = [reply EXCEPT ![f] = None]
  /\ UNCHANGED answer

(* From the call to its first await: a fresh entry is the answer, a stale   *)
(* one is kept for a conditional request.                                   *)
Start(f) ==
  /\ pc[f] \in Idle
  /\ reply' = [reply EXCEPT ![f] = None]
  /\ IF Loadable /\ ~meta.stale
     THEN Return(f, "hit", Loaded)
     ELSE /\ pc' = [pc EXCEPT ![f] = IF MaxAttempts = 0 THEN "raised" ELSE "waiting"]
          /\ attempt' = [attempt EXCEPT ![f] = IF MaxAttempts = 0 THEN 0 ELSE 1]
          /\ cached' = [cached EXCEPT ![f] = IF Loadable THEN Loaded ELSE None]
          /\ answer' = [answer EXCEPT ![f] = None]
  /\ UNCHANGED <<limiter, page, body, meta>>

(* Any other method than GET.                                               *)
StartOther(f) ==
  /\ pc[f] \in Idle
  /\ pc' = [pc EXCEPT ![f] = "raised"]
  /\ attempt' = [attempt EXCEPT ![f] = 0]
  /\ cached' = [cached EXCEPT ![f] = None]
  /\ reply' = [reply EXCEPT ![f] = None]
  /\ answer' = [answer EXCEPT ![f] = None]
  /\ UNCHANGED <<limiter, page, body, meta>>

(* The limiter lets the request through, after a while.                     *)
EnterGuard(f) ==
  /\ limiter # "HostLimiter"
  /\ pc[f] = "waiting"
  /\ pc' = [pc EXCEPT ![f] = "asking"]
  /\ UNCHANGED <<limiter, page, body, meta, attempt, cached, reply, answer>>

(* A HostLimiter raises: the name _Guard.__aenter__ calls is mangled with   *)
(* the name of the nested class, and there is no such method.               *)
GuardRaises(f) ==
  /\ limiter = "HostLimiter"
  /\ pc[f] = "waiting"
  /\ Raise(f)
  /\ UNCHANGED <<limiter, page, body, meta>>

Condition(f) == IF cached[f] = None THEN None ELSE cached[f].tag

Replying(f) ==
  {[kind |-> k, version |-> page] :
     k \in {"page", "busy", "other"}
           \cup (IF Condition(f) # None /\ Condition(f) = Tag(page) THEN {"unmodified"} ELSE {})}

ServerAnswers(f) ==
  /\ pc[f] = "asking"
  /\ reply' \in {[reply EXCEPT ![f] = r] : r \in Replying(f)}
  /\ pc' = [pc EXCEPT ![f] = "answered"]
  /\ UNCHANGED <<limiter, page, body, meta, attempt, cached, answer>>

(* Variant: the attempts are not counted.                                   *)
AlwaysRetry(f) ==
  /\ pc' = [pc EXCEPT ![f] = "waiting"]
  /\ UNCHANGED <<attempt, cached, reply, answer>>

(* Variant: one attempt too many.                                           *)
RetryOnceMore(f) ==
  /\ attempt' = [attempt EXCEPT ![f] = @ + 1]
  /\ pc' = [pc EXCEPT ![f] = IF attempt[f] <= MaxAttempts THEN "waiting" ELSE "raised"]
  /\ UNCHANGED <<cached, reply, answer>>

(* A time-out or a broken connection: again after the backoff, if an        *)
(* attempt is left.                                                         *)
Retry(f) ==
  IF attempt[f] < MaxAttempts
  THEN /\ attempt' = [attempt EXCEPT ![f] = @ + 1]
       /\ pc' = [pc EXCEPT ![f] = "waiting"]
       /\ reply' = [reply EXCEPT ![f] = None]
       /\ UNCHANGED <<cached, answer>>
  ELSE Raise(f)

Disconnected(f) ==
  /\ pc[f] \in {"asking", "answered"}
  /\ Retry(f)
  /\ UNCHANGED <<limiter, page, body, meta>>

RequestRaises(f) ==
  /\ pc[f] \in {"asking", "answered"}
  /\ Raise(f)
  /\ UNCHANGED <<limiter, page, body, meta>>

Unmodified(f) == reply[f].kind = "unmodified" /\ cached[f] # None

(* Variant: what is refreshed is what the cache has by now.                 *)
NowCached(f) == IF Unmodified(f) /\ Loadable THEN Loaded
                ELSE [body |-> reply[f].version, tag |-> Tag(reply[f].version), cut |-> FALSE]

(* What a reply has fetch() save: the cached page with a new date, or the   *)
(* page that came.                                                          *)
ToSave(f) == IF Unmodified(f) THEN cached[f]
             ELSE [body |-> reply[f].version, tag |-> Tag(reply[f].version), cut |-> FALSE]

Saves(f) == pc[f] = "answered" /\ (Unmodified(f) \/ reply[f].kind = "page")

SaveAndReturn(f) ==
  /\ Saves(f)
  /\ Saved(ToSave(f))
  /\ Return(f, IF Unmodified(f) THEN "revalidated" ELSE "fetched", ToSave(f))
  /\ UNCHANGED <<limiter, page, reply>>

(* A save that raises (a full disk) is caught like a failed request; it has *)
(* done as much as one that is cut by a crash.                              *)
SaveRaises(f) ==
  /\ Saves(f)
  /\ SaveCut(ToSave(f))
  /\ Raise(f)
  /\ UNCHANGED <<limiter, page>>

Busy(f) ==
  /\ pc[f] = "answered" /\ reply[f].kind = "busy" /\ attempt[f] < MaxAttempts
  /\ Retry(f)
  /\ UNCHANGED <<limiter, page, body, meta>>

(* Any other status, the last 429 or 5xx, and an empty page.                *)
ReturnStatus(f) ==
  /\ pc[f] = "answered" /\ ~Saves(f)
  /\ ~(reply[f].kind = "busy" /\ attempt[f] < MaxAttempts)
  /\ Return(f, "status", None)
  /\ UNCHANGED <<limiter, page, body, meta, reply>>

-----------------------------------------------------------------------------
(* The server, time, crashes                                                *)

Publish ==
  /\ page' \in Versions \ {page}
  /\ UNCHANGED <<limiter, body, meta, pc, attempt, cached, reply, answer>>

Expire ==
  /\ Expiring
  /\ meta \notin {None, Torn}
  /\ ~meta.stale
  /\ meta' = [meta EXCEPT !.stale = TRUE]
  /\ UNCHANGED <<limiter, page, body, pc, attempt, cached, reply, answer>>

(* The process dies and all its fetches with it, perhaps in a save.         *)
Crash ==
  /\ pc' = [f \in Fetches |-> "idle"]
  /\ \/ UNCHANGED <<body, meta>>
     \/ \E f \in Fetches : Saves(f) /\ SaveCut(ToSave(f))
  /\ cached' = [f \in Fetches |-> None]
  /\ reply' = [f \in Fetches |-> None]
  /\ answer' = [f \in Fetches |-> None]
  /\ attempt' = [f \in Fetches |-> 0]
  /\ UNCHANGED <<limiter, page>>

FetchStep(f) ==
  \/ EnterGuard(f) \/ GuardRaises(f) \/ ServerAnswers(f) \/ Disconnected(f) \/ RequestRaises(f)
  \/ SaveAndReturn(f) \/ SaveRaises(f) \/ Busy(f) \/ ReturnStatus(f)

Next ==
  \/ \E f \in Fetches : Start(f) \/ StartOther(f) \/ FetchStep(f)
  \/ Publish \/ Expire \/ Crash

Spec == Init /\ [][Next]_vars

FairSpec == Spec /\ \A f \in Fetches : WF_vars(FetchStep(f))

-----------------------------------------------------------------------------
(* Properties                                                               *)

(* Every variable keeps its type.                                           *)
TypeOK ==
  /\ limiter \in Limiters
  /\ page \in Versions
  /\ body \in Versions \cup {None, Torn}
  /\ meta \in Metas \cup {None, Torn}
  /\ pc \in [Fetches -> Idle \cup {"waiting", "asking", "answered"}]
  /\ attempt \in [Fetches -> 0 .. MaxAttempts]
  /\ cached \in [Fetches -> Pairs \cup {None}]
  /\ reply \in [Fetches -> Replies \cup {None}]
  /\ answer \in [Fetches -> Answers \cup {None}]

(* No crash and no failed save makes fetch() return part of a page, and the *)
(* validator it returns is that of the page it returns, unless a save was   *)
(* cut between its two renames.                                             *)
AnswersAreWhole ==
  \A f \in Fetches : answer[f] # None /\ answer[f].pair # None =>
    LET p == answer[f].pair IN
      /\ p.body \in Versions
      /\ p.cut \/ p.tag = Tag(p.body)

(* What fetch() returns after the server's 304 is the page the server had   *)
(* when it said so, whatever other fetches saved meanwhile (the same        *)
(* exception).                                                              *)
RevalidatedIsCurrent ==
  \A f \in Fetches : answer[f] # None /\ answer[f].how = "revalidated" =>
    answer[f].pair.cut \/ answer[f].pair.body = reply[f].version

(* Every fetch ends: the attempts are counted, and each has a time limit.   *)
FetchesEnd ==
  \A f \in Fetches : pc[f] = "waiting" ~> pc[f] \in Idle

(* The rate limit per host (README.md:10) delays a request; it is no reason *)
(* to give it up.                                                           *)
LimiterOnlyDelays ==
  [][\A f \in Fetches : pc[f] = "waiting" => pc'[f] # "raised"]_vars
=============================================================================
