---------------------------- MODULE CrawlerRunner ----------------------------
(****************************************************************************)
(* CrawlerRunner.run (agent_crawler/loop/runner.py) with its PolicyEngine   *)
(* and ResultCache: concurrent runs on one asyncio loop, each of which      *)
(* tries plan after plan until a page passes or its attempts are used up.   *)
(* They share the result cache, and the bundles in it are the objects that  *)
(* earlier runs returned. run() suspends only while it fetches: all that    *)
(* lies between two fetches is one step.                                    *)
(*                                                                          *)
(* A text that enters a cache key is the sequence of its parts between "|", *)
(* the character make_key joins with. A bundle has the id of its run.       *)
(****************************************************************************)
EXTENDS Naturals, Sequences, SequencesExt

CONSTANTS
  Runs,             \* calls of run()
  Requests,         \* CrawlRequests
  Site,             \* the domain policy of each url: browser, adapter, gate
  Words,            \* the parts of texts, and the names of plans
  MaxEntries,       \* max_entries of the cache
  ArtifactManager,  \* an artifact manager is configured
  None

NoText == <<"">>    \* an empty or absent text

RequestType ==
  [url : DOMAIN Site, query : Seq(Words) \ {<<>>}, profile : Seq(Words) \ {<<>>},
   render : {"none", "plain", "structured", "llm"}, persist : BOOLEAN, login : BOOLEAN,
   cacheMode : {"prefer", "refresh", "bypass"}, transport : {"auto", "http", "browser"},
   extract : {"auto", "universal", "adapter", "intelligent"}, attempts : Nat]

Plans == [transport : {"http", "browser"},
          extract   : {"universal", "adapter", "intelligent"},
          adapter   : Words]

Bundles == [plan : Plans, wall : BOOLEAN, login : BOOLEAN, trace : Runs,
            rendered : {"none", "plain", "structured"}]

ASSUME CrawlerAssumption ==
  /\ MaxEntries \in Nat \ {0}
  /\ ArtifactManager \in BOOLEAN
  /\ None \notin Runs \cup Bundles
  /\ {"", "http", "browser", "universal", "adapter", "intelligent"} \subseteq Words
  /\ Requests \subseteq RequestType
  /\ \A u \in DOMAIN Site : /\ u \in Seq(Words) \ {<<>>}
                           /\ Site[u] \in [browser : BOOLEAN, adapter : Words, gate : BOOLEAN]

VARIABLES
  request,          \* what each run was asked
  pc,               \* where it is
  tried,            \* the plans of its attempts so far
  bundle,           \* the bundle it has made
  answer,           \* the run whose bundle it has returned
  cache             \* the cache's entries, the least recently used first

vars == <<request, pc, tried, bundle, answer, cache>>

Fetching == {"fetching", "refetching"}
Ended    == {"returned", "failed", "raised"}

Init ==
  /\ request = [r \in Runs |-> None]
  /\ pc = [r \in Runs |-> "idle"]
  /\ tried = [r \in Runs |-> <<>>]
  /\ bundle = [r \in Runs |-> None]
  /\ answer = [r \in Runs |-> None]
  /\ cache = <<>>

-----------------------------------------------------------------------------
(* The policy engine                                                        *)

BuildPlan(q) ==
  LET site == Site[q.url] IN
  [transport |-> IF q.transport = "browser" \/ (q.transport = "auto" /\ site.browser)
                 THEN "browser" ELSE "http",
   extract   |-> CASE q.extract # "auto"       -> q.extract
                   [] site.adapter # ""        -> "adapter"
                   [] OTHER                    -> "universal",
   adapter   |-> IF q.extract = "universal" THEN "" ELSE site.adapter]

(* Variant: only the extractor changes.                                     *)
SameTransport(plan) ==
  [plan EXCEPT !.extract = IF plan.adapter # "" /\ @ # "adapter" THEN "adapter" ELSE "intelligent"]

UpdatePlanOnFailure(plan) ==
  CASE plan.transport = "http" /\ plan.extract = "universal" /\ plan.adapter # ""
         -> [plan EXCEPT !.extract = "adapter"]
    [] plan.transport = "http" /\ ~(plan.extract = "universal" /\ plan.adapter # "")
         -> [plan EXCEPT !.transport = "browser", !.extract = "universal"]
    [] plan.transport = "browser" /\ plan.adapter # "" /\ plan.extract # "adapter"
         -> [plan EXCEPT !.extract = "adapter"]
    [] plan.transport = "browser" /\ ~(plan.adapter # "" /\ plan.extract # "adapter")
         -> [plan EXCEPT !.extract = "intelligent"]

(* _fallback: the intelligent extractor if the policy has no other idea.    *)
Fallback(plan) ==
  LET next == UpdatePlanOnFailure(plan)
  IN  IF next = plan THEN [plan EXCEPT !.extract = "intelligent"] ELSE next

-----------------------------------------------------------------------------
(* The result cache                                                         *)

(* Variant: the query is left out of the key.                               *)
KeyWithoutQuery(q, plan) == q.url \o q.profile \o <<plan.transport, plan.extract, plan.adapter>>

(* The parts between the "|"; the names of adapters contain none.           *)
MakeKey(q, plan) ==
  q.url \o q.query \o q.profile \o <<plan.transport, plan.extract, plan.adapter>>

Holds(key) == \E i \in DOMAIN cache : cache[i].key = key

At(key) == CHOOSE i \in DOMAIN cache : cache[i].key = key

Live(key) == Holds(key) /\ ~cache[At(key)].stale

Without(key) == IF Holds(key) THEN RemoveAt(cache, At(key)) ELSE cache

(* get(): an entry beyond its time goes, a live one becomes the youngest.   *)
AfterGet(key) == IF Live(key) THEN Append(Without(key), cache[At(key)]) ELSE Without(key)

AfterPut(key, b) ==
  LET longer == Append(Without(key), [key |-> key, bundle |-> b, stale |-> FALSE])
  IN  IF Len(longer) > MaxEntries THEN Tail(longer) ELSE longer

(* result_cache_ttl_s passes for an entry; the domains choose it, so that   *)
(* entries expire in any order.                                             *)
Expire ==
  /\ \E i \in DOMAIN cache :
       /\ ~cache[i].stale
       /\ cache' = [cache EXCEPT ![i].stale = TRUE]
  /\ UNCHANGED <<request, pc, tried, bundle, answer>>

-----------------------------------------------------------------------------
(* run()                                                                    *)

Plan(r) == Last(tried[r])

End(r, how, b) ==
  /\ pc' = [pc EXCEPT ![r] = how]
  /\ answer' = [answer EXCEPT ![r] = b]

Hits(q, plan) == q.cacheMode = "prefer" /\ Live(MakeKey(q, plan))

(* Variant: every hit renders the bundle again.                             *)
AnyToRender(q, b) == q.render # "none"

ToRender(q, b) == q.render # "none" /\ bundle[b].rendered = "none"

(* The cached bundle gets this run's trace, and is rendered if it is not    *)
(* yet; rendering by a language model raises.                               *)
Serve(r, q, b) ==
  \/ /\ ToRender(q, b) /\ q.render = "llm"
     /\ bundle' = [bundle EXCEPT ![b].trace = r]
     /\ End(r, "raised", None)
  \/ /\ ToRender(q, b) /\ q.render # "llm"
     /\ bundle' = [bundle EXCEPT ![b].trace = r, ![b].rendered = q.render]
     /\ End(r, "returned", b)
  \/ /\ ~ToRender(q, b)
     /\ bundle' = [bundle EXCEPT ![b].trace = r]
     /\ End(r, "returned", b)

(* The head of the loop, with the plan to try.                              *)
MaxAttempts(q) == IF q.attempts = 0 THEN 1 ELSE q.attempts

NextAttempt(r, q, plan) ==
  \/ /\ Len(tried[r]) >= MaxAttempts(q)
     /\ End(r, "failed", None)
     /\ UNCHANGED <<tried, bundle, cache>>
  \/ /\ Len(tried[r]) < MaxAttempts(q)
     /\ tried' = [tried EXCEPT ![r] = Append(@, plan)]
     /\ cache' = IF q.cacheMode = "bypass" THEN cache ELSE AfterGet(MakeKey(q, plan))
     /\ \/ /\ Hits(q, plan)
           /\ Serve(r, q, cache[At(MakeKey(q, plan))].bundle)
        \/ /\ ~Hits(q, plan)
           /\ pc' = [pc EXCEPT ![r] = "fetching"]
           /\ UNCHANGED <<bundle, answer>>

Start(r) ==
  /\ pc[r] = "idle"
  /\ \E q \in Requests :
       /\ request' = [request EXCEPT ![r] = q]
       /\ NextAttempt(r, q, BuildPlan(q))

(* The fetch raises, the status is 400 or more, the page cannot be          *)
(* extracted (none can be by the intelligent extractor, a placeholder) or   *)
(* its quality is too low.                                                  *)
AttemptFails(r) ==
  /\ pc[r] \in Fetching
  /\ NextAttempt(r, request[r], Fallback(Plan(r)))
  /\ UNCHANGED request

(* Variant: a TypeError in the second fetch starts the first again.         *)
RetryTypeError(r) ==
  /\ pc[r] \in Fetching
  /\ pc' = [pc EXCEPT ![r] = IF @ = "fetching" THEN "refetching" ELSE "fetching"]
  /\ UNCHANGED <<request, tried, bundle, answer, cache>>

(* A TypeError in the first fetch: it is made again without the options.    *)
FetchTypeError(r) ==
  /\ pc[r] = "fetching"
  /\ pc' = [pc EXCEPT ![r] = "refetching"]
  /\ UNCHANGED <<request, tried, bundle, answer, cache>>

Good(r) == pc[r] \in Fetching /\ Plan(r).extract # "intelligent"

(* Variant: a language model renders.                                       *)
OtherUnimplemented(q) == (Site[q.url].gate /\ q.query # NoText) \/ (q.persist /\ ArtifactManager)

(* What is not implemented raises through run(): the relevance gate, the    *)
(* rendering by a language model, an artifact manager.                      *)
Unimplemented(q) ==
  \/ Site[q.url].gate /\ q.query # NoText
  \/ q.render = "llm"
  \/ q.persist /\ ArtifactManager

PageRaises(r) ==
  /\ Good(r)
  /\ Unimplemented(request[r])
  /\ End(r, "raised", None)
  /\ UNCHANGED <<request, tried, bundle, cache>>

(* Only the browser takes the options and looks for a login wall.           *)
NewBundle(r, wall) ==
  [plan |-> Plan(r), wall |-> wall, rendered |-> request[r].render, trace |-> r,
   login |-> Plan(r).transport = "browser" /\ pc[r] = "fetching" /\ request[r].login]

(* Variant: the key is that of the first plan.                              *)
AcceptUnderFirstKey(r) ==
  /\ Good(r)
  /\ ~Unimplemented(request[r])
  /\ \E wall \in BOOLEAN :
       /\ wall => Plan(r).transport = "browser"
       /\ bundle' = [bundle EXCEPT ![r] = NewBundle(r, wall)]
  /\ cache' = AfterPut(MakeKey(request[r], tried[r][1]), r)
  /\ End(r, "returned", r)
  /\ UNCHANGED <<request, tried>>

PageAccepted(r) ==
  /\ Good(r)
  /\ ~Unimplemented(request[r])
  /\ \E wall \in BOOLEAN :
       /\ wall => Plan(r).transport = "browser"
       /\ bundle' = [bundle EXCEPT ![r] = NewBundle(r, wall)]
  /\ cache' = AfterPut(MakeKey(request[r], Plan(r)), r)
  /\ End(r, "returned", r)
  /\ UNCHANGED <<request, tried>>

-----------------------------------------------------------------------------
RunStep(r) == AttemptFails(r) \/ FetchTypeError(r) \/ PageRaises(r) \/ PageAccepted(r)

Next == (\E r \in Runs : Start(r) \/ RunStep(r)) \/ Expire

Spec == Init /\ [][Next]_vars

(* A fetch returns or raises: navigation, requests and the wait for a login *)
(* all have a time limit.                                                   *)
FairSpec == Spec /\ \A r \in Runs : WF_vars(RunStep(r))

-----------------------------------------------------------------------------
Entries == [key : Seq(Words), bundle : Runs, stale : BOOLEAN]

(* Every variable has its type.                                             *)
TypeOK ==
  /\ request \in [Runs -> Requests \cup {None}]
  /\ pc \in [Runs -> {"idle"} \cup Fetching \cup Ended]
  /\ tried \in [Runs -> Seq(Plans)]
  /\ bundle \in [Runs -> Bundles \cup {None}]
  /\ answer \in [Runs -> Runs \cup {None}]
  /\ cache \in Seq(Entries)

(* No "|" in what the request puts into a key.                              *)
Separable(q) == Len(q.url) = 1 /\ Len(q.query) = 1 /\ Len(q.profile) = 1

SameSubject(p, q) == p.url = q.url /\ p.query = q.query /\ p.profile = q.profile

(* What a run returns was made for the same url, query and profile, by the  *)
(* plan this run had come to, is rendered if that was asked (not always in  *)
(* the mode asked: a hit keeps what another run rendered), and is its own   *)
(* if it was told to refresh or to bypass the cache: whatever other runs    *)
(* have done to cache and bundles between its attempts. (For requests       *)
(* without the separator of the key; see the README for those with one.)    *)
AnswerFits ==
  \A r \in Runs : pc[r] = "returned" =>
    LET q == request[r]
        b == answer[r]
    IN  /\ bundle[b] # None
        /\ Separable(q) => SameSubject(request[b], q) /\ bundle[b].plan = Plan(r)
        /\ q.render # "none" => bundle[b].rendered # "none"
        /\ q.cacheMode # "prefer" => b = r

(* The cache has at most one entry for a key, at most max_entries of them,  *)
(* each filed under the plan its bundle was made by, and only bundles their *)
(* own runs have returned: a run that fails or raises leaves nothing behind.*)
CacheSound ==
  /\ Len(cache) <= MaxEntries
  /\ \A i, j \in DOMAIN cache : cache[i].key = cache[j].key => i = j
  /\ \A i \in DOMAIN cache :
       LET b == cache[i].bundle IN
       /\ bundle[b] # None
       /\ cache[i].key = MakeKey(request[b], bundle[b].plan)
       /\ pc[b] = "returned" /\ answer[b] = b

(* A bundle in the hands of earlier callers changes only when it is handed  *)
(* to another run, which finds its own trace in it (also if its rendering   *)
(* by a language model then raises), and not in its content:                *)
(* plan and page stay, and what has been rendered is not rendered again.    *)
HeldAnswersAreStable ==
  [][\A b \in Runs : bundle[b] # None /\ bundle'[b] # bundle[b] =>
       /\ \E r \in Runs : pc[r] \notin Ended /\ pc'[r] \in Ended /\ bundle'[b].trace = r
       /\ bundle'[b] = [bundle[b] EXCEPT !.trace = bundle'[b].trace, !.rendered = bundle'[b].rendered]
       /\ bundle[b].rendered # "none" => bundle'[b].rendered = bundle[b].rendered]_vars

(* Fallback gets on: http is tried once and first, no plan is tried again   *)
(* but those the browser has for pages it could read (adapter, intelligent),*)
(* and a run that fails although it had two attempts has used the browser.  *)
FallbackGetsOn ==
  \A r \in Runs :
    /\ \A i, j \in DOMAIN tried[r] : i < j =>
         /\ tried[r][j].transport = "browser"
         /\ tried[r][i] = tried[r][j] => tried[r][i].extract # "universal"
    /\ pc[r] = "failed" /\ request[r].attempts >= 2 =>
         \E i \in DOMAIN tried[r] : tried[r][i].transport = "browser"

(* Every run that has begun returns or raises.                              *)
RunsEnd == \A r \in Runs : pc[r] \in Fetching ~> pc[r] \in Ended

(* "Retry with interactive_login=true" (result_mapper.py:202), says the     *)
(* result of a run that met a login wall: a run that asks for the login is  *)
(* then not answered by a page that another one fetched without.            *)
RetryLogsIn ==
  \A r \in Runs : pc[r] = "returned" /\ request[r].login /\ bundle[answer[r]].wall =>
    bundle[answer[r]].login \/ answer[r] = r
=============================================================================
