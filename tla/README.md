# A verification development of sth_boring

This directory holds TLA+ models of the parts of *sth_boring* whose correctness depends on order,
interleaving or failure, the TLC configurations that check them, and proofs about eight of them. Paths
below are relative to the repository (`src/` in `PROJECT.json` is its root).

Run from this directory:

    tlc -workers 2 -config ExecutionEngine.cfg MCExecutionEngine.tla
    tlapm ExecutionEngineProofs.tla

## 1. The system

The repository is two programs and some utilities.

* **SdkTestAgent** (`src/sdk_test_agent`) lets a language model plan work on a software package and
  carries the plan out in containers. `agent_loop` decides what is asked, resolves the available
  capabilities, has a plan drafted, finalizes, validates and preflights it, gives it to
  `ExecutionEngine`, has the outcome judged and reports or plans again. The engine calls step
  executors; these call the command controller (which owns a docker sandbox), the runtime manager,
  the inspectors and the artifact manager. Everything is synchronous and single-threaded; what makes
  it hard is failure: each call into the container engine, the file system or SQLite can raise with or
  without having done its work.
* **AgentCrawler** (`src/AgentCrawler`) fetches web pages for an agent. It is asyncio code: concurrent
  fetches share one browser, a registry of kept pages, a result cache, a session store and an HTTP
  cache on disk.
* `mcped_function_tools` wraps functions as tools; `SchedulingModuleWroteBefore` is deprecated by its
  own `Statement.md`.

### Inventory

| component | state it keeps | operations | hard behaviour | what makes it correct | module |
|---|---|---|---|---|---|
| execution engine | cursor, three records per step, outputs in the context, run status | `run` | dependencies on later steps, status rewritten by REQUEST_REPLAN, exceptions mid-step | steps run after their dependencies; records agree; the verdict follows from the steps | `ExecutionEngine` |
| sandbox session | `_status`, `_container_id`, the engine's containers | `open_session`, `execute_action`, `close_session`; create, prepare_image, start, stop, destroy | a driver call raises before or after its work; containers exit alone; re-opening | what it believes is true enough to act on; the remove of a close is refused only for a container that is gone; nothing lost | `SandboxSession` |
| browser fetcher, page registry | `_browser`, `_pw`, `_closed`, semaphore, `_init_lock`; open pages by last access, registry lock | `fetch`, `aclose`; `register`, `get`, `close`, `sweep_expired`, `close_all` | tasks interleave at every await, launch races, eviction against registration, shutdown against fetch, a dying browser | every page has an owner; one browser; bounded pages; nobody waits for ever | `BrowserPageRegistry`, `BrowserFetcher` |
| agent loop | the state dictionary | ten nodes and four routes, two drivers | values of an earlier pass stay in the dictionary on replan | a report and a run belong to one pass; ids are not reused | `AgentLoop` |
| capability panel, plan validator, preflight | none (pure), registry fixed after start | `build_snapshot`, `validate`, `run_preflight` | early returns and severities | only admitted steps run | `PlanAdmission` |
| LLM client, model registry, readers of its answers | none | `resolve`, `complete`, `decide`, `plan`, `check` | answers that are no JSON, have fields missing, name no route | no unreadable answer counts as a success | `ModelCalls` |
| command policies, dispatcher, operators | none | `execute_action` up to its call of the sandbox | which of several checks refuses first | nothing refused reaches the sandbox; paths stay below the working directory | `CommandControl` |
| artifact manager | directory of files, SQLite index | `create_task`, `create_stage`, `put_bytes`/`put_text`/`put_file` | file first, row second; same name overwritten | the latest row describes the content of its file | `ArtifactStore` |
| runtime manager, registry | containers; tables of hosts, engines, images, containers, deployments | register, create, remove | container engine and table drift apart; no clean-up on failure | a container the registry does not know is explained by a failed call | `RuntimeRegistry`, `DockerEngine` |
| deploy loop, step executors, inspectors | what a caller knows of its run | `run_java_deploy`, `execute` | a dozen effects in a row, none undone | a deployment recorded as ready has its artifacts, image and container | `RuntimeDeploy`, `Inspection` |
| crawler runner | result cache (LRU and TTL), session store, attempt plans | `run` | fallback plans, bundles shared between runs, a TypeError repeats a fetch | an answer is what its request asked for; the cache is sound; attempts escalate and end | `CrawlerRunner` |
| `web.read_page` tool, content pipeline | none | `arun`; chunk, rank, assess, render | truncation, statuses derived from several facts | chunks hold the text; the result tells what the bundle says | `ReadPageTool`, `ContentPipeline` |
| http fetcher | two-file cache, host limiter | `fetch` | retries, conditional requests, 304, torn saves | a served page is one the server sent | `HttpFetcher` |
| auth gate, login wait | storage state file, tab of each fetch | the part of `fetch` after the page is opened | a person logs in while polls read the page; profiles shared by fetches | a login is not lost; the reasons given are true; every wait ends | `AuthGate`, `BrowserLogin` |
| template planners, plan memory, tool wrappers | none that outlives a call, or a list in memory | | | | not modelled, section 7 |

How they interact: by direct calls, except that the agent loop's nodes communicate through the state
dictionary, concurrent fetches through the fetcher's and the registry's fields under asyncio locks, and
the sandbox with the container engine through a client library whose answers can be lost.

`PROJECT.json` lists under "hazards" each place in this code where an order of events could go wrong
that a test would hardly produce, and the properties that speak of it. Where the code does go wrong there and
a property names that case as its exception, the hazard's note says so.

## 2. The plan

In order of what matters most to the system:

1. `DependencyRun`, `ExecutionEngine`: the heart of SdkTestAgent, with refinement and proofs. *Done.*
2. `SandboxSession`: the engine's main effect on the world. *Done.*
3. `BrowserPageRegistry`, `BrowserFetcher`: the concurrent part of AgentCrawler. *Done.*
4. `PlanAdmission`, `AgentLoop`: what guards the engine; composes `DependencyRun`. With proofs. *Done.*
5. `CrawlerRunner`: concurrent runs that share the result cache. With proofs. *Done.*
6. `HttpFetcher`: retries and the two-file cache, concurrent fetches of one URL, a crash. *Done.*
7. `ArtifactStore`, `RuntimeRegistry`, `DockerEngine`, `Inspection`, composed in `RuntimeDeploy`: every
   call able to fail, before or after its effect. *Done.*
8. `AuthGate`, `BrowserLogin`: what `BrowserFetcher` leaves out of a fetch. *Done.*
9. `ContentPipeline`, `ReadPageTool` (over `CrawlerRunner`), `CommandControl` (in `SandboxSession`),
   `ModelCalls` (beside `AgentLoop`): the functions between the stateful parts. *Done.*
10. Proofs of every safety property of `SandboxSession`, `BrowserFetcher`, `HttpFetcher`, `BrowserLogin`
    and `RuntimeDeploy`, for any value of their constants; that the paths a controller accepts stay below
    the working directory, for paths of any length. *Done.*
11. Still worth having: that `Chunks` loses no character of a text, for texts of any length (now an
    assumption TLC evaluates, `ChunksHoldTheText`), which needs the folds of `ContentPipeline` as
    functions.

All modules are written so that they can be proved about: parameters are constants with named
assumptions, one action per operation, no recursive operators (sums and chunks are folds; the registry's
`Remaining` and the paths' `Normal` are recursive functions, so that they can be reasoned about by
induction).

## 3. Modules

**`DependencyRun`** is the abstract specification: a run of steps with dependencies visited in *any*
order. Each step is pending, succeeded, failed or skipped; a step runs when its dependencies have all
succeeded, is skipped when one has not (yet); a failure not tolerated by its policy stops the run.

**`ExecutionEngine`** is `ExecutionEngine.run`. `pc` follows the loop body: `loop` (head of the for
loop), `executing` (inside the executor), `finishing` (result in hand, output being persisted, policy
about to be applied), `recording` (the summary artifact), `returned`, `raised`. `stepStatus`,
`stepResults`, `stepRuns` and `stepOutputs` are the four places the code writes. One action per branch:
`SkipStep`, `UnsupportedKind` (the registry lookup is outside the try), `StartStep`, `ExecutorReturns`
and `ExecutorRaises`, `FinishStep` (recording and the failure policy, which is one stretch of code),
`StepPersistFails`, `LoopEnds`, `RecordSummary`. Step ids are positions: the validator has established
that ids are unique and dependencies known. Timestamps, texts and artifact contents are left out.
It implements `DependencyRun` under the mapping `fate`/`verdict` at its end.

**`SandboxSession`** is `CommandController` over `DockerPythonSandbox` over the driver and container
engine. An operation is the list of calls still to be made (`todo`); `start` unfolds into its three
driver calls. Every call either returns or raises, and one that raises may have done its work.
Containers exit by themselves at any time, and are then gone at once with `autoRemove`. Three clients:
one that closes a session before the next (`session`), the agent loop, which opens without closing
(`loop`), and a caller of the methods in any order (`direct`). `told` and `fresh` are history variables:
which containers the caller has been told of, and which of them since the last `create()`. The
engine's behaviour (a stop of a stopped container succeeds, an unforced remove of a running one is
refused) is that of the docker engine and marked external.

**`CommandControl`** is the verdict on one command: action policy, path policy, dispatcher, then the
checks of the operator, in that order and with the error class of the first that refuses. A path is the
sequence of its segments, and `Normal` is what `posixpath.normpath` does to it; an argv is its program,
whether a word of it is forbidden, and whether it is one of the forms allowed to that program.
`SandboxSession.ExecuteAction` asks it: a refused command makes no call of the sandbox.

**`BrowserPageRegistry`** and **`BrowserFetcher`** (which extends it): asyncio tasks, so a step is the
code between two awaits at which another task can act. Registry: the ordered dict is the sequence of
keys by last access; `expired` are those beyond their time to live (the oldest expire first, since
all pages of a fetcher have the same ttl); `lock` and `doomed` are the lock's holder and the pages it has
taken out and is still closing. Fetcher: `pc` of each fetch from the semaphore over `_ensure_browser` (second look under the lock, driver start, launch,
abandoning a failed launch) to the page, registration or closing. A Playwright driver and the browser it
launched share one id. `aclose` is a task of its own and can be called again after it raised. A
`pw.stop()` that raises, in `aclose` or when a launch is given up, is taken to have stopped the driver. Other
callers of the registry are one task `User`. The registry keeps each page under the fetch that opened it.

**`PlanAdmission`** is pure: `Availability` is the panel's chain of objections; a snapshot is the
availability of each descriptor, and its digest is modelled as that content itself (SHA-256 of it in the
code: equal digests mean equal content). `Issues` collects the *severities* the validator would report,
with its early returns: a plan without steps ends it, and a step whose capability is not enabled is
looked at no further. `Passes` applies `fail_on_warning`.

**`AgentLoop`** has one action per node; `node` is the node that runs next. `state` is the shared
dictionary with the keys that decide something (texts, skills and prompts are left out, and
`replan_request`, which nothing reads). Decider, planner and checker return anything or raise. Between
`Execute` and `ExecuteReturns` the run itself is `DependencyRun!Next` on the plan in hand, so the loop
and the engine are composed through the abstract specification that the engine implements. `driver` is
the graph, whose replan edge leads back to `capability_resolve`, or `run_agent_loop_once`, whose caller
calls again with the state it got. How `StateGraph(dict)` (`graph_builder.py:60`) merges a node's
update into the state is the library's matter; it is modelled as `run_agent_loop_once` does it, by
updating the dictionary.

**`ModelCalls`** says how decider, planner and checker ask the language model and read its answer: alias
resolution, what the two protocols send, the errors a call can end with, and the three parsers. The
instance of `agent_loop` assumes (and TLC evaluates) that the branches of `Decide` and `TaskCheck` are
exactly those these callers can take, and that no unreadable answer leads to a report.

**`CrawlerRunner`** is `CrawlerRunner.run` with the policy engine and the result cache. The code awaits
only its fetches, so everything between two of them is one step: `Start` and `AttemptFails` take the
head of the loop for the next plan (`NextAttempt`: out of attempts, a hit in the cache, or a fetch),
`FetchTypeError` is the second fetch at `runner.py:92`, `PageAccepted` and `PageRaises` are what follows
a good page. `request`, `tried` (the plans so far; the last is `plan` in the code), `pc` and `answer`
are the locals of each run; `cache` is the ordered dict, oldest first, with `stale` for entries beyond
their time; `bundle[r]` is the object run `r` made. A bundle is an object that cache and callers share,
so it is named by its run, and a hit changes it in place (`Serve`: trace and rendered text). The texts
that `make_key` joins with "|" are sequences of the parts between "|", so that `MakeKey` is the
concatenation it is in the code. It is injective only for texts without the separator: url `u|x` with an
empty query and url `u` with query `x|` share a key. `AnswerFits` therefore speaks of the subject of an
answer only for requests without it (`Separable`), and of everything else for all. The fetchers are
"a page or a failure"; `wall` is the login wall the browser may report.

**`ContentPipeline`** and **`ReadPageTool`**: a text is the sequence of the lengths of its paragraphs, a
chunk the sequence of the ranges of characters in it, so that "the chunks hold the text" can be said
without strings. The tool's request is `ToCrawlRequest`, and the instance of the `crawler` run is made
of the requests the tool makes of its inputs; `Result` maps a bundle to what the tool tells of it. Both
are functions, checked by the assumptions of `MCCrawlerRunner` on all texts of up to three paragraphs
and on every combination of what a bundle can say.

**`HttpFetcher`** is `fetch` with its cache. A page is its version, the two cache files are what each
holds, and a save is two renames between which the process can die (`Crash`) or an error be raised. The
tasks switch where the code awaits: at the limiter, at the request, at the backoff. `cut` is a history
variable: body and meta were not written by one save.

**`ArtifactStore`**, **`RuntimeRegistry`**, **`DockerEngine`** and **`Inspection`** hold the single
effects (a row, a file, a container) and verdicts; **`RuntimeDeploy`** composes them. A job is a caller
with a list of calls still to be made (`todo`); each returns, or raises with or without its effect, and
then the job ends with what it has left behind. The kinds of jobs are the java deploy loop, a plan's
build, create, inspect and collect steps, the removal of a container, and the registration of host and
engine. The content of a file is the number of the write that made it.

**`AuthGate`** and **`BrowserLogin`** are what `BrowserFetcher` has as one step (`Load`): the context made
with the profile's storage state, the weighted detection, the polling loop of the interactive login with
each of its exits, the second reading and the state that is saved. Weights are in twentieths; the
threshold `confidence >= 0.45` is `> 9`, because the sums of weights that are 0.45 on paper are smaller
in binary. A login is named by the fetch in whose page it was made; `moved`, `saved` and `overlapped`
are history variables.

**`MC...`** modules hold the finite instances. **`...Proofs`** hold the proofs.

## 4. Runs

| run | instance | shows |
|---|---|---|
| `engine` | every plan of 1–2 steps with all four policies and an unsupported kind; every dependency relation on 3 steps (512, self-dependencies and cycles included) with three policies | `RanAfterDependencies`, `RecordsAgree`, `VerdictFollowsFromSteps`, the refinement, and that a run ends unless an executor hangs |
| `sandbox` | three containers; commands of every action, with every path of two segments and every argv | `UpMeansStartedInThisSession`, `NothingLeftBehind`, `OnlyGoneContainersBlockClose` |
| `browser` | 3 fetches, 2 in the semaphore, 1 kept page, 2 drivers | `EveryPageHasAnOwner`, `OpenPagesBounded`, `RunningDriverIsHeld`, `QuietAcloseLeavesNothing` |
| `browser_queue` | 2 fetches, 1 in the semaphore | every fetch and every `aclose()` ends, under fairness |
| `browser_aclose` | 1 fetch | *violated*: a fetch let in before `aclose()` has its page retained, in a browser it launches after `aclose()` has returned |
| `agent_loop` | both drivers, 2 passes, 4 validator configurations, drafts with each defect | `StepsRunWereAdmitted`, `EngineGetsAPlan`, `ReportTellsOneStory`, `RunsAreDistinct` |
| `crawler` | 2 runs, 11 requests, 3 pages, a cache of 1 entry | `AnswerFits`, `CacheSound`, `FallbackGetsOn`, `HeldAnswersAreStable`, and that every run ends |
| `crawler_retry` | 2 runs, 2 requests | *violated*: a retry with `interactive_login` is answered from the cache by the page that met the login wall |
| `http` | 2 fetches, again and again; 2 versions, one without a validator; 2 attempts; both limiters | `AnswersAreWhole`, `RevalidatedIsCurrent`, and that every fetch ends |
| `http_limiter` | 1 fetch with the default limiter | *violated*: the limiter does not delay a request, it raises |
| `deploy` | 2 jobs of four combinations of kinds, 2 images, 2 containers, a plan run twice | `LatestRowDescribesItsFile`, `ReadyDeploymentIsBacked`, `RegistryKnowsContainers` |
| `login` | 2 fetches with one profile, 3 pages | `LoginIsKept`, `AnswersTellTheTruth`, and that every fetch ends |

Every run of safety also checks the type invariant. The assumptions of the `MC` modules are properties
of the pure parts, evaluated before a run: `AcceptedPathsStayBelow` and `OnlyAllowedCommandsRun`
(`sandbox`), `ModelDrivesTheLoop`, `GarbageIsNoSuccess`, `ObjectsAreAskedFor` and `StepsArriveWhole`
(`agent_loop`), `ToolRequestsAreRequests`, `ChunksHoldTheText`, `SplitComesFirst` and
`ToolTellsTheTruth` (`crawler`).

Each violated property quotes a comment, test or document of the repository (see "findings" in
`PROJECT.json`).

### Why the bounds are enough

* Engine: the engine's treatment of a step depends on that step and its dependencies' status; three
  steps give chains, diamonds without their top, forward and cyclic dependencies, and a step after a
  stop. The proofs remove the bound. "fallback" is left out of three-step plans because the code treats
  it as "abort" and the smaller plans cover it.
* Sandbox: the sandbox holds one id. One container of an earlier session, one half-created and one to
  come are the most that differ; containers are interchangeable (symmetry).
* Browser: one place in the registry and three fetches force every eviction; a third fetch waits at the
  semaphore while two compete for the init lock. Two drivers allow a failed or dead first launch and a
  second one; after both are used a launch can only fail. Fetches and drivers are interchangeable
  (symmetry in the runs without temporal properties).
* Agent loop: two passes let values of the first be read in the second; a third adds no new source
  of stale values, and the proofs remove the bound. Two-step drafts have every dependency defect; the
  registry has one capability of each sort.
* Crawler: one run can take, evict, refresh or change what another has made while that one waits or
  after it has returned; a cache of one entry makes every `put` under another key evict. The requests
  differ in one field each, so that each part of the key, each cache mode, each thing that is not
  implemented and up to five attempts occur. The proofs remove the bounds.
* Http: of two tasks one can save, crash or be answered between any two steps of the other; two
  versions let each hold what the other has replaced, and the one without a validator is saved and never
  revalidated. Two attempts have a first, a last and a repeated one.
* Deploy: jobs share the tables, the image built from the same jar, and a container only between its
  maker and one that removes it, so two at a time show every conflict. `KindSets` names the combinations
  that share something. Images and containers are interchangeable (symmetry).
* Login: a fetch that saves and one that reads or saves later show each overwriting. The login page, a
  landing page without signals and the page itself, which the first look takes for a login page and a
  poll does not, give the gate each of its verdicts.

### Deadlock

Checked in the runs of the engine, the sandbox, the agent loop and the http fetcher. `CrawlerRunner` stops
when all runs have ended and all entries expired (`RunsEnd` excludes that one stops earlier), the browser
when every fetch has ended and `aclose()` has returned (a task waiting for ever is excluded by
`FetchesEnd` and `AcloseEnds`), `RuntimeDeploy` when its jobs have run as often as they may. In
`BrowserLogin` a site that has ended all logins and fetches that have ended leave nothing to do;
`FetchesEnd` excludes a fetch that waits.

## 5. Fairness

* Engine: weak fairness of the interpreter's own steps (`EngineStep`), which are straight-line code.
  None for an executor's return: it has no time limit, and `EndsOrExecutorHangs` says so.
* Browser: weak fairness of each fetch's own steps, of closing a doomed page and of releasing a lock:
  asyncio runs every task that is ready, launches and navigations have timeouts, and closing a page
  returns. Strong fairness of taking the registry's lock, and none needed for the init lock, because
  `asyncio.Lock` serves its waiters in order; nothing is assumed of the user, of time or of the browser.
* Crawler: weak fairness of each run's steps after its start. A fetch returns or raises because
  navigation, requests and the wait for a login have time limits. Nothing makes an entry expire.
* Http: weak fairness of each fetch's steps: the request has a time limit, the limiter's lock is released
  by every holder, a backoff ends. Nothing makes a server answer well, an entry expire or a process die.
* Login: weak fairness of each fetch's steps, and strong fairness of the time-out of a wait: each poll
  takes `poll_interval_ms`, so a loop that polls for ever has passed its deadline for ever, although the
  action is not enabled within a poll. Nothing makes a person log in.
* The other specifications state safety only.

## 6. Proofs

`ExecutionEngineProofs` proves, for plans of any length and content and any registry, from
`PlansAssumption` alone (a plan is a list of steps whose dependencies are positions in it):
`TypeCorrect`, `DependenciesFirst`, `OneStory`, `NoForwardDependency`, `VerdictSound` and
`Refinement`. The properties are not inductive: what makes them so (`IInv`) is that exactly the
positions before the cursor have a record (`LoopPosition`), that a recorded dependency stands before its
dependent (`DependenciesBefore`), and what each `pc` implies about run status and replan request
(`LoopOutcome`). The refinement maps `SkipStep` and `FinishStep` to the abstract steps of the same
names, `RecordSummary` to `Conclude` or `Raise`, and everything else to a stutter.

`AgentLoopProofs` proves, for any registry, drafts, requests, validators and number of passes, from
`DraftsAssumption` (a draft's steps are a list), `BoundsAssumption` (a step limit is a number) and
`NoneAssumption` (an absent status is not a status): `TypeCorrect`, `OnlyAdmittedSteps`, `EngineInput`,
`DistinctRuns`, `OneReport` and `AnswersTouchNothing` (an answer or a refusal opens no session; like
`NoForwardDependency` above it is proved and not among the runs' properties). `PassesIsSound` opens the validator: if no issue
is an error, the draft's steps are few enough, their ids distinct, dependencies known, the digest is the
snapshot's, and each step has a capability that is enabled or tolerated. The invariant then carries this
along the path of the nodes: `PlanInHand` and `Admission` (what validate and preflight have
established still holds when the engine starts), `Numbering` (run ids grow with the iteration, plan
ids with each plan), `RunInHand` (the last entry of `runs` is the one in hand until the report) and
`Sessions`.

`CrawlerRunnerProofs` proves, for any runs, requests, sites and cache size, from `CrawlerAssumption`
(requests and site policies are of their types, texts have at least one part, the cache holds at least
one entry, and an absent value is neither a run nor a bundle): `TypeCorrect`, `CacheIsSound`,
`AnswersFit`, `FallbackMakesProgress` and `AnswersAreStable`. `AnswerFits` is not inductive: the cache
must hold only what finished runs have filed under the right key (`CacheSound`), a bundle must belong
to a run that returned it (`RunOrder`), and keys must separate requests (`KeySeparates`: a key of six
parts has one part per text). `FallbackGetsOn` needs `Escalation`: after the first plan comes the
browser, the universal extractor only right after http, and http with the universal extractor never has
an adapter to try (so the first branch of `update_plan_on_failure`, `policy.py:52`, cannot be taken).

`SandboxSessionProofs` proves, for any containers, controller and commands and any number of sessions,
from `NoContainerAssumption` (the absent id is no id): `TypeCorrect`, `CommandsGoToThisSession`,
`SessionsLeaveNothing` and `DestroyMeetsNoRunning`. None is inductive alone: which calls an operation still
has to make must be known (`Progress`), what `start()` has established before each of its driver calls
(`StartInOrder`), that the held container is one whose id was returned (`HeldIsKnown`), that
`close_session` comes to its unforced remove only after a stop that returned (`StopComesFirst`), that a
status "stopped" or "removed" means the held container does not run (`StoppedNeverRuns`), and that
a client that closes its sessions has no container left until the next one is created (`OpensOnClean`).
`FilesStayBelow` is about the commands: the file of one that is let through lies below the working
directory, for paths of any length and any controller; a normal path has all that leads up at its
beginning (`IsNormal`, kept by every `Resolve`), and there `Escapes` looks.

`BrowserFetcherProofs` proves, for any set of fetches and drivers and any limits, from
`RegistryAssumption` (`max_open_pages` is at least 1, as the constructor makes it; the tasks are
different tasks) and `FetcherAssumption` (the semaphore has a place; the absent driver is none):
`TypeCorrect`, `NoPageIsLost`, `PagesStayBounded`, `OneDriverRuns` and `QuietAcloseIsClean`. The
invariant says who holds which lock (`LocksHeld`), that a page in a fetch's hands is open and one being
evicted is kept no longer (`PagesOwned`), what each limit counts (`PagesBounded`: a page that has left its
fetch counts against the registry's until its eviction ends, which is where the two limits are added up),
that under `_init_lock` the driver in hand is `self._pw` and there is no browser yet (`DriverHeld`), and
what a quiet `aclose()` has done so far (`QuietClose`). That taking pages out of the registry keeps the
others, in order and once, is by induction on the sequence: the library's induction theorem takes an
operator, so the lemma `Induction` states it of a *set* of numbers, from the well-foundedness of `<`;
`SandboxSessionProofs` does the same for paths.

`HttpFetcherProofs` proves, for any number of fetches, versions and attempts, from `HttpAssumption`:
`TypeCorrect`, `WholeAnswers` and `RevalidationIsSound`. The server confirms a validator, not a page: the
invariant carries that a page a fetch has loaded to have it revalidated is whole (`LoadedIsWhole`), that the
files are (`FilesAreWhole`), and that a 304 in hand is about the validator of the loaded page, which is the
one of the version the server had then (`ConfirmedTag`); validators tell versions apart (`TagTypes`).

`BrowserLoginProofs` proves, for any fetches and any pages, from `LoginAssumption` (which only gives the
constants their types): `TypeCorrect`, `SavedLoginsAreKept` and `WaitsTellTheTruth`. That a saved login
outlives a later fetch needs that among fetches that have not overlapped at most one is under way, that
the file is what its context was given, that the context has every saved login that is still good, so that
a login wall means there is none (`StateIsGiven`), and that nobody has the login of a fetch that is not
over (`OwnLogin`). That a wait's reason is true needs `WaitIsTrue`: as long as the tab has not moved, what
is shown is what was seen first, and no page is denser than itself.

`RuntimeDeployProofs` proves, for any number of jobs, images, containers and runs of a plan, with each call
failing before or after its effect or with part of it, from `DeployAssumption` (jobs have tasks of their
own and known kinds, the file names the code uses are names): `TypeCorrect`, `RowsDescribeTheirFiles`,
`DeploymentsAreBacked` and `RegistryIsComplete`. A job is the rest of a list of calls, and the argument is
about that list. `Shape` is what is so of the list of each method and of every rest of it, also when an
executor's failure skips to the next step: a row follows its file, a container is created once and
recorded after that, a removal is recorded right after it, an image is recorded in the step that built it,
the record of a deployment is the last call. The invariant ties it to the world: a job has in hand what
its next calls need (`HasWhatItNeeds`), the call before the one it faces has had its effect
(`LastCallIsDone`), and what a deployment no longer has to do is on record (`Milestones`).
`RegistryKnowsContainers` needs in addition that a container on its way to the registry is not replaced by
another of the same job (`BoxesAreKnown`).

Each inductive invariant was also checked by TLC on the instance of its component's run.
`MaxIteration` and `MaxRounds` bound the number of passes, in the proofs by any natural number.

Only model-checked: all liveness (`EndsOrExecutorHangs`, `RunsEnd`, `AcloseEnds` and each `FetchesEnd`),
which the prover does not reach; what the functions of `ModelCalls`, `ContentPipeline` and `ReadPageTool`
compute (folds over data); and the three properties that are violated.

## 7. Not modelled

* Prompts, and the template planners (`demo_java_planner.py`, `fast_planner.py`,
  `rule_fallback_planner.py`), which fill in one fixed plan: in `AgentLoop` a draft is any draft. Plan
  memory ranks text by similarity. Message parts, tools and usage of the LLM client; its streaming
  methods raise.
* Schema validation of inputs and the built-in descriptors (one Boolean per step), the consistency check
  of snapshots and resolution records, validation of a plan without a snapshot.
* Of the inspectors, findings and hints; of the crawler's content pipeline, what extracts text from html
  and the scores of the ranking. The tool wrappers of `mcped_function_tools` run one subprocess with a
  time limit and keep no state.
* `action_runs`, `artifact_links` and `container_relations`: tables no code writes.
* Cancellation of tasks (in the browser fetcher, a cancelled `register` can leave a closed page in
  the registry) and what a caller does with a page handle after `get`: listed as hazards.
* The command timeout: `timeout_sec` is recorded and not applied by the driver, so there is no
  behaviour to model; executors may hang.
* `SchedulingModuleWroteBefore`: deprecated, imports a module that does not exist.
* Of the crawler's runner: trace steps, event texts and error types, and the domain registry, which is a
  function from url to policy. Sessions are looked up but nothing reads more of them than the profile.

## 8. Observations

Seen while modelling, and not stated as properties because no document or test of the repository
contradicts them, or because the state they are about is abstracted:

Execution:

* A step whose dependency stands later in the plan is skipped with the error "one or more dependencies did
  not succeed" (`execution_engine.py:109`), although that dependency may succeed afterwards in the same
  run; the validator accepts such a plan.
* With `allow_deprecated_capability` a step of a deprecated capability gets a warning and an early return
  before its inputs are compared with the schema (`plan_validation.py:207`), so inputs of any shape pass.
* A second `destroy()` asks the driver to remove a container that is gone, which an engine refuses;
  `tests/test_python_sandbox.py:72` calls it idempotent over a driver that accepts every remove. The same
  happens to `close_session` when the container was removed with its exit (`auto_remove`) or by a remove
  whose answer was lost: `destroy()` keeps `_container_id`, so every later close raises, and a client that
  closes before it opens never opens again. `OnlyGoneContainersBlockClose` therefore claims no more than its
  name: a close does not come to a remove that is refused because the container runs.
* `ask_input` is an allowed route and a policy (`allow_ask_input`), yet it ends the loop as failed
  (`graph_builder.py:51`). Run ids are `run_<iteration>` (`nodes.py:112`): a caller that starts over reuses
  the names of artifacts that exist.
* A client with a model registry resolves an alias to its provider, names that provider in the answer, and
  sends the request to its own (`openai_compatible_client.py:71`, `_get_client`). Under the default
  protocol `temperature` is not sent.
* `LlmTaskChecker` does not compare the route with the allowed ones: an unknown one fails the loop, an
  answer without one plans again.

Storage and deployment:

* `collected_context` and the outputs of steps go to a directory `put_text` does not know as a
  sub-directory, and so to the task's root.
* A second deployment that builds the same image fails at `register_image`, on the primary key, after the
  build; its task, stages and files stay.
* The row of a deployment stays "ready" after `remove_container`; a failed environment or package
  inspection does not stop a deployment.
* The executor that builds an image never registers it; nothing enforces the foreign key of the
  containers made from it.

Crawler:

* A bundle answered from the cache says so nowhere: `cache_hit` is never set.
* `persist` and `keep_page_open` are not in the cache key, so that a hit can lack the artifacts asked for
  or carry a reference to a page that is closed by now.
* The relevance gate, the rendering by a language model and an artifact manager raise through `run()`
  without a fallback (`PageRaises`).
* `Cleaner.chunk` splits a paragraph that is too long on the spot (`clean.py:62`) while earlier ones wait
  in the buffer: its parts come before text that stood before it (`SplitComesFirst`), and the order that
  the ranking prefers is not that of the page.
* In the tool's result a chunk of order 0 is given its rank as order; `attempts` counts trace steps;
  `fallback_reason` is the message of the last step; a text that is 1–14 characters too long gets longer
  by being truncated. Of the nine values of `ReadStatus` only `success` and `auth_required` can be met.

Shutdown of the browser:

* A fetch that `aclose()` has overtaken can also leave a driver and a browser that run without any page, or a
  driver that `_pw` no longer names (`browser_fetcher.py:246`). `browser_aclose` speaks of retained pages
  only, as the line it quotes does.

Logins:

* Every response has its own request in its redirect chain, so the signal "redirected" is set in every
  first look and in no poll. An article with a canonical link and the word "login" in it is judged a
  login page; an interactive fetch of it waits until the polls see a denser page or the time is over.
* `success_url_patterns` are looked for in the whole url: a login page that carries the target in its
  query counts as success at once.
* After a successful interactive login `auth_required` stays true in the answer, because
  `_make_response` gets the first detection (`browser_fetcher.py:461`): the tool advises a retry with
  `interactive_login`.
* The storage state is saved whether or not there is a login, and overlapping fetches of a profile
  overwrite each other's; a file that was cut makes every later fetch of the profile raise. A headless
  interactive fetch raises only after the navigation.
* `SessionStore` makes profiles without a `storage_state_path`: through `CrawlerRunner` and the tool no
  login is kept, only for callers of `BrowserFetcher` that bring a session of their own.

The limiter's mangled name (`http.py:71`, `limiter.__aenter_host` inside a nested class) is the finding of
`http_limiter`: every fetch that is not a fresh hit raises, and `CrawlerRunner` goes on to the browser.
