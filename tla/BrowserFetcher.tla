--------------------------- MODULE BrowserFetcher ---------------------------
(****************************************************************************)
(* BrowserFetcher (agent_crawler/fetch/browser_fetcher.py) with its page    *)
(* registry: concurrent fetch() tasks, each limited by a semaphore, share   *)
(* one lazily launched Playwright driver and browser; a fetch may leave its *)
(* page to the registry; aclose() shuts everything down. The tasks run on   *)
(* one asyncio loop: a step is the code between two awaits that matter.     *)
(*                                                                          *)
(* A Playwright driver process and the browser it launches have one id.     *)
(* Browser processes can die; self._browser does not notice.                *)
(****************************************************************************)
EXTENDS BrowserPageRegistry

CONSTANTS
  MaxConcurrency,   \* max_concurrency
  Drivers,          \* Playwright drivers that can be started
  User, Closer,     \* the caller of the registry and the caller of aclose()
  None              \* self._pw or self._browser is None

ASSUME FetcherAssumption ==
  /\ MaxConcurrency \in Nat \ {0}
  /\ None \notin Drivers
  /\ Callers = {User, Closer} /\ User # Closer

VARIABLES
  pc,               \* where each fetch() is
  home,             \* the driver it has in hand
  initLock,         \* the fetch that holds _init_lock
  browser, pw,      \* self._browser and self._pw
  driver,           \* "absent", "started", "launched" (with a browser), "stopped"
  closed,           \* self._closed
  aclose,           \* where aclose() is
  stopping,         \* the driver aclose() is stopping
  quiet             \* no fetch was in progress at any call of aclose()

fetchVars  == <<pc, home>>
driverVars == <<initLock, browser, pw, driver>>
closeVars  == <<closed, aclose, stopping, quiet>>
vars       == <<registryVars, fetchVars, driverVars, closeVars>>

Final  == {"refused", "failed", "done", "kept"}
InSemaphore == {"init_wait", "starting", "launching", "abandoning", "opening", "loading",
                "registering", "sweeping", "evicting", "closing"}
FetchStates == {"idle", "queued"} \cup InSemaphore \cup Final

Holding == {f \in Fetches : pc[f] \in InSemaphore}
Active  == {f \in Fetches : pc[f] \notin {"idle"} \cup Final}

Running(k) == driver[k] \in {"started", "launched"}

Init ==
  /\ RegistryInit
  /\ pc = [f \in Fetches |-> "idle"]
  /\ home = [f \in Fetches |-> None]
  /\ initLock = Nobody
  /\ browser = None
  /\ pw = None
  /\ driver = [k \in Drivers |-> "absent"]
  /\ closed = FALSE
  /\ aclose = "open"
  /\ stopping = None
  /\ quiet = TRUE

At(f, s) == pc[f] = s
Goto(f, s) == pc' = [pc EXCEPT ![f] = s]

-----------------------------------------------------------------------------
(* fetch()                                                                  *)

(* Variant: fetch() does not look at _closed.                               *)
CallWhenClosed(f) ==
  /\ At(f, "idle")
  /\ Goto(f, "queued")
  /\ UNCHANGED <<registryVars, home, driverVars, closeVars>>

(* _closed is read here, before the semaphore, and nowhere else.            *)
Call(f) ==
  /\ At(f, "idle")
  /\ Goto(f, IF closed THEN "refused" ELSE "queued")
  /\ UNCHANGED <<registryVars, home, driverVars, closeVars>>

(* _ensure_browser returns at once when there is a browser, and the context *)
(* is asked of that browser.                                                *)
UseBrowser(f) == Goto(f, "opening") /\ home' = [home EXCEPT ![f] = browser]

(* Variant: the semaphore lets one task too many in.                        *)
EnterOneMore(f) ==
  /\ At(f, "queued")
  /\ Cardinality(Holding) <= MaxConcurrency
  /\ IF browser # None THEN UseBrowser(f) ELSE Goto(f, "init_wait") /\ UNCHANGED home
  /\ UNCHANGED <<registryVars, driverVars, closeVars>>

EnterSemaphore(f) ==
  /\ At(f, "queued")
  /\ Cardinality(Holding) < MaxConcurrency
  /\ IF browser # None THEN UseBrowser(f) ELSE Goto(f, "init_wait") /\ UNCHANGED home
  /\ UNCHANGED <<registryVars, driverVars, closeVars>>

(* Variant: no second look at _browser under the lock.                      *)
TakeInitLockUnchecked(f) ==
  /\ At(f, "init_wait")
  /\ initLock = Nobody
  /\ Goto(f, "starting") /\ initLock' = f
  /\ UNCHANGED <<registryVars, home, browser, pw, driver, closeVars>>

TakeInitLock(f) ==
  /\ At(f, "init_wait")
  /\ initLock = Nobody
  /\ IF browser # None THEN UseBrowser(f) /\ UNCHANGED initLock
     ELSE Goto(f, "starting") /\ initLock' = f /\ UNCHANGED home
  /\ UNCHANGED <<registryVars, browser, pw, driver, closeVars>>

(* Variants: the driver is stopped without asking whether there is one; the *)
(* init lock is not given back.                                             *)
GiveUpUnchecked(f) ==
  Goto(f, "abandoning") /\ home' = [home EXCEPT ![f] = pw] /\ UNCHANGED initLock

GiveUpKeepsLock(f) ==
  IF pw = None
  THEN Goto(f, "failed") /\ UNCHANGED <<initLock, home>>
  ELSE Goto(f, "abandoning") /\ home' = [home EXCEPT ![f] = pw] /\ UNCHANGED initLock

(* An exception while launching: what is in self._pw is stopped, if         *)
(* anything, and the fetch fails.                                           *)
GiveUp(f) ==
  IF pw = None
  THEN Goto(f, "failed") /\ initLock' = Nobody /\ UNCHANGED home
  ELSE Goto(f, "abandoning") /\ home' = [home EXCEPT ![f] = pw] /\ UNCHANGED initLock

StartDriver(f) ==
  /\ At(f, "starting")
  /\ \/ \E k \in Drivers :
          /\ driver[k] = "absent"
          /\ driver' = [driver EXCEPT ![k] = "started"]
          /\ pw' = k
          /\ home' = [home EXCEPT ![f] = k]
          /\ Goto(f, "launching")
          /\ UNCHANGED initLock
     \/ GiveUp(f) /\ UNCHANGED <<pw, driver>>
  /\ UNCHANGED <<registryVars, browser, closeVars>>

Launch(f) ==
  /\ At(f, "launching")
  /\ \/ /\ driver[home[f]] = "started"
        /\ driver' = [driver EXCEPT ![home[f]] = "launched"]
        /\ browser' = home[f]
        /\ initLock' = Nobody
        /\ Goto(f, "opening")
        /\ UNCHANGED home
     \/ GiveUp(f) /\ UNCHANGED <<driver, browser>>
  /\ UNCHANGED <<registryVars, pw, closeVars>>

Abandon(f) ==
  /\ At(f, "abandoning")
  /\ driver' = [driver EXCEPT ![home[f]] = "stopped"]
  /\ pw' = None
  /\ initLock' = Nobody
  /\ Goto(f, "failed")
  /\ UNCHANGED <<registryVars, home, browser, closeVars>>

(* new_context, route and new_page; what was made is closed on an error.    *)
OpenPage(f) ==
  /\ At(f, "opening")
  /\ \/ /\ home[f] # None
        /\ driver[home[f]] = "launched"
        /\ page' = [page EXCEPT ![f] = "open"]
        /\ Goto(f, "loading")
     \/ UNCHANGED page /\ Goto(f, "failed")
  /\ UNCHANGED <<pages, expired, lock, doomed, home, driverVars, closeVars>>

(* Navigation, content, login detection and wait, storage state. An error,  *)
(* or a call without keep_page_open, goes to the finally clause.            *)
Load(f) ==
  /\ At(f, "loading")
  /\ \/ driver[home[f]] = "launched" /\ Goto(f, "registering")
     \/ Goto(f, "closing")
  /\ UNCHANGED <<registryVars, home, driverVars, closeVars>>

RegisterSweep(f) ==
  /\ At(f, "registering")
  /\ BeginRegister(f)
  /\ Goto(f, "sweeping")
  /\ UNCHANGED <<home, driverVars, closeVars>>

RegisterInsert(f) ==
  /\ At(f, "sweeping")
  /\ Insert(f)
  /\ Goto(f, "evicting")
  /\ UNCHANGED <<home, driverVars, closeVars>>

(* Variant: register() returns with the lock held.                          *)
RegisterKeepsLock(f) ==
  /\ At(f, "evicting")
  /\ doomed = {}
  /\ Goto(f, "kept")
  /\ UNCHANGED <<registryVars, home, driverVars, closeVars>>

RegisterReturns(f) ==
  /\ At(f, "evicting")
  /\ Release(f)
  /\ Goto(f, "kept")
  /\ UNCHANGED <<home, driverVars, closeVars>>

ClosePage(f) ==
  /\ At(f, "closing")
  /\ page' = [page EXCEPT ![f] = "closed"]
  /\ Goto(f, "done")
  /\ UNCHANGED <<pages, expired, lock, doomed, home, driverVars, closeVars>>

FetchStep(f) ==
  \/ EnterSemaphore(f) \/ TakeInitLock(f) \/ StartDriver(f) \/ Launch(f) \/ Abandon(f)
  \/ OpenPage(f) \/ Load(f) \/ RegisterInsert(f) \/ RegisterReturns(f) \/ ClosePage(f)

-----------------------------------------------------------------------------
(* aclose()                                                                 *)

AcloseCalled ==
  /\ aclose \in {"open", "raised"}
  /\ closed' = TRUE
  /\ aclose' = "waiting"
  /\ quiet' = (quiet /\ Active = {})
  /\ UNCHANGED <<registryVars, fetchVars, driverVars, stopping>>

AcloseCloseAll ==
  /\ aclose = "waiting"
  /\ CloseAll(Closer)
  /\ aclose' = "clearing"
  /\ UNCHANGED <<fetchVars, driverVars, closed, stopping, quiet>>

(* The driver is stopped if there is one, else aclose() returns.            *)
ToDriver(k) == IF k = None THEN aclose' = "returned" /\ UNCHANGED stopping
                           ELSE aclose' = "stopping" /\ stopping' = k

AcloseCleared ==
  /\ aclose = "clearing"
  /\ Release(Closer)
  /\ IF browser # None THEN aclose' = "closing_browser" /\ UNCHANGED stopping
                       ELSE ToDriver(pw)
  /\ UNCHANGED <<fetchVars, driverVars, closed, quiet>>

(* browser.close() may raise, which leaves aclose(); _browser is None in    *)
(* both cases.                                                              *)
AcloseBrowser ==
  /\ aclose = "closing_browser"
  /\ browser' = None
  /\ \/ driver' = [driver EXCEPT ![browser] = IF Running(browser) THEN "started" ELSE @]
        /\ ToDriver(pw)
     \/ UNCHANGED <<driver, stopping>> /\ aclose' = "raised"
  /\ UNCHANGED <<registryVars, fetchVars, initLock, pw, closed, quiet>>

(* pw.stop() ends the driver and its browser; _pw is set to None only after *)
(* it, whatever _pw has become meanwhile.                                   *)
AcloseDriver ==
  /\ aclose = "stopping"
  /\ driver' = [driver EXCEPT ![stopping] = "stopped"]
  /\ pw' = None
  /\ aclose' \in {"returned", "raised"}
  /\ stopping' = None
  /\ UNCHANGED <<registryVars, fetchVars, initLock, browser, closed, quiet>>

-----------------------------------------------------------------------------
(* The registry's other callers, time and the browser.                      *)

UserOperation ==
  /\ \/ \E p \in Kept : Get(User, p) \/ Close(User, p)
     \/ SweepExpired(User)
     \/ Release(User)
  /\ UNCHANGED <<fetchVars, driverVars, closeVars>>

PageClosed == CloseDoomed /\ UNCHANGED <<fetchVars, driverVars, closeVars>>

TimePasses == Expire /\ UNCHANGED <<fetchVars, driverVars, closeVars>>

BrowserDies ==
  /\ \E k \in Drivers : driver[k] = "launched" /\ driver' = [driver EXCEPT ![k] = "started"]
  /\ UNCHANGED <<registryVars, fetchVars, initLock, browser, pw, closeVars>>

AcloseStep == AcloseCleared \/ AcloseBrowser \/ AcloseDriver

Next ==
  \/ \E f \in Fetches : Call(f) \/ FetchStep(f) \/ RegisterSweep(f)
  \/ AcloseCalled \/ AcloseCloseAll \/ AcloseStep
  \/ UserOperation \/ PageClosed \/ TimePasses \/ BrowserDies

Spec == Init /\ [][Next]_vars

(* asyncio runs every task that can go on, and its locks are first come     *)
(* first served. A navigation has a timeout, so Load happens.               *)
FairSpec ==
  /\ Spec
  /\ \A f \in Fetches : WF_vars(FetchStep(f)) /\ SF_vars(RegisterSweep(f))
  /\ SF_vars(AcloseCloseAll)
  /\ WF_vars(AcloseStep)
  /\ WF_vars(PageClosed)
  /\ WF_vars(Release(User) /\ UNCHANGED <<fetchVars, driverVars, closeVars>>)

-----------------------------------------------------------------------------

TypeOK ==
  /\ RegistryTypeOK
  /\ pc \in [Fetches -> FetchStates]
  /\ home \in [Fetches -> Drivers \cup {None}]
  /\ initLock \in Fetches \cup {Nobody}
  /\ browser \in Drivers \cup {None} /\ pw \in Drivers \cup {None}
  /\ driver \in [Drivers -> {"absent", "started", "launched", "stopped"}]
  /\ closed \in BOOLEAN /\ quiet \in BOOLEAN
  /\ aclose \in {"open", "waiting", "clearing", "closing_browser", "stopping",
                 "returned", "raised"}
  /\ stopping \in Drivers \cup {None}
  /\ \A f \in Fetches : pc[f] \in {"launching", "abandoning", "loading"} => home[f] \in Drivers
  /\ aclose = "stopping" => stopping \in Drivers

(* However the fetches, evictions and expiries interleave, an open page is  *)
(* either kept in the registry, or about to be closed, or in the hands of a *)
(* fetch that has not ended; every page the registry can hand out is open;  *)
(* and register() never closes the page it has just registered, so a        *)
(* response with kept_open refers to an open page.                          *)
EveryPageHasAnOwner ==
  /\ \A f \in Fetches : page[f] = "open" =>
       f \in Kept \cup doomed \/ pc[f] \in {"loading", "registering", "sweeping", "closing"}
  /\ \A f \in Kept : page[f] = "open" /\ pc[f] \in {"evicting", "kept"}
  /\ \A f \in Fetches : pc[f] = "evicting" => f \in Kept

(* No more pages are open than the registry keeps and there are fetches in  *)
(* progress, the pages that are being evicted included, and no more fetches *)
(* are in progress than the semaphore lets in.                              *)
OpenPagesBounded ==
  /\ Cardinality({f \in Fetches : page[f] = "open"}) <= MaxOpenPages + Cardinality(Holding)
  /\ Cardinality(Holding) <= MaxConcurrency

(* Until aclose() is called every Playwright process that runs is the one   *)
(* in self._pw: concurrent first fetches launch one browser, and a failed   *)
(* launch leaves nothing running.                                           *)
RunningDriverIsHeld == ~closed => \A k \in Drivers : Running(k) => k = pw

(* When no fetch was in progress at the calls of aclose() and one of them   *)
(* has returned, nothing is left: no process, no page, nothing registered.  *)
NothingLeft ==
  /\ pages = <<>>
  /\ \A f \in Fetches : page[f] # "open"
  /\ \A k \in Drivers : ~Running(k)

QuietAcloseLeavesNothing == aclose = "returned" /\ quiet => NothingLeft

(* No task waits for ever on the semaphore, the two locks or one another:   *)
(* every fetch that was let in ends, and so does aclose().                  *)
FetchesEnd == \A f \in Fetches : pc[f] = "queued" ~> pc[f] \in Final
AcloseEnds == aclose = "waiting" ~> aclose \in {"returned", "raised"}

(* "retained pages are closed by TTL/LRU eviction or                        *)
(* `await fetcher.aclose()`" (AgentCrawler/README.md:64): once aclose() has *)
(* returned and every fetch has ended, no page is retained in a browser     *)
(* that runs.                                                               *)
AcloseClosesRetainedPages ==
  aclose = "returned" /\ Active = {} =>
    \A f \in Kept : ~(page[f] = "open" /\ driver[home[f]] = "launched")
=============================================================================
