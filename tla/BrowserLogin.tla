------------------------------ MODULE BrowserLogin ------------------------------
(****************************************************************************)
(* What BrowserFetcher.fetch does with a page it has opened, for fetches    *)
(* that share one auth profile: the browser context that is given the       *)
(* profile's storage state, the detection of a login wall, the wait for a   *)
(* person to log in, and the storage state that is saved at the end.        *)
(* (Browser, semaphore and retained pages are in BrowserFetcher.)           *)
(*                                                                          *)
(* A login is named by the fetch whose page it was made in. The storage     *)
(* state is a file that the contexts of this and other processes read and   *)
(* write without a lock.                                                    *)
(****************************************************************************)
EXTENDS AuthGate

CONSTANTS
  Fetches,
  Pages,            \* names of what a tab can show
  Look,             \* what the gate sees of each
  Walls,            \* those that are shown to who is not logged in
  None, NoFile, Torn

ASSUME LoginAssumption ==
  /\ Look \in [Pages -> PageType]
  /\ Walls \subseteq Pages
  /\ None \notin Fetches \cup Pages \cup {NoFile, Torn} /\ NoFile # Torn
  /\ {NoFile, Torn} \cap Fetches = {}

VARIABLES
  headless,         \* of the configuration
  profiled,         \* the session's profile has a storage_state_path
  interactive,      \* what a fetch under way was asked
  pc,               \* where it is
  given,            \* its context was given a storage state
  cookie,           \* the login of its context
  shown,            \* the page in its tab
  first,            \* the page it read first, while it waits
  url,              \* the page whose url a poll has read
  html,             \* the page whose content it is to return, once it knows
  waited,           \* the reason its login wait ended for
  saved,            \* history: the login in the state it has saved
  disk,             \* the login in the storage state file, None for a state without one
  valid,            \* the logins the site accepts
  moved,            \* history: its tab has changed since the first read
  overlapped        \* history: two fetches were under way at a time

tabVars == <<cookie, shown, valid, moved>>
askVars == <<headless, profiled, interactive>>
vars == <<askVars, pc, given, tabVars, first, url, html, waited, saved, disk, overlapped>>

Reasons == {"success_url_pattern", "success_selector", "density_improved_not_login",
            "source_url_returned_not_login"}

Ended == {"returned", "failed"}
Active(f) == pc[f] \notin {"idle"} \cup Ended

Init ==
  /\ headless \in BOOLEAN /\ profiled \in BOOLEAN
  /\ interactive = [f \in Fetches |-> FALSE]
  /\ pc = [f \in Fetches |-> "idle"]
  /\ given = [f \in Fetches |-> FALSE]
  /\ cookie = [f \in Fetches |-> None]
  /\ shown = [f \in Fetches |-> None]
  /\ first = [f \in Fetches |-> None]
  /\ url = [f \in Fetches |-> None]
  /\ html = [f \in Fetches |-> None]
  /\ waited = [f \in Fetches |-> "none"]
  /\ saved = [f \in Fetches |-> None]
  /\ disk = NoFile
  /\ valid = {}
  /\ moved = [f \in Fetches |-> FALSE]
  /\ overlapped = FALSE

-----------------------------------------------------------------------------
(* An exception leaves fetch; its page is closed, nothing is saved. What is *)
(* not needed any more is forgotten.                                        *)
Close(f, how) ==
  /\ pc' = [pc EXCEPT ![f] = how]
  /\ interactive' = [interactive EXCEPT ![f] = FALSE]
  /\ given' = [given EXCEPT ![f] = FALSE]
  /\ cookie' = [cookie EXCEPT ![f] = None]
  /\ shown' = [shown EXCEPT ![f] = None]
  /\ first' = [first EXCEPT ![f] = None]
  /\ url' = [url EXCEPT ![f] = None]
  /\ html' = [html EXCEPT ![f] = None]
  /\ waited' = [waited EXCEPT ![f] = "none"]
  /\ moved' = [moved EXCEPT ![f] = FALSE]
  /\ UNCHANGED <<headless, profiled, valid>>

Fails(f) == Close(f, "failed") /\ UNCHANGED <<saved, disk>>

(* Variant: the state is not read.                                          *)
FreshState(f) == IF profiled /\ disk # NoFile THEN None ELSE NoFile

(* _build_context_kwargs: the file if there is one.                         *)
ContextState(f) == IF profiled THEN disk ELSE NoFile

(* A file that cannot be read makes new_context raise.                      *)
Open(f) ==
  /\ pc[f] = "idle"
  /\ overlapped' = (overlapped \/ \E g \in Fetches : Active(g))
  /\ \/ /\ ContextState(f) # Torn
        /\ pc' = [pc EXCEPT ![f] = "going"]
        /\ \E ask \in BOOLEAN : interactive' = [interactive EXCEPT ![f] = ask]
        /\ given' = [given EXCEPT ![f] = ContextState(f) # NoFile]
        /\ cookie' = [cookie EXCEPT ![f] = IF ContextState(f) = NoFile THEN None ELSE ContextState(f)]
        /\ UNCHANGED <<headless, profiled, shown, valid, moved, first, url, html, waited, saved, disk>>
     \/ Fails(f)

ShownTo(f, p) == p \in Walls => cookie[f] \notin valid

Goto(f) ==
  /\ pc[f] = "going"
  /\ \E p \in Pages : ShownTo(f, p) /\ shown' = [shown EXCEPT ![f] = p]
  /\ pc' = [pc EXCEPT ![f] = "loaded"]
  /\ UNCHANGED <<askVars, given, cookie, valid, moved, first, url, html, waited, saved, disk, overlapped>>

(* The first read and the first detection; only then fetch refuses to wait  *)
(* for a login without a window. The page may refuse to be read.            *)
ReadFirst(f) ==
  /\ pc[f] = "loaded"
  /\ ~(interactive[f] /\ headless)
  /\ IF FirstLook(Look[shown[f]]) /\ interactive[f]
       THEN pc' = [pc EXCEPT ![f] = "poll"] /\ first' = [first EXCEPT ![f] = shown[f]] /\ UNCHANGED html
       ELSE pc' = [pc EXCEPT ![f] = "saving"] /\ html' = [html EXCEPT ![f] = shown[f]] /\ UNCHANGED first
  /\ UNCHANGED <<askVars, given, tabVars, url, waited, saved, disk, overlapped>>

-----------------------------------------------------------------------------
(* _wait_for_interactive_login: a poll reads the url, then the content.     *)

EndWait(f, reason) ==
  /\ waited' = [waited EXCEPT ![f] = reason]
  /\ url' = [url EXCEPT ![f] = None]
  /\ pc' = [pc EXCEPT ![f] = "rereading"]

PollUrl(f) ==
  /\ pc[f] = "poll"
  /\ url' = [url EXCEPT ![f] = shown[f]]
  /\ pc' = [pc EXCEPT ![f] = "polling"]
  /\ UNCHANGED <<askVars, given, tabVars, first, html, waited, saved, disk, overlapped>>

(* Variant: the loop does not look at the time.                             *)
NeverOver(f) == FALSE

(* The loop finds login_wait_timeout_ms over.                               *)
TimesOut(f) ==
  /\ pc[f] = "poll"
  /\ EndWait(f, "login_wait_timeout")
  /\ UNCHANGED <<askVars, given, tabVars, first, html, saved, disk, overlapped>>

PollContent(f) ==
  /\ pc[f] = "polling"
  /\ \E selected \in {FALSE, Look[shown[f]].selector} :
       LET reason == PollSuccess(Look[url[f]], Look[shown[f]], Look[first[f]].density, selected) IN
       \/ reason # "none" /\ EndWait(f, reason)
       \/ /\ reason = "none"
          /\ pc' = [pc EXCEPT ![f] = "poll"]
          /\ url' = [url EXCEPT ![f] = None]
          /\ UNCHANGED waited
  /\ UNCHANGED <<askVars, given, tabVars, first, html, saved, disk, overlapped>>

(* The page keeps navigating through all attempts to read it.               *)
PollNothing(f) ==
  /\ pc[f] = "polling"
  /\ pc' = [pc EXCEPT ![f] = "poll"]
  /\ url' = [url EXCEPT ![f] = None]
  /\ UNCHANGED <<askVars, given, tabVars, first, html, waited, saved, disk, overlapped>>

(* Variant: what cannot be read is returned.                                *)
RereadNone(f) ==
  /\ pc[f] = "rereading"
  /\ html' = [html EXCEPT ![f] = None]
  /\ pc' = [pc EXCEPT ![f] = "saving"]
  /\ UNCHANGED <<askVars, given, tabVars, first, url, waited, saved, disk, overlapped>>

Reread(f) ==
  /\ pc[f] = "rereading"
  /\ \E page \in {first[f], shown[f]} : html' = [html EXCEPT ![f] = page]
  /\ first' = [first EXCEPT ![f] = None]
  /\ pc' = [pc EXCEPT ![f] = "saving"]
  /\ UNCHANGED <<askVars, given, tabVars, url, waited, saved, disk, overlapped>>

-----------------------------------------------------------------------------
(* What fetch tells of the login: auth_required is what the first look has  *)
(* found, which is why it waited if it did. Whether a state was used is     *)
(* asked of the file, at the end.                                           *)
Answer(f) ==
  [auth_required      |-> waited[f] # "none" \/ FirstLook(Look[html[f]]),
   login_wait_reason  |-> waited[f],
   html               |-> html[f],
   storage_state_used |-> profiled /\ disk # NoFile]

(* The storage state is saved whatever came of the login; a failure is a    *)
(* note in auth_reason, and may leave half a file.                          *)
Save(f) ==
  /\ pc[f] = "saving"
  /\ Close(f, "returned")
  /\ \/ ~profiled /\ UNCHANGED <<saved, disk>>
     \/ profiled /\ disk' = cookie[f] /\ saved' = [saved EXCEPT ![f] = cookie[f]]
     \/ profiled /\ disk' \in {disk, Torn} /\ UNCHANGED saved
  /\ UNCHANGED overlapped

(* Context, navigation, reading and polling may raise; so does an           *)
(* interactive fetch without a window, once its page is loaded.             *)
Raise(f) ==
  /\ pc[f] \in {"going", "loaded", "polling", "rereading"}
  /\ Fails(f) /\ UNCHANGED overlapped

FetchStep(f) ==
  \/ Goto(f) \/ ReadFirst(f) \/ PollUrl(f) \/ TimesOut(f) \/ PollContent(f) \/ PollNothing(f)
  \/ Reread(f) \/ Save(f) \/ Raise(f)

-----------------------------------------------------------------------------
(* The site and the person                                                  *)

(* Scripts and redirects show another page of the kind the tab may show     *)
(* (while somebody is to read it).                                          *)
TabMoves(f) ==
  /\ pc[f] \in {"loaded", "poll", "polling", "rereading"}
  /\ \E p \in Pages \ {shown[f]} : ShownTo(f, p) /\ shown' = [shown EXCEPT ![f] = p]
  /\ moved' = [moved EXCEPT ![f] = @ \/ first[f] # None]
  /\ UNCHANGED <<askVars, pc, given, cookie, valid, first, url, html, waited, saved, disk, overlapped>>

(* A person logs in where there is a window with a login page.              *)
LogIn(f) ==
  /\ ~headless /\ shown[f] \in Walls /\ f \notin valid
  /\ cookie' = [cookie EXCEPT ![f] = f]
  /\ valid' = valid \cup {f}
  /\ \E p \in Pages \ Walls : shown' = [shown EXCEPT ![f] = p]
  /\ moved' = [moved EXCEPT ![f] = @ \/ first[f] # None]
  /\ UNCHANGED <<askVars, pc, given, first, url, html, waited, saved, disk, overlapped>>

(* The site ends a login.                                                   *)
LoginEnds ==
  /\ \E l \in valid : valid' = valid \ {l}
  /\ UNCHANGED <<askVars, pc, given, cookie, shown, moved, first, url, html, waited, saved, disk, overlapped>>

Next ==
  \/ \E f \in Fetches : Open(f) \/ FetchStep(f) \/ TabMoves(f) \/ LogIn(f)
  \/ LoginEnds

Spec == Init /\ [][Next]_vars

(* Calls of the browser have time limits. A wait whose polls go on for ever *)
(* finds its time over, as time passes with each.                           *)
FairSpec == Spec /\ \A f \in Fetches : WF_pc(FetchStep(f)) /\ SF_pc(TimesOut(f))
-----------------------------------------------------------------------------
(* Types; what fetch is about to return has been read.                      *)
TypeOK ==
  /\ headless \in BOOLEAN /\ profiled \in BOOLEAN /\ overlapped \in BOOLEAN
  /\ interactive \in [Fetches -> BOOLEAN]
  /\ pc \in [Fetches -> {"idle", "going", "loaded", "poll", "polling", "rereading", "saving"} \cup Ended]
  /\ given \in [Fetches -> BOOLEAN] /\ moved \in [Fetches -> BOOLEAN]
  /\ cookie \in [Fetches -> Fetches \cup {None}] /\ saved \in [Fetches -> Fetches \cup {None}]
  /\ \A seen \in {shown, first, url, html} : seen \in [Fetches -> Pages \cup {None}]
  /\ waited \in [Fetches -> Reasons \cup {"login_wait_timeout", "none"}]
  /\ disk \in Fetches \cup {None, NoFile, Torn}
  /\ valid \subseteq Fetches
  /\ \A f \in Fetches : pc[f] = "saving" => Answer(f).html # None

(* A login that one fetch has saved and the site still accepts is not lost  *)
(* to the fetches after it: each is given the state it will overwrite       *)
(* (_build_context_kwargs, _try_save_storage_state). Of two fetches at a    *)
(* time the one that ends last may still overwrite the other's login.       *)
LoginIsKept ==
  ~overlapped /\ disk # Torn =>
    \A f \in Fetches : saved[f] \in valid => disk \in valid

(* A wait that says the page got denser has seen the tab leave the page it  *)
(* began with: the polls judge without the redirect signal of the first     *)
(* look, so a first page taken for a login page by mistake would otherwise  *)
(* pass for a login. And storage_state_used, asked of the file at the end,  *)
(* tells what the context was given, if no other fetch was under way.       *)
AnswersTellTheTruth ==
  \A f \in Fetches : pc[f] = "saving" =>
    /\ Answer(f).login_wait_reason \in {"density_improved_not_login", "source_url_returned_not_login"}
         => moved[f]
    /\ ~overlapped => Answer(f).storage_state_used = given[f]

(* A fetch ends, also when nobody logs in or the page can never be read.    *)
FetchesEnd == \A f \in Fetches : Active(f) ~> pc[f] \in Ended
=============================================================================
