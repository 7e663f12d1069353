------------------------ MODULE BrowserPageRegistry ------------------------
(****************************************************************************)
(* BrowserPageRegistry (agent_crawler/fetch/browser_registry.py): browser   *)
(* pages kept open after their fetch, closed after a time to live or when   *)
(* more than max_open_pages are kept. An asyncio lock covers each method    *)
(* from its first read of the dict to the last page it closes; closing a    *)
(* page awaits, so fetches, timers and the callers that queue for the lock  *)
(* run in between.                                                          *)
(*                                                                          *)
(* A page is named by the fetch that opened it. The dict is the sequence    *)
(* of its keys by last_accessed_at; all pages of a fetcher have the same    *)
(* ttl, so the oldest of the sequence expires first.                        *)
(****************************************************************************)
EXTENDS Naturals, Sequences, FiniteSets, SequencesExt

CONSTANTS
  Fetches,        \* calls of BrowserFetcher.fetch, and the page each opens
  Callers,        \* other tasks that use the registry, close_all's included
  MaxOpenPages,   \* max_open_pages
  Nobody          \* the lock is free

ASSUME RegistryAssumption ==
  /\ MaxOpenPages \in Nat \ {0}
  /\ Nobody \notin Fetches \cup Callers
  /\ Fetches \cap Callers = {}

VARIABLES
  pages,          \* keys of _pages, least recently accessed first
  expired,        \* those whose time to live has passed
  lock,           \* the task that holds _lock
  doomed,         \* pages popped by the holder and not closed yet
  page            \* the browser's page of each fetch: "none", "open", "closed"

registryVars == <<pages, expired, lock, doomed, page>>

PageStates == {"none", "open", "closed"}

RegistryInit ==
  /\ pages = <<>>
  /\ expired = {}
  /\ lock = Nobody
  /\ doomed = {}
  /\ page = [f \in Fetches |-> "none"]

Kept == ToSet(pages)

(* A sequence without the members of S, in its order.                       *)
Remaining(s, S) ==
  LET upTo[n \in 0 .. Len(s)] ==
        IF n = 0 THEN <<>>
        ELSE IF s[n] \in S THEN upTo[n - 1] ELSE Append(upTo[n - 1], s[n])
  IN  upTo[Len(s)]

(* The holder pops the pages of S, which it closes one by one.              *)
Pop(S) == pages' = Remaining(pages, S) /\ expired' = expired \ S /\ doomed' = S

(* _close_handle: the errors of page.close and context.close are swallowed. *)
CloseDoomed ==
  \E p \in doomed :
    /\ page' = [page EXCEPT ![p] = "closed"]
    /\ doomed' = doomed \ {p}
    /\ UNCHANGED <<pages, expired, lock>>

(* A method ends when what it popped is closed.                             *)
Release(t) ==
  /\ lock = t
  /\ doomed = {}
  /\ lock' = Nobody
  /\ UNCHANGED <<pages, expired, doomed, page>>

(* register: sweep what has expired ...                                     *)
BeginRegister(t) == lock = Nobody /\ lock' = t /\ Pop(expired) /\ UNCHANGED page

(* Variant: the pages in excess are taken from the recent end.              *)
EvictNewest(kept) == ToSet(SubSeq(kept, MaxOpenPages + 1, Len(kept)))

(* The least recently accessed of the pages in excess of max_open_pages.    *)
Overflow(kept) == ToSet(SubSeq(kept, 1, Len(kept) - MaxOpenPages))

(* ... then insert the new page and evict.                                  *)
Insert(t) ==
  LET kept == Append(pages, t)
  IN /\ lock = t
     /\ doomed = {}
     /\ doomed' = Overflow(kept)
     /\ pages' = Remaining(kept, Overflow(kept))
     /\ expired' = expired \ Overflow(kept)
     /\ UNCHANGED <<lock, page>>

(* get: an expired page is popped and closed, another one becomes the most  *)
(* recently accessed and is returned.                                       *)
Get(t, p) ==
  /\ lock = Nobody
  /\ p \in Kept
  /\ IF p \in expired
     THEN lock' = t /\ Pop({p}) /\ UNCHANGED page
     ELSE /\ pages' = Append(Remaining(pages, {p}), p)
          /\ UNCHANGED <<expired, lock, doomed, page>>

Close(t, p) == lock = Nobody /\ p \in Kept /\ lock' = t /\ Pop({p}) /\ UNCHANGED page

SweepExpired(t) ==
  lock = Nobody /\ expired # {} /\ lock' = t /\ Pop(expired) /\ UNCHANGED page

CloseAll(t) == lock = Nobody /\ lock' = t /\ Pop(Kept) /\ UNCHANGED page

(* The time to live of the least recently accessed fresh page passes.       *)
Expire ==
  /\ \E i \in DOMAIN pages :
       /\ pages[i] \notin expired
       /\ \A j \in 1..(i - 1) : pages[j] \in expired
       /\ expired' = expired \cup {pages[i]}
  /\ UNCHANGED <<pages, lock, doomed, page>>

-----------------------------------------------------------------------------

RegistryTypeOK ==
  /\ pages \in Seq(Fetches) /\ IsInjective(pages)
  /\ expired \subseteq Kept
  /\ lock \in Fetches \cup Callers \cup {Nobody}
  /\ doomed \subseteq Fetches
  /\ page \in [Fetches -> PageStates]
=============================================================================
