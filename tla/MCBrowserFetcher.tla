-------------------------- MODULE MCBrowserFetcher --------------------------
(* Finite instances of the fetcher. Fetches and drivers are alike, which    *)
(* the runs without temporal properties use.                                *)
EXTENDS BrowserFetcher, TLC

MCCallers == {User, Closer}
Symmetry  == Permutations(Fetches) \cup Permutations(Drivers)
=============================================================================
