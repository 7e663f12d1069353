-------------------------------- MODULE AuthGate --------------------------------
(****************************************************************************)
(* AuthGate (agent_crawler/fetch/auth_gate.py): whether a page is a login   *)
(* page, judged by six signals. A page is what the gate sees of it: its     *)
(* signals, the density of its text, whether a configured pattern is in its *)
(* url or a configured selector in its html.                                *)
(****************************************************************************)
EXTENDS Integers, FiniteSetsExt

(* The weights in twentieths.                                               *)
Weight == [redirect |-> 3, urlWord |-> 5, password |-> 7, htmlWord |-> 3,
           sourceInUrl |-> 2, sourceInHtml |-> 2]

PageType == [signals : SUBSET (DOMAIN Weight \ {"redirect"}), density : Nat,
             pattern : BOOLEAN, selector : BOOLEAN]

Confidence == [signals \in SUBSET DOMAIN Weight |-> MapThenSumSet(LAMBDA s : Weight[s], signals)]

(* confidence >= 0.45: three sums of weights are 9/20, {password, one of    *)
(* the sources} and {urlWord, both sources}, and each of them comes to      *)
(* 0.44999999999999996 in binary.                                           *)
LoginRequired(signals) == Confidence[signals] > 9

(* Signals of the url and of the html can come from different pages.        *)
UrlSignals  == {"urlWord", "sourceInUrl"}
SignalsOf(url, html) == (url.signals \cap UrlSignals) \cup (html.signals \ UrlSignals)

(* Every response has its own request's url in its redirect chain, so the   *)
(* first look at a page always has this signal.                             *)
FirstLook(page) == LoginRequired(page.signals \cup {"redirect"})

(* Variant: as dense as before is enough.                                   *)
NotWorse(density, before, margin) == density >= before

(* Densities are such that a step of one is at most 0.05, one of two more.  *)
Denser(density, before, margin) == density > before + margin

(* Why a poll of the login wait is content with what it has read, if it is. *)
PollSuccess(url, html, before, selected) ==
  LET login == LoginRequired(SignalsOf(url, html)) IN
  CASE url.pattern                                                        -> "success_url_pattern"
    [] ~url.pattern /\ selected                                           -> "success_selector"
    [] ~url.pattern /\ ~selected /\ ~login /\ Denser(html.density, before, 1)
                                                                          -> "density_improved_not_login"
    [] ~url.pattern /\ ~selected /\ ~login /\ ~Denser(html.density, before, 1)
       /\ "sourceInUrl" \in url.signals /\ Denser(html.density, before, 0) -> "source_url_returned_not_login"
    [] OTHER                                                              -> "none"
=============================================================================
