---------------------------- MODULE MCBrowserLogin ----------------------------
(* Two fetches of a page behind a login. The login page asks for a name     *)
(* and a password; a landing page has none of the page's url; the article   *)
(* is the page itself, with its url in it and a word of login: the redirect *)
(* signal of the first look makes it a login page, and a poll does not.     *)
EXTENDS BrowserLogin, TLC

CONSTANTS loginPage, landingPage, articlePage

MCPages == {loginPage, landingPage, articlePage}
MCWalls == {loginPage}

MCLook ==
  (loginPage    :> [signals |-> {"urlWord", "password", "htmlWord", "sourceInUrl"}, density |-> 0,
                pattern |-> FALSE, selector |-> FALSE]) @@
  (landingPage  :> [signals |-> {}, density |-> 2, pattern |-> TRUE, selector |-> FALSE]) @@
  (articlePage  :> [signals |-> {"sourceInUrl", "sourceInHtml", "htmlWord"}, density |-> 1,
                pattern |-> FALSE, selector |-> TRUE])
=============================================================================
