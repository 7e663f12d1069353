--------------------------- MODULE MCCrawlerRunner ---------------------------
(* One page read with and without a login, query and profile; a site with   *)
(* an adapter and one with a relevance gate; two requests whose texts join  *)
(* to the same key; each feature that is not implemented.                   *)
EXTENDS ReadPageTool

MCWords ==
  {"", "a", "b", "q", "anonymous", "me", "wiki", "http", "browser", "universal", "adapter", "intelligent"}

MCSite ==
  (<<"a">>      :> [browser |-> FALSE, adapter |-> "",     gate |-> FALSE]) @@
  (<<"a", "q">> :> [browser |-> FALSE, adapter |-> "",     gate |-> FALSE]) @@
  (<<"b">>      :> [browser |-> TRUE,  adapter |-> "wiki", gate |-> TRUE])

Ask(url) ==
  [url |-> url, query |-> NoText, profile |-> <<"anonymous">>, render |-> "plain", persist |-> FALSE,
   cacheMode |-> "prefer", login |-> FALSE, transport |-> "browser", extract |-> "auto", attempts |-> 2]

(* What the tool is called with by default.                                 *)
ReadPage ==
  [url |-> <<"a">>, query |-> NoText, auth_profile_id |-> <<"anonymous">>, transport |-> "auto",
   interactive_login |-> FALSE, cache_mode |-> "prefer", render_mode |-> "agent_text",
   max_chunks |-> 8, max_render_chars |-> 20, max_chunk_chars |-> 6,
   include_links |-> TRUE, max_links |-> 3, include_raw_html |-> FALSE, max_raw_html_chars |-> 9]

MCRequests ==
  {Ask(<<"a">>),
   ToCrawlRequest([ReadPage EXCEPT !.interactive_login = TRUE]),
   [Ask(<<"a">>) EXCEPT !.query = <<"q">>, !.render = "none"],
   [Ask(<<"a">>) EXCEPT !.profile = <<"me">>, !.cacheMode = "bypass"],
   [Ask(<<"a">>) EXCEPT !.cacheMode = "refresh", !.render = "structured"],
   [Ask(<<"a">>) EXCEPT !.render = "llm", !.attempts = 1],
   [Ask(<<"a">>) EXCEPT !.persist = TRUE, !.render = "none", !.extract = "universal", !.attempts = 0],
   [Ask(<<"a", "q">>) EXCEPT !.render = "none"],
   [Ask(<<"a">>) EXCEPT !.query = <<"q", "">>, !.attempts = 1],
   [Ask(<<"b">>) EXCEPT !.transport = "auto", !.attempts = 5],
   [Ask(<<"b">>) EXCEPT !.query = <<"q">>, !.transport = "http", !.extract = "intelligent"]}

RetryRequests ==
  {ToCrawlRequest([ReadPage EXCEPT !.transport = "browser", !.interactive_login = login]) : login \in BOOLEAN}

-----------------------------------------------------------------------------
(* The tool's requests are requests.                                        *)
ASSUME ToolRequestsAreRequests ==
  \A t \in {"auto", "http", "browser"}, m \in Modes, c \in {"prefer", "refresh", "bypass"}, l \in BOOLEAN :
    ToCrawlRequest([ReadPage EXCEPT !.transport = t, !.render_mode = m, !.cache_mode = c, !.interactive_login = l])
      \in RequestType

(* The chunker on all texts of up to four paragraphs of these lengths.      *)
Texts == UNION {[1..n -> {1, 2, 5, MaxChunk, MaxChunk + 1, 2 * MaxChunk + 3}] : n \in 0..4}

Of(pieces, i) == SelectSeq(pieces, LAMBDA p : p.paragraph = i)

InOrder(pieces) == \A j, k \in DOMAIN pieces : j < k => pieces[j].paragraph <= pieces[k].paragraph

(* Each character is in one chunk, those of a paragraph in their order. No  *)
(* chunk is longer than max_chunk_chars. The chunks are in reading order    *)
(* where no paragraph had to be split (and out of it where one is split     *)
(* while shorter ones before it wait for their chunk).                      *)
ASSUME ChunksHoldTheText ==
  \A text \in Texts :
    LET pieces == FlattenSeq(Chunks(text)) IN
    /\ \A i \in DOMAIN text : LET own == Of(pieces, i) IN
         /\ own[1].from = 0 /\ own[Len(own)].to = text[i]
         /\ \A k \in 2..Len(own) : own[k].from = own[k - 1].to
    /\ \A k \in DOMAIN Chunks(text) : Size(Chunks(text)[k]) <= MaxChunk
    /\ (\A i \in DOMAIN text : text[i] <= MaxChunk) => InOrder(pieces)

ASSUME SplitComesFirst == ~InOrder(FlattenSeq(Chunks(<<2, MaxChunk + 1>>)))

(* What the tool tells: success only of a page without a wall, and never    *)
(* of a page whose quality run() refuses; texts within the limits it was    *)
(* given (and the fifteen characters), whole where it says nothing else.    *)
MCDocuments ==
  [text : {<<>>, <<2>>, <<8, 5>>, <<5, 20, 1>>}, links : {0, 4}, dense : BOOLEAN, repeats : BOOLEAN]

MCInputs ==
  {[ReadPage EXCEPT !.render_mode = m, !.max_chunks = n, !.max_render_chars = r, !.include_raw_html = h] :
     m \in Modes, n \in {0, 1, 8}, r \in {4, 20, 40}, h \in BOOLEAN}

ASSUME ToolTellsTheTruth ==
  \A input \in MCInputs, doc \in MCDocuments, wall \in BOOLEAN :
    LET scores == [k \in DOMAIN Chunks(doc.text) |-> k % 2]
        read   == Facts(doc, 30, IF Textual(input) THEN Chars(doc.text) + 1 ELSE None, wall,
                        IF wall THEN "browser" ELSE "http", <<[name |-> "policy", transport |-> "http"]>>)
        result == Result(input, read, scores, 4)
        shown  == result.content
    IN  /\ result \in ResultType
        /\ result.ok <=> result.error = None
        /\ result.ok => ~wall
        /\ Quality(doc, 4).ok => result.ok = ~wall /\ result.label = "good"
        /\ \A text \in {shown.rendered_text, shown.clean_text_preview} :
             text # None => text <= input.max_render_chars + 15
        /\ ~shown.truncated => shown.clean_text_preview = shown.total_text_chars
        /\ Len(shown.chunks) <= input.max_chunks
        /\ \A k \in DOMAIN shown.chunks : shown.chunks[k].rank = k - 1
        /\ ~result.links.truncated => result.links.links = result.links.total_links
=============================================================================
