------------------------------ MODULE ReadPageTool ------------------------------
(****************************************************************************)
(* WebReadPageTool.arun (agent_crawler/tools): the request that the tool    *)
(* makes of its input, and what it tells of the bundle that run() returns.  *)
(* run() returns to arun without a suspension, so that the bundle is mapped *)
(* as run() left it, whatever others do to it later.                        *)
(*                                                                          *)
(* A text of a result is its length, None if there is none.                 *)
(****************************************************************************)
EXTENDS CrawlerRunner, ContentPipeline

Modes == {"agent_text", "chunks", "both", "none"}

ToolInputs ==
  [url : DOMAIN Site, query : Seq(Words) \ {<<>>}, auth_profile_id : Seq(Words) \ {<<>>},
   transport : {"auto", "http", "browser"}, interactive_login : BOOLEAN,
   cache_mode : {"prefer", "refresh", "bypass"}, render_mode : Modes,
   max_chunks : Nat, max_render_chars : Nat, max_chunk_chars : Nat,
   include_links : BOOLEAN, max_links : Nat, include_raw_html : BOOLEAN, max_raw_html_chars : Nat]

(* What of a bundle the mapping reads: the clean document, the lengths of   *)
(* the raw and of the rendered text, the scores of the ranked chunks, what  *)
(* HybridFetcher passes on of the browser (nothing of http), and the steps  *)
(* of the trace, each with the transport of the plan it was recorded under. *)
Document == [text : Seq(Nat \ {0}), links : Nat, dense : BOOLEAN, repeats : BOOLEAN]

Steps == Seq([name : {"policy", "cache", "session", "fetch", "extract", "clean",
                      "assess", "fallback", "render", "emit"},
              transport : {"http", "browser"}])

Facts(doc, raw, rendered, wall, transport, steps) ==
  [doc |-> doc, raw |-> raw, rendered |-> rendered, wall |-> wall, transport |-> transport, steps |-> steps]

TextType == Nat \cup {None}

OutChunkType == [rank : Nat, order : Nat, text : Nat, truncated : BOOLEAN]

ResultType ==
  [ok : BOOLEAN,
   status : {"success", "auth_required", "low_quality", "fetch_error", "extract_error",
             "timeout", "blocked", "config_error", "unknown_error"},
   error : {None, "auth_required", "low_quality"},
   content : [rendered_text : TextType, clean_text_preview : TextType, raw_html_preview : TextType,
              chunks : Seq(OutChunkType), total_text_chars : Nat, total_chunks : Nat, truncated : BOOLEAN],
   links : [links : Nat, total_links : Nat, truncated : BOOLEAN],
   label : {"good", "medium", "poor"},
   fallback : BOOLEAN,
   browser : BOOLEAN,
   cache_hit : BOOLEAN,
   trace : [attempts : Nat \ {0}, fallback_chain : Seq({"http", "browser"})]]

-----------------------------------------------------------------------------
Textual(input) == input.render_mode \in {"agent_text", "both"}

(* The other fields have CrawlRequest's own defaults.                       *)
ToCrawlRequest(input) ==
  [url       |-> input.url,
   query     |-> input.query,
   profile   |-> input.auth_profile_id,
   render    |-> IF Textual(input) THEN "plain" ELSE "none",
   persist   |-> FALSE,
   login     |-> input.interactive_login,
   cacheMode |-> input.cache_mode,
   transport |-> input.transport,
   extract   |-> "auto",
   attempts  |-> 3]

-----------------------------------------------------------------------------
(* Fifteen characters say that the text goes on.                            *)
Truncated(text, limit) ==
  IF text = None \/ text <= limit
  THEN [text |-> text, truncated |-> FALSE]
  ELSE [text |-> limit + 15, truncated |-> TRUE]

AtMost(n, limit) == IF n <= limit THEN n ELSE limit

(* An order of 0 counts as none, and is replaced by the rank.               *)
OutChunks(input, read, scores) ==
  LET chunks == Chunks(read.doc.text)
      places == Ranked(scores)
      Out(k) == LET cut == Truncated(Size(chunks[places[k] + 1]), input.max_chunk_chars) IN
                [rank |-> k - 1, order |-> IF places[k] = 0 THEN k - 1 ELSE places[k],
                 text |-> cut.text, truncated |-> cut.truncated]
  IN  [k \in 1..AtMost(Len(chunks), input.max_chunks) |-> Out(k)]

Content(input, read, scores) ==
  LET raw      == Truncated(IF input.include_raw_html THEN read.raw ELSE None, input.max_raw_html_chars)
      rendered == Truncated(CASE ~Textual(input)                                   -> None
                              [] Textual(input) /\ read.rendered \notin {None, 0}  -> read.rendered
                              [] OTHER -> Chars(read.doc.text), input.max_render_chars)
      clean    == Truncated(Chars(read.doc.text), input.max_render_chars)
  IN  [rendered_text      |-> rendered.text,
       clean_text_preview |-> clean.text,
       raw_html_preview   |-> raw.text,
       chunks             |-> IF input.render_mode = "none" THEN <<>> ELSE OutChunks(input, read, scores),
       total_text_chars   |-> Chars(read.doc.text),
       total_chunks       |-> Len(Chunks(read.doc.text)),
       truncated          |-> raw.truncated \/ rendered.truncated \/ clean.truncated]

Links(input, read) ==
  [links       |-> IF input.include_links THEN AtMost(read.doc.links, input.max_links) ELSE 0,
   total_links |-> read.doc.links,
   truncated   |-> read.doc.links > input.max_links]

Label(score) == CASE score >= 14 -> "good" [] score \in 8..13 -> "medium" [] score < 8 -> "poor"

(* A score below 0.3; run() returns documents only, and none without.       *)
Status(wall, score) ==
  CASE wall                 -> "auth_required"
    [] ~wall /\ score < 6   -> "low_quality"
    [] ~wall /\ score >= 6  -> "success"

(* The steps of a trace are counted as attempts.                            *)
Trace(read) ==
  LET back == SelectSeq(read.steps, LAMBDA step : step.name = "fallback") IN
  [attempts |-> IF read.steps = <<>> THEN 1 ELSE Len(read.steps),
   fallback_chain |-> [k \in DOMAIN back |-> back[k].transport]]

(* map_crawl_result_to_web_result; nothing tells it of a hit in the cache.  *)
Result(input, read, scores, minText) ==
  LET quality == Quality(read.doc, minText)
      status  == Status(read.wall, quality.score)
  IN  [ok        |-> status = "success",
       status    |-> status,
       error     |-> IF status = "success" THEN None ELSE status,
       content   |-> Content(input, read, scores),
       links     |-> Links(input, read),
       label     |-> Label(quality.score),
       fallback  |-> \E k \in DOMAIN read.steps : read.steps[k].name = "fallback",
       browser   |-> read.transport = "browser",
       cache_hit |-> FALSE,
       trace     |-> Trace(read)]
=============================================================================
