---------------------------- MODULE ContentPipeline ----------------------------
(****************************************************************************)
(* What CrawlerRunner does with a page it has fetched, between two          *)
(* suspensions: Cleaner.chunk (webkit/pipeline/clean.py), SimpleReranker    *)
(* (webkit/pipeline/rerank.py), QualityAssessor (agent_crawler/assess) and  *)
(* Renderer (agent_crawler/render).                                         *)
(*                                                                          *)
(* A text is the sequence of the lengths of its paragraphs (which are       *)
(* trimmed, and not empty). A piece is a range of characters of one         *)
(* paragraph, and a chunk the sequence of its pieces. A blank at the cut of *)
(* a long paragraph is kept here, and trimmed in the code.                  *)
(****************************************************************************)
EXTENDS Naturals, Sequences, SequencesExt

CONSTANTS
  MaxChunk, MinChunk    \* max_chunk_chars, min_chunk_chars

ASSUME ContentAssumption == MaxChunk \in Nat \ {0} /\ MinChunk \in Nat

Piece(i, from, to) == [paragraph |-> i, from |-> from, to |-> to]

(* Pieces and paragraphs are joined by an empty line.                       *)
Joined(lengths) == FoldSeq(LAMBDA n, sum : n + sum, 2 * (Len(lengths) - 1), lengths)

Chars(text) == IF text = <<>> THEN 0 ELSE Joined(text)

Size(chunk) == Chars([k \in DOMAIN chunk |-> chunk[k].to - chunk[k].from])

-----------------------------------------------------------------------------
(* Cleaner.chunk                                                            *)

Parts(i, length) ==
  LET n == (length + MaxChunk - 1) \div MaxChunk
      End(k) == IF k = n THEN length ELSE k * MaxChunk
  IN  [k \in 1..n |-> <<Piece(i, (k - 1) * MaxChunk, End(k))>>]

Flushed(state) ==
  IF state.buf = <<>> THEN state ELSE [buf |-> <<>>, chunks |-> Append(state.chunks, state.buf)]

(* A huge paragraph is split on the spot; what is in the buffer stays there *)
(* and comes after it.                                                      *)
AddParagraph(state, i, length) ==
  LET whole == Piece(i, 0, length) IN
  CASE length > MaxChunk  -> [state EXCEPT !.chunks = @ \o Parts(i, length)]
    [] length <= MaxChunk /\ state.buf # <<>> /\ Size(state.buf) + 2 + length > MaxChunk
                          -> [Flushed(state) EXCEPT !.buf = <<whole>>]
    [] OTHER              -> [state EXCEPT !.buf = Append(@, whole)]

Cut(text) ==
  Flushed(FoldLeftDomain(LAMBDA state, i : AddParagraph(state, i, text[i]),
                         [buf |-> <<>>, chunks |-> <<>>], text)).chunks

(* Chunks that are too short are joined with those that follow.             *)
AddChunk(state, chunk) ==
  IF Size(chunk) < MinChunk
  THEN [state EXCEPT !.buf = @ \o chunk]
  ELSE [buf |-> <<>>, chunks |-> Append(Flushed(state).chunks, chunk)]

Merged(chunks) == Flushed(FoldLeft(AddChunk, [buf |-> <<>>, chunks |-> <<>>], chunks)).chunks

Chunks(text) == Merged(Cut(text))

-----------------------------------------------------------------------------
(* SimpleReranker.rank: the places of the chunks (from 0, a chunk's order), *)
(* the best score first, equal ones as they were. The score grows with the  *)
(* chunk's length or with the query's words in it, and falls with its place.*)
Ranked(score) ==
  SortSeq([k \in DOMAIN score |-> k - 1],
          LAMBDA a, b : score[a + 1] > score[b + 1] \/ (score[a + 1] = score[b + 1] /\ a < b))

-----------------------------------------------------------------------------
(* QualityAssessor.score, in twentieths. A document also has a number of    *)
(* links, and is dense in links or repeats its lines or not.                *)
Penalty == [text_too_short |-> 9, no_chunks |-> 5, link_density_high |-> 4, repeated_lines |-> 2]

Reasons(doc, minText) ==
  {reason \in DOMAIN Penalty :
     CASE reason = "text_too_short"    -> Chars(doc.text) < minText
       [] reason = "no_chunks"         -> Chunks(doc.text) = <<>>
       [] reason = "link_density_high" -> doc.dense
       [] reason = "repeated_lines"    -> doc.repeats /\ doc.text # <<>>}

Quality(doc, minText) ==
  [score |-> 20 - FoldFunctionOnSet(+, 0, Penalty, Reasons(doc, minText)),
   ok    |-> Reasons(doc, minText) = {}]

-----------------------------------------------------------------------------
(* Renderer.render: what it shows of the document.                          *)
ShownLinks(doc) == IF doc.links > 20 THEN 20 ELSE doc.links

Rendered(doc, mode) ==
  IF mode = "structured"
  THEN [chunks |-> SubSeq(Chunks(doc.text), 1, IF Len(Chunks(doc.text)) > 8 THEN 8 ELSE Len(Chunks(doc.text))),
        text   |-> IF Chunks(doc.text) = <<>> THEN doc.text ELSE <<>>, links |-> ShownLinks(doc)]
  ELSE [chunks |-> <<>>, text |-> doc.text, links |-> ShownLinks(doc)]
=============================================================================
