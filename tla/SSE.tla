-------------------------------- MODULE SSE --------------------------------
(***************************************************************************)
(* The parser of the ask endpoint's event stream (internal/pplx/sse.go):   *)
(* how convState folds one data frame into the state of an answer.         *)
(*                                                                         *)
(* A frame is the JSON object of one "data:" line, reduced to the fields   *)
(* processData looks at.  A field the type guards skip (missing, of the    *)
(* wrong type, or, for a uuid, a token or a title, empty) is Absent.  A    *)
(* text is the sequence of the pieces it is made of, the empty text <<>>,  *)
(* so strings.Join(chunks, "") is the flattened sequence of the chunks.    *)
(*                                                                         *)
(* convState is kept in two records: the head (authwalled and the thread   *)
(* identity), which decides what the conversation adopts, and the content  *)
(* (answer, chunks, citations, title and the deltas handed to onChunk).    *)
(* Nothing here is RECURSIVE: modules that use the head are proved about.  *)
(***************************************************************************)
EXTENDS Naturals, Sequences, SequencesExt

CONSTANT Absent     \* "", nil, or a field that is not in the frame

-----------------------------------------------------------------------------
(* The head of a frame: [rateLimited, upsell, uuid, token, final].          *)

EmptyHead == [authwalled |-> FALSE, uuid |-> Absent, token |-> Absent]

Latest(new, old) == IF new = Absent THEN old ELSE new

\* The authwall flag is sticky, a uuid or a token replaces the
\* previous one only when the frame carries a non-empty one.
absorbHead(h, f) ==
  [authwalled |-> h.authwalled \/ f.upsell,
   uuid       |-> Latest(f.uuid, h.uuid),
   token      |-> Latest(f.token, h.token)]

-----------------------------------------------------------------------------
(* The content of a frame.  Answer data is a record                         *)
(*   [results, answer, chunks, title, progress]                             *)
(* whose results are a sequence of urls in which an item that is not an     *)
(* object is Absent.                                                        *)

EmptyContent == [title |-> Absent, answer |-> <<>>, chunks |-> <<>>,
                 citations |-> <<>>, deltas |-> <<>>]

\* The web_results loop: items that are not objects are skipped but still
\* count for the index; the result is nil when nothing is left.
citationsOf(results) ==
  FoldLeftDomain(LAMBDA acc, i :
                   IF results[i] = Absent THEN acc
                   ELSE Append(acc, [index |-> i, url |-> results[i]]),
                 <<>>, results)

\* Mutant: an empty list of results clears the citations.
absorbResults_clears(c, results) ==
  IF results = Absent THEN c ELSE [c EXCEPT !.citations = citationsOf(results)]

absorbResults(c, results) ==
  IF results = Absent \/ citationsOf(results) = <<>> THEN c
  ELSE [c EXCEPT !.citations = citationsOf(results)]

\* Mutant: the joined chunks only fill an empty answer.
absorbAnswerData_fills(c, d) ==
  LET chunks == IF d.chunks = Absent THEN c.chunks ELSE c.chunks \o d.chunks
      joined == d.chunks # Absent /\ d.answer = Absent /\ chunks # <<>> /\ c.answer = <<>>
  IN  [absorbResults(c, d.results) EXCEPT
         !.chunks = chunks,
         !.answer = IF joined THEN FlattenSeq(chunks) ELSE Latest(d.answer, c.answer),
         !.title  = Latest(d.title, c.title)]

\* Mutant: chunks are joined even when the data carry the answer.
absorbAnswerData_joins(c, d) ==
  LET chunks == IF d.chunks = Absent THEN c.chunks ELSE c.chunks \o d.chunks
      joined == d.chunks # Absent /\ chunks # <<>>
  IN  [absorbResults(c, d.results) EXCEPT
         !.chunks = chunks,
         !.answer = IF joined THEN FlattenSeq(chunks) ELSE Latest(d.answer, c.answer),
         !.title  = Latest(d.title, c.title)]

absorbAnswerData(c, d) ==
  LET chunks == IF d.chunks = Absent THEN c.chunks ELSE c.chunks \o d.chunks
      joined == d.chunks # Absent /\ d.answer = Absent /\ chunks # <<>>
  IN  [absorbResults(c, d.results) EXCEPT
         !.chunks = chunks,
         !.answer = IF joined THEN FlattenSeq(chunks)
                    ELSE Latest(d.answer, c.answer),
         !.title  = Latest(d.title, c.title)]

\* Mutant: the DONE block is forwarded as well.
emitChunkDeltas_all(c, md, streaming) ==
  IF streaming /\ md.chunks # Absent THEN [c EXCEPT !.deltas = @ \o md.chunks] ELSE c

\* onChunk is nil for Ask: streaming is FALSE then.
emitChunkDeltas(c, md, streaming) ==
  IF streaming /\ md.progress = "IN_PROGRESS" /\ md.chunks # Absent
  THEN [c EXCEPT !.deltas = @ \o md.chunks]
  ELSE c

\* A block is [usage, data]; data is Absent when the block object lacks the
\* markdown_block (or web_result_block) its usage calls for.
absorbBlock(c, b, streaming) ==
  IF b.data = Absent THEN c
  ELSE CASE b.usage = "ask_text"    -> absorbAnswerData(emitChunkDeltas(c, b.data, streaming), b.data)
         [] b.usage = "web_results" -> absorbResults(c, b.data.results)
         [] OTHER                   -> c

absorbBlocks(c, blocks, streaming) ==
  FoldLeft(LAMBDA acc, b : absorbBlock(acc, b, streaming), c, blocks)

\* The steps of a list up to the first one that ends the loop.  A step is
\* [type, data] with type "RESEARCH_CLARIFYING_QUESTIONS", "FINAL" or another.
endingStep(steps) ==
  SelectInSeq(steps, LAMBDA s : s.type \in {"RESEARCH_CLARIFYING_QUESTIONS", "FINAL"})

absorbSteps(c, steps) ==
  LET i == endingStep(steps) IN
  IF i = 0 \/ steps[i].type # "FINAL" \/ steps[i].data = Absent
  THEN c
  ELSE absorbAnswerData(c, steps[i].data)

asksClarification(body) ==
  /\ body.kind = "steps"
  /\ endingStep(body.steps) # 0
  /\ body.steps[endingStep(body.steps)].type = "RESEARCH_CLARIFYING_QUESTIONS"

\* "other" is a frame without text or blocks, or whose text is not JSON or
\* neither a list nor an object.
absorbBody(c, body, streaming) ==
  CASE body.kind = "steps"  -> absorbSteps(c, body.steps)
    [] body.kind = "object" -> absorbAnswerData(c, body.data)
    [] body.kind = "blocks" -> absorbBlocks(c, body.blocks, streaming)
    [] body.kind = "other"  -> c

\* What processData returns: nil, or the error that ends the scan.  The
\* final_sse_message frame stops the scan before its text or blocks are read.
frameError(f, clarify) ==
  IF f.rateLimited THEN "rateLimited"
  ELSE IF f.final THEN "stop"
  ELSE IF clarify THEN "clarify"
  ELSE "nil"

\* processData on both halves of convState.
processData(st, f, streaming) ==
  IF f.rateLimited THEN st
  ELSE LET titled == [st.content EXCEPT !.title = Latest(f.title, @)]
       IN  [head    |-> absorbHead(st.head, f),
            content |-> IF f.final THEN titled
                        ELSE absorbBody(titled, f.body, streaming)]
=============================================================================
