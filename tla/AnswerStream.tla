---------------------------- MODULE AnswerStream ----------------------------
(***************************************************************************)
(* One call of askDirect or AskStream from the moment the response body is *)
(* open: the callback of PostSSE folds every frame into convState, and the *)
(* state left at the end becomes the Answer (internal/pplx/ask.go:119-149, *)
(* 178-208).  The upstream server is not trusted to follow any protocol:   *)
(* each frame is any member of Frames.  hist records the frames received,  *)
(* so that the fold can be compared with what it should have computed.     *)
(***************************************************************************)
EXTENDS SSE

CONSTANTS Frames,       \* the frames the server may send
          MaxFrames,    \* bound on the frames of one stream
          Streaming     \* TRUE for AskStream with a callback, FALSE for Ask

\* What JSON decoding guarantees of the data of a frame: a list is a list, also
\* when it is empty, and Absent when the field is missing or no list.
IsList(s) == Len(s) \in Nat /\ s = [i \in 1..Len(s) |-> s[i]]

DataTyped(d) ==
  /\ d.chunks = Absent \/ IsList(d.chunks)
  /\ d.results = Absent \/ IsList(d.results)

ItemsTyped(items) == IsList(items) /\ \A i \in DOMAIN items : items[i].data = Absent \/ DataTyped(items[i].data)

FrameTyped(f) ==
  \/ f.body.kind = "other"
  \/ f.body.kind = "object" /\ DataTyped(f.body.data)
  \/ f.body.kind = "blocks" /\ ItemsTyped(f.body.blocks)
  \/ /\ f.body.kind = "steps" /\ ItemsTyped(f.body.steps)
     /\ \A i \in DOMAIN f.body.steps :
          f.body.steps[i].type \in {"RESEARCH_CLARIFYING_QUESTIONS", "FINAL", "other"}

ASSUME StreamAssumption == MaxFrames \in Nat /\ Streaming \in BOOLEAN

ASSUME FrameAssumption == \A f \in Frames : FrameTyped(f)

VARIABLES hist, st, status

vars == <<hist, st, status>>

Init == /\ hist = <<>>
        /\ st = [head |-> EmptyHead, content |-> EmptyContent]
        /\ status = "scanning"

\* PostSSE returned nil: the authwall check, then the Answer.
returned(head) == IF head.authwalled THEN "failed" ELSE "answered"

\* The PostSSE callback on a data line; an error it returns ends the scan,
\* and PostSSE turns the stop sentinel into success.
Receive(f) ==
  LET err == frameError(f, asksClarification(f.body)) IN
  /\ status = "scanning"
  /\ Len(hist) < MaxFrames
  /\ hist' = Append(hist, f)
  /\ st' = processData(st, f, Streaming)
  /\ status' = CASE err = "nil"  -> "scanning"
                 [] err = "stop" -> returned(st'.head)
                 [] OTHER        -> "failed"

\* The body ends without a final_sse_message frame: scanLines returns nil,
\* which PostSSE does not tell from a complete stream.
EndOfStream ==
  /\ status = "scanning"
  /\ status' = returned(st.head)
  /\ UNCHANGED <<hist, st>>

\* The read fails (reset, timeout, cancelled request).
ReadError ==
  /\ status = "scanning"
  /\ status' = "failed"
  /\ UNCHANGED <<hist, st>>

Next == (\E f \in Frames : Receive(f)) \/ EndOfStream \/ ReadError

Spec == Init /\ [][Next]_vars

-----------------------------------------------------------------------------
(* What the stream should have been folded to, read off its history.       *)

Concat(seqs) == FoldLeft(LAMBDA all, s : all \o s, <<>>, seqs)

\* The answer data a block or a list of steps contributes: of the steps that
\* mean something the first counts.
DataOfBlock(b) == IF b.usage = "ask_text" /\ b.data # Absent THEN <<b.data>> ELSE <<>>

DataOfSteps(steps) ==
  LET ends  == {i \in DOMAIN steps : steps[i].type # "other"}
      first == steps[Min(ends)]
  IN  IF ends # {} /\ first.type = "FINAL" /\ first.data # Absent THEN <<first.data>> ELSE <<>>

\* The answer data a frame contributes, in order.
DataOf(f) ==
  IF f.rateLimited \/ f.final THEN <<>>
  ELSE CASE f.body.kind = "object" -> <<f.body.data>>
         [] f.body.kind = "blocks" -> Concat([i \in DOMAIN f.body.blocks |-> DataOfBlock(f.body.blocks[i])])
         [] f.body.kind = "steps"  -> DataOfSteps(f.body.steps)
         [] OTHER -> <<>>

AllData == Concat([i \in DOMAIN hist |-> DataOf(hist[i])])

ChunksOf(d) == IF d.chunks = Absent THEN <<>> ELSE d.chunks

ChunksUpTo(D, k) == Concat([i \in 1..k |-> ChunksOf(D[i])])

\* The data that settle the answer: an answer, or chunks when the stream has
\* carried at least one by then.
Settles(D, k) ==
  \/ D[k].answer # Absent
  \/ D[k].chunks # Absent /\ ChunksUpTo(D, k) # <<>>

ReferenceAnswer(D) ==
  LET K == {k \in DOMAIN D : Settles(D, k)}
      k == CHOOSE m \in K : \A j \in K : j <= m
  IN  IF K = {} THEN <<>>
      ELSE IF D[k].answer # Absent THEN D[k].answer
      ELSE FlattenSeq(ChunksUpTo(D, k))

-----------------------------------------------------------------------------
\* The answer text is that of the last frame that settles it: a full answer
\* verbatim, or every chunk so far joined (absorbAnswerData, sse.go:173-190).
\* Chunks that arrived before an answer are never lost from a later join, and
\* no stale answer survives a later chunk frame.
AnswerIsLatest == st.content.answer = ReferenceAnswer(AllData)

\* Citations, once shown, are replaced but never dropped: a later frame whose
\* web_results is empty or malformed leaves them alone (sse.go:169-171,
\* 226-228).  Indices grow with the position in web_results, so [n] markers
\* keep their meaning when malformed results are skipped.
CitationsStay ==
  [][/\ st.content.citations # <<>> => st'.content.citations # <<>>
     /\ \A i, j \in DOMAIN st'.content.citations :
          i < j => st'.content.citations[i].index < st'.content.citations[j].index]_vars
=============================================================================
