------------------------------ MODULE AskWire ------------------------------
(***************************************************************************)
(* The client of AnswerStream against an upstream server that sends any    *)
(* frames at all, or one that follows the live wire shape the repository   *)
(* records (internal/pplx/stream_test.go:9, sse.go:58-61, 102-107,         *)
(* 183-186, 235-238):                                                      *)
(*   - IN_PROGRESS frames carry only the chunks new since the last frame;  *)
(*   - a frame may carry the answer so far (the "stale answer frame");     *)
(*   - the DONE frame repeats every chunk alongside the full answer;       *)
(*   - a final_sse_message frame ends the stream.                          *)
(* The server is external.  The liberties of the recorded one are          *)
(* constants, so that a run can say which promise needs which of them to   *)
(* be absent.                                                              *)
(***************************************************************************)
EXTENDS AnswerStream

CONSTANTS Truth,        \* the answer, as the sequence of its chunks
          Shapes,       \* subset of {"blocks", "text"}: how data is wrapped
          EarlyDone,    \* the DONE frame may come before every chunk was sent
          DoneIsLast,   \* the DONE frame is itself the final_sse_message frame
          MaxAny        \* bound on the frames of a server that sends any

ASSUME WireAssumption ==
  /\ Shapes \subseteq {"blocks", "text"}
  /\ EarlyDone \in BOOLEAN /\ DoneIsLast \in BOOLEAN /\ MaxAny \in Nat

VARIABLES recorded,     \* the server follows the recorded wire
          sentChunks,   \* chunks of Truth sent in IN_PROGRESS frames
          sentDone      \* a DONE frame has been sent

sent == <<recorded, sentChunks, sentDone>>
wireVars == <<vars, sent>>

WireInit == Init /\ recorded \in BOOLEAN /\ sentChunks = 0 /\ sentDone = FALSE

Bare(body) == [rateLimited |-> FALSE, upsell |-> FALSE, uuid |-> Absent,
               token |-> Absent, title |-> Absent, final |-> FALSE, body |-> body]

Wrap(shape, d) ==
  IF shape = "blocks"
  THEN [kind |-> "blocks", blocks |-> <<[usage |-> "ask_text", data |-> d]>>]
  ELSE [kind |-> "object", data |-> d]

AnswerData(progress, chunks, answer) ==
  [results |-> Absent, answer |-> answer, chunks |-> chunks,
   title |-> Absent, progress |-> progress]

\* Absent is no text, no list of chunks, and no data of the answer.
ASSUME AbsentAssumption ==
  /\ Truth \in Seq({Truth[i] : i \in DOMAIN Truth})
  /\ \A i \in 1..(Len(Truth) + 1), j \in 0..Len(Truth) :
       LET chunks == SubSeq(Truth, i, j)
           text   == FlattenSeq(chunks)
       IN  Absent \notin {chunks, text, AnswerData("IN_PROGRESS", chunks, Absent),
                          AnswerData("IN_PROGRESS", Absent, text), AnswerData("DONE", chunks, text)}

SendProgress ==
  \E shape \in Shapes, k \in 1..(Len(Truth) - sentChunks) :
    /\ recorded /\ ~sentDone
    /\ Receive(Bare(Wrap(shape, AnswerData("IN_PROGRESS",
                SubSeq(Truth, sentChunks + 1, sentChunks + k), Absent))))
    /\ sentChunks' = sentChunks + k
    /\ UNCHANGED <<recorded, sentDone>>

SendPartialAnswer ==
  \E shape \in Shapes :
    /\ recorded /\ ~sentDone
    /\ Receive(Bare(Wrap(shape, AnswerData("IN_PROGRESS", Absent,
                FlattenSeq(SubSeq(Truth, 1, sentChunks))))))
    /\ UNCHANGED sent

SendDone ==
  \E shape \in Shapes :
    /\ recorded /\ ~sentDone
    /\ EarlyDone \/ sentChunks = Len(Truth)
    /\ Receive([Bare(Wrap(shape, AnswerData("DONE", Truth, FlattenSeq(Truth))))
                EXCEPT !.final = DoneIsLast])
    /\ sentDone' = TRUE
    /\ UNCHANGED <<recorded, sentChunks>>

SendFinal ==
  /\ sentDone
  /\ Receive([Bare([kind |-> "other"]) EXCEPT !.final = TRUE])
  /\ UNCHANGED sent

SendAny ==
  /\ ~recorded /\ Len(hist) < MaxAny
  /\ \E f \in Frames : Receive(f)
  /\ UNCHANGED sent

Close == (EndOfStream \/ ReadError) /\ UNCHANGED sent

WireNext == SendAny \/ SendProgress \/ SendPartialAnswer \/ SendDone \/ SendFinal \/ Close

WireSpec == WireInit /\ [][WireNext]_wireVars

-----------------------------------------------------------------------------
SentText == FlattenSeq(IF sentDone THEN Truth ELSE SubSeq(Truth, 1, sentChunks))

\* On the recorded wire, at every moment, and so in every Answer, the text is exactly what the
\* server has sent of the answer: nothing repeated although DONE repeats every
\* chunk, nothing stale (sse.go:173-190; ask_test.go:370 "Later frame carrying
\* a full answer must replace earlier chunk-derived text").
AnswerUpToDate == recorded => st.content.answer = SentText

\* stream_test.go:68 "The concatenated deltas must reproduce the final answer
\* text": on the recorded wire what AskStream forwarded adds up to the Answer it
\* returns.
DeltasReproduceAnswer ==
  recorded /\ status = "answered" => FlattenSeq(st.content.deltas) = st.content.answer
=============================================================================
