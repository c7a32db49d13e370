---------------------------- MODULE LineScanner -----------------------------
(***************************************************************************)
(* scanLines of internal/transport/plain.go, which cuts the body of an ask *)
(* into lines, together with the tail of PostSSE that interprets how it    *)
(* ended.  The body comes in reads of any size, so a line, and even the    *)
(* \r\n that ends it, may be spread over several reads.                    *)
(*                                                                         *)
(* A byte is one of Bytes.  The callback accepts a line, stops the scan    *)
(* with ErrStopScanning when the line holds a Stop byte (the final frame)  *)
(* and fails when it holds a Bad byte (a frame that is an error).          *)
(***************************************************************************)
EXTENDS Naturals, Sequences, FiniteSetsExt, SequencesExt

CONSTANTS LF, CR, Space, Letter, Stop, Bad,   \* the bytes told apart
          Bytes,           \* those the server sends, some of the six
          maxSSELine,      \* cap on the buffer
          ChunkSize,       \* the most one Read returns
          MaxBody          \* bound on the bytes of a body

ASSUME ScanAssumption ==
  /\ maxSSELine \in Nat \ {0} /\ ChunkSize \in Nat \ {0} /\ MaxBody \in Nat
  /\ Bytes \subseteq {LF, CR, Space, Letter, Stop, Bad}

VARIABLES
  body,      \* all that was read so far
  buf,       \* the bytes not yet handed over
  readErr,   \* what the last Read returned as its error
  lines,     \* the lines onLine was called with
  pc,        \* "read", "split" or "done"
  result     \* what PostSSE returns

scanVars == <<body, buf, readErr, lines, pc, result>>

Chunks == SeqOf(Bytes, ChunkSize)

ScanInit ==
  /\ body = <<>> /\ buf = <<>> /\ lines = <<>>
  /\ readErr = "nil" /\ pc = "read" /\ result = "none"

-----------------------------------------------------------------------------
\* bytes.TrimRight(line, "\r").
TrimCR(s) == SubSeq(s, 1, Max({0} \cup {i \in DOMAIN s : s[i] # CR}))

\* len(bytes.TrimSpace(line)) == 0.
Blank(s) == \A i \in DOMAIN s : s[i] \in {Space, CR, LF}

\* What onLine returns for a line.
onLine(line) ==
  IF Contains(line, Bad) THEN "callback error"
  ELSE IF Contains(line, Stop) THEN "stop" ELSE "nil"

\* PostSSE: ErrStopScanning is a clean end, every other error is passed on.
Return(err) ==
  /\ pc' = "done"
  /\ result' = IF err = "stop" THEN "nil" ELSE err

\* Mutant: the cap is forgotten.
Read_uncapped(chunk, err) ==
  /\ pc = "read"
  /\ body' = body \o chunk
  /\ buf' = buf \o chunk
  /\ readErr' = err
  /\ pc' = "split" /\ UNCHANGED result
  /\ UNCHANGED lines

\* One Read, which may bring bytes and an error at once.
Read(chunk, err) ==
  /\ pc = "read"
  /\ body' = body \o chunk
  /\ buf' = buf \o chunk
  /\ readErr' = err
  /\ IF chunk # <<>> /\ Len(buf') > maxSSELine
     THEN Return("line too long")
     ELSE pc' = "split" /\ UNCHANGED result
  /\ UNCHANGED lines

\* Mutant: the line is cut off with the byte before its end.
Split_early ==
  /\ pc = "split" /\ Contains(buf, LF)
  /\ LET idx  == Min({i \in DOMAIN buf : buf[i] = LF})
         line == TrimCR(SubSeq(buf, 1, idx - 2))
     IN  /\ buf' = SubSeq(buf, idx + 1, Len(buf))
         /\ IF Blank(line)
            THEN UNCHANGED <<lines, pc, result>>
            ELSE /\ lines' = Append(lines, line)
                 /\ IF onLine(line) = "nil" THEN UNCHANGED <<pc, result>> ELSE Return(onLine(line))
  /\ UNCHANGED <<body, readErr>>

\* The first line of the buffer: blank lines are skipped.
Split ==
  /\ pc = "split" /\ Contains(buf, LF)
  /\ LET idx  == Min({i \in DOMAIN buf : buf[i] = LF})
         line == TrimCR(SubSeq(buf, 1, idx - 1))
     IN  /\ buf' = SubSeq(buf, idx + 1, Len(buf))
         /\ IF Blank(line)
            THEN UNCHANGED <<lines, pc, result>>
            ELSE /\ lines' = Append(lines, line)
                 /\ IF onLine(line) = "nil" THEN UNCHANGED <<pc, result>> ELSE Return(onLine(line))
  /\ UNCHANGED <<body, readErr>>

\* No full line is left: read on, or fail with the error of the read.
AfterSplit ==
  /\ pc = "split" /\ ~Contains(buf, LF) /\ readErr # "EOF"
  /\ IF readErr = "nil" THEN pc' = "read" /\ UNCHANGED result ELSE Return(readErr)
  /\ UNCHANGED <<body, buf, readErr, lines>>

\* Mutant: what follows the last line end is dropped.
AtEOF_dropsTail ==
  /\ pc = "split" /\ ~Contains(buf, LF) /\ readErr = "EOF"
  /\ Return("nil") /\ UNCHANGED lines
  /\ UNCHANGED <<body, buf, readErr>>

\* End of body: what follows the last line end is a line too.
AtEOF ==
  /\ pc = "split" /\ ~Contains(buf, LF) /\ readErr = "EOF"
  /\ IF Blank(buf)
     THEN Return("nil") /\ UNCHANGED lines
     ELSE lines' = Append(lines, TrimCR(buf)) /\ Return(onLine(TrimCR(buf)))
  /\ UNCHANGED <<body, buf, readErr>>

ScanNext ==
  \/ \E chunk \in Chunks, err \in {"nil", "EOF", "read error"} :
       Len(body) + Len(chunk) <= MaxBody /\ Read(chunk, err)
  \/ Split \/ AfterSplit \/ AtEOF

ScanSpec == ScanInit /\ [][ScanNext]_scanVars

-----------------------------------------------------------------------------
TypeOK ==
  /\ body \in Seq(Bytes) /\ buf \in Seq(Bytes) /\ lines \in Seq(Seq(Bytes))
  /\ readErr \in {"nil", "EOF", "read error"} /\ pc \in {"read", "split", "done"}
  /\ result \in {"none", "nil", "callback error", "read error", "line too long"}

\* A reading of the whole body that knows nothing of reads and buffers: the
\* lines that end at a LF of text, and the rest if it is wanted.
Ends(text) == {i \in DOMAIN text : text[i] = LF}
LineAt(text, i) == TrimCR(SubSeq(text, 1 + Max({0} \cup {j \in Ends(text) : j < i}), i - 1))
Full(text) == {i \in Ends(text) : ~Blank(LineAt(text, i))}
Nth(S, k) == CHOOSE i \in S : Cardinality({j \in S : j <= i}) = k
LinesOf(text) == [k \in 1..Cardinality(Full(text)) |-> LineAt(text, Nth(Full(text), k))]

\* The lines handed over do not depend on how the body was cut into reads: in
\* every state they are the first lines of the body, and the callback accepted
\* all but the last of them (plain.go:371-384).
CutAnywhere ==
  LET all == LinesOf(Append(body, LF))
  IN  /\ Len(lines) <= Len(all) /\ lines = SubSeq(all, 1, Len(lines))
      /\ \A i \in 1..(Len(lines) - 1) : onLine(lines[i]) = "nil"
      /\ pc = "read" => lines = LinesOf(body)

\* A scan that ends without an error either stopped at a Stop line or handed
\* over every line of the whole body, its unterminated last one included
\* (plain.go:386-396): nothing is lost silently.
CleanEndIsComplete ==
  result = "nil" =>
    \/ lines # <<>> /\ onLine(Last(lines)) = "stop"
    \/ readErr = "EOF" /\ lines = LinesOf(Append(body, LF))

\* plain.go:355 "the cap keeps a hostile or broken stream from growing the
\* buffer without limit": the buffer never holds more than one read beyond it.
BufferBounded == Len(buf) <= maxSSELine + ChunkSize

\* plain.go:355 "maxSSELine bounds one SSE line (frame)": a body is refused
\* only when one of its lines is longer than the cap.
OnlyLongLinesRefused ==
  result = "line too long" =>
    \E i \in DOMAIN LinesOf(Append(body, LF)) : Len(LinesOf(Append(body, LF))[i]) > maxSSELine
=============================================================================
