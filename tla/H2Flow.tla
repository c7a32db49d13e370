------------------------------- MODULE H2Flow -------------------------------
(***************************************************************************)
(* The building blocks both ends of an HTTP/2 connection share in          *)
(* internal/http2x: the flow-control windows of flow.go and the body pipe  *)
(* of pipe.go over the chunked buffer of databuffer.go.                    *)
(*                                                                         *)
(* An inflow is what this end lets its peer send: avail has been announced *)
(* and not used, unsent has been freed and not announced.  An outflow is   *)
(* the number of bytes this end may still send.  A body is a sequence of   *)
(* bytes, each byte standing for its position, so that a lost, repeated or *)
(* reordered byte shows.                                                   *)
(***************************************************************************)
EXTENDS Integers, Sequences

CONSTANTS
    MaxWindow,          \* 2^31 - 1
    InflowMinRefresh,   \* the smallest WINDOW_UPDATE worth sending
    NoErr               \* a nil error

Lesser(a, b) == IF a < b THEN a ELSE b

-----------------------------------------------------------------------------
(* flow.go: inflow *)

inflow(n) == [avail |-> n, unsent |-> 0]

\* Freed credit is kept back while it is both below the minimum and below the
\* window the peer still has.
buffersUpdate(f, n) == f.unsent + n < InflowMinRefresh /\ f.unsent + n < f.avail

inflowAdd(f, n) ==
    IF buffersUpdate(f, n)
    THEN [f EXCEPT !.unsent = @ + n]
    ELSE [avail |-> f.avail + f.unsent + n, unsent |-> 0]

\* The increment of the WINDOW_UPDATE that add asks for, 0 for none.
inflowSend(f, n) == IF buffersUpdate(f, n) THEN 0 ELSE f.unsent + n

\* add panics when the peer would hold more than a window may be.
inflowPanics(f, n) == n < 0 \/ f.unsent + n + f.avail > MaxWindow

canTake(f, n) == n <= f.avail

inflowTake(f, n) == [f EXCEPT !.avail = @ - n]

takeInflows(f1, f2, n) == canTake(f1, n) /\ canTake(f2, n)

-----------------------------------------------------------------------------
(* flow.go: outflow *)

available(streamFlow, connFlow) == Lesser(streamFlow, connFlow)

\* int32 addition: the sum wraps around at the edges.
wrap32(n) == IF n > MaxWindow THEN n - 2 * (MaxWindow + 1)
             ELSE IF n < -MaxWindow - 1 THEN n + 2 * (MaxWindow + 1)
             ELSE n

\* Go's test for an overflowing sum: add refuses what fails it.
outflowAddOK(f, n) == (wrap32(f + n) > n) = (f > 0)

outflowAdd(f, n) == IF outflowAddOK(f, n) THEN wrap32(f + n) ELSE f

-----------------------------------------------------------------------------
(* pipe.go.  buf is the unread part of the dataBuffer, has tells whether    *)
(* there is one, unread counts what a break threw away.                    *)

pipe == [has |-> FALSE, buf |-> <<>>, unread |-> 0, err |-> NoErr, breakErr |-> NoErr]

pipeClosed(p) == p.err # NoErr \/ p.breakErr # NoErr

setBuffer(p) == IF pipeClosed(p) THEN p ELSE [p EXCEPT !.has = TRUE]

pipeLen(p) == IF p.has THEN Len(p.buf) ELSE p.unread

canWrite(p) == ~pipeClosed(p) /\ p.has

pipeWrite(p, d) == [p EXCEPT !.buf = @ \o d]

closeWithError(p, e) == IF p.err # NoErr THEN p ELSE [p EXCEPT !.err = e]

breakWithError(p, e) ==
    IF p.breakErr # NoErr THEN p
    ELSE [p EXCEPT !.breakErr = e, !.unread = @ + Len(p.buf),
                   !.has = FALSE, !.buf = <<>>]

\* What the next Read of at most n bytes answers; "block" while it waits.
pipeRead(p, n) ==
    IF p.breakErr # NoErr THEN [data |-> <<>>, err |-> p.breakErr, block |-> FALSE]
    ELSE IF p.buf # <<>>
    THEN [data |-> SubSeq(p.buf, 1, Lesser(n, Len(p.buf))), err |-> NoErr, block |-> FALSE]
    ELSE [data |-> <<>>, err |-> p.err, block |-> p.err = NoErr]

\* The pipe after that Read: at the end of the data the buffer is let go.
afterRead(p, r) ==
    IF r.data # <<>> THEN [p EXCEPT !.buf = SubSeq(@, Len(r.data) + 1, Len(@))]
    ELSE IF p.breakErr = NoErr THEN [p EXCEPT !.has = FALSE] ELSE p

=============================================================================
