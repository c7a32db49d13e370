------------------------------- MODULE H2Sched -------------------------------
(***************************************************************************)
(* Which frame the server writes next (internal/http2x/writesched*.go):    *)
(* the round-robin, the random and the RFC 9218 priority scheduler.        *)
(*                                                                         *)
(* A write request is [id, ctl, data, ...]: ctl says that it belongs to no *)
(* stream, data is what counts against flow control.  A writeQueue is a    *)
(* sequence; the ring of queues a list head points into is the sequence of *)
(* its stream ids, the head first.  A ring belongs to a class, an urgency  *)
(* and whether its streams are served in turn; the round-robin scheduler   *)
(* has one class only.                                                     *)
(***************************************************************************)
EXTENDS Integers, FiniteSetsExt, SequencesExt

CONSTANTS Urgencies     \* 0..7

ASSUME UrgencyAssumption == Urgencies \subseteq Nat /\ Urgencies # {}

Classes == Urgencies \X {0, 1}
Turn == <<Min(Urgencies), 1>>   \* the only ring of the round-robin scheduler

NoUpdate == [id |-> 0, prio |-> Turn]

newWriteScheduler(kind) ==
    [kind |-> kind, control |-> <<>>, queue |-> <<>>, class |-> <<>>,
     ring |-> [c \in Classes |-> <<>>], prioritizeIncremental |-> FALSE,
     priorityUpdateBuf |-> NoUpdate, panic |-> FALSE]

isOpen(ws, id) == id \in DOMAIN ws.queue

with(map, id, v) == [i \in DOMAIN map \cup {id} |-> IF i = id THEN v ELSE map[i]]
without(map, id) == [i \in DOMAIN map \ {id} |-> map[i]]

\* A new queue goes before the head: it is the last one served.
link(ws, id, c) == [ws EXCEPT !.class = with(@, id, c), !.ring[c] = Append(@, id)]

\* The head moves on when it is the queue that leaves.
unlink(ws, id) == [ws EXCEPT !.class = without(@, id), !.ring[ws.class[id]] = RemoveFirst(@, id)]

-----------------------------------------------------------------------------
(* OpenStream, CloseStream, AdjustStream *)

\* The random scheduler keeps no queue for a stream without frames.
openRandom(ws) == ws

openRoundRobin(ws, id) ==
    IF isOpen(ws, id) THEN [ws EXCEPT !.panic = TRUE]
    ELSE link([ws EXCEPT !.queue = with(@, id, <<>>)], id, Turn)

\* A PRIORITY_UPDATE that came before its stream takes effect now.
openRFC9218(ws, id, prio) ==
    LET early == ws.priorityUpdateBuf.id = id
        p     == IF early THEN ws.priorityUpdateBuf.prio ELSE prio
    IN  IF isOpen(ws, id) THEN [ws EXCEPT !.panic = TRUE]
        ELSE link([ws EXCEPT !.queue = with(@, id, <<>>),
                             !.priorityUpdateBuf.id = IF early THEN 0 ELSE @], id, p)

OpenStream(ws, id, prio) ==
    CASE ws.kind = "random" -> openRandom(ws)
      [] ws.kind = "roundrobin" -> openRoundRobin(ws, id)
      [] ws.kind = "rfc9218" -> openRFC9218(ws, id, prio)

closeRandom(ws, id) == [ws EXCEPT !.queue = without(@, id)]
closeRing(ws, id) == unlink([ws EXCEPT !.queue = without(@, id)], id)

CloseStream(ws, id) ==
    IF ~isOpen(ws, id) THEN ws
    ELSE IF ws.kind = "random" THEN closeRandom(ws, id) ELSE closeRing(ws, id)

\* Only the latest update for a stream that is not open is remembered.
AdjustStream(ws, id, prio) ==
    IF ws.kind # "rfc9218" THEN ws
    ELSE IF ~isOpen(ws, id) THEN [ws EXCEPT !.priorityUpdateBuf = [id |-> id, prio |-> prio]]
    ELSE link(unlink(ws, id), id, prio)

-----------------------------------------------------------------------------
(* Push *)

pushRandom(ws, wr) ==
    [ws EXCEPT !.queue = with(@, wr.id, Append(IF isOpen(ws, wr.id) THEN @[wr.id] ELSE <<>>, wr))]

\* A frame for a stream that is gone is written like a control frame.
pushRing(ws, wr) ==
    IF isOpen(ws, wr.id) THEN [ws EXCEPT !.queue[wr.id] = Append(@, wr)]
    ELSE IF wr.data # <<>> THEN [ws EXCEPT !.panic = TRUE]
    ELSE [ws EXCEPT !.control = Append(@, wr)]

Push(ws, wr) ==
    IF wr.ctl THEN [ws EXCEPT !.control = Append(@, wr)]
    ELSE IF ws.kind = "random" THEN pushRandom(ws, wr) ELSE pushRing(ws, wr)

-----------------------------------------------------------------------------
(* Pop.  allowed[id] is what the windows and the frame size let the stream  *)
(* send at once.                                                            *)

\* A queue whose first frame can be written, in part at least.
ready(ws, allowed, id) ==
    /\ ws.queue[id] # <<>>
    /\ Head(ws.queue[id]).data # <<>> => allowed[id] > 0

\* Mutant: a part of the data carries the END_STREAM of the whole.
partOf_ends(wr, n) == [wr EXCEPT !.data = SubSeq(@, 1, n)]

partOf(wr, n) == [wr EXCEPT !.data = SubSeq(@, 1, n), !.end = FALSE]

\* Consume: all of the request, or as much of its data as is allowed.
consume(ws, allowed, id) ==
    LET wr   == Head(ws.queue[id])
        n    == Min({Len(wr.data), allowed[id]})
        left == [wr EXCEPT !.data = SubSeq(@, n + 1, Len(@))]
        all  == Len(wr.data) <= n
    IN  [wr |-> IF all THEN wr ELSE partOf(wr, n),
         ws |-> [ws EXCEPT !.queue[id] = IF all THEN Tail(@) ELSE <<left>> \o Tail(@)]]

popControl(ws) ==
    {[wr |-> Head(ws.control), ws |-> [ws EXCEPT !.control = Tail(@)]]}

\* Map iteration: any ready stream; a queue that ran empty is dropped.
popRandom(ws, allowed) ==
    {LET c == consume(ws, allowed, id)
     IN  [c EXCEPT !.ws.queue = IF @[id] = <<>> THEN without(@, id) ELSE @] :
        id \in {i \in DOMAIN ws.queue : ready(ws, allowed, i)}}

from(ring, k) == SubSeq(ring, k, Len(ring)) \o SubSeq(ring, 1, k - 1)
\* Mutant: the head stays with the stream that was served.
after_stays(ring, k) == from(ring, k)

after(ring, k) == from(ring, (k % Len(ring)) + 1)

\* The first ready queue of a ring.  Streams served in turn go to the end of
\* the line; one that is not stays at the head until it has nothing to send.
popRing(ws, allowed, c) ==
    LET ring == ws.ring[c]
        k    == SelectInSeq(ring, LAMBDA id : ready(ws, allowed, id))
        p    == consume(ws, allowed, ring[k])
    IN  IF k = 0 THEN {}
        ELSE {[p EXCEPT !.ws.ring[c] = IF c[2] = 1 THEN after(@, k) ELSE from(@, k)]}

\* The most urgent class with a ready stream; within an urgency the two kinds
\* of stream take turns.
popRFC9218(ws0, allowed) ==
    LET ws   == [ws0 EXCEPT !.prioritizeIncremental = ~@]
        rank(c) == 2 * c[1] + (IF ws.prioritizeIncremental THEN 1 - c[2] ELSE c[2])
        some == {c \in Classes : popRing(ws, allowed, c) # {}}
    IN  IF some = {} THEN {}
        ELSE popRing(ws, allowed, CHOOSE c \in some : \A d \in some : rank(c) <= rank(d))

\* What Pop may return: nothing, or a frame and the scheduler after it.
Pop(ws, allowed) ==
    IF ws.control # <<>> THEN popControl(ws)
    ELSE CASE ws.kind = "random" -> popRandom(ws, allowed)
           [] ws.kind = "roundrobin" -> popRing(ws, allowed, Turn)
           [] ws.kind = "rfc9218" -> popRFC9218(ws, allowed)

\* The turn changes even if there was nothing to write.
emptyPop(ws) == IF ws.kind = "rfc9218" THEN [ws EXCEPT !.prioritizeIncremental = ~@] ELSE ws

=============================================================================
