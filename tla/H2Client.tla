------------------------------ MODULE H2Client ------------------------------
(***************************************************************************)
(* One client connection of internal/http2x/transport.go: ClientConn, its  *)
(* read loop, and for every request the goroutine that writes it           *)
(* (doRequest), the caller that waits for it (internalRoundTrip) and the   *)
(* caller that reads the response body.                                    *)
(*                                                                         *)
(* The state is one record, c, and an operation is an operator from record *)
(* to record: what the code does while it holds cc.mu, and the frames it   *)
(* writes under cc.wmu right after, is one step.  The frames written in a  *)
(* step collect in c.out and reach the wire when the step commits.         *)
(***************************************************************************)
EXTENDS H2Wire, H2Flow, FiniteSets

CONSTANTS
    Requests,           \* the requests a client makes on this connection
    NoReq,              \* not a request
    Shapes,             \* the requests a caller may make
    Chrome,             \* chromeFingerprint.Enabled
    InitialWindow,      \* 65535, the window of a connection and of a stream
    ChromeWindow,       \* 6291456
    StreamFlow,         \* MaxUploadBufferPerStream
    ConnFlow,           \* MaxUploadBufferPerConnection
    DefaultMaxStreams,  \* maxConcurrentStreams when the server names none
    MaxFrameSize,       \* the peer's MAX_FRAME_SIZE
    LastStreamID,       \* math.MaxInt32
    SingleUse,          \* the connection serves one request only
    ReadSize            \* the buffer callers read response bodies into

VARIABLE c

\* The request the caller made, and whether it has a body to send and close.
Shape(r) == c.cs[r].shape

hasBody(r) == Shape(r).body > 0

clientStream ==
    [shape |-> NoReq, pc |-> "new", ID |-> 0, flow |-> 0, inflow |-> inflow(0), pipe |-> pipe,
     abort |-> NoErr, peerClosed |-> FALSE, respHeaderRecv |-> FALSE, res |-> "none",
     bytesRemain |-> Absent, readErr |-> NoErr, reqBodyClosed |-> FALSE,
     sentEndStream |-> FALSE, sentHeaders |-> FALSE,
     pastHeaders |-> FALSE, pastTrailers |-> FALSE, readClosed |-> FALSE, readAborted |-> FALSE,
     err |-> NoErr,                                     \* what cleanupWriteRequest was given
     rt |-> "none", rtErr |-> NoErr, canceled |-> FALSE, \* the caller and its context
     unsent |-> <<>>, buf |-> <<>>, sawEOF |-> FALSE,    \* the request body
     got |-> <<>>, bodyEnd |-> NoErr, bodyClosed |-> FALSE] \* what the caller read

\* The Chrome preface announces its own windows and no connection update.
preface ==
    IF Chrome THEN <<Settings(ChromeWindow, Absent, 0)>>
    ELSE <<Settings(StreamFlow, Absent, 0), WindowUpdate(0, ConnFlow)>>

newClientConn ==
    [flow |-> outflowAdd(0, InitialWindow),
     inflow |-> inflow(IF Chrome THEN InitialWindow ELSE ConnFlow + InitialWindow),
     initialWindowSize |-> IF Chrome THEN ChromeWindow ELSE InitialWindow,
     recvWindow |-> IF Chrome THEN ChromeWindow ELSE StreamFlow,
     maxConcurrentStreams |-> DefaultMaxStreams,
     doNotReuse |-> FALSE, closing |-> FALSE, closed |-> FALSE, closedOnIdle |-> FALSE,
     seenSettings |-> FALSE, wantSettingsAck |-> TRUE,
     goAway |-> NoErr,
     streams |-> {}, streamsReserved |-> 0, nextStreamID |-> 1,
     pinging |-> FALSE, rstStreamPingsBlocked |-> FALSE, pendingResets |-> 0,
     readBeforeStreamID |-> 0, reqHeaderMu |-> NoReq,
     readerErr |-> NoErr, werr |-> FALSE,
     cs |-> [r \in Requests |-> clientStream],
     out |-> <<>>, shut |-> FALSE]

Init == c = newClientConn /\ WireInit(preface)

\* The frames of the step go out in order; closeConn closes the connection.
Commit(s) ==
    /\ c' = [s EXCEPT !.out = <<>>]
    /\ toServer' = toServer \o s.out
    /\ open' = IF s.shut THEN open \ {"client"} ELSE open
    /\ UNCHANGED toClient

-----------------------------------------------------------------------------
(* Writing, closing and aborting. *)

\* stickyErrWriter: after the first failed write every write fails.
send(s, frames) ==
    IF s.werr \/ s.shut \/ ~Up THEN [s EXCEPT !.werr = @ \/ frames # <<>>]
    ELSE [s EXCEPT !.out = @ \o frames]

windowUpdates(i, connAdd, streamAdd) ==
    (IF connAdd > 0 THEN <<WindowUpdate(0, connAdd)>> ELSE <<>>) \o
    (IF streamAdd > 0 THEN <<WindowUpdate(i, streamAdd)>> ELSE <<>>)

closeReqBodyLocked(s, r) == [s EXCEPT !.cs[r].reqBodyClosed = @ \/ hasBody(r)]

abortStreamLocked(s, r, e) ==
    closeReqBodyLocked([s EXCEPT !.cs[r].abort = IF @ = NoErr THEN e ELSE @], r)

abortAll(s, rs, e) ==
    [s EXCEPT !.cs = [r \in Requests |->
        IF r \in rs THEN abortStreamLocked(s, r, e).cs[r] ELSE @[r]]]

closeForError(s, e) == [abortAll(s, s.streams, e) EXCEPT !.closed = TRUE, !.shut = TRUE]

currentRequestCountLocked(s) == Cardinality(s.streams) + s.streamsReserved + s.pendingResets

\* pendingRequests, which counts here too, is 0: see AwaitOpenSlot.
isUsableLocked(s) ==
    /\ s.goAway = NoErr /\ ~s.closed /\ ~s.closing /\ ~s.doNotReuse
    /\ s.nextStreamID < LastStreamID

\* A connection that failed before its first request takes it, to report why.
idleStateLocked(s) ==
    /\ ~(SingleUse /\ s.nextStreamID > 1)
    /\ \/ currentRequestCountLocked(s) < s.maxConcurrentStreams /\ isUsableLocked(s)
       \/ s.nextStreamID = 1 /\ s.streamsReserved = 0 /\ s.closed /\ ~s.closedOnIdle

closeOnIdle(s) == SingleUse \/ s.doNotReuse \/ s.goAway # NoErr

forgetStreamID(s, r) ==
    LET s1 == [s EXCEPT !.streams = @ \ {r}]
        idle == closeOnIdle(s) /\ s.streamsReserved = 0 /\ s1.streams = {}
    IN  [s1 EXCEPT !.closed = @ \/ idle, !.shut = @ \/ idle]

writeStreamReset(s, r, code, ping) ==
    send(s, <<RSTStream(s.cs[r].ID, code)>> \o IF ping THEN <<Ping(FALSE)>> ELSE <<>>)

\* The errors that are StreamErrors: sent by the peer, or found by this end.
PeerErrs == {"refused", "peerReset", "peerProtocol"}
OwnStreamErrs == {"PROTOCOL", "FLOW_CONTROL"}

-----------------------------------------------------------------------------
(* The caller: internalRoundTrip and the response body. *)

\* ReserveNewRequest, as the pool does it, and the start of doRequest.
RoundTrip(r) ==
    /\ c.cs[r].pc = "new"
    /\ idleStateLocked(c)
    /\ \E q \in Shapes :
         Commit([c EXCEPT !.streamsReserved = @ + 1, !.cs[r].pc = "lock", !.cs[r].rt = "wait",
                          !.cs[r].shape = q, !.cs[r].unsent = [i \in 1..q.body |-> i]])

\* The caller's context ends.
Cancel(r) ==
    /\ c.cs[r].pc # "new" /\ ~c.cs[r].canceled
    /\ c.cs[r].pc # "done" \/ c.cs[r].rt # "done"
    /\ Commit([c EXCEPT !.cs[r].canceled = TRUE])

\* A response that needs no body is returned once the stream is done.
waitsForDone(r) == c.cs[r].res \in {"noBody", "noBodyError"} /\ ~hasBody(r)

\* handleResponseHeaders: an error status stops the request body.
ResponseArrived(r) ==
    /\ c.cs[r].rt = "wait" /\ c.cs[r].respHeaderRecv
    /\ LET s == IF c.cs[r].res \in {"pipeError", "noBodyError"} THEN closeReqBodyLocked(c, r) ELSE c
       IN  IF waitsForDone(r) THEN Commit([s EXCEPT !.cs[r].rt = "last"])
           ELSE Commit([s EXCEPT !.cs[r].rt = "res"])

\* waitDone after the headers of a response without a body.
LastWait(r) ==
    /\ c.cs[r].rt = "last"
    /\ \/ c.cs[r].pc = "done" /\ Commit([c EXCEPT !.cs[r].rt = "res"])
       \/ c.cs[r].canceled /\ Commit([c EXCEPT !.cs[r].rt = "done", !.cs[r].rtErr = "canceled"])

\* An aborted request is reported once its stream is done.
RequestAborted(r) ==
    /\ c.cs[r].rt = "wait" /\ c.cs[r].abort # NoErr /\ ~c.cs[r].respHeaderRecv
    /\ c.cs[r].pc = "done" \/ c.cs[r].canceled
    /\ Commit([c EXCEPT !.cs[r].rt = "done", !.cs[r].rtErr = c.cs[r].abort])

\* The context is one of several ready cases: select may prefer it although
\* the response has arrived.
RequestCanceled(r) ==
    /\ c.cs[r].rt = "wait" /\ c.cs[r].canceled
    /\ Commit([abortStreamLocked(c, r, "canceled") EXCEPT
                 !.cs[r].rt = "done", !.cs[r].rtErr = "canceled"])

hasPipe(r) == c.cs[r].res \in {"pipe", "pipeError"}

\* transportResponseBody.Read: the declared length is enforced before credit
\* is given back.
ReadBody(r) ==
    LET p == pipeRead(c.cs[r].pipe, ReadSize)
        n == Len(p.data)
        left == c.cs[r].bytesRemain
        tooLong == left # Absent /\ n > left
        short == left # Absent /\ p.err = "EOF" /\ left > n
        s0 == [c EXCEPT !.cs[r].pipe = afterRead(@, p)]
        s1 == [s0 EXCEPT !.cs[r].bytesRemain = IF @ = Absent THEN @ ELSE @ - n,
                         !.cs[r].got = @ \o p.data,
                         !.cs[r].bodyEnd = IF p.err # NoErr THEN p.err ELSE @]
        s2 == [s1 EXCEPT !.inflow = inflowAdd(@, n), !.cs[r].inflow = inflowAdd(@, n)]
    IN  /\ c.cs[r].rt = "res" /\ hasPipe(r)
        /\ ~c.cs[r].bodyClosed /\ c.cs[r].bodyEnd = NoErr
        /\ ~p.block
        /\ CASE tooLong -> Commit([abortStreamLocked(s0, r, "tooLong") EXCEPT
                                     !.cs[r].bodyEnd = "tooLong", !.cs[r].readErr = "tooLong"])
             [] short -> Commit([s1 EXCEPT !.cs[r].bodyEnd = "unexpectedEOF",
                                           !.cs[r].readErr = "unexpectedEOF"])
             [] n = 0 /\ ~short -> Commit(s1)
             [] OTHER -> Commit(send(s2, windowUpdates(c.cs[r].ID, inflowSend(c.inflow, n),
                                                       inflowSend(c.cs[r].inflow, n))))

\* transportResponseBody.Close gives the unread bytes' connection credit back
\* and returns when the stream is done or its context is.
CloseBody(r) ==
    LET p == breakWithError(c.cs[r].pipe, "closedBody")
        s == abortStreamLocked([c EXCEPT !.cs[r].pipe = p], r, "closedBody")
        n == pipeLen(p)
    IN  /\ c.cs[r].rt = "res" /\ hasPipe(r) /\ ~c.cs[r].bodyClosed
        /\ Commit(IF n = 0 THEN [s EXCEPT !.cs[r].bodyClosed = TRUE]
                  ELSE send([s EXCEPT !.inflow = inflowAdd(@, n), !.cs[r].bodyClosed = TRUE],
                            windowUpdates(0, inflowSend(c.inflow, n), 0)))

-----------------------------------------------------------------------------
(* The goroutine that writes the request: writeRequest. *)

\* A cancelled request is reset, and unless the server has been heard of since,
\* a PING asks whether it still answers: until then the stream keeps counting.
cancelStream(s, r) ==
    LET ask == ~closeOnIdle(s) /\ ~(s.readBeforeStreamID > s.cs[r].ID) /\ ~s.rstStreamPingsBlocked
        s1 == IF ask THEN [s EXCEPT !.pendingResets = @ + 1] ELSE s
    IN  writeStreamReset(s1, r, "CANCEL", ask /\ s.pendingResets = 0)

decrStreamReservations(s) == [s EXCEPT !.streamsReserved = IF @ > 0 THEN @ - 1 ELSE 0]

\* writeRequest is over.  cleanupWriteRequest up to the reset it may have to
\* send: a stream closed cleanly on both sides has no error.
finish(s, r, e) ==
    LET st == s.cs[r]
        err == IF st.sentEndStream /\ st.peerClosed THEN NoErr ELSE e
        s1 == [closeReqBodyLocked(s, r) EXCEPT
                 !.streamsReserved = IF st.ID = 0 THEN decrStreamReservations(s).streamsReserved ELSE @,
                 !.cs[r].err = err, !.cs[r].pc = "forget"]
        s2 == IF err = NoErr THEN s1 ELSE abortStreamLocked(s1, r, err)
    IN  CASE ~st.sentHeaders \/ err \in PeerErrs -> s2
          [] st.sentHeaders /\ err = NoErr ->
               IF st.sentEndStream THEN s2 ELSE writeStreamReset(s2, r, "NO", FALSE)
          [] st.sentHeaders /\ err \in OwnStreamErrs -> writeStreamReset(s2, r, err, FALSE)
          [] OTHER -> cancelStream(s2, r)

AcquireHeaderLock(r) ==
    /\ c.cs[r].pc = "lock"
    /\ \/ c.reqHeaderMu = NoReq /\ Commit([c EXCEPT !.reqHeaderMu = r, !.cs[r].pc = "slot"])
       \/ c.cs[r].canceled /\ Commit(finish(c, r, "canceled"))

\* A request that says Connection: close is the last the connection takes.
addStreamLocked(s, r) ==
    [s EXCEPT !.streams = @ \cup {r}, !.nextStreamID = @ + 2,
              !.doNotReuse = @ \/ Shape(r).close,
              !.cs[r].ID = s.nextStreamID, !.cs[r].pc = "headers",
              !.cs[r].flow = outflowAdd(0, s.initialWindowSize),
              !.cs[r].inflow = inflow(s.recvWindow)]

unlockHeaders(s) == [s EXCEPT !.reqHeaderMu = NoReq]

\* The reservation becomes a stream.  StrictMaxConcurrentStreams is off, as in
\* the transport of this program: a connection without a free slot is left, and
\* no request is pending for one.
AwaitOpenSlot(r) ==
    LET s == decrStreamReservations(c)
        broken == s.closed /\ s.nextStreamID = 1 /\ s.streamsReserved = 0
        usable == ~s.closed /\ idleStateLocked(s)
    IN  /\ c.cs[r].pc = "slot"
        /\ Commit(CASE broken -> unlockHeaders(finish(s, r, "notEstablished"))
                    [] ~broken /\ ~usable -> unlockHeaders(finish(s, r, "unusable"))
                    [] usable -> addStreamLocked(s, r))

\* encodeAndWriteHeaders: a request canceled meanwhile is not sent.
WriteHeaders(r) ==
    LET st == c.cs[r]
        kind == IF Shape(r).head THEN "HEAD" ELSE IF Shape(r).expect THEN "expect" ELSE "request"
        s == send([c EXCEPT !.cs[r].sentHeaders = TRUE],
                  <<Headers(st.ID, kind, Shape(r).decl, ~hasBody(r))>>)
    IN  /\ st.pc = "headers"
        /\ Commit(unlockHeaders(
             IF st.abort # NoErr THEN finish(c, r, st.abort)
             ELSE IF st.canceled THEN finish(c, r, "canceled")
             ELSE IF s.werr THEN finish(s, r, "writeError")
             ELSE IF hasBody(r) THEN [s EXCEPT !.cs[r].pc = IF Shape(r).expect THEN "continue" ELSE "body"]
             ELSE [s EXCEPT !.cs[r].pc = "wait", !.cs[r].sentEndStream = TRUE]))

\* Expect: 100-continue.  The body waits for the interim response or for the
\* timer, and the timer needs nobody.
AwaitContinue(r) ==
    LET st == c.cs[r]
    IN  /\ st.pc = "continue"
        /\ \/ Commit([c EXCEPT !.cs[r].pc = "body"])
           \/ st.abort # NoErr /\ Commit(finish(c, r, st.abort))
           \/ st.canceled /\ Commit(finish(c, r, "canceled"))

\* body.Read into an empty buffer: the end comes with the last bytes or, when
\* no length tells, after them.
bodyReads(r) ==
    LET st == c.cs[r]
        d == SubSeq(st.unsent, 1, Lesser(MaxFrameSize, Len(st.unsent)))
        rest == SubSeq(st.unsent, Len(d) + 1, Len(st.unsent))
        ends == IF rest # <<>> THEN {FALSE}
                ELSE IF d # <<>> /\ Shape(r).decl = Absent THEN {TRUE, FALSE} ELSE {TRUE}
    IN  IF st.buf # <<>> \/ st.sawEOF THEN {c}
        ELSE {[c EXCEPT !.cs[r].unsent = rest, !.cs[r].buf = d, !.cs[r].sawEOF = e] : e \in ends}

\* The last frame of the request is out.
sentEnd(s, r) == [s EXCEPT !.cs[r].pc = "wait", !.cs[r].sentEndStream = TRUE]

\* awaitFlowControl and the DATA frame it lets through.
writeData(s, r) ==
    LET st == s.cs[r]
        n == Lesser(Len(st.buf), Lesser(MaxFrameSize, available(st.flow, s.flow)))
        last == st.sawEOF /\ n = Len(st.buf) /\ ~Shape(r).trailers
        s1 == send([s EXCEPT !.flow = @ - n, !.cs[r].flow = @ - n,
                             !.cs[r].buf = SubSeq(@, n + 1, Len(@))],
                   <<Data(st.ID, SubSeq(st.buf, 1, n), last)>>)
    IN  IF s1.werr THEN finish(s1, r, "writeError") ELSE IF last THEN sentEnd(s1, r) ELSE s1

\* END_STREAM goes with the trailers or on an empty DATA frame.
endBody(s, r) ==
    LET f == IF Shape(r).trailers THEN Headers(s.cs[r].ID, "trailers", Absent, TRUE)
             ELSE Data(s.cs[r].ID, <<>>, TRUE)
        s1 == send(s, <<f>>)
    IN  IF s1.werr THEN finish(s1, r, "writeError") ELSE sentEnd(s1, r)

\* One round of writeRequestBody.
WriteBody(r) ==
    LET st == c.cs[r]
    IN  /\ st.pc = "body"
        /\ \/ st.reqBodyClosed /\ Commit([c EXCEPT !.cs[r].pc = "wait"])
           \/ c.closed /\ Commit(finish(c, r, "connClosed"))
           \/ ~st.reqBodyClosed /\ ~c.closed /\ st.canceled /\ Commit(finish(c, r, "canceled"))
           \/ /\ ~st.reqBodyClosed /\ ~c.closed /\ ~st.canceled
              /\ \E s \in bodyReads(r) :
                   \/ s.cs[r].buf = <<>> /\ Commit(endBody(s, r))
                   \/ /\ s.cs[r].buf # <<>> /\ available(st.flow, c.flow) > 0
                      /\ Commit(writeData(s, r))

\* The request is written: wait for the peer to close its half, or for an abort.
AwaitPeer(r) ==
    LET st == c.cs[r]
    IN  /\ st.pc = "wait"
        /\ \/ st.peerClosed /\ Commit(finish(c, r, NoErr))
           \/ st.abort # NoErr /\ Commit(finish(c, r, st.abort))
           \/ st.canceled /\ Commit(finish(c, r, "canceled"))

\* No response headers within the response header timeout, which starts when
\* the request is written.
HeaderTimeout(r) ==
    /\ c.cs[r].pc = "wait" /\ ~c.cs[r].respHeaderRecv
    /\ Commit(finish(c, r, "headerTimeout"))

\* Mutant: whatever ended the stream, the body just ends.
Forget_eof(r) ==
    LET s == [c EXCEPT !.cs[r].pipe = closeWithError(@, "EOF"), !.cs[r].pc = "done"]
        s1 == IF c.cs[r].ID # 0 THEN forgetStreamID(s, r) ELSE s
    IN  /\ c.cs[r].pc = "forget"
        /\ Commit(IF c.werr THEN closeForError(s1, "connClosed") ELSE s1)

\* The rest: the pipe is closed, the stream forgotten, donec closed.
Forget(r) ==
    LET st == c.cs[r]
        e == IF st.err = NoErr THEN "canceled" ELSE st.err
        s == [c EXCEPT !.cs[r].pipe = closeWithError(@, e), !.cs[r].pc = "done"]
        s1 == IF st.ID # 0 THEN forgetStreamID(s, r) ELSE s
    IN  /\ st.pc = "forget"
        /\ Commit(IF c.werr THEN closeForError(s1, "connClosed") ELSE s1)

-----------------------------------------------------------------------------
(* The read loop. *)

\* A request of the wire: NoReq when no live stream has that id.
lookup(s, i) ==
    IF \E r \in s.streams : s.cs[r].ID = i /\ ~s.cs[r].readAborted
    THEN CHOOSE r \in s.streams : s.cs[r].ID = i
    ELSE NoReq

\* streamByID: reading anything at all shows that the connection is alive.
streamByID(s, headerOrData) ==
    [s EXCEPT !.readBeforeStreamID = s.nextStreamID,
              !.rstStreamPingsBlocked = @ /\ ~headerOrData]

endStreamError(s, r, e) == [abortStreamLocked(s, r, e) EXCEPT !.cs[r].readAborted = TRUE]

endStream(s, r) ==
    IF s.cs[r].readClosed THEN s
    ELSE [s EXCEPT !.cs[r].readClosed = TRUE, !.cs[r].peerClosed = TRUE,
                   !.cs[r].pipe = closeWithError(@, "EOF")]

\* cleanup of the read loop: what the streams still open are told.
cleanup(s, e) ==
    LET err == IF e # "EOF" THEN e ELSE IF s.goAway # NoErr THEN "goAwayError" ELSE "unexpectedEOF"
        cut == {r \in s.streams : ~s.cs[r].peerClosed}
    IN  [abortAll(s, cut, err) EXCEPT !.closed = TRUE, !.shut = TRUE, !.readerErr = e]

processTrailers(s, r, f) ==
    IF s.cs[r].pastTrailers \/ ~f.end \/ f.kind # "trailers" THEN cleanup(s, "PROTOCOL")
    ELSE endStream([s EXCEPT !.cs[r].pastTrailers = TRUE], r)

\* handleResponse: an informational response is skipped; otherwise the body is
\* absent, missing or a pipe.
handleResponse(s, r, f) ==
    LET error == f.kind = "error"
        clen == IF f.clen = Absent /\ f.end THEN 0 ELSE f.clen
        kind == IF ~f.end /\ ~Shape(r).head THEN (IF error THEN "pipeError" ELSE "pipe")
                ELSE IF f.end /\ clen > 0 /\ ~Shape(r).head THEN "missing"
                ELSE IF error THEN "noBodyError" ELSE "noBody"
    IN  [s EXCEPT !.cs[r].res = kind, !.cs[r].respHeaderRecv = TRUE,
                  !.cs[r].bytesRemain = clen,
                  !.cs[r].pipe = IF kind \in {"pipe", "pipeError"} THEN setBuffer(@) ELSE @]

processHeaders(s0, f) ==
    LET s == streamByID(s0, TRUE)
        r == lookup(s, f.id)
    IN  IF r = NoReq THEN s
        ELSE IF s.cs[r].readClosed THEN endStreamError(s, r, "PROTOCOL")
        ELSE IF s.cs[r].pastHeaders THEN processTrailers(s, r, f)
        ELSE IF f.kind = "trailers" THEN endStreamError(s, r, "PROTOCOL")
        ELSE IF f.kind \in {"info", "continue"}
        THEN (IF f.end THEN endStreamError(s, r, "PROTOCOL") ELSE s)
        ELSE LET s1 == handleResponse([s EXCEPT !.cs[r].pastHeaders = TRUE], r, f)
             IN  IF f.end THEN endStream(s1, r) ELSE s1

\* DATA of a stream that is gone only gives its connection credit back.
discardData(s, f, n) ==
    IF f.id >= s.nextStreamID THEN cleanup(s, "PROTOCOL")
    ELSE IF n = 0 THEN s
    ELSE IF ~canTake(s.inflow, n) THEN cleanup(s, "FLOW_CONTROL")
    ELSE LET took == inflowTake(s.inflow, n)
         IN  send([s EXCEPT !.inflow = inflowAdd(took, n)],
                  windowUpdates(0, inflowSend(took, n), 0))

\* What a pipe no longer takes is returned to the connection at once.
bufferData(s, r, f, n) ==
    LET fits == canWrite(s.cs[r].pipe)
        refund == IF fits THEN 0 ELSE n
        conn == inflowTake(s.inflow, n)
        str == inflowTake(s.cs[r].inflow, n)
        s1 == [s EXCEPT !.inflow = inflowAdd(conn, refund),
                        !.cs[r].inflow = IF fits THEN inflowAdd(str, 0) ELSE str,
                        !.cs[r].pipe = IF fits THEN pipeWrite(@, f.data) ELSE @]
        s2 == send(s1, windowUpdates(f.id, inflowSend(conn, refund),
                                     IF fits THEN inflowSend(str, 0) ELSE 0))
    IN  IF fits THEN s2 ELSE endStreamError(s2, r, "closedPipe")

processData(s0, f) ==
    LET s == streamByID(s0, TRUE)
        r == lookup(s, f.id)
        n == Len(f.data)
        s1 == IF n > 0 THEN bufferData(s, r, f, n) ELSE s
    IN  IF r = NoReq THEN discardData(s, f, n)
        ELSE IF s.cs[r].readClosed \/ ~s.cs[r].pastHeaders THEN endStreamError(s, r, "PROTOCOL")
        ELSE IF n > 0 /\ Shape(r).head THEN endStreamError(s, r, "PROTOCOL")
        ELSE IF n > 0 /\ ~takeInflows(s.inflow, s.cs[r].inflow, n) THEN cleanup(s, "FLOW_CONTROL")
        ELSE IF f.end /\ ~s1.cs[r].readAborted THEN endStream(s1, r) ELSE s1

\* Mutant: the last stream of the GOAWAY counts as unseen.
processGoAway_last(s, f) ==
    LET unseen == {r \in s.streams : s.cs[r].ID >= f.last}
    IN  abortAll([s EXCEPT !.goAway = f.code], unseen, "gotGoAway")

\* setGoAway: streams the server has not seen may be retried elsewhere, except
\* the first when the server reports an error.
processGoAway(s, f) ==
    LET code == IF s.goAway \notin {NoErr, "NO"} THEN s.goAway ELSE f.code
        unseen == {r \in s.streams : s.cs[r].ID > f.last}
        first == {r \in unseen : s.cs[r].ID = 1 /\ code # "NO"}
    IN  abortAll(abortAll([s EXCEPT !.goAway = code], first, "goAwayOnFirst"),
                 unseen \ first, "gotGoAway")

applyWindow(s, win) ==
    [s EXCEPT !.initialWindowSize = win,
              !.cs = [r \in Requests |->
                        IF r \in s.streams
                        THEN [@[r] EXCEPT !.flow = outflowAdd(@, win - s.initialWindowSize)]
                        ELSE @[r]]]

processSettings(s, f) ==
    IF f.ack
    THEN (IF s.wantSettingsAck THEN [s EXCEPT !.wantSettingsAck = FALSE] ELSE cleanup(s, "PROTOCOL"))
    ELSE LET s1 == IF f.win = Absent THEN s ELSE applyWindow(s, f.win)
             max == IF f.streams # Absent THEN f.streams
                    ELSE IF s.seenSettings THEN s.maxConcurrentStreams ELSE DefaultMaxStreams
         IN  send([s1 EXCEPT !.maxConcurrentStreams = max, !.seenSettings = TRUE], <<SettingsAck>>)

processWindowUpdate(s0, f) ==
    LET s == streamByID(s0, FALSE)
        r == lookup(s, f.id)
    IN  IF f.id = 0
        THEN (IF outflowAddOK(s.flow, f.n) THEN [s EXCEPT !.flow = outflowAdd(@, f.n)]
              ELSE cleanup(s, "FLOW_CONTROL"))
        ELSE IF r = NoReq THEN s
        ELSE IF outflowAddOK(s.cs[r].flow, f.n) THEN [s EXCEPT !.cs[r].flow = outflowAdd(@, f.n)]
        ELSE endStreamError(s, r, "FLOW_CONTROL")

resetErr(code) == CASE code = "REFUSED_STREAM" -> "refused"
                    [] code = "PROTOCOL" -> "peerProtocol"
                    [] OTHER -> "peerReset"

processResetStream(s0, f) ==
    LET s == streamByID(s0, FALSE)
        r == lookup(s, f.id)
        e == resetErr(f.code)
    IN  IF r = NoReq THEN s
        ELSE [abortStreamLocked(s, r, e) EXCEPT !.doNotReuse = @ \/ f.code = "PROTOCOL",
                                                !.cs[r].pipe = closeWithError(@, e)]

\* An answer to any PING confirms the resets sent before it.
processPing(s, f) ==
    IF ~f.ack THEN send(s, <<Ping(TRUE)>>)
    ELSE [s EXCEPT !.pinging = FALSE, !.pendingResets = 0,
                   !.rstStreamPingsBlocked = @ \/ s.pendingResets > 0]

process(s, f) ==
    CASE f.t = "HEADERS" -> processHeaders(s, f)
      [] f.t = "DATA" -> processData(s, f)
      [] f.t = "GOAWAY" -> processGoAway(s, f)
      [] f.t = "RST_STREAM" -> processResetStream(s, f)
      [] f.t = "SETTINGS" -> processSettings(s, f)
      [] f.t = "WINDOW_UPDATE" -> processWindowUpdate(s, f)
      [] f.t = "PING" -> processPing(s, f)
      [] f.t = "PUSH_PROMISE" -> cleanup(s, "PROTOCOL")

reading == c.readerErr = NoErr

\* run: one frame; the first must be SETTINGS.
ReadFrame ==
    /\ reading /\ toClient # <<>> /\ "client" \in open
    /\ LET f == Head(toClient)
           s == IF ~c.seenSettings /\ f.t # "SETTINGS" THEN cleanup(c, "PROTOCOL")
                ELSE process(c, f)
       IN  /\ c' = [s EXCEPT !.out = <<>>]
           /\ toServer' = toServer \o s.out
           /\ toClient' = Tail(toClient)
           /\ open' = IF s.shut THEN open \ {"client"} ELSE open

\* The connection is gone: what was still on the wire may be lost with it.
ReadFails ==
    /\ reading /\ open # {"client", "server"}
    /\ Commit(cleanup(c, "EOF"))

-----------------------------------------------------------------------------
(* The connection as a whole. *)

\* closeIfIdle, from the idle timer or from CloseIdleConnections.
CloseIfIdle ==
    /\ c.streams = {} /\ c.streamsReserved = 0 /\ ~c.closed
    /\ Commit([c EXCEPT !.closed = TRUE, !.closedOnIdle = TRUE, !.shut = TRUE])

\* healthCheck and its PING.
HealthCheck ==
    /\ ~c.pinging /\ reading /\ ~c.closed
    /\ Commit(send([c EXCEPT !.pinging = TRUE], <<Ping(FALSE)>>))

\* No answer within the ping timeout.
LostPing ==
    /\ c.pinging /\ ~c.closed
    /\ Commit(closeForError(c, "connLost"))

\* Shutdown: say so, then close once nothing is in flight.
SendGoAway ==
    /\ ~c.closing /\ ~c.closed
    /\ Commit(send([c EXCEPT !.closing = TRUE], <<GoAway(c.nextStreamID, "NO")>>))

ShutdownDone ==
    /\ c.closing /\ ~c.shut /\ c.streams = {}
    /\ Commit([c EXCEPT !.closed = TRUE, !.shut = TRUE])

RequestStep(r) ==
    \/ AcquireHeaderLock(r) \/ AwaitOpenSlot(r) \/ WriteHeaders(r)
    \/ AwaitContinue(r) \/ WriteBody(r) \/ AwaitPeer(r) \/ Forget(r)

CallerStep(r) ==
    \/ ResponseArrived(r) \/ LastWait(r) \/ RequestAborted(r) \/ RequestCanceled(r)
    \/ ReadBody(r) \/ CloseBody(r)

=============================================================================
