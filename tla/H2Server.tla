------------------------------ MODULE H2Server ------------------------------
(***************************************************************************)
(* One server connection of internal/http2x/server.go: the serve loop that *)
(* owns serverConn and its streams, the goroutine that writes a frame, and *)
(* for every stream the goroutine of its handler.                          *)
(*                                                                         *)
(* The state is one record, s, and an operation is an operator from record *)
(* to record.  One message taken by the serve loop is one step; it ends in *)
(* scheduleFrameWrite, whose choice among the streams that have something  *)
(* to write is left open (H2Sched is about that choice).  A handler's send *)
(* to the serve loop and its receipt are one step, as the channels are     *)
(* unbuffered.  Frames of the control queue are written in place; a frame  *)
(* of a stream is written by a goroutine and reported back later, which    *)
(* for a frame that fits the buffer may be at once.  Server push is left   *)
(* out: both prefaces of the client switch it off.                         *)
(***************************************************************************)
EXTENDS H2Wire, H2Flow, FiniteSets, FiniteSetsExt, SequencesExt

CONSTANTS
    StreamIDs,              \* the ids a client uses: odd numbers from 1
    Responses,              \* what a handler may answer
    AdvMaxStreams,          \* MaxConcurrentStreams
    RecvWindow,             \* MaxUploadBufferPerStream
    ConnWindow,             \* MaxUploadBufferPerConnection
    DefaultWindow,          \* 65535, the window before anything is said
    PeerMaxFrame,           \* the client's MAX_FRAME_SIZE
    ChunkSize,              \* handlerChunkWriteSize
    HandlerReadSize,        \* the buffer handlers read request bodies into
    MaxQueuedControlFrames,
    NoWrite                 \* no frame is being written

VARIABLE s

stream ==
    [state |-> "idle", flow |-> 0, inflow |-> inflow(0), body |-> pipe, hasBody |-> FALSE,
     declBodyBytes |-> Absent, bodyBytes |-> 0, gotTrailerHeader |-> FALSE,
     resetQueued |-> FALSE, queue |-> <<>>, head |-> FALSE, wroteHeaders |-> FALSE,
     h |-> "none", reply |-> FALSE, done |-> FALSE, sentHeader |-> FALSE, endStream |-> FALSE,
     info |-> FALSE, unwritten |-> <<>>, bw |-> <<>>,      \* responseWriterState
     needsContinue |-> FALSE, noteN |-> 0, got |-> <<>>, bodyEnd |-> NoErr]  \* requestBody

connWindowUpdate == IF ConnWindow > DefaultWindow THEN ConnWindow - DefaultWindow ELSE 0

\* serve before its loop: what it announces.
prefaceFrames ==
    <<Settings(RecvWindow, AdvMaxStreams, Absent)>> \o
    (IF connWindowUpdate > 0 THEN <<WindowUpdate(0, connWindowUpdate)>> ELSE <<>>)

\* res is what the handlers will answer.
newServerConn(res) ==
    [res |-> res, flow |-> outflowAdd(0, DefaultWindow),
     inflow |-> inflow(DefaultWindow + connWindowUpdate),
     initialStreamSendWindowSize |-> DefaultWindow,
     sawFirstSettings |-> FALSE, unackedSettings |-> 1, needToSendSettingsAck |-> FALSE,
     streams |-> {}, maxClientStreamID |-> 0, st |-> [i \in StreamIDs |-> stream],
     control |-> <<>>, writing |-> NoWrite,
     inGoAway |-> FALSE, needToSendGoAway |-> FALSE, goAwayCode |-> "NO",
     curHandlers |-> 0, unstartedHandlers |-> <<>>,
     pingSent |-> FALSE, shutdownTimer |-> FALSE,
     serving |-> TRUE, panicked |-> {}, staleTrailers |-> FALSE, out |-> <<>>, shut |-> FALSE]

Init == \E res \in Responses : s = newServerConn(res)

-----------------------------------------------------------------------------
(* Queueing and writing frames. *)

\* Mutant: a closed stream looks like one that was never opened.
state_forgets(t, i) == IF i \in t.streams THEN t.st[i].state ELSE "idle"

state(t, i) ==
    IF i \in t.streams THEN t.st[i].state
    ELSE IF i <= t.maxClientStreamID THEN "closed" ELSE "idle"

\* The serve loop fails an assertion; why is what it was about to do.
internalPanic(t, why) == [t EXCEPT !.panicked = @ \cup {why}]

panicIf(bad, t, why) == IF bad THEN internalPanic(t, why) ELSE t

pushControl(t, f) == [t EXCEPT !.control = Append(@, f)]

\* writeFrame for a frame that belongs to a stream: nothing but a reset is
\* sent once the stream is closed, and no 100 once headers have been queued (an
\* interim status counts as headers).
writeFrame(t, i, f, done) ==
    LET isHeaders == f.t = "HEADERS"
        isContinue == isHeaders /\ f.kind = "continue"
        ignore == state(t, i) = "closed" \/ (isContinue /\ t.st[i].wroteHeaders)
    IN  [t EXCEPT !.st[i].wroteHeaders = @ \/ (isHeaders /\ ~isContinue),
                  !.st[i].queue = IF ignore THEN @ ELSE Append(@, [f |-> f, done |-> done])]

sendWindowUpdate(t, n) ==
    LET send == inflowSend(t.inflow, n)
        t1 == panicIf(inflowPanics(t.inflow, n), [t EXCEPT !.inflow = inflowAdd(@, n)], "window")
    IN  IF send = 0 THEN t1 ELSE pushControl(t1, WindowUpdate(0, send))

sendStreamWindowUpdate(t, i, n) ==
    LET send == inflowSend(t.st[i].inflow, n)
        t1 == panicIf(inflowPanics(t.st[i].inflow, n),
                      [t EXCEPT !.st[i].inflow = inflowAdd(@, n)], "window")
    IN  IF send = 0 THEN t1 ELSE writeFrame(t1, i, WindowUpdate(i, send), FALSE)

resetStream(t, i, code) ==
    LET t1 == pushControl(t, RSTStream(i, code))
    IN  IF i \in t.streams THEN [t1 EXCEPT !.st[i].resetQueued = TRUE] ELSE t1

\* Closing a stream gives the credit of its unread body back, wakes whoever
\* waits for it and drops what it has queued.
closeStream(t, i, e) ==
    IF t.st[i].state \in {"idle", "closed"} THEN internalPanic(t, e)
    ELSE LET t1 == [t EXCEPT !.streams = @ \ {i}, !.st[i].state = "closed", !.st[i].queue = <<>>]
             t2 == sendWindowUpdate(t1, pipeLen(t.st[i].body))
         IN  IF ~t.st[i].hasBody THEN t1
             ELSE [t2 EXCEPT !.st[i].body = closeWithError(@, e)]

goAway(t, code) ==
    IF t.inGoAway THEN [t EXCEPT !.goAwayCode = IF @ = "NO" THEN code ELSE @]
    ELSE [t EXCEPT !.inGoAway = TRUE, !.needToSendGoAway = TRUE, !.goAwayCode = code]

\* Once a connection error is announced nothing else is.
mayPop(t) == ~t.inGoAway \/ t.goAwayCode = "NO"

put(t, f) == IF Up THEN [t EXCEPT !.out = Append(@, f)] ELSE t

\* Mutant: the stream of a written RST_STREAM is closed although it may be.
writeControl_closesAgain(t, f) ==
    LET t1 == put(t, f)
    IN  IF f.t = "RST_STREAM" THEN closeStream(t1, f.id, "reset") ELSE t1

\* startFrameWrite and wroteFrame of one control frame.
writeControl(t, f) ==
    LET t1 == put(t, f)
    IN  IF f.t = "RST_STREAM" /\ f.id \in t.streams THEN closeStream(t1, f.id, "reset") ELSE t1

\* A reset may free credit, which is announced last.
writeAllControl(t) ==
    LET t1 == FoldLeft(writeControl, [t EXCEPT !.control = <<>>], t.control)
    IN  FoldLeft(writeControl, [t1 EXCEPT !.control = <<>>], t1.control)

goAwayAndAck(t) ==
    LET t1 == IF t.needToSendGoAway THEN put(t, GoAway(t.maxClientStreamID, t.goAwayCode)) ELSE t
        t2 == IF t.needToSendSettingsAck THEN put(t1, SettingsAck) ELSE t1
    IN  [t2 EXCEPT !.needToSendGoAway = FALSE, !.needToSendSettingsAck = FALSE]

\* FrameWriteRequest.Consume: as much of a DATA frame as the windows allow.
allowed(t, i) == Lesser(available(t.st[i].flow, t.flow), PeerMaxFrame)

isSized(f) == f.t = "DATA" /\ f.data # <<>>

consumable(t) ==
    {i \in t.streams : t.st[i].queue # <<>> /\ (isSized(Head(t.st[i].queue).f) => allowed(t, i) > 0)}

Consume(t, i) ==
    LET wr == Head(t.st[i].queue)
        n == Lesser(Len(wr.f.data), allowed(t, i))
        rest == [wr EXCEPT !.f.data = SubSeq(@, n + 1, Len(@))]
        left == Tail(t.st[i].queue)
    IN  IF ~isSized(wr.f) THEN [wr |-> wr, queue |-> left, n |-> 0]
        ELSE IF n = Len(wr.f.data) THEN [wr |-> wr, queue |-> left, n |-> n]
        ELSE [wr |-> [f |-> Data(i, SubSeq(wr.f.data, 1, n), FALSE), done |-> FALSE],
              queue |-> <<rest>> \o left, n |-> n]

\* startFrameWrite for a stream's frame, with its assertion.
startFrameWrite(t, i) ==
    LET p == Consume(t, i)
        bad == t.st[i].state = "halfClosedLocal" /\ p.wr.f.t \notin {"RST_STREAM", "WINDOW_UPDATE"}
        t1 == [t EXCEPT !.writing = [i |-> i, f |-> p.wr.f, done |-> p.wr.done],
                        !.flow = @ - p.n, !.st[i].flow = @ - p.n, !.st[i].queue = p.queue]
    IN  put(panicIf(bad, t1, "half closed"), p.wr.f)

\* END_STREAM has been written: an unfinished request is told to stop.
endsStream(t, i) ==
    CASE t.st[i].state = "open" ->
           resetStream([t EXCEPT !.st[i].state = "halfClosedLocal"], i, "NO")
      [] t.st[i].state = "halfClosedRemote" -> closeStream(t, i, "handlerComplete")
      [] OTHER -> t

\* The RST_STREAM of a handler that panicked closes its stream, whatever has
\* become of the stream since the frame was taken from its queue.
wroteFrame(t) ==
    LET w == t.writing
        t1 == [t EXCEPT !.writing = NoWrite, !.st[w.i].reply = @ \/ w.done]
    IN  CASE w.f.t \in {"DATA", "HEADERS"} /\ w.f.end -> endsStream(t1, w.i)
          [] w.f.t = "RST_STREAM" -> closeStream(t1, w.i, "handlerPanicked")
          [] OTHER -> t1

\* scheduleFrameWrite: the states it may leave behind.  The loop ends when a
\* frame is on its way or no stream can send.
scheduleFrameWrite(t0) ==
    LET t1 == goAwayAndAck(t0)
        t == IF mayPop(t1) THEN writeAllControl(t1) ELSE t1
    IN  IF t0.writing # NoWrite \/ t0.panicked # {} THEN {t0}
        ELSE IF ~mayPop(t) \/ consumable(t) = {} THEN {t}
        ELSE {startFrameWrite(t, i) : i \in consumable(t)}

\* serve returns: the handlers are told, the connection is closed.
leave(t) ==
    LET t1 == FoldSet(LAMBDA i, u : closeStream(u, i, "clientDisconnected"), t, t.streams)
    IN  [t1 EXCEPT !.serving = FALSE, !.shut = TRUE, !.control = <<>>]

\* The end of an iteration of serve: limits and the timer of a GOAWAY; a panic
\* ends the loop, and what is deferred does what it does at every other end.
endOfLoop(t) ==
    LET sent == t.inGoAway /\ ~t.needToSendGoAway /\ t.writing = NoWrite
        armed == t.goAwayCode # "NO" \/ t.streams = {}
    IN  IF ~t.serving THEN t
        ELSE IF t.panicked # {} \/ Len(t.control) > MaxQueuedControlFrames THEN leave(t)
        ELSE [t EXCEPT !.shutdownTimer = @ \/ (sent /\ armed)]

\* A step of the serve loop; env says what else becomes of the wire.
Commit(t) ==
    /\ s' = [t EXCEPT !.out = <<>>]
    /\ toClient' = toClient \o t.out
    /\ open' = IF t.shut THEN open \ {"server"} ELSE open

Serve(t) ==
    /\ s.serving
    /\ \E u \in scheduleFrameWrite(t) : Commit(endOfLoop(u))
    /\ UNCHANGED toServer

\* A step of another goroutine.
Local(t) == s' = t /\ UNCHANGED wire

-----------------------------------------------------------------------------
(* Frames from the client. *)

connError(t, i, code) ==
    goAway([t EXCEPT !.maxClientStreamID = IF i > @ THEN i ELSE @], code)

takeConn(t, n) == [t EXCEPT !.inflow = inflowTake(@, n)]

\* Mutant: the bytes are not charged before their credit is returned.
discard_uncharged(t, i, n) ==
    IF canTake(t.inflow, n) THEN sendWindowUpdate(t, n) ELSE resetStream(t, i, "FLOW_CONTROL")

\* DATA nobody wants: its credit goes straight back.
discard(t, i, n) ==
    IF canTake(t.inflow, n) THEN sendWindowUpdate(takeConn(t, n), n)
    ELSE resetStream(t, i, "FLOW_CONTROL")

endStream(t, i) ==
    LET x == t.st[i]
        short == x.declBodyBytes # Absent /\ x.declBodyBytes # x.bodyBytes
    IN  [t EXCEPT !.st[i].state = "halfClosedRemote",
                  !.st[i].body = closeWithError(@, IF short THEN "declaredMore" ELSE "EOF")]

processTrailerHeaders(t, i, f) ==
    LET t1 == [t EXCEPT !.st[i].gotTrailerHeader = TRUE]
    IN  IF t.st[i].gotTrailerHeader THEN connError(t, i, "PROTOCOL")
        ELSE IF ~f.end \/ f.kind # "trailers" THEN resetStream(t1, i, "PROTOCOL")
        ELSE endStream(t1, i)

\* newStream and newWriterAndRequest.
newStream(t, i, f) ==
    [t EXCEPT !.streams = @ \cup {i},
              !.st[i] = [stream EXCEPT !.state = IF f.end THEN "halfClosedRemote" ELSE "open",
                           !.flow = outflowAdd(0, t.initialStreamSendWindowSize),
                           !.inflow = inflow(RecvWindow),
                           !.head = f.kind = "HEAD",
                           !.needsContinue = f.kind = "expect",
                           !.hasBody = ~f.end,
                           !.body = IF f.end THEN @ ELSE setBuffer(@),
                           !.declBodyBytes = IF f.end THEN 0 ELSE f.clen,
                           !.info = t.res.info,
                           !.unwritten = [k \in 1..t.res.body |-> k],
                           !.h = "queued"]]

scheduleHandler(t, i) ==
    IF t.curHandlers < AdvMaxStreams
    THEN [t EXCEPT !.curHandlers = @ + 1, !.st[i].h = "run"]
    ELSE IF Len(t.unstartedHandlers) > 4 * AdvMaxStreams
    THEN connError(t, i, "ENHANCE_YOUR_CALM")
    ELSE [t EXCEPT !.unstartedHandlers = Append(@, i)]

processHeaders(t, f) ==
    LET i == f.id
        t1 == [t EXCEPT !.maxClientStreamID = i]
    IN  IF i \in t.streams
        THEN IF t.st[i].resetQueued THEN t
             ELSE IF t.st[i].state = "halfClosedRemote" THEN resetStream(t, i, "STREAM_CLOSED")
             ELSE processTrailerHeaders(t, i, f)
        ELSE IF i <= t.maxClientStreamID
        THEN connError([t EXCEPT !.staleTrailers = @ \/ f.kind = "trailers"], i, "PROTOCOL")
        ELSE IF Cardinality(t.streams) + 1 > AdvMaxStreams
        THEN resetStream(t1, i, IF t.unackedSettings = 0 THEN "PROTOCOL" ELSE "REFUSED_STREAM")
        ELSE IF f.kind = "trailers" THEN resetStream(newStream(t1, i, f), i, "PROTOCOL")
        ELSE scheduleHandler(newStream(t1, i, f), i)

\* The body takes the bytes, unless its reader has gone.
bufferData(t, i, f, n) ==
    LET t1 == [takeConn(t, n) EXCEPT !.st[i].inflow = inflowTake(@, n),
                                     !.st[i].bodyBytes = @ + n]
    IN  IF canWrite(t.st[i].body)
        THEN [t1 EXCEPT !.st[i].body = pipeWrite(@, f.data)]
        ELSE sendWindowUpdate(t1, n)

processData(t, f) ==
    LET i == f.id
        n == Len(f.data)
        x == t.st[i]
        live == i \in t.streams /\ x.state = "open" /\ ~x.gotTrailerHeader /\ ~x.resetQueued
        tooMuch == x.declBodyBytes # Absent /\ x.bodyBytes + n > x.declBodyBytes
        lost == n > 0 /\ ~canWrite(x.body)
        t1 == IF n > 0 THEN bufferData(t, i, f, n) ELSE t
    IN  IF state(t, i) = "idle" THEN connError(t, i, "PROTOCOL")
        ELSE IF ~live
        THEN IF ~canTake(t.inflow, n) \/ (i \in t.streams /\ x.resetQueued)
             THEN discard(t, i, n)
             ELSE resetStream(discard(t, i, n), i, "STREAM_CLOSED")
        ELSE IF tooMuch
        THEN IF ~canTake(t.inflow, n) THEN discard(t, i, n)
             ELSE resetStream([discard(t, i, n) EXCEPT !.st[i].body =
                                 closeWithError(@, "sentTooMuch")], i, "PROTOCOL")
        ELSE IF n > 0 /\ ~takeInflows(t.inflow, x.inflow, n) THEN resetStream(t, i, "FLOW_CONTROL")
        ELSE IF f.end /\ ~lost THEN endStream(t1, i) ELSE t1

processSettingInitialWindowSize(t, win) ==
    LET growth == win - t.initialStreamSendWindowSize
        t1 == [t EXCEPT !.initialStreamSendWindowSize = win,
                        !.st = [i \in StreamIDs |->
                                  IF i \in t.streams
                                  THEN [@[i] EXCEPT !.flow = outflowAdd(@, growth)] ELSE @[i]]]
    IN  IF \A i \in t.streams : outflowAddOK(t.st[i].flow, growth) THEN t1
        ELSE connError(t1, 0, "FLOW_CONTROL")

processSettings(t, f) ==
    IF f.ack
    THEN IF t.unackedSettings = 0 THEN connError(t, 0, "PROTOCOL")
         ELSE [t EXCEPT !.unackedSettings = @ - 1]
    ELSE [(IF f.win = Absent THEN t ELSE processSettingInitialWindowSize(t, f.win))
            EXCEPT !.needToSendSettingsAck = TRUE]

processWindowUpdate(t, f) ==
    LET i == f.id
    IN  IF i = 0
        THEN IF outflowAddOK(t.flow, f.n) THEN [t EXCEPT !.flow = outflowAdd(@, f.n)]
             ELSE goAway(t, "FLOW_CONTROL")
        ELSE IF state(t, i) = "idle" THEN connError(t, i, "PROTOCOL")
        ELSE IF i \notin t.streams THEN t
        ELSE IF outflowAddOK(t.st[i].flow, f.n) THEN [t EXCEPT !.st[i].flow = outflowAdd(@, f.n)]
        ELSE resetStream(t, i, "FLOW_CONTROL")

processResetStream(t, f) ==
    IF state(t, f.id) = "idle" THEN connError(t, f.id, "PROTOCOL")
    ELSE IF f.id \in t.streams THEN closeStream(t, f.id, "peerReset") ELSE t

processPing(t, f) ==
    IF f.ack THEN [t EXCEPT !.pingSent = FALSE] ELSE pushControl(t, Ping(TRUE))

\* After a GOAWAY the frames of streams it disowned are dropped.
ignored(t, f) == t.inGoAway /\ (t.goAwayCode # "NO" \/ f.id > t.maxClientStreamID)

processFrame(t0, f) ==
    LET t == [t0 EXCEPT !.sawFirstSettings = TRUE]
    IN  IF ~t0.sawFirstSettings /\ f.t # "SETTINGS" THEN connError(t0, f.id, "PROTOCOL")
        ELSE IF ignored(t, f) THEN IF f.t = "DATA" THEN discard(t, f.id, Len(f.data)) ELSE t
        ELSE CASE f.t = "SETTINGS" -> processSettings(t, f)
               [] f.t = "HEADERS" -> processHeaders(t, f)
               [] f.t = "WINDOW_UPDATE" -> processWindowUpdate(t, f)
               [] f.t = "PING" -> processPing(t, f)
               [] f.t = "DATA" -> processData(t, f)
               [] f.t = "RST_STREAM" -> processResetStream(t, f)
               [] f.t = "GOAWAY" -> goAway(t, "NO")
               [] OTHER -> connError(t, f.id, "PROTOCOL")

\* serve first takes the report of a finished write if it is there, which is
\* WroteFrame right before this step; nothing makes it wait for one.
ReadFrame ==
    /\ s.serving /\ toServer # <<>> /\ "server" \in open
    /\ toServer' = Tail(toServer)
    /\ \E u \in scheduleFrameWrite(processFrame(s, Head(toServer))) : Commit(endOfLoop(u))

\* The connection is gone, and what was on the wire may be lost with it.
ReadFails ==
    /\ s.serving /\ open # {"client", "server"}
    /\ Commit(leave(s)) /\ UNCHANGED toServer

-----------------------------------------------------------------------------
(* The goroutine that writes, and the timers. *)

\* writeFrameAsync is done and the serve loop hears of it.
WroteFrame == s.writing # NoWrite /\ Serve(wroteFrame(s))

\* The idle timer, a graceful shutdown of the http.Server, a handler's
\* "Connection: close": all end in GOAWAY.
GracefulShutdown == ~s.inGoAway /\ Serve(goAway(s, "NO"))

ShutdownTimer == s.serving /\ s.shutdownTimer /\ Commit(leave(s)) /\ UNCHANGED toServer

\* handlePingTimer: ask, and hang up when the answer stays out.
PingTimer ==
    /\ s.serving
    /\ IF s.pingSent THEN Commit([s EXCEPT !.shut = TRUE]) /\ UNCHANGED toServer
       ELSE Serve(pushControl([s EXCEPT !.pingSent = TRUE], Ping(FALSE)))

\* onReadTimeout only closes the body; onWriteTimeout resets the stream.
ReadTimeout(i) ==
    /\ i \in s.streams /\ s.st[i].hasBody
    /\ Local([s EXCEPT !.st[i].body = closeWithError(@, "deadline")])

WriteTimeout(i) == i \in s.streams /\ Serve(resetStream(s, i, "INTERNAL"))

-----------------------------------------------------------------------------
(* The handler of stream i. *)

running(i) == s.st[i].h = "run"

\* A handler's call runs on the serve loop while there is one.
Call(t, failed) == IF s.serving THEN Serve(t) ELSE Local(failed)

\* The first Read of a body whose client waits to be asked for it.
HandlerContinue(i) ==
    /\ running(i) /\ s.st[i].hasBody /\ s.st[i].bodyEnd = NoErr /\ s.st[i].needsContinue
    /\ LET t == [s EXCEPT !.st[i].needsContinue = FALSE]
       IN  Call(writeFrame(t, i, Headers(i, "continue", Absent, FALSE), FALSE), t)

\* requestBody.Read: the bytes are the handler's before their credit is back.
HandlerRead(i) ==
    LET r == pipeRead(s.st[i].body, HandlerReadSize)
    IN  /\ running(i) /\ s.st[i].hasBody /\ s.st[i].bodyEnd = NoErr
        /\ ~s.st[i].needsContinue /\ ~r.block
        /\ Local([s EXCEPT !.st[i].body = afterRead(@, r), !.st[i].got = @ \o r.data,
                           !.st[i].bodyEnd = r.err,
                           !.st[i].noteN = Len(r.data),
                           !.st[i].h = IF r.data # <<>> THEN "note" ELSE "run"])

\* noteBodyRead on the serve loop, or nowhere once that has ended.
NoteBodyRead(i) ==
    LET n == s.st[i].noteN
        t == sendWindowUpdate([s EXCEPT !.st[i].h = "run", !.st[i].noteN = 0], n)
    IN  /\ s.st[i].h = "note"
        /\ IF ~s.serving THEN Local([s EXCEPT !.st[i].h = "run", !.st[i].noteN = 0])
           ELSE Serve(IF s.st[i].state \in {"halfClosedRemote", "closed"} THEN t
                      ELSE sendStreamWindowUpdate(t, i, n))

HandlerCloseBody(i) ==
    /\ running(i) /\ s.st[i].hasBody /\ s.st[i].bodyEnd = NoErr
    /\ Local([s EXCEPT !.st[i].body = breakWithError(@, "closedBody"),
                       !.st[i].bodyEnd = "closedBody"])

\* write: bytes into the buffer.  Only the flush that follows is seen by
\* others, so the two are one step.
buffered(t, i, n) ==
    [t EXCEPT !.st[i].bw = SubSeq(t.st[i].unwritten, 1, n),
              !.st[i].unwritten = SubSeq(@, n + 1, Len(@))]

headResponse(x) == x.head

\* The parts of writeChunk: the response headers, the data, the trailers.
chunkDone(t, i) ==
    [t EXCEPT !.st[i].bw = <<>>, !.st[i].h = IF t.st[i].done THEN "exit" ELSE "run"]

sendTrailers(t, i) ==
    LET x == t.st[i]
    IN  IF x.done /\ t.res.trailers
        THEN writeFrame([t EXCEPT !.st[i].h = "trailers"], i, Headers(i, "trailers", Absent, TRUE), TRUE)
        ELSE chunkDone(t, i)

sendData(t, i) ==
    LET x == t.st[i]
        end == x.done /\ ~t.res.trailers
    IN  IF headResponse(x) \/ (x.bw = <<>> /\ ~x.done) THEN chunkDone(t, i)
        ELSE IF x.bw = <<>> /\ ~end THEN sendTrailers(t, i)
        ELSE writeFrame([t EXCEPT !.st[i].h = "data"], i, Data(i, x.bw, end), TRUE)

\* A short response that is complete is given its length.
sendHeaders(t, i) ==
    LET x == t.st[i]
        end == (x.done /\ ~t.res.trailers /\ x.bw = <<>>) \/ headResponse(x)
        clen == IF t.res.decl # Absent THEN t.res.decl
                ELSE IF x.done /\ (x.bw # <<>> \/ ~headResponse(x)) THEN Len(x.bw)
                ELSE Absent
    IN  writeFrame([t EXCEPT !.st[i].h = "headers", !.st[i].sentHeader = TRUE,
                             !.st[i].endStream = end],
                   i, Headers(i, t.res.status, clen, end), TRUE)

writeChunk(t, i) == IF t.st[i].sentHeader THEN sendData(t, i) ELSE sendHeaders(t, i)

\* errStreamClosed or errClientDisconnected: the handler gives up writing.
writeFailed(i) ==
    [s EXCEPT !.st[i].bw = <<>>, !.st[i].unwritten = <<>>,
              !.st[i].h = IF s.st[i].done THEN "exit" ELSE "run"]

\* Flush, or the flush of a full buffer.
HandlerFlush(i) ==
    /\ running(i)
    /\ \E n \in 0..Lesser(ChunkSize, Len(s.st[i].unwritten)) :
         /\ n > 0 \/ ~s.st[i].sentHeader
         /\ Call(writeChunk(buffered(s, i, n), i), writeFailed(i))

\* A status of the 1xx range before the response: the handler does not wait,
\* as it has set no headers.
HandlerInfo(i) ==
    /\ running(i) /\ ~s.st[i].sentHeader /\ s.st[i].info
    /\ LET t == [s EXCEPT !.st[i].info = FALSE]
       IN  Call(writeFrame(t, i, Headers(i, "info", Absent, FALSE), FALSE), t)

\* The handler waits for its frame, its stream or the connection.
HandlerWaits(i) ==
    LET x == s.st[i]
        t == [s EXCEPT !.st[i].reply = FALSE]
    IN  /\ x.h \in {"headers", "data", "trailers"}
        /\ \/ /\ x.reply
              /\ Call(CASE x.h = "headers" -> IF x.endStream THEN chunkDone(t, i) ELSE sendData(t, i)
                           [] x.h = "data" -> sendTrailers(t, i)
                           [] x.h = "trailers" -> chunkDone(t, i), writeFailed(i))
           \/ (x.state = "closed" \/ ~s.serving) /\ ~x.reply /\ Local(writeFailed(i))

\* The handler returns: what it has buffered goes out with END_STREAM.
HandlerReturn(i) ==
    /\ running(i) /\ Len(s.st[i].unwritten) <= ChunkSize
    /\ LET t == buffered([s EXCEPT !.st[i].done = TRUE], i, Len(s.st[i].unwritten))
       IN  Call(writeChunk(t, i), [t EXCEPT !.st[i].h = "exit"])

HandlerPanic(i) ==
    /\ running(i)
    /\ LET t == [s EXCEPT !.st[i].h = "exit"]
       IN  Call(writeFrame(t, i, RSTStream(i, "INTERNAL"), FALSE), t)

\* handlerDone: the place is free, and handlers of live streams take it; the
\* queue keeps what follows the first that finds no place.
started(t) ==
    LET q == t.unstartedHandlers
        nth(k) == Cardinality({j \in 1..k : q[j] \in t.streams})
        live == {k \in DOMAIN q : q[k] \in t.streams}
        wait == {k \in live : nth(k) > AdvMaxStreams - t.curHandlers}
        go == {q[k] : k \in live \ wait}
    IN  [t EXCEPT !.curHandlers = @ + Cardinality(go),
                  !.unstartedHandlers = IF wait = {} THEN <<>> ELSE SubSeq(q, Min(wait), Len(q)),
                  !.st = [i \in StreamIDs |-> IF i \in go THEN [@[i] EXCEPT !.h = "run"] ELSE @[i]]]

HandlerDone(i) ==
    /\ s.st[i].h = "exit"
    /\ LET t == [s EXCEPT !.st[i].h = "done"]
       IN  Call(started([t EXCEPT !.curHandlers = @ - 1]), t)

HandlerStep(i) ==
    \/ HandlerContinue(i) \/ HandlerRead(i) \/ NoteBodyRead(i)
    \/ HandlerFlush(i) \/ HandlerInfo(i) \/ HandlerWaits(i) \/ HandlerReturn(i) \/ HandlerDone(i)

=============================================================================
