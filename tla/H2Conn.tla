------------------------------- MODULE H2Conn -------------------------------
(***************************************************************************)
(* A client and a server of internal/http2x on one connection: H2Client    *)
(* and H2Server over the two channels of H2Wire, with the things that go   *)
(* wrong around them (a caller gives up, a handler panics, a timer fires,  *)
(* an end shuts down, the network fails) bounded by MaxFaults.             *)
(***************************************************************************)
EXTENDS H2Wire, H2Flow, FiniteSets, FiniteSetsExt, SequencesExt

CONSTANTS
    Requests, NoReq, Shapes, Chrome, InitialWindow, ChromeWindow, StreamFlow, ConnFlow,
    DefaultMaxStreams, MaxFrameSize, LastStreamID, SingleUse, ReadSize,
    Responses, AdvMaxStreams, RecvWindow, ConnWindow, ChunkSize,
    HandlerReadSize, MaxQueuedControlFrames, NoWrite,
    FaultCost,          \* the faults that may happen, and what each counts for
    RequestCost,        \* what a request counts for, its body not included
    MaxFaults,          \* bound on the number of faults
    MaxLoad             \* bound on requests, bytes and faults together

VARIABLES c, s, faults

StreamIDs == {2 * k - 1 : k \in 1..Cardinality(Requests)}

C == INSTANCE H2Client
S == INSTANCE H2Server WITH DefaultWindow <- InitialWindow, PeerMaxFrame <- MaxFrameSize

vars == <<c, s, faults, wire>>

New ==
    /\ c = C!newClientConn /\ S!Init
    /\ toServer = C!preface /\ toClient = S!prefaceFrames
    /\ faults = [n |-> 0, load |-> 2]

\* The connection once both ends have read and acknowledged the settings of the
\* other, as New reaches it without a request; it leaves room for more load.
Established ==
    /\ c = C!applyWindow([C!newClientConn EXCEPT !.seenSettings = TRUE, !.wantSettingsAck = FALSE,
                                                 !.maxConcurrentStreams = AdvMaxStreams,
                                                 !.flow = @ + S!connWindowUpdate], RecvWindow)
    /\ \E res \in Responses :
         s = [S!newServerConn(res) EXCEPT
                !.sawFirstSettings = TRUE, !.unackedSettings = 0,
                !.flow = IF Chrome THEN @ ELSE @ + ConnFlow,
                !.initialStreamSendWindowSize = IF Chrome THEN ChromeWindow ELSE StreamFlow]
    /\ toServer = <<>> /\ toClient = <<>>
    /\ faults = [n |-> 0, load |-> 0]

Init == (New \/ Established) /\ open = {"client", "server"}

Client(A) == A /\ UNCHANGED <<s, faults>>
Server(A) == A /\ UNCHANGED <<c, faults>>

ClientRequest(r) == Client(C!RequestStep(r))
ClientCaller(r) == Client(C!CallerStep(r))
ClientReads == Client(C!ReadFrame \/ C!ReadFails)
ServerReads == Server(S!ReadFrame \/ S!ReadFails)
ServerWrites == Server(S!WroteFrame)
Handler(i) == Server(S!HandlerStep(i))
Closing == Client(C!ShutdownDone) \/ Server(S!ShutdownTimer)

\* The work of a behaviour so far: what keeps the instance small is that a
\* behaviour has long bodies, or several requests, or a fault, not all of them.
load ==
    MapThenSumSet(LAMBDA r : RequestCost + 2 * (c.cs[r].shape.body + s.res.body)
                               + (IF c.cs[r].shape.head \/ c.cs[r].shape.close THEN 2 ELSE 0)
                               + (IF c.cs[r].shape.trailers THEN 2 ELSE 0),
                  {r \in Requests : c.cs[r].pc # "new"}) + faults.load

RoundTrip(r) == Client(C!RoundTrip(r)) /\ load' <= MaxLoad

Fault(kind, A) ==
    /\ kind \in DOMAIN FaultCost
    /\ faults.n < MaxFaults /\ load + FaultCost[kind] <= MaxLoad
    /\ faults' = [n |-> faults.n + 1, load |-> faults.load + FaultCost[kind]]
    /\ A

\* The network drops the connection and what is on it.
NetworkFails ==
    /\ Up /\ open' = {} /\ toServer' = <<>> /\ toClient' = <<>>
    /\ UNCHANGED <<c, s>>

Surprise ==
    \/ \E r \in Requests : Fault("cancel", C!Cancel(r) /\ UNCHANGED s)
    \/ Fault("ping", C!HealthCheck /\ UNCHANGED s)
    \/ Fault("ping", ~s.pingSent /\ S!PingTimer /\ UNCHANGED c)
    \/ Fault("shutdown", C!SendGoAway /\ UNCHANGED s)
    \/ Fault("idle", C!CloseIfIdle /\ UNCHANGED s)
    \/ Fault("goaway", S!GracefulShutdown /\ UNCHANGED c)
    \/ \E i \in StreamIDs : Fault("panic", S!HandlerPanic(i) /\ UNCHANGED c)
    \/ \E i \in StreamIDs : Fault("closeBody", S!HandlerCloseBody(i) /\ UNCHANGED c)
    \/ \E r \in Requests : Fault("timeout", C!HeaderTimeout(r) /\ UNCHANGED s)
    \/ \E i \in StreamIDs : Fault("readTimeout", S!ReadTimeout(i) /\ UNCHANGED c)
    \/ \E i \in StreamIDs : Fault("timeout", S!WriteTimeout(i) /\ UNCHANGED c)
    \/ Fault("network", NetworkFails)

\* The answer to a PING stays out.
PingLost == Client(C!LostPing) \/ (s.pingSent /\ Server(S!PingTimer))

\* A request is over for its caller and for the connection.
over(r) ==
    /\ c.cs[r].pc = "done"
    /\ c.cs[r].rt = "done" \/ (c.cs[r].rt = "res" /\ (c.cs[r].res \in {"pipe", "pipeError"} =>
                                                     c.cs[r].bodyClosed \/ c.cs[r].bodyEnd # NoErr))

Quiet ==
    /\ \A r \in Requests : over(r) \/ c.cs[r].pc = "new"
    /\ UNCHANGED vars

\* Something that runs by itself takes a step: a goroutine, a read of the
\* connection, a timer that is set.
Progress ==
    \/ \E r \in Requests : ClientRequest(r) \/ ClientCaller(r)
    \/ ClientReads \/ ServerReads \/ ServerWrites \/ Closing
    \/ \E i \in StreamIDs : Handler(i)

Next ==
    \/ \E r \in Requests : RoundTrip(r)
    \/ Progress
    \/ Surprise \/ PingLost
    \/ Quiet

Spec == Init /\ [][Next]_vars

-----------------------------------------------------------------------------
(* Properties *)

bytes(f) == IF f.t = "DATA" THEN Len(f.data) ELSE 0
credit(f) == IF f.t = "WINDOW_UPDATE" /\ f.id = 0 THEN f.n ELSE 0
sumOf(op(_), q) == FoldLeft(LAMBDA acc, f : acc + op(f), 0, q)

\* The two ends never accuse each other: whatever frames of canceled, reset,
\* finished or refused streams cross on the wire, neither end answers with a
\* connection error, which would fail every other request of the connection
\* (streamByID at transport.go:2437, serverConn.state at server.go:553).  Nor
\* does the serve loop run into its own assertions, in whatever order resets,
\* timeouts, panics and handler writes reach it: a stream closed twice, a frame
\* after END_STREAM, a window past its maximum (server.go:1157, 1562; flow.go:42).
\* The code breaks this in two ways, and in no other:
\*  - while the RST_STREAM of a handler that panicked is being written
\*    (server.go:1175), a reset from the client closes the stream; when the write
\*    is reported the stream is closed again and the serve loop panics
\*    (server.go:1247, 1562);
\*  - the trailers of a request meet its stream after the server has reset it,
\*    and are taken for a new stream with an old number (server.go:1882).
NoConnError ==
    /\ s.panicked \subseteq {"handlerPanicked"}
    /\ s.staleTrailers \/ (c.readerErr \in {NoErr, "EOF"} /\ s.goAwayCode = "NO")

upTo(n) == [k \in 1..n |-> k]

\* What a handler reads of a request, and a caller of a response, are the bytes
\* the other side wrote, in order and from the first; and the end of the body is
\* reported only after all of them, never for a stream that was cut short by a
\* reset, a timeout, a GOAWAY or the loss of the connection
\* (cleanupWriteRequest at transport.go:1299, closeStream at server.go:1559).
BodyIntact ==
    \A r \in Requests : LET i == c.cs[r].ID IN
      i # 0 =>
        /\ IsPrefix(s.st[i].got, upTo(c.cs[r].shape.body))
        /\ s.st[i].bodyEnd = "EOF" => Len(s.st[i].got) = c.cs[r].shape.body
        /\ IsPrefix(c.cs[r].got, upTo(s.res.body))
        /\ c.cs[r].bodyEnd = "EOF" => Len(c.cs[r].got) = s.res.body

\* The connection windows of the two ends stay in step: what one end is ready to
\* receive is what the other may send, plus the bytes and the credit that are on
\* their way.  A byte that is never charged, or charged and credited twice, would
\* end in a flow-control error or a stall much later (processData at
\* transport.go:2287 and server.go:1701, with the discarding branches).  It holds
\* until the connection is lost or given up with an error, after which a server
\* no longer looks at what it is told.
WindowsAgree ==
    Up /\ c.readerErr = NoErr /\ s.goAwayCode = "NO" =>
      /\ c.inflow.avail = s.flow + sumOf(bytes, toClient) + sumOf(credit, toServer)
      /\ s.inflow.avail = c.flow + sumOf(bytes, toServer) + sumOf(credit, toClient \o s.control)

Retryable == {"gotGoAway", "unusable", "refused"}

\* A request whose error lets the pool send it again (canRetryError) has not been
\* handed to a handler: GOAWAY, a refusal and a broken connection are told apart
\* from a request that may have had its effect (setGoAway at transport.go:601,
\* processHeaders at server.go:1864).
NeverRunTwice ==
    \A r \in Requests : c.cs[r].rt = "done" /\ c.cs[r].rtErr \in Retryable /\ c.cs[r].ID # 0 =>
        s.st[c.cs[r].ID].h \in {"none", "queued"}

\* "But at least return their flow control" (transport.go:2305): when no request is
\* open and nothing is on its way, the client lets the server send a whole window
\* again.  The code does not satisfy this: DATA that arrives between the
\* cancellation of a round trip and the end of its stream goes into a body nobody
\* was given.
CreditComesBack ==
    LET rest == /\ Up /\ c.readerErr = NoErr /\ toServer = <<>> /\ toClient = <<>> /\ s.control = <<>>
                /\ \A r \in Requests : over(r) \/ c.cs[r].pc = "new"
    IN  rest => c.inflow.avail + c.inflow.unsent >= InitialWindow
=============================================================================
