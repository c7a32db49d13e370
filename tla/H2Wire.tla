------------------------------- MODULE H2Wire -------------------------------
(***************************************************************************)
(* What the two ends of a connection exchange: the frames of               *)
(* internal/http2x/frame.go reduced to the fields the ends decide on, and  *)
(* the TCP connection as two FIFO channels that either end may close.      *)
(* The bytes of the frames are the subject of H2Frame.                     *)
(***************************************************************************)
EXTENDS Integers, Sequences

VARIABLES
    toServer,   \* frames on their way from the client to the server
    toClient,   \* frames on their way from the server to the client
    open        \* the ends that have not closed the connection

wire == <<toServer, toClient, open>>

Absent == -1    \* a SETTINGS entry or content-length that was not sent

Settings(win, streams, push) ==
    [t |-> "SETTINGS", id |-> 0, ack |-> FALSE, win |-> win, streams |-> streams, push |-> push]
SettingsAck == [t |-> "SETTINGS", id |-> 0, ack |-> TRUE]
Headers(i, kind, clen, end) == [t |-> "HEADERS", id |-> i, kind |-> kind, clen |-> clen, end |-> end]
Data(i, d, end) == [t |-> "DATA", id |-> i, data |-> d, end |-> end]
RSTStream(i, code) == [t |-> "RST_STREAM", id |-> i, code |-> code]
WindowUpdate(i, n) == [t |-> "WINDOW_UPDATE", id |-> i, n |-> n]
Ping(ack) == [t |-> "PING", id |-> 0, ack |-> ack]
GoAway(last, code) == [t |-> "GOAWAY", id |-> 0, last |-> last, code |-> code]
PushPromise(i) == [t |-> "PUSH_PROMISE", id |-> i]

WireInit(fromClient) ==
    /\ toServer = fromClient
    /\ toClient = <<>>
    /\ open = {"client", "server"}

\* A write reaches the peer while both ends keep the connection open.
Up == open = {"client", "server"}

=============================================================================
