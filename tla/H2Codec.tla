------------------------------- MODULE H2Codec -------------------------------
(***************************************************************************)
(* One direction of a connection of internal/http2x, from what a caller or *)
(* a handler asks to be written to what the other end makes of it.  The    *)
(* client writes a request as it comes; the server queues frames with a    *)
(* write scheduler and encodes a header block when its turn comes.  Both   *)
(* go through one HPACK encoder and one Framer onto an ordered wire, and   *)
(* are read by the other end's Framer and HPACK decoder.                   *)
(*                                                                         *)
(*   w   the writing end: kind of scheduler ("client" for none), encoder,  *)
(*       windows, what SETTINGS of the reader have been applied            *)
(*   r   the reading end: its Framer, the frames it has handed on, and the *)
(*       frame at which it gave up, if it did                              *)
(*   h   history: what was asked to be written, in the order asked and in  *)
(*       the order written, and whether a stream was passed over unfairly  *)
(***************************************************************************)
EXTENDS H2Response, H2Sched

CONSTANTS
    Kinds,              \* the writing ends considered
    Requests, Calls,    \* what a client is asked to write
    Responses,          \* how a handler may answer behind each scheduler: its
                        \* header, the octets written with it, and whether that is all
    Streams,            \* the streams a server has
    Priorities,         \* the classes streams are in or are moved to
    Window,             \* initial window of a stream, and of the connection
    DecoderTableSize,   \* MaxDecoderHeaderTableSize of the reader
    TableSizes,         \* values of SETTINGS_HEADER_TABLE_SIZE it sends
    MaxFrameSize,       \* what a frame of the writer carries at most
    MaxInFlight,        \* frames on the wire beyond which a writer blocks
    MaxCalls,           \* calls of the Framer's methods by a client
    MaxAsked, MaxEvents \* what an end is asked to write, and what the reading end
                        \* sends the other way: for a client and for a server

ASSUME CodecAssumption ==
    /\ Kinds \subseteq {"client", "roundrobin", "random", "rfc9218"}
    /\ Priorities \subseteq Classes
    /\ Window.stream \in Nat /\ Window.conn \in Nat /\ MaxFrameSize \in Nat

VARIABLES w, wire, r, h
vars == <<w, wire, r, h>>

Client == w.kind = "client"

\* MaxEncoderHeaderTableSize is left at its default, the initial size.
encoder == SetMaxDynamicTableSizeLimit(NewEncoder, InitialTableSize)

Init ==
    /\ \E kind \in Kinds, peerMax \in {0, MaxHeaderListSize} :
        /\ kind # "client" => peerMax = 0
        /\ w = [kind |-> kind, ws |-> newWriteScheduler(kind), enc |-> encoder,
                peerMax |-> peerMax, flow |-> [i \in Streams |-> Window.stream],
                conn |-> Window.conn, opened |-> {}, closed |-> {}]
    /\ wire = <<>>
    /\ r = [fr |-> NewFramer(DecoderTableSize), got |-> <<>>, refused |-> <<>>]
    /\ h = [asked |-> [i \in Streams |-> <<>>], written |-> <<>>, passed |-> [i \in Streams |-> {}],
            outOfTurn |-> FALSE, writes |-> 0, calls |-> 0, events |-> 0]

-----------------------------------------------------------------------------
(* The Framer's methods, one call of which is one frame on the wire.        *)

framesOf(c, illegal) ==
    CASE c.op = "DATA" -> WriteDataPadded(illegal, c.id, c.end, c.data, c.pad)
      [] c.op = "HEADERS" -> WriteHeaders(illegal, c.id, c.fragment, c.end, TRUE, c.pad, c.prio)
      [] c.op = "PRIORITY" -> WritePriority(illegal, c.id, c.prio)
      [] c.op = "PRIORITY_UPDATE" -> WritePriorityUpdate(illegal, c.id, c.priority)
      [] c.op = "RST_STREAM" -> WriteRSTStream(illegal, c.id, c.code)
      [] c.op = "SETTINGS" -> IF c.ack THEN WriteSettingsAck ELSE WriteSettings(c.settings)
      [] c.op = "PING" -> WritePing(c.ack, c.echo)
      [] c.op = "GOAWAY" -> WriteGoAway(c.last, c.code, c.debug)
      [] c.op = "WINDOW_UPDATE" -> WriteWindowUpdate(illegal, c.id, c.incr)
      [] c.op = "PUSH_PROMISE" -> WritePushPromise(illegal, c.id, c.promise, c.fragment, TRUE, c.pad)
      [] OTHER -> WriteRawFrame(c.op, c.flags, c.id, c.payload)

\* What is written goes to the wire at once, or not at all.
written(c, frames) == [h EXCEPT !.written = IF frames = <<>> THEN @ ELSE Append(@, c), !.writes = @ + 1]

Reading == r.fr.err = "none"
MayWrite == Reading /\ Len(wire) <= MaxInFlight
Role == IF Client THEN "client" ELSE "server"
MayAsk == Reading /\ h.writes < MaxAsked[Role]
MayEvent == Reading /\ h.events < MaxEvents[Role]

FramerCall(c, illegal) ==
    /\ MayAsk /\ MayWrite /\ Client /\ h.calls < MaxCalls
    /\ wire' = wire \o framesOf(c, illegal)
    /\ h' = [written(c, framesOf(c, illegal)) EXCEPT !.calls = @ + 1]
    /\ UNCHANGED <<w, r>>

-----------------------------------------------------------------------------
(* The client: encodeAndWriteHeaders.                                       *)

SendRequest(req) ==
    /\ MayAsk /\ MayWrite /\ Client
    /\ \E fields \in EncodeHeaders(req, req.gzip /\ IsRequestGzip(req), w.peerMax) :
        LET b   == WriteFields(w.enc, fields)
            end == endsWithHeaders(req)
            id  == 2 * h.writes + 1
            fs  == writeHeaderBlock(id, end, block(b.out), MaxFrameSize)
        IN  /\ w' = [w EXCEPT !.enc = b.enc]
            /\ wire' = wire \o fs
            /\ h' = written([op |-> "BLOCK", id |-> id, fields |-> fields, end |-> end, req |-> req], fs)
    /\ UNCHANGED r

\* SETTINGS of the reading end, as the writing end applies and acknowledges them.
Resize(v) ==
    /\ MayEvent /\ MayWrite
    /\ w' = [w EXCEPT !.enc = SetMaxDynamicTableSize(@, v)]
    /\ h' = [h EXCEPT !.events = @ + 1]
    /\ UNCHANGED <<wire, r>>

-----------------------------------------------------------------------------
(* The server: what the serve loop asks of its write scheduler.             *)

askedNow(wr) == IF wr.ctl THEN h.asked ELSE [h.asked EXCEPT ![wr.id] = Append(@, wr)]

Ask(wr) ==
    /\ MayAsk /\ ~Client
    /\ w' = [w EXCEPT !.ws = Push(@, wr)]
    /\ h' = [h EXCEPT !.writes = @ + 1, !.asked = askedNow(wr)]
    /\ UNCHANGED <<wire, r>>

StreamsOpen == w.opened \ w.closed
ended(id) == \E k \in DOMAIN h.asked[id] : h.asked[id][k].end

Open(id, prio) ==
    /\ ~Client /\ Reading /\ id \notin w.opened /\ \A i \in Streams : i < id => i \in w.opened
    /\ w' = [w EXCEPT !.ws = OpenStream(@, id, prio), !.opened = @ \cup {id}]
    /\ UNCHANGED <<wire, r, h>>

\* Push of HEADERS, DATA and trailers by a handler, of a control frame by the
\* serve loop.  A handler that is done with n octets sends them right after the
\* header, in the last DATA frame if there are no trailers.
Respond(id, res, n, done) ==
    LET end == done /\ ~hasTrailers(res, done) /\ n = 0
    IN  /\ id \in StreamsOpen /\ h.asked[id] = <<>>
        /\ Ask([op |-> "BLOCK", id |-> id, ctl |-> FALSE, data |-> <<>>, end |-> end,
                fields |-> writeResHeaders(writeHeaders(res, n, done)), res |-> res, n |-> n, done |-> done])

answer(id) == Head(h.asked[id])

SendBody(id, n, done) ==
    LET end == done /\ ~hasNonemptyTrailers(answer(id).res)
    IN  /\ id \in StreamsOpen /\ h.asked[id] # <<>> /\ ~ended(id)
        /\ n > 0 \/ end
        /\ answer(id).done => done /\ n = answer(id).n /\ Len(h.asked[id]) = 1
        /\ Ask([op |-> "DATA", id |-> id, ctl |-> FALSE, end |-> end, pad |-> NoPad,
                data |-> [k \in 1..n |-> (Len(h.asked[id]) * n + k) % Octet]])

SendTrailers(id) ==
    /\ id \in StreamsOpen /\ h.asked[id] # <<>> /\ ~ended(id)
    /\ hasNonemptyTrailers(answer(id).res)
    /\ answer(id).done /\ answer(id).n > 0 => Len(h.asked[id]) = 2
    /\ Ask([op |-> "BLOCK", id |-> id, ctl |-> FALSE, data |-> <<>>, end |-> TRUE,
            fields |-> writeResHeaders(writeTrailers(answer(id).res)), res |-> answer(id).res, n |-> 0, done |-> TRUE])

SendControl(c) ==
    Ask([op |-> "PING", id |-> 0, ack |-> c.ack, echo |-> c.echo, ctl |-> TRUE, data |-> <<>>, end |-> FALSE])

Reset(id) ==
    /\ id \in StreamsOpen
    /\ Ask([op |-> "RST_STREAM", id |-> id, code |-> 0, ctl |-> TRUE, data |-> <<>>, end |-> FALSE])

\* RST_STREAM, PRIORITY_UPDATE and WINDOW_UPDATE of the client.
PeerReset(id) ==
    /\ MayEvent /\ id \in StreamsOpen
    /\ w' = [w EXCEPT !.ws = CloseStream(@, id), !.closed = @ \cup {id}]
    /\ h' = [h EXCEPT !.events = @ + 1]
    /\ UNCHANGED <<wire, r>>

Adjust(id, prio) ==
    /\ ~Client /\ MayEvent /\ id \in Streams \ w.closed
    /\ w' = [w EXCEPT !.ws = AdjustStream(@, id, prio)]
    /\ h' = [h EXCEPT !.events = @ + 1, !.passed[id] = {}]
    /\ UNCHANGED <<wire, r>>

Grant(id, n) ==
    /\ ~Client /\ MayEvent /\ id \in StreamsOpen
    /\ w' = [w EXCEPT !.flow[id] = @ + n, !.conn = @ + n]
    /\ h' = [h EXCEPT !.events = @ + 1]
    /\ UNCHANGED <<wire, r>>

\* A write request is written: the block of a header is encoded, a stream that
\* has ended or was reset is closed.
encoded(c) ==
    IF c.op # "BLOCK" THEN [enc |-> w.enc, frames |-> framesOf(c, FALSE)]
    ELSE LET b == WriteFields(w.enc, c.fields)
         IN  [enc |-> b.enc, frames |-> writeHeaderBlock(c.id, c.end, block(b.out), MaxFrameSize)]

closes(c) == c.end \/ c.op = "RST_STREAM"

allowance == [id \in Streams |-> Min({w.flow[id], w.conn, MaxFrameSize})]
waiting(id) == id \in DOMAIN w.ws.queue /\ ready(w.ws, allowance, id)

\* History for ServedInTurn: the streams served while another one was waiting.
inTurnWith(i, id) == w.ws.kind # "random" /\ w.ws.class[i] = w.ws.class[id] /\ w.ws.class[i][2] = 1
moreUrgent(i, id) == w.ws.kind = "rfc9218" /\ w.ws.class[i][1] < w.ws.class[id][1]

noteTurn(id) ==
    [h EXCEPT !.outOfTurn = @ \/ \E i \in Streams \ {id} :
                                   /\ waiting(i)
                                   /\ moreUrgent(i, id) \/ (inTurnWith(i, id) /\ id \in h.passed[i]),
              !.passed = [i \in Streams |-> IF i = id \/ ~waiting(i) THEN {} ELSE h.passed[i] \cup {id}]]

PopFrame ==
    /\ ~Client /\ MayWrite
    /\ \E p \in Pop(w.ws, allowance) :
        LET c  == p.wr
            x  == encoded(c)
            n  == Len(c.data)
            shut == closes(c) /\ c.id \in StreamsOpen
        IN  /\ w' = [w EXCEPT !.enc = x.enc, !.conn = @ - n,
                              !.flow = [i \in Streams |-> IF i = c.id THEN @[i] - n ELSE @[i]],
                              !.ws = IF shut THEN CloseStream(p.ws, c.id) ELSE p.ws,
                              !.closed = IF shut THEN @ \cup {c.id} ELSE @]
            /\ wire' = wire \o x.frames
            /\ h' = [(IF c.ctl THEN h ELSE noteTurn(c.id)) EXCEPT !.written = Append(@, c)]
    /\ UNCHANGED r

PopNothing ==
    /\ ~Client /\ MayWrite /\ Pop(w.ws, allowance) = {}
    /\ w' = [w EXCEPT !.ws = emptyPop(@)]
    /\ UNCHANGED <<wire, r, h>>

-----------------------------------------------------------------------------
(* The reader *)

Read ==
    /\ Reading /\ wire # <<>>
    /\ \E x \in ReadFrame(r.fr, Head(wire)) :
        r' = [fr |-> x.fr, got |-> r.got \o x.out,
              refused |-> IF x.fr.err = "none" THEN <<>> ELSE <<Head(wire)>>]
    /\ wire' = Tail(wire)
    /\ UNCHANGED <<w, h>>

\* Nothing left to do: all that was asked for has been read, or reading ended.
Quiet ==
    /\ ~Reading \/ (wire = <<>> /\ ~MayAsk)
    /\ UNCHANGED vars

ClientStep ==
    \/ \E c \in Calls, illegal \in BOOLEAN : FramerCall(c, illegal)
    \/ \E req \in Requests : SendRequest(req)

HandlerStep ==
    \E id \in Streams :
        \/ ~Client /\ \E a \in Responses[w.kind] : Respond(id, a.res, a.n, a.done)
        \/ \E n \in {0, 2}, done \in BOOLEAN : SendBody(id, n, done)
        \/ SendTrailers(id)

PeerStep ==
    \E id \in Streams :
        \/ \E p \in Priorities : Open(id, p) \/ Adjust(id, p)
        \/ PeerReset(id)
        \/ Grant(id, 1)

ServeStep ==
    \/ \E c \in Calls : c.op = "PING" /\ SendControl(c)
    \/ \E id \in Streams : Reset(id)
    \/ PopFrame
    \/ PopNothing

Next ==
    \/ ClientStep \/ HandlerStep \/ PeerStep \/ ServeStep
    \/ \E v \in TableSizes : Resize(v)
    \/ Read
    \/ Quiet

Spec == Init /\ [][Next]_vars

-----------------------------------------------------------------------------
(* Properties *)

validID(id) == id \in 1..MaxUint31

\* A frame HTTP/2 allows the writer to send and the reader's SETTINGS let it.
legal(c) ==
    /\ c.op # "CONTINUATION"
    /\ c.op \in {"DATA", "HEADERS", "BLOCK", "PRIORITY", "PRIORITY_UPDATE", "RST_STREAM", "PUSH_PROMISE"}
         => validID(c.id)
    /\ c.op = "PUSH_PROMISE" => validID(c.promise)
    /\ c.op \in {"HEADERS", "PRIORITY"} => c.prio.dep \in 0..MaxUint31
    /\ c.op = "WINDOW_UPDATE" => c.incr \in 1..MaxUint31
    /\ c.op = "SETTINGS" => \A k \in DOMAIN c.settings :
                               c.settings[k][1] = InitialWindowSize => c.settings[k][2] <= MaxUint31
    /\ c.op # "BLOCK" => \A f \in Range(framesOf(c, TRUE)) : Len(f.payload) <= MaxReadSize

meaning(c) ==
    CASE c.op = "DATA" -> [t |-> "DATA", id |-> c.id, end |-> c.end, data |-> c.data]
      [] c.op = "PRIORITY" -> [t |-> "PRIORITY", id |-> c.id, prio |-> c.prio]
      [] c.op = "PRIORITY_UPDATE" -> [t |-> "PRIORITY_UPDATE", id |-> c.id, priority |-> c.priority]
      [] c.op = "RST_STREAM" -> [t |-> "RST_STREAM", id |-> c.id, code |-> c.code]
      [] c.op = "SETTINGS" -> [t |-> "SETTINGS", ack |-> c.ack, settings |-> c.settings]
      [] c.op = "PING" -> [t |-> "PING", ack |-> c.ack, data |-> c.echo]
      [] c.op = "GOAWAY" -> [t |-> "GOAWAY", last |-> c.last, code |-> c.code, debug |-> c.debug]
      [] c.op = "WINDOW_UPDATE" -> [t |-> "WINDOW_UPDATE", id |-> c.id, incr |-> c.incr]
      [] c.op = "PUSH_PROMISE" -> [t |-> "PUSH_PROMISE", id |-> c.id, promise |-> c.promise,
                                   endHeaders |-> TRUE, fragment |-> c.fragment]
      [] OTHER -> [t |-> c.op, id |-> c.id, payload |-> c.payload]

wellFormed(fields) ==
    LET pseudo == {k \in DOMAIN fields : IsPseudo(fields[k])}
        names  == {fields[k].name : k \in pseudo}
    IN  /\ \A k \in DOMAIN fields : fields[k].value \in FieldValues
        /\ \A k \in DOMAIN fields \ pseudo : fields[k].name \in WireNames /\ \A j \in pseudo : j < k
        /\ Cardinality(names) = Cardinality(pseudo)
        /\ names \subseteq requestPseudos \/ names = {":status"}

\* As much of a list as the reader's limit lets through.
within(fields) ==
    SubSeq(fields, 1, Max({n \in 0..Len(fields) : totalSize(SubSeq(fields, 1, n)) <= MaxHeaderListSize}))

prioOf(c) == IF c.op = "HEADERS" THEN c.prio ELSE NoPriority

Received(c, g) ==
    IF c.op \notin {"BLOCK", "HEADERS"} THEN g = meaning(c)
    ELSE \/ /\ g = [t |-> "STREAM_ERROR", id |-> c.id, code |-> "PROTOCOL"]
            /\ ~wellFormed(c.fields)
         \/ /\ g = [t |-> "HEADERS", id |-> c.id, end |-> c.end, prio |-> prioOf(c),
                    fields |-> within(c.fields), truncated |-> within(c.fields) # c.fields]
            /\ wellFormed(within(c.fields))

harmless(c) == legal(c) /\ (c.op \in {"BLOCK", "HEADERS"} => wellFormed(c.fields) /\ within(c.fields) = c.fields)

\* Of a block without a field nothing is written, its END_STREAM included.
framed == SelectSeq(h.written, LAMBDA c : c.op = "BLOCK" => c.fields # <<>>)

\* What the frame read last was when it was written.
lastRead == framed[Len(r.got)]

\* The reader stops at a block that begins with the two size updates RFC 7541 asks
\* for: the smaller one left entries in its table, and then the other may not come.
refusesSecondUpdate(c) ==
    /\ c.op = "BLOCK" /\ r.fr.dec.dynTab.size > 0
    /\ LET b == r.refused[1].payload
       IN  Len(b) > 1 /\ \A k \in 1..2 : b[k].ins.op = "size" /\ b[1].ins.v > 0

\* Every frame the writer was allowed to send reaches the other end with the
\* meaning it was given, whatever was written before it and however its header
\* block was cut into CONTINUATION frames; nothing is skipped, made up or read
\* twice, and the reader gives the connection up only at a frame that breaks a
\* rule or a limit (ReadFrameForHeader at frame.go:533, readMetaFrame at 1707).
\* The code has two exceptions, and no other:
\*  - a legal block with two size updates is refused when the smaller size is not
\*    zero and the reader's table not empty (hpack.go:414);
\*  - trailers whose values are all invalid give no header block, so no frame and
\*    no END_STREAM is written for them (writeResHeaders at write.go:208).
ReadsWhatWasWritten ==
    /\ Len(r.got) <= Len(framed)
    /\ r.got # <<>> /\ legal(lastRead) => Received(lastRead, Last(r.got))
    /\ ~Reading => LET c == framed[Len(r.got) + 1] IN ~harmless(c) \/ refusesSecondUpdate(c)
    /\ Reading /\ wire = <<>> => Len(r.got) = Len(framed)

\* Whenever all that was written has been read, encoder and decoder hold the same
\* dynamic table, through insertions, evictions and size changes at moments the
\* other end does not see; one entry of difference would garble every later
\* header of the connection (hpack/encode.go:49, hpack/tables.go:82).
TablesAgree ==
    LET e == w.enc.dynTab
        d == r.fr.dec.dynTab
    IN  Reading /\ wire = <<>> =>
            IF w.enc.tableSizeUpdate THEN IsSuffix(e.table.ents, d.table.ents)
            ELSE e.table.ents = d.table.ents /\ e.size = d.size

\* The caller's request as the handler should see it.
expected(req) ==
    LET kept    == {k \in DOMAIN req.header :
                      /\ Lower[k] \notin {"host", "connection", "content-length", "transfer-encoding", "upgrade", "expect"}
                      /\ req.header[k] # <<>> /\ (k = "User-Agent" => req.header[k][1] # "")}
        cookie  == SelectSeq(FlattenSeq(valuesOf(req, "Cookie")), LAMBDA x : x # "")
        added   == (IF "User-Agent" \in DOMAIN req.header THEN {} ELSE {<<"User-Agent", DefaultUserAgent>>})
                     \cup (IF req.gzip /\ IsRequestGzip(req) THEN {<<"Accept-Encoding", "gzip">>} ELSE {})
                     \cup (IF req.clen > 0 THEN {<<"Content-Length", ToString(req.clen)>>} ELSE {})
        nothing == req.clen = 0 /\ req.trailer = {}
    IN  [ok |-> TRUE, method |-> req.method, scheme |-> IF req.method = "CONNECT" THEN "" ELSE req.scheme,
         host |-> PunycodeHostPort(req.host), path |-> IF req.method = "CONNECT" THEN "" ELSE req.path,
         protocol |-> "",
         header |-> [k \in kept |-> IF k = "Cookie" THEN <<cookie>> ELSE req.header[k]]
                      @@ [k \in {a[1] : a \in added} |-> <<(CHOOSE a \in added : a[1] = k)[2]>>],
         trailer |-> req.trailer, needsContinue |-> "Expect" \in DOMAIN req.header,
         clen |-> IF nothing THEN 0 ELSE IF req.clen > 0 THEN req.clen ELSE -1]

\* The handler's response as the caller, who left compression to the transport,
\* should see it.
sendable(header, names) ==
    LET sent == [k \in {n \in DOMAIN header \cap names : Lower[n] \in WireNames} |->
                   SelectSeq(header[k], LAMBDA v : v \in FieldValues)]
    IN  Restrict(sent, {k \in DOMAIN sent : sent[k] # <<>>})

answered(c) ==
    LET res    == c.res
        asIs   == sendable(res.header, Names \ {"Connection", "Trailer", "Content-Length"})
        gunzip == ~c.end /\ "Content-Encoding" \in DOMAIN asIs
        stated == IF "Content-Length" \in DOMAIN res.header THEN res.header["Content-Length"]
                  ELSE IF c.done THEN <<ToString(c.n)>> ELSE <<>>
        length == IF gunzip THEN <<>> ELSE stated
        made   == [k \in {"Date"} |-> <<Now>>]
                    @@ (IF length = <<>> THEN <<>> ELSE "Content-Length" :> length)
                    @@ (IF c.n = 0 \/ "Content-Encoding" \in DOMAIN asIs THEN <<>> ELSE "Content-Type" :> <<Sniffed>>)
    IN  [ok |-> TRUE, status |-> res.status, trailer |-> trailerElements(res.header), gunzip |-> gunzip,
         header |-> Restrict(asIs, DOMAIN asIs \ (IF gunzip THEN {"Content-Encoding"} ELSE {})) @@ made,
         clen |-> IF length # <<>> THEN ParseUint(length[1]) ELSE IF c.end THEN 0 ELSE -1]

\* The trailers are those announced or prefixed, with their values at the end.
ending(res) ==
    LET h_    == res.late @@ res.header
        plain == sendable(h_, trailerElements(res.header) \ badTrailer)
        own   == {k \in DOMAIN h_ \cap DOMAIN TrailerPrefixed : TrailerPrefixed[k] \notin badTrailer}
    IN  [ok |-> TRUE, trailer |-> [n \in {TrailerPrefixed[k] : k \in own} |->
                                     h_[CHOOSE k \in own : TrailerPrefixed[k] = n]] @@ plain]

isTrailers(c) == \A k \in DOMAIN c.fields : ~IsPseudo(c.fields[k])

\* A handler sees the request the caller made and a caller the response the
\* handler wrote: method, target, fields with their values in order, cookies
\* joined again, lengths and trailers; only what HTTP/2 forbids or the transport
\* adds on its own account differs, and a request that cannot be sent in the
\* reader's limit is refused before it is written (EncodeHeaders at
\* httpcommon/request.go:71, newWriterAndRequest at server.go:2124).
MessageArrives ==
    r.got # <<>> /\ lastRead.op = "BLOCK" =>
        LET f == Last(r.got)
        IN  \/ Client /\ newWriterAndRequest(f.fields, f.end, FALSE) = expected(lastRead.req)
            \/ Client /\ f.truncated /\ w.peerMax = 0
            \/ ~Client /\ ~isTrailers(lastRead) /\ handleResponse(f, FALSE, TRUE) = answered(lastRead)
            \/ ~Client /\ isTrailers(lastRead) /\ processTrailers(f) = ending(lastRead.res)

\* What is asked for and written of a stream, piece by piece.
piece(c) ==
    (IF c.op = "BLOCK" THEN <<[fields |-> c.fields]>> ELSE [b \in DOMAIN c.data |-> [octet |-> c.data[b]]])
      \o (IF c.end THEN <<[end |-> TRUE]>> ELSE <<>>)

pieces(q) == FlattenSeq([k \in DOMAIN q |-> piece(q[k])])

belongs(c, id) == ~Client /\ ~c.ctl /\ c.id = id
out(id) == FlattenSeq([k \in DOMAIN h.written |-> IF belongs(h.written[k], id) THEN piece(h.written[k]) ELSE <<>>])
queued(id) == IF isOpen(w.ws, id) THEN pieces(w.ws.queue[id]) ELSE <<>>

\* Whichever scheduler a server uses, the frames of one stream go out in the order
\* the handler asked for them, no octet lost, doubled or sent before its turn
\* when a DATA frame is cut to fit the windows, and END_STREAM last; what a
\* scheduler drops is what belongs to a closed stream (writesched.go:62,
\* writesched_roundrobin.go:61).
ServedInOrder ==
    /\ ~w.ws.panic
    /\ \A id \in Streams :
        IF id \in w.closed THEN IsPrefix(out(id), pieces(h.asked[id]))
        ELSE pieces(h.asked[id]) = out(id) \o queued(id)

\* No stream is passed over: a scheduler with turns serves a stream that can send
\* before it serves another one of its class a second time, and RFC 9218 serves
\* no stream while a more urgent one can send (writesched_roundrobin.go:101,
\* writesched_priority_rfc9218.go:171).
ServedInTurn == ~h.outOfTurn

=============================================================================
