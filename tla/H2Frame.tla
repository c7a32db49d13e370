------------------------------- MODULE H2Frame -------------------------------
(***************************************************************************)
(* Frames on the wire (internal/http2x/frame.go): what the Write methods   *)
(* of a Framer put there, and what ReadFrame makes of it.                  *)
(*                                                                         *)
(* A payload is a sequence of octets.  An octet holds a number below       *)
(* Octet (256 in the code), so a 32-bit field holds one below Octet^4, and *)
(* its reserved bit is worth half of that.  The octets of a header block   *)
(* are those of Hpack.                                                     *)
(***************************************************************************)
EXTENDS Hpack

CONSTANTS
    Octet,
    MaxReadSize,        \* SetMaxReadFrameSize
    MaxHeaderListSize,  \* MAX_HEADER_LIST_SIZE of the reading end
    WireNames,          \* validWireHeaderFieldName: lower-case tokens
    FieldValues,        \* ValidHeaderFieldValue: no control characters
    OtherPseudos        \* names that begin with a colon and mean nothing

Reserved == (Octet ^ 4) \div 2
MaxUint31 == Reserved - 1

\* encoding/binary: big endian.
octets(v, n) == [k \in 1..n |-> (v \div Octet ^ (n - k)) % Octet]
uint(p) == FoldLeft(LAMBDA v, b : v * Octet + b, 0, p)
uint31(p) == uint(p) % Reserved

zeros(n) == [k \in 1..n |-> 0]
first(p, n) == SubSeq(p, 1, n)
rest(p, n) == SubSeq(p, n + 1, Len(p))

-----------------------------------------------------------------------------
(* Writing.  Each method writes one frame, or refuses and writes none;      *)
(* with AllowIllegalWrites (illegal) most refusals are waived.              *)

frame(t, flags, id, payload) == <<[t |-> t, flags |-> flags, id |-> id, payload |-> payload]>>
Refused == <<>>
flag(name, cond) == IF cond THEN {name} ELSE {}

validStreamIDOrZero(id) == id < Reserved
validStreamID(id) == id # 0 /\ id < Reserved

NoPad == -1
padLength(pad) == IF pad = NoPad THEN <<>> ELSE <<pad>>
padding(pad) == IF pad = NoPad THEN <<>> ELSE zeros(pad)

WriteDataPadded(illegal, id, end, data, pad) ==
    IF (~validStreamID(id) /\ ~illegal) \/ pad >= Octet THEN Refused
    ELSE frame("DATA", flag("END_STREAM", end) \cup flag("PADDED", pad # NoPad), id,
               padLength(pad) \o data \o padding(pad))

NoPriority == [dep |-> 0, exclusive |-> FALSE, weight |-> 0]
priorityOctets(p) ==
    octets(p.dep + (IF p.exclusive THEN Reserved ELSE 0), 4) \o <<p.weight>>

WriteHeaders(illegal, id, fragment, end, endHeaders, pad, prio) ==
    IF ~illegal /\ (~validStreamID(id) \/ ~validStreamIDOrZero(prio.dep)) THEN Refused
    ELSE frame("HEADERS",
               flag("PADDED", pad # 0) \cup flag("END_STREAM", end)
                 \cup flag("END_HEADERS", endHeaders) \cup flag("PRIORITY", prio # NoPriority), id,
               (IF pad # 0 THEN <<pad>> ELSE <<>>)
                 \o (IF prio # NoPriority THEN priorityOctets(prio) ELSE <<>>)
                 \o fragment \o zeros(pad))

WriteContinuation(illegal, id, endHeaders, fragment) ==
    IF ~validStreamID(id) /\ ~illegal THEN Refused
    ELSE frame("CONTINUATION", flag("END_HEADERS", endHeaders), id, fragment)

WritePushPromise(illegal, id, promise, fragment, endHeaders, pad) ==
    IF ~illegal /\ (~validStreamID(id) \/ ~validStreamID(promise)) THEN Refused
    ELSE frame("PUSH_PROMISE", flag("PADDED", pad # 0) \cup flag("END_HEADERS", endHeaders), id,
               (IF pad # 0 THEN <<pad>> ELSE <<>>) \o octets(promise, 4) \o fragment \o zeros(pad))

WritePriority(illegal, id, prio) ==
    IF (~validStreamID(id) /\ ~illegal) \/ ~validStreamIDOrZero(prio.dep) THEN Refused
    ELSE frame("PRIORITY", {}, id, priorityOctets(prio))

WritePriorityUpdate(illegal, id, priority) ==
    IF ~validStreamID(id) /\ ~illegal THEN Refused
    ELSE frame("PRIORITY_UPDATE", {}, 0, octets(id, 4) \o priority)

WriteRSTStream(illegal, id, code) ==
    IF ~validStreamID(id) /\ ~illegal THEN Refused
    ELSE frame("RST_STREAM", {}, id, octets(code, 4))

\* settings: a sequence of <<identifier, value>>.
WriteSettings(settings) ==
    frame("SETTINGS", {}, 0,
          FoldLeft(LAMBDA p, s : p \o octets(s[1], 2) \o octets(s[2], 4), <<>>, settings))

WriteSettingsAck == frame("SETTINGS", {"ACK"}, 0, <<>>)

WritePing(ack, data) == frame("PING", flag("ACK", ack), 0, data)

WriteGoAway(last, code, debug) ==
    frame("GOAWAY", {}, 0, octets(last % Reserved, 4) \o octets(code, 4) \o debug)

WriteWindowUpdate(illegal, id, incr) ==
    IF (incr < 1 \/ incr > MaxUint31) /\ ~illegal THEN Refused
    ELSE frame("WINDOW_UPDATE", {}, id, octets(incr, 4))

WriteRawFrame(t, flags, id, payload) == frame(t, flags, id, payload)

\* A header block as HEADERS and CONTINUATION frames of at most max octets; a
\* block without any octets is not sent at all.
fragments(b, max) ==
    [k \in 1..((Len(b) + max - 1) \div max) |->
        SubSeq(b, (k - 1) * max + 1, Min({k * max, Len(b)}))]

writeHeaderBlock(id, end, b, max) ==
    LET fs == fragments(b, max)
    IN  FlattenSeq([k \in DOMAIN fs |->
            IF k = 1 THEN WriteHeaders(FALSE, id, fs[k], end, k = Len(fs), 0, NoPriority)
            ELSE WriteContinuation(FALSE, id, k = Len(fs), fs[k])])

-----------------------------------------------------------------------------
(* Reading: one parser per frame type.  fh is the frame as it was sent, its *)
(* stream id without the reserved bit.                                      *)

Parsed(f) == [err |-> "none", f |-> f]
connError(code) == [err |-> "conn", code |-> code]
streamError(id, code) == [err |-> "stream", id |-> id, code |-> code]
unexpectedEOF == [err |-> "io"]

\* The octets a PADDED frame begins with, and what is left between it and pad.
padSize(fh) == IF "PADDED" \in fh.flags THEN fh.payload[1] ELSE 0
unpadded(fh) == IF "PADDED" \in fh.flags THEN rest(fh.payload, 1) ELSE fh.payload
padByteMissing(fh) == "PADDED" \in fh.flags /\ fh.payload = <<>>
withoutPadding(p, n) == first(p, Len(p) - n)

parseDataFrame(fh) ==
    IF fh.id = 0 THEN connError("PROTOCOL")
    ELSE IF padByteMissing(fh) THEN unexpectedEOF
    ELSE IF padSize(fh) > Len(unpadded(fh)) THEN connError("PROTOCOL")
    ELSE Parsed([t |-> "DATA", id |-> fh.id, end |-> "END_STREAM" \in fh.flags,
                 data |-> withoutPadding(unpadded(fh), padSize(fh))])

settingsOf(p) ==
    [k \in 1..(Len(p) \div 6) |-> <<uint(SubSeq(p, 6 * k - 5, 6 * k - 4)), uint(SubSeq(p, 6 * k - 3, 6 * k))>>]

InitialWindowSize == 4

\* Value answers with the first setting of an identifier.
windowTooBig(settings) ==
    \E k \in DOMAIN settings :
        /\ settings[k][1] = InitialWindowSize /\ settings[k][2] > MaxUint31
        /\ \A j \in 1..(k - 1) : settings[j][1] # InitialWindowSize

parseSettingsFrame(fh) ==
    IF "ACK" \in fh.flags /\ fh.payload # <<>> THEN connError("FRAME_SIZE")
    ELSE IF fh.id # 0 THEN connError("PROTOCOL")
    ELSE IF Len(fh.payload) % 6 # 0 THEN connError("FRAME_SIZE")
    ELSE IF windowTooBig(settingsOf(fh.payload)) THEN connError("FLOW_CONTROL")
    ELSE Parsed([t |-> "SETTINGS", ack |-> "ACK" \in fh.flags, settings |-> settingsOf(fh.payload)])

parsePingFrame(fh) ==
    IF Len(fh.payload) # 8 THEN connError("FRAME_SIZE")
    ELSE IF fh.id # 0 THEN connError("PROTOCOL")
    ELSE Parsed([t |-> "PING", ack |-> "ACK" \in fh.flags, data |-> fh.payload])

parseGoAwayFrame(fh) ==
    IF fh.id # 0 THEN connError("PROTOCOL")
    ELSE IF Len(fh.payload) < 8 THEN connError("FRAME_SIZE")
    ELSE Parsed([t |-> "GOAWAY", last |-> uint31(first(fh.payload, 4)),
                 code |-> uint(SubSeq(fh.payload, 5, 8)), debug |-> rest(fh.payload, 8)])

parseWindowUpdateFrame(fh) ==
    IF Len(fh.payload) # 4 THEN connError("FRAME_SIZE")
    ELSE IF uint31(fh.payload) = 0
    THEN IF fh.id = 0 THEN connError("PROTOCOL") ELSE streamError(fh.id, "PROTOCOL")
    ELSE Parsed([t |-> "WINDOW_UPDATE", id |-> fh.id, incr |-> uint31(fh.payload)])

priorityParam(p) ==
    [dep |-> uint31(first(p, 4)), exclusive |-> uint(first(p, 4)) >= Reserved, weight |-> p[5]]

parseHeadersFrame(fh) ==
    LET p    == unpadded(fh)
        prio == "PRIORITY" \in fh.flags
        q    == IF prio THEN rest(p, 5) ELSE p
    IN  IF fh.id = 0 THEN connError("PROTOCOL")
        ELSE IF padByteMissing(fh) \/ (prio /\ Len(p) < 5) THEN unexpectedEOF
        ELSE IF padSize(fh) > Len(q) THEN streamError(fh.id, "PROTOCOL")
        ELSE Parsed([t |-> "HEADERS", id |-> fh.id, end |-> "END_STREAM" \in fh.flags,
                     endHeaders |-> "END_HEADERS" \in fh.flags,
                     prio |-> IF prio THEN priorityParam(p) ELSE NoPriority,
                     fragment |-> withoutPadding(q, padSize(fh))])

parsePriorityFrame(fh) ==
    IF fh.id = 0 THEN connError("PROTOCOL")
    ELSE IF Len(fh.payload) # 5 THEN connError("FRAME_SIZE")
    ELSE Parsed([t |-> "PRIORITY", id |-> fh.id, prio |-> priorityParam(fh.payload)])

parsePriorityUpdateFrame(fh) ==
    IF fh.id # 0 THEN connError("PROTOCOL")
    ELSE IF Len(fh.payload) < 4 THEN connError("FRAME_SIZE")
    ELSE IF uint31(first(fh.payload, 4)) = 0 THEN connError("PROTOCOL")
    ELSE Parsed([t |-> "PRIORITY_UPDATE", id |-> uint31(first(fh.payload, 4)), priority |-> rest(fh.payload, 4)])

parseRSTStreamFrame(fh) ==
    IF Len(fh.payload) # 4 THEN connError("FRAME_SIZE")
    ELSE IF fh.id = 0 THEN connError("PROTOCOL")
    ELSE Parsed([t |-> "RST_STREAM", id |-> fh.id, code |-> uint(fh.payload)])

parseContinuationFrame(fh) ==
    IF fh.id = 0 THEN connError("PROTOCOL")
    ELSE Parsed([t |-> "CONTINUATION", id |-> fh.id, endHeaders |-> "END_HEADERS" \in fh.flags,
                 fragment |-> fh.payload])

parsePushPromise(fh) ==
    IF fh.id = 0 THEN connError("PROTOCOL")
    ELSE IF padByteMissing(fh) \/ Len(unpadded(fh)) < 4 THEN unexpectedEOF
    ELSE IF padSize(fh) > Len(unpadded(fh)) - 4 THEN connError("PROTOCOL")
    ELSE Parsed([t |-> "PUSH_PROMISE", id |-> fh.id, promise |-> uint31(first(unpadded(fh), 4)),
                 endHeaders |-> "END_HEADERS" \in fh.flags,
                 fragment |-> withoutPadding(rest(unpadded(fh), 4), padSize(fh))])

parseUnknownFrame(fh) == Parsed([t |-> fh.t, id |-> fh.id, payload |-> fh.payload])

typeFrameParser(fh) ==
    CASE fh.t = "DATA" -> parseDataFrame(fh)
      [] fh.t = "HEADERS" -> parseHeadersFrame(fh)
      [] fh.t = "PRIORITY" -> parsePriorityFrame(fh)
      [] fh.t = "RST_STREAM" -> parseRSTStreamFrame(fh)
      [] fh.t = "SETTINGS" -> parseSettingsFrame(fh)
      [] fh.t = "PUSH_PROMISE" -> parsePushPromise(fh)
      [] fh.t = "PING" -> parsePingFrame(fh)
      [] fh.t = "GOAWAY" -> parseGoAwayFrame(fh)
      [] fh.t = "WINDOW_UPDATE" -> parseWindowUpdateFrame(fh)
      [] fh.t = "CONTINUATION" -> parseContinuationFrame(fh)
      [] fh.t = "PRIORITY_UPDATE" -> parsePriorityUpdateFrame(fh)
      [] OTHER -> parseUnknownFrame(fh)

-----------------------------------------------------------------------------
(* Framer with ReadMetaHeaders: HEADERS and its CONTINUATIONs are read as   *)
(* one frame.  meta is that frame while it is incomplete, err why reading   *)
(* has ended.                                                               *)

requestPseudos == {":method", ":path", ":scheme", ":authority", ":protocol"}
IsPseudo(f) == f.name \in requestPseudos \cup {":status"} \cup OtherPseudos

MetaHeadersFrame(hf) ==
    [on |-> TRUE, id |-> hf.id, end |-> hf.end, prio |-> hf.prio, fields |-> <<>>, truncated |-> FALSE,
     remainSize |-> MaxHeaderListSize, sawRegular |-> FALSE, invalid |-> FALSE]
NoMeta == [on |-> FALSE]

NewFramer(tableSize) ==
    [dec |-> NewDecoder(tableSize), lastHeaderStream |-> 0, meta |-> NoMeta, err |-> "none"]

\* HEADERS and CONTINUATION frames of a block follow each other.
checkFrameOrder(fr, fh) ==
    IF fr.lastHeaderStream # 0 THEN fh.t = "CONTINUATION" /\ fh.id = fr.lastHeaderStream
    ELSE fh.t # "CONTINUATION"

headerStream(fr, fh) ==
    IF fh.t \notin {"HEADERS", "CONTINUATION"} THEN fr.lastHeaderStream
    ELSE IF "END_HEADERS" \in fh.flags THEN 0 ELSE fh.id

\* The emit function of readMetaFrame.
emit(m, f) ==
    LET invalid == \/ f.value \notin FieldValues
                   \/ IF IsPseudo(f) THEN m.sawRegular ELSE f.name \notin WireNames
        m1      == [m EXCEPT !.sawRegular = @ \/ ~IsPseudo(f), !.invalid = invalid]
    IN  IF invalid THEN m1
        ELSE IF Size(f) > m.remainSize THEN [m1 EXCEPT !.truncated = TRUE, !.remainSize = 0]
        ELSE [m1 EXCEPT !.remainSize = @ - Size(f), !.fields = Append(@, f)]

PseudoFields(fields) == LET n == SelectInSeq(fields, LAMBDA f : ~IsPseudo(f))
                        IN  IF n = 0 THEN fields ELSE SubSeq(fields, 1, n - 1)
RegularFields(fields) == rest(fields, Len(PseudoFields(fields)))

checkPseudos(fields) ==
    LET names == [k \in DOMAIN PseudoFields(fields) |-> fields[k].name]
        used  == Range(names)
    IN  /\ IsInjective(names)
        /\ used \subseteq requestPseudos \/ used \subseteq {":status"}

Delivers(fr, out) == [fr |-> fr, out |-> out]
Ends(fr, code) == Delivers([fr EXCEPT !.err = code], <<>>)
StreamErrorEvent(id, code) == <<[t |-> "STREAM_ERROR", id |-> id, code |-> code]>>

\* The decoder and the frame after one fragment of the block; ok until the
\* decoder fails.
decode(fr, fragment) ==
    FoldLeft(LAMBDA x, b :
                LET r == WriteOctet(x.dec, b)
                    m == FoldLeft(emit, x.meta, r.emits)
                IN  IF ~x.ok THEN x
                    ELSE [dec |-> [r.d EXCEPT !.emitEnabled = @ /\ ~m.invalid /\ ~m.truncated],
                          meta |-> m, ok |-> r.ok],
             [dec |-> fr.dec, meta |-> fr.meta, ok |-> TRUE], fragment)

\* A sender that goes on far beyond the limit, or after an invalid field, is cut
\* off; the doubled size is a uint32.
goesOn(m, fragment) == Len(fragment) > (2 * m.remainSize) % (Uint32Max + 1) \/ m.invalid

endOfBlock(fr, m) ==
    LET fr1 == [fr EXCEPT !.dec = Close(@), !.meta = NoMeta]
    IN  IF closeFails(fr.dec) THEN Ends(fr1, "COMPRESSION")
        ELSE IF m.invalid \/ ~checkPseudos(m.fields)
        THEN Delivers(fr1, StreamErrorEvent(m.id, "PROTOCOL"))
        ELSE Delivers(fr1, <<[t |-> "HEADERS", id |-> m.id, end |-> m.end, prio |-> m.prio,
                              fields |-> m.fields, truncated |-> m.truncated]>>)

\* From here on the result is in a set of its own, so that what a stage hands to
\* the next is computed once.
readFragment(fr, fragment, endHeaders) ==
    IF goesOn(fr.meta, fragment) THEN {Ends(fr, "PROTOCOL")}
    ELSE {LET fr1 == [fr EXCEPT !.dec = x.dec, !.meta = x.meta]
          IN  IF ~x.ok THEN Ends(fr1, "COMPRESSION")
              ELSE IF endHeaders THEN endOfBlock(fr1, x.meta)
              ELSE Delivers(fr1, <<>>) : x \in {decode(fr, fragment)}}

\* readMetaFrame begins with the emit function on and the limit on strings set.
readMetaFrame(fr, hf) ==
    UNION {readFragment(fr1, hf.fragment, hf.endHeaders) :
            fr1 \in {[fr EXCEPT !.meta = MetaHeadersFrame(hf), !.dec.emitEnabled = TRUE,
                                !.dec.maxStrLen = MaxHeaderListSize]}}

parsed(fr, fh, r) ==
    CASE r.err = "conn" -> {Ends(fr, r.code)}
      [] r.err = "io" -> {Ends(fr, "EOF")}
      [] r.err = "stream" -> {Delivers([fr EXCEPT !.meta = NoMeta], StreamErrorEvent(r.id, r.code))}
      [] r.err = "none" /\ fh.t = "HEADERS" -> readMetaFrame(fr, r.f)
      [] r.err = "none" /\ fh.t = "CONTINUATION" /\ fr.meta.on ->
            readFragment(fr, r.f.fragment, r.f.endHeaders)
      [] OTHER -> {Delivers(fr, <<r.f>>)}

ReadFrameForHeader(fr, fh) ==
    UNION {parsed(fr1, fh, r) : fr1 \in {[fr EXCEPT !.lastHeaderStream = headerStream(fr, fh)]},
                                r \in {typeFrameParser(fh)}}

ReadFrame(fr, raw) ==
    UNION {IF Len(fh.payload) > MaxReadSize THEN {Ends(fr, "FRAME_TOO_LARGE")}
           ELSE IF ~checkFrameOrder(fr, fh) THEN {Ends(fr, "PROTOCOL")}
           ELSE ReadFrameForHeader(fr, fh) : fh \in {[raw EXCEPT !.id = @ % Reserved]}}

=============================================================================
