------------------------------ MODULE MCH2Codec ------------------------------
(***************************************************************************)
(* H2Codec on small numbers: an octet holds 0..3, a header table three     *)
(* fields, a frame of a header block five octets.                          *)
(***************************************************************************)
EXTENDS H2Codec

MCLower ==
    [k \in {":protocol"} |-> k] @@
    "Accept-Encoding" :> "accept-encoding" @@ "Connection" :> "connection" @@ "Content-Length" :> "content-length"
    @@ "Content-Encoding" :> "content-encoding"
    @@ "Cookie" :> "cookie" @@ "Expect" :> "expect" @@ "Host" :> "host" @@ "Trailer" :> "trailer"
    @@ "User-Agent" :> "user-agent" @@ "X-A" :> "x-a" @@ "X-B" :> "x-b" @@ "X Y" :> "x y" @@ "Content-Type" :> "content-type"
    @@ "Date" :> "date" @@ "Trailer:X-B" :> "trailer:x-b"

MCSortedNames ==
    <<":protocol", "Accept-Encoding", "Connection", "Content-Encoding", "Content-Length", "Content-Type", "Cookie", "Date", "Expect", "Host",
      "Trailer", "Trailer:X-B", "User-Agent", "X Y", "X-A", "X-B">>

MCTokens == DOMAIN MCLower \ {"X Y", ":protocol", "Trailer:X-B"}
MCWireNames == {MCLower[k] : k \in MCTokens}

Values == {"", "1", "2", "gzip", "go", "GET", "POST", "CONNECT", "/", "https", "a.com", "xn--a", "keep-alive",
           "100-continue", "200", "100", "X-A", "3", "0", "now", "text", "long"}
Bad == "\n"

MCOctets == [x \in {":method", ":path", ":scheme", ":authority", ":status", ":bogus"} \cup MCWireNames
                     \cup {"x y", "trailer:x-b"} \cup Values \cup {Bad} |->
                IF x = "long" THEN 20 ELSE 1]
MCCoded == [x \in DOMAIN MCOctets |-> IF x = "long" THEN 4 ELSE 1]

MCStaticTable ==
    <<HeaderField(":method", "GET"), HeaderField(":method", "POST"), HeaderField(":path", "/"),
      HeaderField(":scheme", "https"), HeaderField(":status", "200")>>

MCToASCII == "a" :> "xn--a"
MCValidHosts == {"a.com", "xn--a"}
MCJoined == {} :> "" @@ {"X-A"} :> "X-A"
MCStatusCodes == "200" :> 200 @@ "100" :> 100
MCFieldValues == Values

request(method, host, header, clen, trailer, gzip) ==
    [method |-> method, host |-> host, path |-> "/", scheme |-> "https", header |-> header, clen |-> clen,
     trailer |-> trailer, gzip |-> gzip]

MCRequests ==
    {request("GET", "a.com", <<>>, 0, {}, TRUE),
     request("POST", "a.com", "X-B" :> <<"1">> @@ "Cookie" :> <<<<"1", "2">>, <<"3", "">>>>, 3, {"X-A"}, FALSE),
     request("CONNECT", "a.com", "Host" :> <<"1">> @@ "User-Agent" :> <<"">>, -1, {}, FALSE),
     request("GET", "a", "X-A" :> <<"1", "2">> @@ "Connection" :> <<"keep-alive">>, 0, {}, FALSE),
     request("POST", "a.com", "Expect" :> <<"100-continue">> @@ "X-B" :> <<"2">> @@ "Content-Length" :> <<"1">>, 3, {}, FALSE),
     request("GET", "a.com", "X-A" :> <<Bad>>, 0, {}, FALSE),
     request("GET", "a.com", "X-A" :> <<"long">>, 0, {}, FALSE)}

prio(dep, ex, wt) == [dep |-> dep, exclusive |-> ex, weight |-> wt]
Field1 == block(<<Indexed(1)>>)

MCCalls ==
    {[op |-> "DATA", id |-> id, end |-> TRUE, data |-> d, pad |-> p] :
        id \in {0, 1, Reserved + 1}, d \in {<<>>, <<3, 0>>}, p \in {NoPad, 0, 2}}
    \cup {[op |-> "DATA", id |-> 1, end |-> FALSE, data |-> zeros(13), pad |-> NoPad],
          [op |-> "HEADERS", id |-> 3, fragment |-> Field1, fields |-> <<MCStaticTable[1]>>, end |-> TRUE,
           pad |-> 2, prio |-> prio(1, TRUE, 3)],
          [op |-> "HEADERS", id |-> 0, fragment |-> Field1, fields |-> <<MCStaticTable[1]>>, end |-> TRUE,
           pad |-> 0, prio |-> NoPriority],
          [op |-> "PRIORITY", id |-> 1, prio |-> prio(3, TRUE, 1)],
          [op |-> "PRIORITY", id |-> 1, prio |-> prio(Reserved, FALSE, 1)],
          [op |-> "PRIORITY_UPDATE", id |-> 1, priority |-> <<2, 3>>],
          [op |-> "PRIORITY_UPDATE", id |-> 0, priority |-> <<>>],
          [op |-> "RST_STREAM", id |-> 1, code |-> 2], [op |-> "RST_STREAM", id |-> 0, code |-> 2],
          [op |-> "SETTINGS", ack |-> TRUE, settings |-> <<>>],
          [op |-> "SETTINGS", ack |-> FALSE, settings |-> <<<<1, 0>>, <<4, MaxUint31>>>>],
          [op |-> "SETTINGS", ack |-> FALSE, settings |-> <<<<4, Reserved>>>>],
          [op |-> "PING", ack |-> TRUE, echo |-> <<0, 1, 2, 3, 3, 2, 1, 0>>],
          [op |-> "GOAWAY", last |-> MaxUint31, code |-> 1, debug |-> <<3>>],
          [op |-> "PUSH_PROMISE", id |-> 1, promise |-> 2, fragment |-> Field1, pad |-> 1],
          [op |-> "PUSH_PROMISE", id |-> 1, promise |-> 0, fragment |-> Field1, pad |-> 0],
          [op |-> "UNKNOWN", flags |-> {"ACK"}, id |-> 1, payload |-> <<1>>],
          [op |-> "CONTINUATION", flags |-> {"END_HEADERS"}, id |-> 1, payload |-> <<1>>]}
    \cup {[op |-> "WINDOW_UPDATE", id |-> id, incr |-> n] : id \in {0, 1}, n \in {0, 1, MaxUint31, Reserved}}

MCTrailerPrefixed == "Trailer:X-B" :> "X-B"

Plain ==
    [status |-> "200", late |-> <<>>,
     header |-> "Content-Encoding" :> <<"gzip">> @@ "Content-Length" :> <<"3">> @@ "X-A" :> <<"1">>
                  @@ "X Y" :> <<"1">> @@ "X-B" :> <<Bad>>]
Trailing ==
    [status |-> "200", late |-> "X-A" :> <<"2">> @@ "Trailer:X-B" :> <<"1">>,
     header |-> "Trailer" :> <<"X-A">> @@ "Connection" :> <<"keep-alive">>]
\* The value of its only trailer cannot be sent.
Invalid ==
    [status |-> "200", late |-> "X-A" :> <<Bad>>, header |-> "Trailer" :> <<"X-A">>]
answering(res, n, done) == [res |-> res, n |-> n, done |-> done]

MCResponses ==
    "roundrobin" :> {answering(Plain, 0, FALSE), answering(Trailing, 2, TRUE), answering(Invalid, 0, FALSE)}
    @@ "random" :> {answering(Plain, 0, TRUE), answering(Trailing, 0, FALSE)}
    @@ "rfc9218" :> {answering(Plain, 0, FALSE)}

MCChromeHeaderOrder == <<"user-agent", "cookie">>
MCPriorities == {<<0, 0>>, <<1, 1>>}
MCWindow == [stream |-> 1, conn |-> 2]
MCMaxAsked == [client |-> 2, server |-> 3]
MCMaxEvents == [client |-> 2, server |-> 1]
MCKinds == {"client", "roundrobin", "random", "rfc9218"}
=============================================================================
