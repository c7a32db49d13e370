------------------------------ MODULE H2Request ------------------------------
(***************************************************************************)
(* A request as a header list and back (internal/xnet/httpcommon,          *)
(* internal/xnet/httpguts, http2x/server.go newWriterAndRequest): what the *)
(* client's EncodeHeaders checks, drops, adds and orders, and the request  *)
(* the server's handler gets to see.                                       *)
(*                                                                         *)
(* header maps the canonical names of a request's header to their values.  *)
(* A Cookie value is the sequence of its crumbs, the parts between the     *)
(* semicolons.                                                             *)
(***************************************************************************)
EXTENDS H2Frame, Functions, TLC

CONSTANTS
    Lower,              \* the wire form of every header name
    Tokens,             \* ValidHeaderFieldName
    ToASCII,            \* PunycodeHostPort, on the hosts it can represent
    ValidHosts,         \* ValidHostHeader
    ChromeHeaderOrder,  \* chromeHeaderOrder, in wire form
    ChromeFingerprint,  \* chromeFingerprint.Enabled
    SortedNames,        \* the names in the order of sort.Strings
    Joined,             \* the text of a Trailer field, for every set of names
    DefaultUserAgent,
    MaxContentLength    \* bound on the content lengths that are parsed

Names == DOMAIN Lower
Canonical(n) == CHOOSE k \in Names : Lower[k] = n

valuesOf(req, k) == IF k \in DOMAIN req.header THEN req.header[k] ELSE <<>>

-----------------------------------------------------------------------------
(* request.go: what the client refuses *)

checkConnHeaders(req) ==
    LET upgrade == valuesOf(req, "Upgrade")
        te      == valuesOf(req, "Transfer-Encoding")
        conn    == valuesOf(req, "Connection")
    IN  /\ upgrade = <<>> \/ upgrade[1] \in {"", "chunked"}
        /\ te = <<>> \/ (Len(te) = 1 /\ te[1] \in {"", "chunked"})
        /\ conn = <<>> \/ (Len(conn) = 1 /\ conn[1] \in {"", "close", "keep-alive"})

PunycodeHostPort(h) == IF h \in DOMAIN ToASCII THEN ToASCII[h] ELSE h

\* The crumbs of a cookie that are sent: the last one only if there is any.
crumbs(v) == IF v # <<>> /\ Last(v) = "" THEN Front(v) ELSE v

validValue(k, v) ==
    IF k = "Cookie" THEN Range(v) \subseteq FieldValues ELSE v \in FieldValues

validateHeaders(header) ==
    \A k \in DOMAIN header : (k \in Tokens \/ k = ":protocol")
                             /\ \A v \in Range(header[k]) : validValue(k, v)

\* commaSeparatedTrailers: every key but these may be announced.
validTrailers(trailer) == trailer \cap {"Transfer-Encoding", "Trailer", "Content-Length"} = {}

protocolOf(req) == IF valuesOf(req, ":protocol") = <<>> THEN "" ELSE req.header[":protocol"][1]
isNormalConnect(req) == req.method = "CONNECT" /\ protocolOf(req) = ""

validPseudoPath(path) == path \in {"/", "/a", "*"}

acceptable(req) ==
    /\ checkConnHeaders(req)
    /\ req.host \in ValidHosts \cup DOMAIN ToASCII /\ PunycodeHostPort(req.host) \in ValidHosts
    /\ protocolOf(req) # "" => req.method = "CONNECT"
    /\ isNormalConnect(req) \/ validPseudoPath(req.path)
    /\ validateHeaders(req.header) /\ req.trailer \subseteq Tokens
    /\ validTrailers(req.trailer)

-----------------------------------------------------------------------------
(* request.go: enumerateHeaders *)

Method(req) == IF req.method = "" THEN "GET" ELSE req.method

pseudoHeaders(req) ==
    LET path   == IF isNormalConnect(req) THEN <<>> ELSE <<HeaderField(":path", req.path)>>
        scheme == IF isNormalConnect(req) THEN <<>> ELSE <<HeaderField(":scheme", req.scheme)>>
        auth   == HeaderField(":authority", PunycodeHostPort(req.host))
        method == HeaderField(":method", Method(req))
    IN  (IF ChromeFingerprint THEN <<method, auth>> \o scheme \o path
         ELSE <<auth, method>> \o path \o scheme)
          \o (IF protocolOf(req) = "" THEN <<>> ELSE <<HeaderField(":protocol", protocolOf(req))>>)

\* Never sent as they stand: carried otherwise, or a matter of one connection.
notSent == {"host", "content-length", "connection", "proxy-connection",
            "transfer-encoding", "upgrade", "keep-alive", ":protocol"}

fieldsOf(req, k) ==
    LET vv   == req.header[k]
        name == Lower[k]
        one(q) == [i \in DOMAIN q |-> HeaderField(name, q[i])]
    IN  CASE name \in notSent -> <<>>
          [] name = "user-agent" -> IF vv = <<>> \/ vv[1] = "" THEN <<>> ELSE one(<<vv[1]>>)
          [] name = "cookie" -> one(FlattenSeq([i \in DOMAIN vv |-> crumbs(vv[i])]))
          [] OTHER -> one(vv)

chromeHeaderRank(k) ==
    LET n == SelectInSeq(ChromeHeaderOrder, LAMBDA h : h = Lower[k])
    IN  IF n = 0 THEN Len(ChromeHeaderOrder) + 1 ELSE n

sortedKeys(header) == SelectSeq(SortedNames, LAMBDA k : k \in DOMAIN header)

\* The orders the keys may be left in.  sort.Slice by rank leaves keys of the
\* same rank as the map iterated over them, which is in any order.
headerOrders(req) ==
    IF ~ChromeFingerprint THEN {sortedKeys(req.header)}
    ELSE {q \in SetToSeqs(DOMAIN req.header) :
            \A i, j \in DOMAIN q : i < j => chromeHeaderRank(q[i]) <= chromeHeaderRank(q[j])}

shouldSendReqContentLength(req) ==
    req.clen > 0 \/ (req.clen = 0 /\ req.method \in {"POST", "PUT", "PATCH"})

IsRequestGzip(req) ==
    valuesOf(req, "Accept-Encoding") = <<>> /\ valuesOf(req, "Range") = <<>> /\ req.method # "HEAD"

HasTrailers(req) == req.trailer # {}

enumerateHeaders(req, gzip) ==
    {pseudoHeaders(req)
       \o (IF HasTrailers(req) THEN <<HeaderField("trailer", Joined[req.trailer])>> ELSE <<>>)
       \o FlattenSeq([i \in DOMAIN q |-> fieldsOf(req, q[i])])
       \o (IF shouldSendReqContentLength(req)
           THEN <<HeaderField("content-length", ToString(req.clen))>> ELSE <<>>)
       \o (IF gzip THEN <<HeaderField("accept-encoding", "gzip")>> ELSE <<>>)
       \o (IF "User-Agent" \in DOMAIN req.header THEN <<>>
           ELSE <<HeaderField("user-agent", DefaultUserAgent)>>) : q \in headerOrders(req)}

\* The header lists EncodeHeaders may hand to the encoder: none when the request
\* is refused, before the encoder has seen any of it.
EncodeHeaders(req, gzip, peerMax) ==
    IF ~acceptable(req) THEN {}
    ELSE {l \in enumerateHeaders(req, gzip) : peerMax > 0 => totalSize(l) <= peerMax}

endsWithHeaders(req) == req.clen = 0 /\ ~HasTrailers(req)

-----------------------------------------------------------------------------
(* The server's side: newWriterAndRequest and NewServerRequest.             *)

PseudoValue(fields, n) ==
    LET at_ == SelectInSeq(PseudoFields(fields), LAMBDA f : f.name = n)
    IN  IF at_ = 0 THEN "" ELSE fields[at_].value

\* header.Add of every regular field, in order.
headerOf(fields) ==
    LET regular == RegularFields(fields)
    IN  [k \in {Canonical(f.name) : f \in Range(regular)} |->
            LET mine == SelectSeq(regular, LAMBDA f : Canonical(f.name) = k)
            IN  [i \in DOMAIN mine |-> mine[i].value]]

NotAccepted == [ok |-> FALSE]

badConnect(fields) ==
    /\ PseudoValue(fields, ":method") = "CONNECT" /\ PseudoValue(fields, ":protocol") = ""
    /\ \/ PseudoValue(fields, ":path") # "" \/ PseudoValue(fields, ":scheme") # ""
       \/ PseudoValue(fields, ":authority") = ""

badPathMethod(fields) ==
    /\ PseudoValue(fields, ":method") # "CONNECT"
    /\ \/ PseudoValue(fields, ":method") = "" \/ PseudoValue(fields, ":path") = ""
       \/ PseudoValue(fields, ":scheme") \notin {"http", "https"}

\* Host must be the authority; more than one is refused.
hostsOf(header) == IF "Host" \in DOMAIN header THEN header["Host"] ELSE <<>>
hostMismatch(authority, header) ==
    Len(hostsOf(header)) > 1 \/ (hostsOf(header) # <<>> /\ authority # "" /\ hostsOf(header)[1] # authority)

\* Mutant: the crumbs stay apart.
mergedCookies_apart(header) == header

mergedCookies(header) ==
    IF "Cookie" \in DOMAIN header THEN [header EXCEPT !["Cookie"] = <<@>>] ELSE header

\* foreachHeaderElement over the Trailer fields.
trailerElements(header) ==
    IF "Trailer" \notin DOMAIN header THEN {}
    ELSE UNION {t \in DOMAIN Joined : Joined[t] \in Range(header["Trailer"])}

announcedTrailers(header) == trailerElements(header) \ {"Transfer-Encoding", "Trailer", "Content-Length"}

needsContinue(header) == "Expect" \in DOMAIN header /\ "100-continue" \in Range(header["Expect"])

ParseUint(v) ==
    IF \E n \in 0..MaxContentLength : ToString(n) = v
    THEN CHOOSE n \in 0..MaxContentLength : ToString(n) = v ELSE 0

ContentLength(header, end) ==
    IF end THEN 0
    ELSE IF "Content-Length" \in DOMAIN header THEN ParseUint(header["Content-Length"][1]) ELSE -1

NewServerRequest(fields, end) ==
    LET header    == headerOf(fields)
        method    == PseudoValue(fields, ":method")
        protocol  == PseudoValue(fields, ":protocol")
        authority == IF PseudoValue(fields, ":authority") # "" THEN PseudoValue(fields, ":authority")
                     ELSE IF hostsOf(header) # <<>> THEN hostsOf(header)[1] ELSE ""
        path      == PseudoValue(fields, ":path")
        gone      == (IF needsContinue(header) THEN {"Expect"} ELSE {}) \cup {"Trailer", "Host"}
    IN  IF hostMismatch(authority, header) \/ (authority # "" /\ authority \notin ValidHosts)
           \/ (~(method = "CONNECT" /\ protocol = "") /\ ~validPseudoPath(path))
        THEN NotAccepted
        ELSE [ok |-> TRUE, method |-> method, scheme |-> PseudoValue(fields, ":scheme"),
              host |-> authority, path |-> path, protocol |-> protocol,
              header |-> Restrict(mergedCookies(header), DOMAIN header \ gone),
              trailer |-> announcedTrailers(header), needsContinue |-> needsContinue(header),
              clen |-> ContentLength(header, end)]

newWriterAndRequest(fields, end, extendedConnect) ==
    IF \/ PseudoValue(fields, ":protocol") # "" /\ ~extendedConnect
       \/ badConnect(fields) \/ badPathMethod(fields)
    THEN NotAccepted
    ELSE NewServerRequest(fields, end)

=============================================================================
