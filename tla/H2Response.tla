----------------------------- MODULE H2Response -----------------------------
(***************************************************************************)
(* A response as a header list and back (internal/http2x/write.go and      *)
(* transport.go handleResponse): what the server drops from a handler's    *)
(* header, and the response the client's caller gets to see.               *)
(***************************************************************************)
EXTENDS H2Request

CONSTANTS
    StatusCodes,        \* the texts strconv.Atoi accepts as a status, with their numbers
    TrailerPrefixed,    \* the names "Trailer:X" of a handler's header, with their X
    Sniffed, Now        \* what DetectContentType and the clock say

-----------------------------------------------------------------------------
(* server.go: what writeChunk makes of a handler's header.  res.header is   *)
(* that header when it is written, res.late what the handler adds to it     *)
(* later.                                                                   *)

badTrailer ==
    {"Authorization", "Cache-Control", "Connection", "Content-Encoding", "Content-Length",
     "Content-Range", "Content-Type", "Expect", "Host", "Keep-Alive", "Max-Forwards", "Pragma",
     "Proxy-Authenticate", "Proxy-Authorization", "Proxy-Connection", "Range", "Realm", "Te",
     "Trailer", "Transfer-Encoding", "Www-Authenticate"}

\* Names that begin with If- are not in the instances.
ValidTrailerHeader(k) == k \notin badTrailer

declaredTrailers(res) == {k \in trailerElements(res.header) : ValidTrailerHeader(k)}

\* The header once the handler has returned: X in place of "Trailer:X".
promoted(res) ==
    LET h == res.late @@ res.header
        x == {TrailerPrefixed[k] : k \in DOMAIN h \cap DOMAIN TrailerPrefixed}
    IN  [n \in x |-> h[CHOOSE k \in DOMAIN TrailerPrefixed : TrailerPrefixed[k] = n]] @@ h

promoteUndeclaredTrailers(res) ==
    LET h == res.late @@ res.header
    IN  declaredTrailers(res)
          \cup {k \in {TrailerPrefixed[n] : n \in DOMAIN h \cap DOMAIN TrailerPrefixed} : ValidTrailerHeader(k)}

hasTrailers(res, done) == (IF done THEN promoteUndeclaredTrailers(res) ELSE declaredTrailers(res)) # {}

hasNonemptyTrailers(res) == promoteUndeclaredTrailers(res) \cap DOMAIN promoted(res) # {}

bodyAllowedForStatus(code) == code \notin (100..199) \cup {204, 304}

\* The header block of a response of which n octets are there; done, if that is
\* all of it.  The length it is given is the handler's if that is a number.
writeHeaders(res, n, done) ==
    LET given    == IF "Content-Length" \in DOMAIN res.header THEN res.header["Content-Length"][1] ELSE ""
        numeric  == \E k \in 0..MaxContentLength : ToString(k) = given
        allowed  == bodyAllowedForStatus(StatusCodes[res.status])
        blank    == "Content-Length" \in DOMAIN res.header /\ given = ""
    IN  [status |-> res.status, trailers |-> <<>>,
         header |-> Restrict(res.header, DOMAIN res.header \ ({"Connection"} \cup
                                           (IF blank THEN {} ELSE {"Content-Length"}))),
         contentLength |-> IF numeric THEN given
                           ELSE IF ~blank /\ done /\ allowed THEN ToString(n) ELSE "",
         contentType |-> IF {"Content-Encoding", "Content-Type"} \cap DOMAIN res.header = {} /\ allowed /\ n > 0
                         THEN Sniffed ELSE "",
         date |-> IF "Date" \in DOMAIN res.header THEN "" ELSE Now]

writeTrailers(res) ==
    [status |-> "", header |-> promoted(res), contentLength |-> "", contentType |-> "", date |-> "",
     trailers |-> SelectSeq(SortedNames, LAMBDA k : k \in promoteUndeclaredTrailers(res))]

-----------------------------------------------------------------------------
(* write.go *)

\* Names and values that would be malformed are left out without a word.
encodeHeaders(header, keys) ==
    FlattenSeq([i \in DOMAIN keys |->
        LET name == Lower[keys[i]]
            sent(v) == v \in FieldValues /\ (name = "transfer-encoding" => v = "trailers")
            vv == IF name \in WireNames /\ keys[i] \in DOMAIN header
                  THEN SelectSeq(header[keys[i]], sent) ELSE <<>>
        IN  [k \in DOMAIN vv |-> HeaderField(name, vv[k])]])

optional(name, v) == IF v = "" THEN <<>> ELSE <<HeaderField(name, v)>>

\* A response header or, without a status, the trailers: only the keys listed.
writeResHeaders(w) ==
    optional(":status", w.status)
      \o encodeHeaders(w.header, IF w.trailers = <<>> THEN sortedKeys(w.header) ELSE w.trailers)
      \o optional("content-type", w.contentType)
      \o optional("content-length", w.contentLength)
      \o optional("date", w.date)

-----------------------------------------------------------------------------
(* transport.go *)

Unusable == [ok |-> FALSE]

informational(status) == StatusCodes[status] \in 100..199

responseLength(header, end, isHead) ==
    LET clens == IF "Content-Length" \in DOMAIN header THEN header["Content-Length"] ELSE <<>>
    IN  IF Len(clens) = 1 /\ (\E n \in 0..MaxContentLength : ToString(n) = clens[1]) THEN ParseUint(clens[1])
        ELSE IF clens = <<>> /\ end /\ ~isHead THEN 0 ELSE -1

\* What the caller is given, for a block that is not a trailer.  A body that was
\* asked for compressed is uncompressed on the way, and its length forgotten.
handleResponse(f, isHead, requestedGzip) ==
    LET status == PseudoValue(f.fields, ":status")
        header == headerOf(f.fields)
        kept   == Restrict(header, DOMAIN header \ {"Trailer"})
        bare   == isHead \/ f.end
        gunzip == /\ ~bare /\ requestedGzip /\ "Content-Encoding" \in DOMAIN header
                  /\ header["Content-Encoding"][1] = "gzip"
    IN  IF f.truncated \/ status \notin DOMAIN StatusCodes \/ (informational(status) /\ f.end)
        THEN Unusable
        ELSE IF informational(status)
        THEN [ok |-> TRUE, status |-> status, header |-> kept, trailer |-> {}, clen |-> -1, gunzip |-> FALSE]
        ELSE [ok |-> TRUE, status |-> status,
              header |-> IF gunzip THEN Restrict(kept, DOMAIN kept \ {"Content-Encoding", "Content-Length"})
                         ELSE kept,
              trailer |-> trailerElements(header),
              clen |-> IF gunzip THEN -1 ELSE responseLength(kept, f.end, isHead), gunzip |-> gunzip]

\* What the client makes of the block after the body.
processTrailers(f) ==
    IF ~f.end \/ PseudoFields(f.fields) # <<>> THEN Unusable
    ELSE [ok |-> TRUE, trailer |-> headerOf(f.fields)]

=============================================================================
