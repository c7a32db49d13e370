------------------------------- MODULE H2Pool -------------------------------
(***************************************************************************)
(* The connection pool and the retries of the HTTP/2 transport             *)
(* (internal/http2x/client_conn_pool.go, transport_common.go), on top of   *)
(* the dials of HelloDial: requests to one host share connections and      *)
(* dials, connections die or are retired under them, requests are          *)
(* cancelled while others wait for the dial they began.                    *)
(*                                                                         *)
(* A connection has the name of the dial that made it.  What happens on a  *)
(* connection is H2Client's matter; here a round trip takes a slot, and    *)
(* ends in one of the ways the retry loop tells apart.                     *)
(***************************************************************************)
EXTENDS HelloDial, FiniteSets

CONSTANTS
    Requests,
    Body,           \* of a request: "none", "again" (GetBody) or "once"
    Closing,        \* the requests that may say Connection: close
    MaxStreams,     \* the peer's MAX_CONCURRENT_STREAMS
    MaxRetry,       \* 6
    MaxFaults,      \* bound on the mishaps: cancellations, refusals, lost or
                    \* retired connections, sweeps of the idle ones
    None

ASSUME PoolAssumption ==
    /\ IsFiniteSet(Requests) /\ None \notin Requests /\ None \notin Dials /\ None # "canceled"
    /\ Closing \subseteq Requests /\ MaxRetry \in Nat /\ MaxFaults \in Nat

VARIABLES
    rq,             \* the requests
    cn,             \* the connections
    pool            \* the connections, the dial others may join, who began
                    \* each dial, the dials that are over, the mishaps counted

poolVars == <<rq, cn, pool>>

NoConn == [up |-> FALSE, closed |-> FALSE, closedOnIdle |-> FALSE, cleaned |-> FALSE, goAway |-> FALSE,
           doNotReuse |-> FALSE, fresh |-> TRUE, single |-> FALSE, reused |-> FALSE, timer |-> FALSE,
           reserved |-> 0, streams |-> {}]

PoolInit ==
    /\ Init
    /\ \E close \in SUBSET Closing :
           rq = [r \in Requests |-> [at |-> "idle", call |-> None, cc |-> None, retry |-> 0, canceled |-> FALSE,
                                     read |-> FALSE, torn |-> FALSE, res |-> None, err |-> None,
                                     close |-> r \in close]]
    /\ cn = [d \in Dials |-> NoConn]
    /\ pool = [conns |-> <<>>, dialing |-> None, owner |-> [d \in Dials |-> None],
               done |-> {}, faults |-> 0]

-----------------------------------------------------------------------------
(* transport.go: what a connection says of itself *)

count(c) == Cardinality(c.streams) + c.reserved
isUsable(c) == ~c.goAway /\ ~c.closed /\ ~c.doNotReuse

\* A connection that broke before it was ever used takes one request, to report
\* why.
canTakeNewRequest(c) ==
    /\ c.single => c.fresh
    /\ \/ count(c) < MaxStreams /\ isUsable(c)
       \/ c.fresh /\ c.reserved = 0 /\ c.closed /\ ~c.closedOnIdle

reserve(d) == cn' = [cn EXCEPT ![d].reserved = @ + 1]

closeIfIdle(c) == IF c.streams # {} \/ c.reserved > 0 THEN c ELSE [c EXCEPT !.closed = TRUE, !.closedOnIdle = TRUE]

-----------------------------------------------------------------------------
(* client_conn_pool.go *)

addConn(p, d) == IF Contains(p.conns, d) THEN p ELSE [p EXCEPT !.conns = Append(@, d)]

filterOutClientConn(in, exclude) ==
    LET out[k \in 0..Len(in)] == IF k = 0 THEN <<>>
                                 ELSE IF in[k] = exclude THEN out[k - 1] ELSE Append(out[k - 1], in[k])
    IN  out[Len(in)]

markDead(p, d) == [p EXCEPT !.conns = filterOutClientConn(@, d)]

ok(r, d) == rq' = [rq EXCEPT ![r].at = "have", ![r].cc = d]
over(q, e) == [q EXCEPT !.at = "done", !.res = e, !.call = None, !.cc = None, !.retry = 0, !.read = FALSE, !.err = None]
fails(r, e) == rq' = [rq EXCEPT ![r] = over(@, e)]
mishap(p) == pool.faults < MaxFaults /\ pool' = [p EXCEPT !.faults = @ + 1]
goes(r, where) == rq' = [rq EXCEPT ![r].at = where]

Usable == {k \in DOMAIN pool.conns : canTakeNewRequest(cn[pool.conns[k]])}
FreeDials == {d \in Dials : pool.owner[d] = None}
NextDial == CHOOSE d \in FreeDials : TRUE

Begin(r) ==
    /\ rq[r].at = "idle" /\ goes(r, "get")
    /\ UNCHANGED <<cn, pool, vars>>

\* getClientConn: the first connection that takes the request ...
GetFromPool(r) ==
    /\ rq[r].at = "get" /\ ~rq[r].close /\ Usable # {}
    /\ LET d == pool.conns[CHOOSE k \in Usable : \A j \in Usable : k <= j]
       IN  ok(r, d) /\ reserve(d)
    /\ UNCHANGED <<pool, vars>>

\* ... else the dial in flight, or a new one with this request's context; a
\* request that wants its own connection dials it in any case.
getStartDial(r) ==
    /\ rq[r].at = "get" /\ (rq[r].close \/ Usable = {})
    /\ IF ~rq[r].close /\ pool.dialing # None
       THEN rq' = [rq EXCEPT ![r].at = "wait", ![r].call = pool.dialing] /\ UNCHANGED pool
       ELSE /\ FreeDials # {}
            /\ rq' = [rq EXCEPT ![r].at = "wait", ![r].call = NextDial]
            /\ pool' = [pool EXCEPT !.owner[NextDial] = r, !.dialing = IF rq[r].close THEN @ ELSE NextDial]
    /\ UNCHANGED <<cn, vars>>

own(d) == rq[pool.owner[d]].close

\* dialClientConn has a connection: newClientConn starts to read from it ...
NewClientConn(d) ==
    /\ pool.owner[d] # None /\ pc[d] = "done" /\ result[d] = "ok" /\ ~cn[d].up
    /\ cn' = [cn EXCEPT ![d].up = TRUE, ![d].single = own(d)]
    /\ UNCHANGED <<rq, pool, vars>>

\* ... before dialCall.dial puts it into the pool and wakes those who wait.
DialDone(d) ==
    /\ pool.owner[d] # None /\ d \notin pool.done
    /\ pc[d] = "done" /\ (result[d] = "ok" => cn[d].up)
    /\ pool' = LET p == [pool EXCEPT !.done = @ \cup {d}, !.dialing = IF @ = d THEN None ELSE @]
               IN  IF result[d] = "ok" /\ ~own(d) THEN addConn(p, d) ELSE p
    /\ UNCHANGED <<rq, cn, vars>>

\* Mutant: a request takes over the error of a dial somebody else gave up.
shouldRetryDial_never(r, d) == FALSE

shouldRetryDial(r, d) ==
    /\ result[d] = "canceled" /\ pool.owner[d] # r
    /\ rq[pool.owner[d]].canceled

Awake(r) ==
    LET d == rq[r].call
    IN  /\ rq[r].at = "wait" /\ d \in pool.done
        /\ CASE shouldRetryDial(r, d) -> goes(r, "get") /\ UNCHANGED cn
             [] result[d] # "ok" /\ ~shouldRetryDial(r, d) -> fails(r, result[d]) /\ UNCHANGED cn
             [] result[d] = "ok" /\ rq[r].close -> ok(r, d) /\ UNCHANGED cn
             [] result[d] = "ok" /\ ~rq[r].close ->
                    IF canTakeNewRequest(cn[d]) THEN ok(r, d) /\ reserve(d)
                    ELSE goes(r, "get") /\ UNCHANGED cn
        /\ UNCHANGED <<pool, vars>>

-----------------------------------------------------------------------------
(* transport_common.go: roundTripViaPool *)

canRetryError(e) == e \in {"unusable", "goaway", "refused"}

\* Mutant: a body that was read in part is sent from where it stands.
shouldRetryRequest_anyBody(r, e) == canRetryError(e)

\* The body can be sent again, or has not been touched.
shouldRetryRequest(r, e) ==
    canRetryError(e) /\ (Body[r] \in {"none", "again"} \/ e = "unusable")

\* The request after its round trip failed.  GetBody starts the body afresh.
retried(q, r, e) ==
    IF q.retry <= MaxRetry /\ shouldRetryRequest(r, e)
    THEN [q EXCEPT !.at = IF q.retry = 0 THEN "get" ELSE "backoff", !.retry = @ + 1, !.cc = None,
                   !.read = IF Body[r] = "again" THEN FALSE ELSE @]
    ELSE over(q, e)

GotConn(r) ==
    /\ rq[r].at = "have" /\ goes(r, "trip")
    /\ cn' = [cn EXCEPT ![rq[r].cc].reused = TRUE]
    /\ UNCHANGED <<pool, vars>>

Backoff(r) ==
    /\ rq[r].at = "backoff"
    /\ goes(r, "get") \/ (rq[r].canceled /\ fails(r, "canceled"))
    /\ UNCHANGED <<cn, pool, vars>>

\* RoundTrip up to the stream: the timer of a broken connection is stopped, the
\* reservation given back, a slot taken.
taken(d, n) == [cn[d] EXCEPT !.timer = FALSE, !.reserved = IF @ > 0 THEN @ - n ELSE 0]

notEstablished(c) == c.closed /\ c.fresh /\ c.reserved = 0

AddStream(r) ==
    LET d == rq[r].cc
        c == taken(d, 1)
    IN  /\ rq[r].at = "trip"
        /\ ~notEstablished(c) /\ ~c.closed /\ canTakeNewRequest(c)
        /\ cn' = [cn EXCEPT ![d] = [c EXCEPT !.streams = @ \cup {r}, !.fresh = FALSE,
                                             !.doNotReuse = @ \/ rq[r].close]]
        /\ rq' = [rq EXCEPT ![r].at = "sent", ![r].torn = @ \/ rq[r].read]
        /\ UNCHANGED <<pool, vars>>

Unusable(r) ==
    LET d == rq[r].cc
        c == taken(d, 1)
    IN  /\ rq[r].at = "trip"
        /\ ~notEstablished(c) /\ (c.closed \/ ~canTakeNewRequest(c))
        /\ cn' = [cn EXCEPT ![d] = c] /\ goes(r, "unusable")
        /\ UNCHANGED <<pool, vars>>

NotEstablished(r) ==
    LET d == rq[r].cc
        c == taken(d, 1)
    IN  /\ rq[r].at = "trip" /\ notEstablished(c)
        /\ cn' = [cn EXCEPT ![d] = c] /\ goes(r, "not established")
        /\ UNCHANGED <<pool, vars>>

\* The lock was let go in between.  The request got no stream, so a slot is given
\* back once more, whoever it was promised to.  RoundTrip returns the error, or
\* the cancellation that came meanwhile.
cleanupWriteRequest(r) ==
    /\ rq[r].at \in {"unusable", "not established"}
    /\ cn' = [cn EXCEPT ![rq[r].cc].reserved = IF @ > 0 THEN @ - 1 ELSE 0]
    /\ \/ rq[r].canceled /\ fails(r, "canceled")
       \/ rq[r].at = "unusable" /\ rq' = [rq EXCEPT ![r] = retried(@, r, "unusable")]
       \/ rq[r].at = "not established" /\ goes(r, "report")
    /\ UNCHANGED <<pool, vars>>

\* The broken connection is reported, and then taken from the pool.
Reports(r) ==
    /\ rq[r].at = "report" /\ fails(r, "not established")
    /\ cn' = [cn EXCEPT ![rq[r].cc].timer = FALSE]
    /\ pool' = markDead(pool, rq[r].cc)
    /\ UNCHANGED vars

\* Mutant: the reservation is kept.
GivesUp_keepsSlot(r) ==
    /\ rq[r].at = "trip" /\ rq[r].canceled
    /\ fails(r, "canceled")
    /\ UNCHANGED <<cn, pool, vars>>

\* Given up before the stream exists: only the reservation is returned.
GivesUp(r) ==
    LET d == rq[r].cc
    IN  /\ rq[r].at = "trip" /\ rq[r].canceled
        /\ cn' = [cn EXCEPT ![d].reserved = IF @ > 0 THEN @ - 1 ELSE 0]
        /\ fails(r, "canceled")
        /\ UNCHANGED <<pool, vars>>

\* writeRequestBody has begun.
ReadsBody(r) ==
    /\ rq[r].at = "sent" /\ Body[r] # "none" /\ ~rq[r].read
    /\ rq' = [rq EXCEPT ![r].read = TRUE]
    /\ UNCHANGED <<cn, pool, vars>>

leaves(r) == cn' = [cn EXCEPT ![rq[r].cc].streams = @ \ {r}]

\* The response, or the end of the stream: RST_STREAM with REFUSED_STREAM,
\* a cancellation, or the error the connection left with.
Responds(r) ==
    /\ rq[r].at = "sent" /\ rq[r].err = None /\ cn[rq[r].cc].up
    /\ leaves(r) /\ fails(r, "ok") /\ UNCHANGED <<pool, vars>>

Refused(r) ==
    /\ rq[r].at = "sent" /\ rq[r].err = None
    /\ leaves(r) /\ rq' = [rq EXCEPT ![r] = retried(@, r, "refused")]
    /\ mishap(pool) /\ UNCHANGED vars

Aborted(r) ==
    /\ rq[r].at = "sent" /\ rq[r].err # None
    /\ leaves(r) /\ rq' = [rq EXCEPT ![r] = retried([@ EXCEPT !.err = None], r, rq[r].err)]
    /\ UNCHANGED <<pool, vars>>

Abandoned(r) ==
    /\ rq[r].at = "sent" /\ rq[r].canceled
    /\ leaves(r) /\ fails(r, "canceled")
    /\ UNCHANGED <<pool, vars>>

Cancel(r) ==
    /\ rq[r].at \notin {"idle", "done"} /\ ~rq[r].canceled
    /\ rq' = [rq EXCEPT ![r].canceled = TRUE]
    /\ mishap(pool) /\ UNCHANGED <<cn, vars>>

-----------------------------------------------------------------------------
(* The connections *)

abort(rs, e) == rq' = [r \in Requests |-> IF r \in rs /\ rq[r].err = None THEN [rq[r] EXCEPT !.err = e] ELSE rq[r]]

\* GOAWAY: streams beyond its last one were not processed.
GoAway(d) ==
    /\ cn[d].up /\ ~cn[d].closed /\ ~cn[d].goAway
    /\ \E unprocessed \in SUBSET cn[d].streams : abort(unprocessed, "goaway")
    /\ cn' = [cn EXCEPT ![d].goAway = TRUE]
    /\ mishap(markDead(pool, d))
    /\ UNCHANGED vars

\* readLoop ends: cleanup.  A connection nobody has used yet stays in the pool
\* for a while (late: it has been open for longer than that).
Cleanup(d, late) ==
    /\ cn[d].up /\ ~cn[d].cleaned
    /\ LET stays == ~cn[d].reused /\ ~late /\ ~cn[d].closedOnIdle
       IN  /\ cn' = [cn EXCEPT ![d].closed = TRUE, ![d].cleaned = TRUE, ![d].timer = stays]
           /\ mishap(IF stays THEN pool ELSE markDead(pool, d))
    /\ abort(cn[d].streams, "lost")
    /\ UNCHANGED vars

UnusedTimer(d) ==
    /\ cn[d].timer
    /\ cn' = [cn EXCEPT ![d].timer = FALSE] /\ pool' = markDead(pool, d)
    /\ UNCHANGED <<rq, vars>>

closeIdleConnections ==
    /\ cn' = [d \in Dials |-> IF Contains(pool.conns, d) THEN closeIfIdle(cn[d]) ELSE cn[d]]
    /\ mishap(pool) /\ UNCHANGED <<rq, vars>>

\* A dial runs with the context of the request that began it.
DialCanceled(d) ==
    /\ pool.owner[d] # None /\ rq[pool.owner[d]].canceled
    /\ pc[d] \in {"connect", "handshake"}
    /\ pc' = [pc EXCEPT ![d] = "done"]
    /\ result' = [result EXCEPT ![d] = IF tries[d] = 2 THEN "handshake failure" ELSE "canceled"]
    /\ UNCHANGED <<tries, used, mine, file, cache, captures, poolVars>>

\* The dials of HelloDial, once begun.
Dialing(d) ==
    /\ pool.owner[d] # None /\ UNCHANGED poolVars
    /\ \/ Connect(d) \/ ConnectFails(d) \/ Handshake(d) \/ CaptureBegins(d)
       \/ CaptureEnds(d) \/ CaptureFails(d) \/ RefreshHello(d)
       \/ \E refused \in BOOLEAN : HandshakeFails(d, refused)

RequestStep(r) ==
    \/ Begin(r) \/ GetFromPool(r) \/ getStartDial(r) \/ Awake(r) \/ GotConn(r)
    \/ Backoff(r) \/ AddStream(r) \/ Unusable(r) \/ NotEstablished(r)
    \/ cleanupWriteRequest(r) \/ Reports(r) \/ GivesUp(r) \/ ReadsBody(r)
    \/ Responds(r) \/ Refused(r) \/ Aborted(r) \/ Abandoned(r) \/ Cancel(r)

ConnStep(d) ==
    \/ Dialing(d) \/ DialCanceled(d) \/ NewClientConn(d) \/ DialDone(d)
    \/ GoAway(d) \/ UnusedTimer(d)
    \/ \E late \in BOOLEAN : Cleanup(d, late)

\* Every request is over, or would need a dial beyond the bound.
Over ==
    /\ \A r \in Requests : rq[r].at = "done" \/ (rq[r].at = "get" /\ FreeDials = {})
    /\ UNCHANGED <<poolVars, vars>>

PoolNext ==
    \/ \E r \in Requests : RequestStep(r)
    \/ \E d \in Dials : ConnStep(d)
    \/ closeIdleConnections
    \/ Over

PoolSpec == PoolInit /\ [][PoolNext]_<<poolVars, vars>>

-----------------------------------------------------------------------------
\* A request fails with a cancellation only when it was cancelled itself, never
\* because the request whose dial it waited for was (client_conn_pool.go:282,
\* "we should retry only if the context of the dial is not our own").
NoForeignCancel == \A r \in Requests : rq[r].res = "canceled" => rq[r].canceled

\* However often a request is tried again, and on whichever connections, its
\* body goes out from its first byte: it is retried with a body half read only
\* when GetBody starts it afresh (transport_common.go:395).
BodyFromTheStart == \A r \in Requests : ~rq[r].torn

Promised(d) == {r \in Requests : ~rq[r].close /\ rq[r].cc = d /\ rq[r].at \in {"have", "trip"}}

\* No slot is lost: whatever becomes of the requests a connection has promised
\* one, each leaving by a way of its own (a stream, a failure, a cancellation, a
\* retry elsewhere), it never keeps more slots than requests are on their way to
\* it, so it cannot fill up with slots of requests that are gone
\* (transport.go:953).  It may keep fewer: see ReservedExactly.
ReservationsReturned == \A d \in Dials : cn[d].reserved <= Cardinality(Promised(d))

\* Not satisfied: "decr on RoundTrip" (transport.go:218), once.  A request that
\* finds its connection unusable gives back two slots, its own in writeRequest
\* and another's in cleanupWriteRequest, whose comment thinks of requests
\* "canceled before creating the stream" (transport.go:1303).
ReservedExactly == \A d \in Dials : cn[d].reserved = Cardinality(Promised(d))
=============================================================================
