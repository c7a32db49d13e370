----------------------------- MODULE H2PoolProofs -----------------------------
(***************************************************************************)
(* Proofs about H2Pool and the dials of HelloDial under it, for any number *)
(* of requests, dials, retries, streams and mishaps.                       *)
(***************************************************************************)
EXTENDS H2Pool, FiniteSetTheorems, WellFoundedInduction, TLAPS

allVars == <<poolVars, vars>>

-----------------------------------------------------------------------------
(* The dials: whatever the requests do, a dial makes the steps of HelloDial *)
(* or is cancelled.                                                         *)

LEMMA DialShape ==
  ASSUME [PoolNext]_allVars
  PROVE  UNCHANGED vars \/ \E d \in Dials : Dialing(d) \/ DialCanceled(d)
<1>1. ASSUME NEW r \in Requests, RequestStep(r) PROVE UNCHANGED vars
  BY <1>1 DEF RequestStep, Begin, GetFromPool, getStartDial, Awake, GotConn, Backoff, AddStream, Unusable,
     NotEstablished, cleanupWriteRequest, Reports, GivesUp, ReadsBody, Responds, Refused, Aborted, Abandoned, Cancel
<1>2. ASSUME NEW d \in Dials, ConnStep(d) PROVE UNCHANGED vars \/ Dialing(d) \/ DialCanceled(d)
  BY <1>2 DEF ConnStep, NewClientConn, DialDone, GoAway, UnusedTimer, Cleanup
<1>3. QED
  BY <1>1, <1>2 DEF PoolNext, closeIdleConnections, Over, allVars

DialType ==
  /\ pc \in [Dials -> {"connect", "handshake", "heal", "capture", "refresh", "done"}]
  /\ tries \in [Dials -> 0..2] /\ captures \in Nat
  /\ mine \in [Dials -> Nat \cup {Absent}] /\ used \in [Dials -> Nat \cup {Absent, AutoHello}]
  /\ result \in [Dials -> {Absent, "ok", "error", "handshake failure", "canceled"}]
  /\ file \in Nat \cup {Absent, Torn}
  /\ cache # Absent => cache.hello \in Nat

\* Where a dial is says how often it has tried.
DialTries ==
  \A d \in Dials :
    /\ pc[d] = "connect" => tries[d] \in {0, 1}
    /\ pc[d] = "handshake" => tries[d] \in {1, 2}
    /\ pc[d] \in {"heal", "capture", "refresh"} => tries[d] = 1
    /\ pc[d] = "refresh" \/ (pc[d] = "connect" /\ tries[d] = 1) \/ tries[d] = 2 => mine[d] \in 0..captures

\* From the end of its capture on, the file is as recent as a dial's own
\* capture, or being rewritten; once it has dropped the cache, so is the cache.
DialFresh ==
  \A d \in Dials :
    /\ pc[d] = "refresh" \/ (pc[d] = "connect" /\ tries[d] = 1) =>
         file = Torn \/ (file \in Nat /\ file >= mine[d])
    /\ pc[d] = "connect" /\ tries[d] = 1 /\ cache # Absent =>
         cache.hello >= mine[d]
    /\ tries[d] = 2 => used[d] = AutoHello \/ (used[d] \in Nat /\ used[d] >= mine[d])

DialInv == DialType /\ DialTries /\ DialFresh

LEMMA DialStep == DialInv /\ [PoolNext]_allVars => DialInv'
<1> SUFFICES ASSUME DialInv, [PoolNext]_allVars PROVE DialInv'
  OBVIOUS
<1>0. /\ pc \in [Dials -> {"connect", "handshake", "heal", "capture", "refresh", "done"}]
      /\ tries \in [Dials -> 0..2] /\ captures \in Nat
      /\ mine \in [Dials -> Nat \cup {Absent}] /\ used \in [Dials -> Nat \cup {Absent, AutoHello}]
      /\ result \in [Dials -> {Absent, "ok", "error", "handshake failure", "canceled"}]
      /\ file \in Nat \cup {Absent, Torn}
  BY DEF DialInv, DialType
<1>c. captures \in Nat
  BY <1>0
<1>t. tries \in [Dials -> 0..2]
  BY <1>0
<1>1. CASE UNCHANGED vars
  BY <1>1 DEF vars, DialInv, DialType, DialTries, DialFresh
<1>2. ASSUME NEW d \in Dials, DialCanceled(d) PROVE DialInv'
  BY <1>2 DEF DialCanceled, DialInv, DialType, DialTries, DialFresh
<1>3. ASSUME NEW d \in Dials, Connect(d) PROVE DialInv'
  <2>1. PICK l : l = loadHelloSpec
    OBVIOUS
  <2>2. l # Absent => l.hello \in Nat
    BY <2>1, DialAssumption DEF loadHelloSpec, DialInv, DialType
  <2>3. ASSUME NEW e \in Dials, pc[e] = "connect", tries[e] = 1, l # Absent
        PROVE  l.hello >= mine[e]
    BY <2>1, <2>3, DialAssumption DEF loadHelloSpec, DialInv, DialFresh
  <2>4. /\ pc[d] = "connect" /\ pc' = [pc EXCEPT ![d] = "handshake"]
        /\ cache' = l /\ UNCHANGED <<result, mine, file, captures>>
    BY <1>3, <2>1 DEF Connect, Goto
  <2>5. PICK u \in Nat \cup {AutoHello} : u = IF l = Absent THEN AutoHello ELSE l.hello
    BY <2>2
  <2>6. PICK n \in {1, 2} : n = tries[d] + 1
    BY <2>4 DEF DialInv, DialTries
  <2>7. used' = [used EXCEPT ![d] = u] /\ tries' = [tries EXCEPT ![d] = n]
    BY <1>3, <2>1, <2>5, <2>6 DEF Connect
  <2>8. DialType'
    <3>1. tries' \in [Dials -> 0..2]
      BY <1>t, <2>7
    <3>2. used' \in [Dials -> Nat \cup {Absent, AutoHello}]
      BY <1>0, <2>7
    <3>3. pc' \in [Dials -> {"connect", "handshake", "heal", "capture", "refresh", "done"}]
      BY <1>0, <2>4
    <3>4. QED
      BY <1>0, <2>2, <2>4, <3>1, <3>2, <3>3 DEF DialType
  <2>9. /\ pc'[d] = "handshake" /\ used'[d] = u /\ tries'[d] = n
        /\ \A e \in Dials \ {d} : pc'[e] = pc[e] /\ used'[e] = used[e] /\ tries'[e] = tries[e]
    BY <1>0, <2>4, <2>7
  <2>10. n = 2 => mine[d] \in 0..captures /\ (u = AutoHello \/ (u \in Nat /\ u >= mine[d]))
    <3>1. SUFFICES ASSUME n = 2 PROVE mine[d] \in 0..captures /\ (u = AutoHello \/ (u \in Nat /\ u >= mine[d]))
      OBVIOUS
    <3>2. tries[d] = 1
      BY <1>t, <2>6, <3>1
    <3>3. QED
      BY <2>2, <2>3, <2>4, <2>5, <3>2 DEF DialInv, DialTries
  <2>11. DialTries'
    BY <2>4, <2>9, <2>10 DEF DialInv, DialTries
  <2>12. DialFresh'
    BY <2>3, <2>4, <2>9, <2>10 DEF DialInv, DialFresh
  <2>13. QED
    BY <2>8, <2>11, <2>12 DEF DialInv
<1>4. ASSUME NEW d \in Dials, ConnectFails(d) \/ Handshake(d) PROVE DialInv'
  BY <1>4 DEF ConnectFails, Handshake, Return, DialInv, DialType, DialTries, DialFresh
<1>5. ASSUME NEW d \in Dials, NEW refused \in BOOLEAN, HandshakeFails(d, refused) PROVE DialInv'
  BY <1>5 DEF HandshakeFails, Return, Goto, DialInv, DialType, DialTries, DialFresh
<1>6. ASSUME NEW d \in Dials, CaptureBegins(d) PROVE DialInv'
  BY <1>6 DEF CaptureBegins, Goto, DialInv, DialType, DialTries, DialFresh
<1>7. ASSUME NEW d \in Dials, CaptureEnds(d) PROVE DialInv'
  <2>1. /\ pc[d] = "capture" /\ pc' = [pc EXCEPT ![d] = "refresh"]
        /\ UNCHANGED <<result, tries, used, cache>> /\ captures' = captures + 1
        /\ file' = captures + 1 /\ mine' = [mine EXCEPT ![d] = captures + 1]
    BY <1>7 DEF CaptureEnds, Goto
  <2>2. PICK n \in Nat : n = captures + 1 /\ captures \in 0..n /\ n \in 0..n
    BY <1>c
  <2>3. DialType'
    BY <1>0, <2>1, <2>2 DEF DialInv, DialType
  <2>4. /\ pc'[d] = "refresh" /\ mine'[d] = n /\ file' = n /\ captures' = n /\ tries[d] = 1
        /\ \A e \in Dials \ {d} : pc'[e] = pc[e] /\ mine'[e] = mine[e]
    BY <1>0, <2>1, <2>2 DEF DialInv, DialTries
  <2>5. \A m \in 0..captures : m \in 0..n /\ n >= m
    BY <1>c, <2>2
  <2>6. DialTries'
    BY <2>1, <2>2, <2>4, <2>5 DEF DialInv, DialTries
  <2>7. DialFresh'
    BY <2>1, <2>2, <2>4, <2>5 DEF DialInv, DialTries, DialFresh
  <2>8. QED
    BY <2>3, <2>6, <2>7 DEF DialInv
<1>8. ASSUME NEW d \in Dials, CaptureFails(d) PROVE DialInv'
  BY <1>8 DEF CaptureFails, Return, DialInv, DialType, DialTries, DialFresh
<1>9. ASSUME NEW d \in Dials, RefreshHello(d) PROVE DialInv'
  BY <1>9 DEF RefreshHello, Goto, DialInv, DialType, DialTries, DialFresh
<1>10. QED
  BY <1>1, <1>2, <1>3, <1>4, <1>5, <1>6, <1>7, <1>8, <1>9, DialShape DEF Dialing

\* The second handshake of a dial is made with the hello it captured or a later
\* one, although the dials of other requests fill and drop the same cache and
\* rewrite the same file (utls_client.go:80-88).
THEOREM RetriesAreFresh == PoolSpec => []RetryIsFresh
<1>1. PoolInit => DialInv
  BY DialAssumption DEF PoolInit, Init, DialInv, DialType, DialTries, DialFresh
<1>2. DialInv => RetryIsFresh
  BY DEF DialInv, DialFresh, RetryIsFresh
<1>3. QED
  BY <1>1, <1>2, DialStep, PTL DEF PoolSpec, allVars

-----------------------------------------------------------------------------
(* Two facts about sets and sequences.                                      *)

\* A nonempty set of naturals has a least element.
LEMMA LeastNat ==
  ASSUME NEW T \in SUBSET Nat, T # {}
  PROVE  \E x \in T : \A y \in T : x <= y
<1>1. PICK x \in T : \A y \in T : ~(<<y, x>> \in OpToRel(<, Nat))
  BY WFMin, NatLessThanWellFounded
<1>2. \A y \in Nat : y < x => <<y, x>> \in OpToRel(<, Nat)
  BY DEF OpToRel
<1>3. \A y \in T : ~(y < x)
  BY <1>1, <1>2
<1>4. QED
  BY <1>3

\* The connections that are left are connections that were there.
LEMMA FilterOutType ==
  ASSUME NEW S, NEW in \in Seq(S), NEW exclude
  PROVE  filterOutClientConn(in, exclude) \in Seq(S)
<1> DEFINE step(f, k) == IF k = 0 THEN <<>>
                         ELSE IF in[k] = exclude THEN f[k - 1] ELSE Append(f[k - 1], in[k])
           Loop(f, n) == f = [k \in 0..n |-> step(f, k)]
           NoLoop == {n \in 0..Len(in) : \A f : ~Loop(f, n)}
<1>0. Len(in) \in Nat /\ NoLoop \subseteq 0..Len(in)
  OBVIOUS
<1>1. NoLoop = {}
  <2>1. SUFFICES ASSUME NoLoop # {} PROVE FALSE
    OBVIOUS
  <2>2. NoLoop \in SUBSET Nat
    BY <1>0
  <2>3. PICK m \in NoLoop : \A n \in NoLoop : m <= n
    BY <2>1, <2>2, LeastNat
  <2>4. m # 0
    <3>1. Loop([k \in 0..0 |-> <<>>], 0)
      OBVIOUS
    <3>2. QED
      BY <3>1
  <2>5. m \in Nat \ {0} /\ m - 1 \in 0..Len(in) /\ m - 1 \notin NoLoop
    <3> HIDE DEF NoLoop
    <3>1. QED
      BY <1>0, <2>2, <2>3, <2>4
  <2>6. PICK f : Loop(f, m - 1)
    <3> HIDE DEF Loop
    <3>1. QED
      BY <2>5
  <2> DEFINE g == [k \in 0..m |-> IF k = m THEN step(f, m) ELSE f[k]]
  <2>7. ASSUME NEW k \in 0..m PROVE g[k] = step(g, k)
    <3>1. CASE k = m
      <4>1. g[m - 1] = f[m - 1]
        BY <2>5
      <4>2. QED
        BY <2>5, <3>1, <4>1
    <3>2. CASE k # m
      <4>1. k \in 0..(m - 1) /\ g[k] = f[k] /\ (k # 0 => g[k - 1] = f[k - 1])
        BY <2>5, <3>2
      <4>2. f[k] = step(f, k)
        BY <2>6, <4>1
      <4>3. QED
        BY <4>1, <4>2
    <3>3. QED
      BY <3>1, <3>2
  <2>8. Loop(g, m)
    BY <2>7
  <2>9. QED
    BY <2>8
<1> DEFINE out == CHOOSE f : Loop(f, Len(in))
<1>2. Loop(out, Len(in)) /\ filterOutClientConn(in, exclude) = out[Len(in)]
  <2>1. \E f : Loop(f, Len(in))
    <3> HIDE DEF Loop
    <3>1. QED
      BY <1>0, <1>1
  <2>2. Loop(out, Len(in))
    <3> HIDE DEF Loop
    <3>1. QED
      BY <2>1
  <2>3. filterOutClientConn(in, exclude) = out[Len(in)]
    BY DEF filterOutClientConn
  <2>4. QED
    BY <2>2, <2>3
<1> HIDE DEF out
<1> DEFINE Bad == {n \in 0..Len(in) : out[n] \notin Seq(S)}
<1>3. Bad = {}
  <2>1. SUFFICES ASSUME Bad # {} PROVE FALSE
    OBVIOUS
  <2>2. Bad \in SUBSET Nat
    BY <1>0
  <2>3. PICK m \in Bad : \A n \in Bad : m <= n
    BY <2>1, <2>2, LeastNat
  <2>4. m \in 0..Len(in) /\ out[m] = step(out, m)
    BY <1>2, <2>3
  <2>5. m # 0
    <3>1. SUFFICES ASSUME m = 0 PROVE FALSE
      OBVIOUS
    <3>2. out[m] = <<>>
      BY <2>4, <3>1
    <3>3. <<>> \in Seq(S)
      OBVIOUS
    <3>4. QED
      BY <2>3, <3>2, <3>3
  <2>6. m - 1 \in 0..Len(in) /\ m - 1 \notin Bad
    <3> HIDE DEF Bad
    <3>1. QED
      BY <1>0, <2>2, <2>3, <2>4, <2>5
  <2>7. out[m - 1] \in Seq(S) /\ in[m] \in S
    BY <1>0, <2>4, <2>5, <2>6
  <2>8. out[m] = out[m - 1] \/ out[m] = Append(out[m - 1], in[m])
    BY <2>4, <2>5
  <2>9. out[m] \in Seq(S)
    <3>1. \A s \in Seq(S), e \in S : Append(s, e) \in Seq(S)
      OBVIOUS
    <3>2. QED
      BY <2>7, <2>8, <3>1
  <2>10. QED
    BY <2>3, <2>9
<1>4. Len(in) \in 0..Len(in)
  BY <1>0
<1>5. QED
  BY <1>2, <1>3, <1>4

-----------------------------------------------------------------------------
(* Types, and what a request is at each point of its way.                   *)

OnConn == {"have", "trip", "unusable", "not established", "report", "sent"}
Ats == {"idle", "get", "wait", "backoff", "done"} \cup OnConn
Errs == {None, "goaway", "lost"}
Ends == {None, Absent, "ok", "error", "handshake failure", "canceled", "unusable", "refused", "goaway",
         "lost", "not established"}
Counts == 0..(MaxRetry + 1)
RequestRecords ==
  [at : Ats, call : Dials \cup {None}, cc : Dials \cup {None}, retry : Counts, canceled : BOOLEAN,
   read : BOOLEAN, torn : BOOLEAN, res : Ends, err : Errs, close : BOOLEAN]
ConnRecords ==
  [up : BOOLEAN, closed : BOOLEAN, closedOnIdle : BOOLEAN, cleaned : BOOLEAN, goAway : BOOLEAN,
   doNotReuse : BOOLEAN, fresh : BOOLEAN, single : BOOLEAN, reused : BOOLEAN, timer : BOOLEAN,
   reserved : Nat, streams : SUBSET Requests]
PoolRecords ==
  [conns : Seq(Dials), dialing : Dials \cup {None}, owner : [Dials -> Requests \cup {None}],
   done : SUBSET Dials, faults : 0..MaxFaults]

PoolType ==
  /\ rq \in [Requests -> RequestRecords]
  /\ cn \in [Dials -> ConnRecords]
  /\ pool \in PoolRecords

\* A request has a connection exactly while it is on one, has read of its body
\* only while the stream is open, and ends cancelled only if it was.
Proper(r, q) ==
  /\ q.cc # None <=> q.at \in OnConn
  /\ q.at = "wait" => q.call # None
  /\ q.read => q.at = "sent" /\ Body[r] # "none"
  /\ ~q.torn
  /\ q.res = "canceled" => q.canceled

\* What a step may make of a request.
Change(r, q) ==
  /\ q \in RequestRecords /\ Proper(r, q)
  /\ q.close = rq[r].close /\ (rq[r].canceled => q.canceled)

LEMMA OverRecord ==
  ASSUME NEW q \in RequestRecords, NEW e \in Ends
  PROVE  /\ over(q, e) \in RequestRecords
         /\ over(q, e).at = "done" /\ over(q, e).res = e /\ over(q, e).call = None /\ over(q, e).cc = None
         /\ over(q, e).read = FALSE /\ over(q, e).canceled = q.canceled
         /\ over(q, e).torn = q.torn /\ over(q, e).close = q.close
<1>1. "done" \in Ats /\ None \in Errs /\ 0 \in Counts /\ None \in Dials \cup {None}
  BY PoolAssumption DEF Ats, Errs, Counts
<1>2. over(q, e) \in RequestRecords
  BY <1>1 DEF RequestRecords, over
<1>3. QED
  BY <1>2 DEF RequestRecords, over

LEMMA OverChange ==
  ASSUME NEW r \in Requests, rq[r] \in RequestRecords, Proper(r, rq[r]),
         NEW q \in RequestRecords, Change(r, q), NEW e \in Ends, e = "canceled" => q.canceled
  PROVE  Change(r, over(q, e))
<1>1. "done" \notin OnConn /\ "done" # "wait"
  BY DEF OnConn
<1>2. QED
  BY <1>1, OverRecord DEF Change, Proper

LEMMA RetryChange ==
  ASSUME NEW r \in Requests, rq[r] \in RequestRecords, Proper(r, rq[r]),
         NEW q \in RequestRecords, Change(r, q),
         NEW e \in {"unusable", "refused", "goaway", "lost"},
         e = "unusable" => ~q.read
  PROVE  Change(r, retried(q, r, e))
<1>1. CASE q.retry <= MaxRetry /\ shouldRetryRequest(r, e)
  <2> DEFINE a == IF q.retry = 0 THEN "get" ELSE "backoff"
             n == q.retry + 1
             b == IF Body[r] = "again" THEN FALSE ELSE q.read
             w == [q EXCEPT !.at = a, !.retry = n, !.cc = None, !.read = b]
  <2>1. retried(q, r, e) = w
    BY <1>1 DEF retried
  <2>2. a \in Ats /\ a \notin OnConn /\ a # "wait"
    BY DEF Ats, OnConn
  <2>3. n \in Counts
    <3>1. q.retry \in Counts
      BY DEF RequestRecords
    <3>2. QED
      BY <1>1, <3>1, PoolAssumption DEF Counts
  <2>4. b = FALSE
    <3>1. q.read \in BOOLEAN
      BY DEF RequestRecords
    <3>2. QED
      BY <1>1, <3>1 DEF shouldRetryRequest, canRetryError, Proper, Change
  <2> HIDE DEF a, n, b
  <2>5. w \in RequestRecords
    BY <2>2, <2>3, <2>4 DEF RequestRecords
  <2>6. /\ w.at = a /\ w.cc = None /\ w.read = FALSE /\ w.canceled = q.canceled /\ w.torn = q.torn
        /\ w.close = q.close /\ w.res = q.res
    BY <2>4 DEF RequestRecords
  <2> HIDE DEF w
  <2>7. Change(r, w)
    BY <2>2, <2>5, <2>6 DEF Change, Proper
  <2>8. QED
    BY <2>1, <2>7
<1>2. CASE ~(q.retry <= MaxRetry /\ shouldRetryRequest(r, e))
  <2>1. retried(q, r, e) = over(q, e)
    BY <1>2 DEF retried
  <2>2. e \in Ends /\ e # "canceled"
    BY DEF Ends
  <2>3. QED
    BY <2>1, <2>2, OverChange
<1>3. QED
  BY <1>1, <1>2

-----------------------------------------------------------------------------
(* Who began a dial, and who may have what came of it.                      *)

\* With o the requests that began the dials: the dials whose connections go
\* into the pool, and the dials that serve request r.
Shared(o) == {d \in Dials : o[d] # None /\ ~rq[o[d]].close}
Suits(o, r, d) == d \in Dials /\ (IF rq[r].close THEN o[d] = r ELSE d \in Shared(o))

Placed(o, r, q) == (q.at = "wait" => Suits(o, r, q.call)) /\ (q.cc # None => Suits(o, r, q.cc))

OwnerInv ==
  /\ pool.conns \in Seq(Shared(pool.owner))
  /\ pool.dialing \in Shared(pool.owner) \cup {None}
  /\ \A r \in Requests : Placed(pool.owner, r, rq[r])

\* A cancelled dial is that of a cancelled request.
CancelInv == \A d \in Dials : result[d] = "canceled" => pool.owner[d] # None /\ rq[pool.owner[d]].canceled

RequestInv == PoolType /\ DialInv /\ CancelInv /\ OwnerInv /\ \A r \in Requests : Proper(r, rq[r])

LEMMA TypesOf ==
  ASSUME RequestInv
  PROVE  /\ rq \in [Requests -> RequestRecords] /\ cn \in [Dials -> ConnRecords]
         /\ pool \in PoolRecords /\ pool.owner \in [Dials -> Requests \cup {None}]
         /\ pool.conns \in Seq(Dials) /\ pool.dialing \in Dials \cup {None}
         /\ pool.done \subseteq Dials /\ pool.faults \in 0..MaxFaults
         /\ \A r \in Requests : Proper(r, rq[r]) /\ Change(r, rq[r]) /\ Placed(pool.owner, r, rq[r])
BY DEF RequestInv, PoolType, PoolRecords, OwnerInv, Change

\* A request that moves on, keeping its connection and its call.
LEMMA MoveChange ==
  ASSUME NEW r \in Requests, NEW q \in RequestRecords, Change(r, q), ~q.read,
         NEW a \in Ats, a # "wait", q.cc # None <=> a \in OnConn
  PROVE  LET w == [q EXCEPT !.at = a]
         IN  Change(r, w) /\ w.cc = q.cc /\ w.at = a
<1> DEFINE w == [q EXCEPT !.at = a]
<1>1. w \in RequestRecords
  BY DEF RequestRecords
<1>2. /\ w.at = a /\ w.cc = q.cc /\ w.read = q.read /\ w.canceled = q.canceled /\ w.torn = q.torn
      /\ w.close = q.close /\ w.res = q.res
  BY DEF RequestRecords
<1> HIDE DEF w
<1>3. Change(r, w)
  BY <1>1, <1>2 DEF Change, Proper
<1>4. QED
  BY <1>2, <1>3 DEF w

\* A request that is given a connection.
LEMMA HaveChange ==
  ASSUME NEW r \in Requests, NEW q \in RequestRecords, Change(r, q), ~q.read, NEW d \in Dials
  PROVE  LET w == [q EXCEPT !.at = "have", !.cc = d]
         IN  Change(r, w) /\ w.cc = d /\ w.at = "have"
<1> DEFINE w == [q EXCEPT !.at = "have", !.cc = d]
<1>0. "have" \in Ats /\ "have" \in OnConn /\ d # None /\ "have" # "wait"
  BY PoolAssumption DEF Ats, OnConn
<1>1. w \in RequestRecords
  BY <1>0 DEF RequestRecords
<1>2. /\ w.at = "have" /\ w.cc = d /\ w.read = q.read /\ w.canceled = q.canceled /\ w.torn = q.torn
      /\ w.close = q.close /\ w.res = q.res
  BY DEF RequestRecords
<1> HIDE DEF w
<1>3. Change(r, w)
  BY <1>0, <1>1, <1>2 DEF Change, Proper
<1>4. QED
  BY <1>2, <1>3 DEF w

\* A request that joins or begins a dial.
LEMMA WaitChange ==
  ASSUME NEW r \in Requests, NEW q \in RequestRecords, Change(r, q), ~q.read, q.cc = None, NEW d \in Dials
  PROVE  LET w == [q EXCEPT !.at = "wait", !.call = d]
         IN  Change(r, w) /\ w.cc = None /\ w.at = "wait" /\ w.call = d
<1> DEFINE w == [q EXCEPT !.at = "wait", !.call = d]
<1>0. "wait" \in Ats /\ "wait" \notin OnConn /\ d # None
  BY PoolAssumption DEF Ats, OnConn
<1>1. w \in RequestRecords
  BY <1>0 DEF RequestRecords
<1>2. /\ w.at = "wait" /\ w.call = d /\ w.cc = q.cc /\ w.read = q.read /\ w.canceled = q.canceled
      /\ w.torn = q.torn /\ w.close = q.close /\ w.res = q.res
  BY DEF RequestRecords
<1> HIDE DEF w
<1>3. Change(r, w)
  BY <1>0, <1>1, <1>2 DEF Change, Proper
<1>4. QED
  BY <1>2, <1>3 DEF w

-----------------------------------------------------------------------------
(* What a step does to the pool, and what follows for the invariants.       *)

\* The pool after a step: it holds shared connections only, and nobody takes
\* over a dial.
PoolGood(p) ==
  /\ p \in PoolRecords /\ p.conns \in Seq(Shared(p.owner)) /\ p.dialing \in Shared(p.owner) \cup {None}
  /\ \A d \in Dials : pool.owner[d] # None => p.owner[d] = pool.owner[d]

LEMMA StepKeeps ==
  ASSUME RequestInv, DialInv', PoolGood(pool'), cn' \in [Dials -> ConnRecords],
         rq' \in [Requests -> RequestRecords],
         \A r \in Requests : Change(r, rq'[r]) /\ Placed(pool'.owner, r, rq'[r]),
         \A d \in Dials : result'[d] = "canceled" =>
            result[d] = "canceled" \/ (pool.owner[d] # None /\ rq[pool.owner[d]].canceled)
  PROVE  RequestInv'
<1>1. pool'.owner \in [Dials -> Requests \cup {None}] /\ pool.owner \in [Dials -> Requests \cup {None}]
  BY TypesOf DEF PoolGood, PoolRecords
<1>2. \A r \in Requests : rq'[r].close = rq[r].close /\ (rq[r].canceled => rq'[r].canceled)
  BY DEF Change
<1>3. PoolType'
  BY DEF PoolType, PoolGood
<1>4. Shared(pool.owner)' = Shared(pool'.owner)
  BY <1>1, <1>2 DEF Shared
<1>5. OwnerInv'
  <2>1. ASSUME NEW r \in Requests, NEW d, Suits(pool'.owner, r, d) PROVE Suits(pool.owner, r, d)'
    BY <1>2, <1>4, <2>1 DEF Suits
  <2>2. \A r \in Requests : Placed(pool.owner, r, rq[r])'
    BY <2>1 DEF Placed
  <2>3. QED
    BY <1>4, <2>2 DEF OwnerInv, PoolGood
<1>6. CancelInv'
  <2>1. SUFFICES ASSUME NEW d \in Dials, result'[d] = "canceled"
                 PROVE  pool'.owner[d] # None /\ rq'[pool'.owner[d]].canceled
    BY DEF CancelInv
  <2>2. pool.owner[d] # None /\ rq[pool.owner[d]].canceled
    BY <2>1 DEF RequestInv, CancelInv
  <2>3. pool'.owner[d] = pool.owner[d] /\ pool.owner[d] \in Requests
    BY <1>1, <2>2 DEF PoolGood
  <2>4. QED
    BY <1>2, <2>2, <2>3
<1>7. \A r \in Requests : Proper(r, rq'[r])
  BY DEF Change
<1>8. QED
  BY <1>3, <1>5, <1>6, <1>7 DEF RequestInv, Proper

\* The connection that keeps a slot for a request.
Has(q) == IF ~q.close /\ q.at \in {"have", "trip"} THEN q.cc ELSE None
Counted(q, d) == IF Has(q) = d THEN 1 ELSE 0

\* Less may be kept: cleanupWriteRequest gives slots back that are not its own.
ReservedInv == \A d \in Dials : cn[d].reserved <= Cardinality(Promised(d))

LEMMA PromisedHas ==
  ASSUME NEW d \in Dials
  PROVE  Promised(d) = {r \in Requests : Has(rq[r]) = d}
BY PoolAssumption DEF Promised, Has

LEMMA PromisedFinite ==
  ASSUME NEW d \in Dials
  PROVE  IsFiniteSet(Promised(d)) /\ Cardinality(Promised(d)) \in Nat
<1>1. Promised(d) \subseteq Requests
  BY DEF Promised
<1>2. QED
  BY <1>1, PoolAssumption, FS_Subset, FS_CardinalityType

\* A request moves, and the slots are counted with it, or there are none.
Slots(r, q) ==
  \A d \in Dials : /\ cn'[d].reserved \in Nat
                   /\ \/ cn'[d].reserved <= (cn[d].reserved - Counted(rq[r], d)) + Counted(q, d)
                      \/ cn'[d].reserved = 0

LEMMA SlotsKept ==
  ASSUME RequestInv, ReservedInv, NEW r \in Requests, NEW q, rq' = [rq EXCEPT ![r] = q], Slots(r, q)
  PROVE  ReservedInv'
<1>1. SUFFICES ASSUME NEW d \in Dials PROVE cn'[d].reserved <= Cardinality(Promised(d)')
  BY DEF ReservedInv
<1> DEFINE P == Promised(d)
<1>2. P = {s \in Requests : Has(rq[s]) = d} /\ IsFiniteSet(P) /\ Cardinality(P) \in Nat /\ cn[d].reserved <= Cardinality(P)
      /\ cn[d].reserved \in Nat /\ cn'[d].reserved \in Nat
  BY PromisedHas, PromisedFinite, TypesOf DEF ReservedInv, Slots, ConnRecords
<1>3. Promised(d)' = {s \in Requests : Has(rq'[s]) = d}
  BY PoolAssumption DEF Promised, Has
<1>4. rq'[r] = q /\ \A s \in Requests \ {r} : rq'[s] = rq[s]
  BY TypesOf
<1>5. cn'[d].reserved <= (Cardinality(P) - Counted(rq[r], d)) + Counted(q, d) \/ cn'[d].reserved = 0
  BY <1>2 DEF Slots, Counted
<1> HIDE DEF P
<1>6. CASE Has(rq[r]) = d /\ Has(q) = d
  <2>1. Promised(d)' = P
    BY <1>2, <1>3, <1>4, <1>6
  <2>2. QED
    BY <1>2, <1>5, <1>6, <2>1 DEF Counted
<1>7. CASE Has(rq[r]) = d /\ Has(q) # d
  <2>1. Promised(d)' = P \ {r} /\ r \in P
    BY <1>2, <1>3, <1>4, <1>7
  <2>2. Cardinality(P \ {r}) = Cardinality(P) - 1 /\ Cardinality(P \ {r}) \in Nat
    BY <1>2, <2>1, FS_RemoveElement, FS_CardinalityType
  <2>3. QED
    BY <1>2, <1>5, <1>7, <2>1, <2>2 DEF Counted
<1>8. CASE Has(rq[r]) # d /\ Has(q) = d
  <2>1. Promised(d)' = P \cup {r} /\ r \notin P
    BY <1>2, <1>3, <1>4, <1>8
  <2>2. Cardinality(P \cup {r}) = Cardinality(P) + 1
    BY <1>2, <2>1, FS_AddElement
  <2>3. QED
    BY <1>2, <1>5, <1>8, <2>1, <2>2 DEF Counted
<1>9. CASE Has(rq[r]) # d /\ Has(q) # d
  <2>1. Promised(d)' = P
    BY <1>2, <1>3, <1>4, <1>9
  <2>2. QED
    BY <1>2, <1>5, <1>9, <2>1 DEF Counted
<1>10. QED
  BY <1>6, <1>7, <1>8, <1>9

\* A step of request r, which makes q of it: everything the invariants need.
Good(r, q) ==
  /\ rq' = [rq EXCEPT ![r] = q] /\ Change(r, q) /\ Placed(pool'.owner, r, q)
  /\ PoolGood(pool') /\ cn' \in [Dials -> ConnRecords] /\ Slots(r, q)

LEMMA GoodKeeps ==
  ASSUME RequestInv, ReservedInv, DialInv', UNCHANGED vars, NEW r \in Requests, NEW q, Good(r, q)
  PROVE  RequestInv' /\ ReservedInv'
<1>1. ReservedInv'
  BY SlotsKept DEF Good
<1>2. rq' \in [Requests -> RequestRecords] /\ rq'[r] = q /\ \A s \in Requests \ {r} : rq'[s] = rq[s]
  BY TypesOf DEF Good, Change
<1>3. ASSUME NEW s \in Requests, NEW d, Suits(pool.owner, s, d) PROVE Suits(pool'.owner, s, d)
  <2>1. pool.owner[d] # None /\ d \in Dials
    BY <1>3, PoolAssumption DEF Suits, Shared
  <2>2. pool'.owner[d] = pool.owner[d]
    BY <2>1 DEF Good, PoolGood
  <2>3. QED
    BY <1>3, <2>2 DEF Suits, Shared
<1>4. ASSUME NEW s \in Requests PROVE Change(s, rq'[s]) /\ Placed(pool'.owner, s, rq'[s])
  <2>1. CASE s = r
    BY <1>2, <2>1 DEF Good
  <2>2. CASE s # r
    <3>1. Change(s, rq[s]) /\ Placed(pool.owner, s, rq[s])
      BY TypesOf
    <3>2. Placed(pool'.owner, s, rq[s])
      BY <1>3, <3>1 DEF Placed
    <3>3. QED
      BY <1>2, <2>2, <3>1, <3>2
  <2>3. QED
    BY <2>1, <2>2
<1>5. RequestInv'
  BY <1>2, <1>4, StepKeeps DEF Good, vars
<1>6. QED
  BY <1>1, <1>5

LEMMA PoolSame ==
  ASSUME RequestInv, UNCHANGED pool
  PROVE  PoolGood(pool') /\ pool'.owner = pool.owner
BY TypesOf DEF PoolGood, RequestInv, OwnerInv

\* The connection a request is on, or none.
LEMMA AtConn ==
  ASSUME RequestInv, NEW r \in Requests
  PROVE  /\ rq[r] \in RequestRecords /\ Change(r, rq[r]) /\ Proper(r, rq[r])
         /\ rq[r].at \notin OnConn => rq[r].cc = None
         /\ rq[r].at \in OnConn => rq[r].cc \in Dials /\ Suits(pool.owner, r, rq[r].cc)
         /\ rq[r].at # "sent" => ~rq[r].read
BY TypesOf DEF Proper, Placed, Suits

LEMMA SlotSame ==
  ASSUME RequestInv, NEW r \in Requests, NEW q, Has(q) = Has(rq[r]),
         \A d \in Dials : cn'[d].reserved = cn[d].reserved
  PROVE  Slots(r, q)
<1>1. \A d \in Dials : cn[d].reserved \in Nat
  BY TypesOf DEF ConnRecords
<1>2. QED
  BY <1>1 DEF Slots, Counted

LEMMA SlotTaken ==
  ASSUME RequestInv, NEW r \in Requests, NEW q, NEW d \in Dials, Has(rq[r]) = None, Has(q) = d,
         cn'[d].reserved = cn[d].reserved + 1,
         \A e \in Dials \ {d} : cn'[e].reserved = cn[e].reserved
  PROVE  Slots(r, q)
<1>1. \A e \in Dials : cn[e].reserved \in Nat
  BY TypesOf DEF ConnRecords
<1>2. \A e \in Dials : e # None
  BY PoolAssumption
<1>3. QED
  BY <1>1, <1>2 DEF Slots, Counted

\* One connection changes.
LEMMA ConnUpdate ==
  ASSUME RequestInv, NEW d \in Dials, NEW c \in ConnRecords, cn' = [cn EXCEPT ![d] = c]
  PROVE  /\ cn' \in [Dials -> ConnRecords] /\ cn'[d].reserved = c.reserved
         /\ \A e \in Dials \ {d} : cn'[e].reserved = cn[e].reserved
BY TypesOf

LEMMA ConnEdits ==
  ASSUME NEW c \in ConnRecords, NEW b \in BOOLEAN, NEW n \in Nat, NEW s \in SUBSET Requests
  PROVE  /\ [c EXCEPT !.reserved = n] \in ConnRecords /\ [c EXCEPT !.reserved = n].reserved = n
         /\ [c EXCEPT !.reused = b] \in ConnRecords /\ [c EXCEPT !.reused = b].reserved = c.reserved
         /\ [c EXCEPT !.timer = b] \in ConnRecords /\ [c EXCEPT !.timer = b].reserved = c.reserved
         /\ [c EXCEPT !.streams = s] \in ConnRecords /\ [c EXCEPT !.streams = s].reserved = c.reserved
         /\ [c EXCEPT !.goAway = b] \in ConnRecords /\ [c EXCEPT !.goAway = b].reserved = c.reserved
         /\ c.reserved \in Nat /\ c.streams \in SUBSET Requests /\ c.doNotReuse \in BOOLEAN
<1>1. [c EXCEPT !.reserved = n] \in ConnRecords /\ [c EXCEPT !.reserved = n].reserved = n
  BY DEF ConnRecords
<1>2. [c EXCEPT !.reused = b] \in ConnRecords /\ [c EXCEPT !.reused = b].reserved = c.reserved
  BY DEF ConnRecords
<1>3. [c EXCEPT !.timer = b] \in ConnRecords /\ [c EXCEPT !.timer = b].reserved = c.reserved
  BY DEF ConnRecords
<1>4. [c EXCEPT !.streams = s] \in ConnRecords /\ [c EXCEPT !.streams = s].reserved = c.reserved
  BY DEF ConnRecords
<1>5. [c EXCEPT !.goAway = b] \in ConnRecords /\ [c EXCEPT !.goAway = b].reserved = c.reserved
  BY DEF ConnRecords
<1>6. c.reserved \in Nat /\ c.streams \in SUBSET Requests /\ c.doNotReuse \in BOOLEAN
  BY DEF ConnRecords
<1>7. QED
  BY <1>1, <1>2, <1>3, <1>4, <1>5, <1>6

-----------------------------------------------------------------------------
(* The steps of a request.                                                  *)

\* A request that ends, or goes back to the pool, off its connection.
LEMMA OffConn ==
  ASSUME NEW r \in Requests, NEW q, Change(r, q), q.at \notin OnConn, q.at # "wait", NEW o
  PROVE  Placed(o, r, q) /\ Has(q) = None
BY DEF Placed, Has, Change, Proper, OnConn

LEMMA OverPlaced ==
  ASSUME NEW q \in RequestRecords, NEW e \in Ends
  PROVE  over(q, e).at \notin OnConn /\ over(q, e).at # "wait"
<1>1. "done" \notin OnConn /\ "done" # "wait"
  BY DEF OnConn
<1>2. QED
  BY <1>1, OverRecord

LEMMA RetryPlaced ==
  ASSUME NEW q \in RequestRecords, NEW r \in Requests, NEW e \in {"unusable", "refused", "goaway", "lost"}
  PROVE  retried(q, r, e).at \notin OnConn /\ retried(q, r, e).at # "wait"
<1>1. e \in Ends
  BY DEF Ends
<1>2. CASE q.retry <= MaxRetry /\ shouldRetryRequest(r, e)
  <2>1. retried(q, r, e).at \in {"get", "backoff"}
    BY <1>2 DEF retried, RequestRecords
  <2>2. QED
    BY <2>1 DEF OnConn
<1>3. CASE ~(q.retry <= MaxRetry /\ shouldRetryRequest(r, e))
  BY <1>1, <1>3, OverPlaced DEF retried
<1>4. QED
  BY <1>2, <1>3

\* A request that holds no slot, before and after.
LEMMA FreeStep ==
  ASSUME RequestInv, NEW r \in Requests, Has(rq[r]) = None, NEW q, Change(r, q), q.at \notin OnConn, q.at # "wait",
         rq' = [rq EXCEPT ![r] = q], PoolGood(pool'), cn' \in [Dials -> ConnRecords],
         \A d \in Dials : cn'[d].reserved = cn[d].reserved
  PROVE  Good(r, q)
BY OffConn, SlotSame DEF Good

LEMMA ConnSame ==
  ASSUME RequestInv, UNCHANGED cn
  PROVE  cn' \in [Dials -> ConnRecords] /\ \A d \in Dials : cn'[d].reserved = cn[d].reserved
BY TypesOf

LEMMA BeginGood ==
  ASSUME RequestInv, NEW r \in Requests, Begin(r)
  PROVE  \E q : Good(r, q)
<1> DEFINE q == [rq[r] EXCEPT !.at = "get"]
<1>1. rq[r].at \notin OnConn /\ rq[r].at # "sent" /\ "get" \notin OnConn /\ "get" \in Ats /\ rq' = [rq EXCEPT ![r] = q]
  BY DEF Begin, goes, OnConn, Ats
<1>2. Change(r, q) /\ q.at = "get"
  BY <1>1, AtConn, MoveChange
<1>3. Has(rq[r]) = None
  BY <1>1 DEF Has, OnConn
<1> HIDE DEF q
<1>4. Good(r, q)
  BY <1>1, <1>2, <1>3, FreeStep, PoolSame, ConnSame DEF Begin
<1>5. QED
  BY <1>4

LEMMA HaveOf ==
  ASSUME RequestInv, NEW r \in Requests, rq[r].at # "sent", NEW d \in Dials
  PROVE  LET w == [rq[r] EXCEPT !.at = "have", !.cc = d]
         IN  Change(r, w) /\ w.cc = d /\ w.at = "have"
<1>1. rq[r] \in RequestRecords /\ Change(r, rq[r]) /\ ~rq[r].read
  BY AtConn
<1>2. \A q \in RequestRecords : Change(r, q) /\ ~q.read =>
        LET w == [q EXCEPT !.at = "have", !.cc = d]
        IN  Change(r, w) /\ w.cc = d /\ w.at = "have"
  BY HaveChange
<1>3. QED
  BY <1>1, <1>2

LEMMA GetGood ==
  ASSUME RequestInv, NEW r \in Requests, rq[r].at \in {"get", "wait"}, ~rq[r].close, NEW d \in Shared(pool.owner),
         ok(r, d), reserve(d), UNCHANGED pool
  PROVE  \E q : Good(r, q)
<1> DEFINE q == [rq[r] EXCEPT !.at = "have", !.cc = d]
           c == [cn[d] EXCEPT !.reserved = cn[d].reserved + 1]
<1>1. d \in Dials /\ rq' = [rq EXCEPT ![r] = q] /\ cn' = [cn EXCEPT ![d] = c] /\ rq[r].at \notin OnConn
  BY DEF Shared, ok, reserve, OnConn
<1>2. Change(r, q) /\ q.at = "have" /\ q.cc = d /\ Has(rq[r]) = None
  <2>1. rq[r].at # "sent"
    OBVIOUS
  <2>3. Has(rq[r]) = None
    BY DEF Has
  <2>4. d \in Dials
    BY <1>1
  <2>5. Change(r, q) /\ q.at = "have" /\ q.cc = d
    BY <2>1, <2>4, HaveOf
  <2>6. QED
    BY <2>3, <2>5
<1>3. cn[d] \in ConnRecords
  BY <1>1, TypesOf
<1>4. cn[d].reserved \in Nat
  BY <1>3 DEF ConnRecords
<1>5. cn[d].reserved + 1 \in Nat
  BY <1>4
<1>6. c \in ConnRecords /\ c.reserved = cn[d].reserved + 1
  BY <1>3, <1>5 DEF ConnRecords
<1> HIDE DEF q, c
<1>7. q.close = rq[r].close /\ Has(q) = d
  BY <1>2 DEF Change, Has
<1>8. Placed(pool'.owner, r, q)
  BY <1>1, <1>2 DEF Placed, Suits
<1>9. Slots(r, q)
  BY <1>1, <1>2, <1>6, <1>7, ConnUpdate, SlotTaken
<1>10. Good(r, q)
  BY <1>1, <1>2, <1>6, <1>8, <1>9, ConnUpdate, PoolSame DEF Good
<1>11. QED
  BY <1>10

LEMMA GetFromPoolGood ==
  ASSUME RequestInv, NEW r \in Requests, GetFromPool(r)
  PROVE  \E q : Good(r, q)
<1> DEFINE k == CHOOSE i \in Usable : \A j \in Usable : i <= j
<1>1. pool.conns \in Seq(Shared(pool.owner)) /\ Usable \subseteq DOMAIN pool.conns
  BY DEF RequestInv, OwnerInv, Usable
<1>2. DOMAIN pool.conns \subseteq Nat /\ \A i \in DOMAIN pool.conns : pool.conns[i] \in Shared(pool.owner)
  BY <1>1
<1>3. Usable \in SUBSET Nat /\ Usable # {}
  BY <1>1, <1>2 DEF GetFromPool
<1>4. \E i \in Usable : \A j \in Usable : i <= j
  BY <1>3, LeastNat
<1>5. k \in Usable
  BY <1>4
<1>6. pool.conns[k] \in Shared(pool.owner)
  BY <1>1, <1>2, <1>5
<1>7. ok(r, pool.conns[k]) /\ reserve(pool.conns[k]) /\ UNCHANGED pool /\ rq[r].at = "get" /\ ~rq[r].close
  BY DEF GetFromPool
<1> HIDE DEF k
<1>8. QED
  BY <1>6, <1>7, GetGood

LEMMA StartDialGood ==
  ASSUME RequestInv, NEW r \in Requests, getStartDial(r)
  PROVE  \E q : Good(r, q)
<1>1. rq[r].at = "get" /\ UNCHANGED cn
  BY DEF getStartDial
<1>2. rq[r] \in RequestRecords /\ Change(r, rq[r]) /\ ~rq[r].read /\ rq[r].cc = None /\ Has(rq[r]) = None
  BY <1>1, AtConn DEF OnConn, Has
\* Once the dial is known.
<1>3. ASSUME NEW d \in Dials, rq' = [rq EXCEPT ![r].at = "wait", ![r].call = d],
             Suits(pool'.owner, r, d), PoolGood(pool')
      PROVE  \E q : Good(r, q)
  <2> DEFINE q == [rq[r] EXCEPT !.at = "wait", !.call = d]
  <2>1. rq' = [rq EXCEPT ![r] = q]
    BY <1>3
  <2>2. Change(r, q) /\ q.cc = None /\ q.at = "wait" /\ q.call = d
    BY <1>2, WaitChange
  <2> HIDE DEF q
  <2>3. Has(q) = None /\ Placed(pool'.owner, r, q)
    BY <1>3, <2>2 DEF Has, Placed
  <2>4. Slots(r, q)
    BY <1>1, <1>2, <2>3, SlotSame, ConnSame
  <2>5. Good(r, q)
    BY <1>1, <1>3, <2>1, <2>2, <2>3, <2>4, ConnSame DEF Good
  <2>6. QED
    BY <2>5
<1>4. CASE ~rq[r].close /\ pool.dialing # None
  <2>1. rq' = [rq EXCEPT ![r].at = "wait", ![r].call = pool.dialing] /\ UNCHANGED pool
    BY <1>4 DEF getStartDial
  <2>2. pool.dialing \in Shared(pool.owner) /\ pool.dialing \in Dials
    BY <1>4 DEF RequestInv, OwnerInv, Shared
  <2>3. Suits(pool'.owner, r, pool.dialing)
    BY <1>4, <2>1, <2>2 DEF Suits
  <2>4. QED
    BY <1>3, <2>1, <2>2, <2>3, PoolSame
<1>5. CASE ~(~rq[r].close /\ pool.dialing # None)
  <2> DEFINE d == NextDial
             o == [pool.owner EXCEPT ![d] = r]
             l == IF rq[r].close THEN pool.dialing ELSE d
             p == [pool EXCEPT !.owner = o, !.dialing = l]
  <2>1. d \in Dials /\ pool.owner[d] = None
    BY <1>5 DEF getStartDial, NextDial, FreeDials
  <2>2. rq' = [rq EXCEPT ![r].at = "wait", ![r].call = d] /\ pool' = p
    BY <1>5 DEF getStartDial
  <2> HIDE DEF d
  <2>3. o \in [Dials -> Requests \cup {None}] /\ o[d] = r /\ (\A e \in Dials : pool.owner[e] # None => o[e] = pool.owner[e])
    BY <2>1, TypesOf
  <2>4. Suits(o, r, d)
    BY <2>1, <2>3, PoolAssumption DEF Suits, Shared
  <2>5. Shared(pool.owner) \subseteq Shared(o)
    BY <2>3 DEF Shared
  <2>6. l \in Shared(o) \cup {None}
    BY <2>4, <2>5 DEF RequestInv, OwnerInv, Suits
  <2>7. l \in Dials \cup {None}
    BY <2>6 DEF Shared
  <2> HIDE DEF o, l
  <2>8. p \in PoolRecords /\ p.owner = o /\ p.dialing = l /\ p.conns = pool.conns
    BY <2>3, <2>7, TypesOf DEF PoolRecords
  <2> HIDE DEF p
  <2>9. pool.conns \in Seq(Shared(o))
    <3>1. pool.conns \in Seq(Shared(pool.owner))
      BY DEF RequestInv, OwnerInv
    <3>2. \A S, T : S \subseteq T => \A s \in Seq(S) : s \in Seq(T)
      OBVIOUS
    <3>3. QED
      BY <2>5, <3>1, <3>2
  <2>10. PoolGood(pool') /\ Suits(pool'.owner, r, d)
    BY <2>2, <2>3, <2>4, <2>6, <2>8, <2>9 DEF PoolGood
  <2>11. QED
    BY <1>3, <2>1, <2>2, <2>10
<1>6. QED
  BY <1>4, <1>5

LEMMA AwakeGood ==
  ASSUME RequestInv, NEW r \in Requests, Awake(r)
  PROVE  \E q : Good(r, q)
<1> DEFINE d == rq[r].call
<1>1. rq[r].at = "wait" /\ UNCHANGED pool /\ d \in pool.done
  BY DEF Awake
<1>2. rq[r] \in RequestRecords /\ Change(r, rq[r]) /\ ~rq[r].read /\ rq[r].cc = None /\ Has(rq[r]) = None
  BY <1>1, AtConn DEF OnConn, Has
<1>3. Suits(pool.owner, r, d) /\ d \in Dials
  BY <1>1, TypesOf DEF Placed, Suits
<1>4. CASE goes(r, "get") /\ UNCHANGED cn
  <2> DEFINE q == [rq[r] EXCEPT !.at = "get"]
  <2>1. "get" \notin OnConn /\ "get" \in Ats /\ rq' = [rq EXCEPT ![r] = q]
    BY <1>4 DEF goes, OnConn, Ats
  <2>2. Change(r, q) /\ q.at = "get"
    BY <1>2, <2>1, MoveChange
  <2> HIDE DEF q
  <2>3. Good(r, q)
    BY <1>1, <1>2, <1>4, <2>1, <2>2, FreeStep, PoolSame, ConnSame
  <2>4. QED
    BY <2>3
<1>5. CASE result[d] # "ok" /\ ~shouldRetryDial(r, d) /\ fails(r, result[d]) /\ UNCHANGED cn
  <2> DEFINE e == result[d]
             q == over(rq[r], e)
  <2>1. e \in Ends
    BY <1>3 DEF RequestInv, DialInv, DialType, Ends
  <2>2. e = "canceled" => rq[r].canceled
    BY <1>3, <1>5 DEF shouldRetryDial, RequestInv, CancelInv
  <2>3. rq' = [rq EXCEPT ![r] = q]
    BY <1>5 DEF fails
  <2> HIDE DEF e
  <2>4. Change(r, q) /\ q.at \notin OnConn /\ q.at # "wait"
    BY <1>2, <2>1, <2>2, AtConn, OverChange, OverPlaced
  <2> HIDE DEF q
  <2>5. Good(r, q)
    BY <1>1, <1>2, <1>5, <2>3, <2>4, FreeStep, PoolSame, ConnSame
  <2>6. QED
    BY <2>5
<1>6. CASE rq[r].close /\ ok(r, d) /\ UNCHANGED cn
  <2> DEFINE q == [rq[r] EXCEPT !.at = "have", !.cc = d]
  <2>1. rq' = [rq EXCEPT ![r] = q]
    BY <1>6 DEF ok
  <2>2. Change(r, q) /\ q.at = "have" /\ q.cc = d
    BY <1>2, <1>3, HaveChange
  <2> HIDE DEF q
  <2>3. q.close = rq[r].close /\ Has(q) = None /\ Placed(pool.owner, r, q)
    BY <1>3, <1>6, <2>2 DEF Change, Has, Placed
  <2>4. Slots(r, q)
    BY <1>2, <1>6, <2>3, SlotSame, ConnSame
  <2>5. Good(r, q)
    BY <1>1, <1>6, <2>1, <2>2, <2>3, <2>4, ConnSame, PoolSame DEF Good
  <2>6. QED
    BY <2>5
<1>7. CASE ~rq[r].close /\ ok(r, d) /\ reserve(d)
  BY <1>1, <1>3, <1>7, GetGood DEF Suits
<1>8. QED
  BY <1>4, <1>5, <1>6, <1>7 DEF Awake

LEMMA BackoffGood ==
  ASSUME RequestInv, NEW r \in Requests, Backoff(r)
  PROVE  \E q : Good(r, q)
<1>1. rq[r].at = "backoff" /\ UNCHANGED <<cn, pool>>
  BY DEF Backoff
<1>2. rq[r] \in RequestRecords /\ Change(r, rq[r]) /\ ~rq[r].read /\ rq[r].cc = None /\ Has(rq[r]) = None
  BY <1>1, AtConn DEF OnConn, Has
<1>3. CASE goes(r, "get")
  <2> DEFINE q == [rq[r] EXCEPT !.at = "get"]
  <2>1. "get" \notin OnConn /\ "get" \in Ats /\ rq' = [rq EXCEPT ![r] = q]
    BY <1>3 DEF goes, OnConn, Ats
  <2>2. Change(r, q) /\ q.at = "get"
    BY <1>2, <2>1, MoveChange
  <2> HIDE DEF q
  <2>3. Good(r, q)
    BY <1>1, <1>2, <2>1, <2>2, FreeStep, PoolSame, ConnSame
  <2>4. QED
    BY <2>3
<1>4. CASE rq[r].canceled /\ fails(r, "canceled")
  <2> DEFINE q == over(rq[r], "canceled")
  <2>1. "canceled" \in Ends /\ rq' = [rq EXCEPT ![r] = q]
    BY <1>4 DEF Ends, fails
  <2>2. Change(r, q) /\ q.at \notin OnConn /\ q.at # "wait"
    BY <1>2, <1>4, <2>1, AtConn, OverChange, OverPlaced
  <2> HIDE DEF q
  <2>3. Good(r, q)
    BY <1>1, <1>2, <2>1, <2>2, FreeStep, PoolSame, ConnSame
  <2>4. QED
    BY <2>3
<1>5. QED
  BY <1>3, <1>4 DEF Backoff

LEMMA GotConnGood ==
  ASSUME RequestInv, NEW r \in Requests, GotConn(r)
  PROVE  \E q : Good(r, q)
<1> DEFINE d == rq[r].cc
           q == [rq[r] EXCEPT !.at = "trip"]
           c == [cn[d] EXCEPT !.reused = TRUE]
<1>1. rq[r].at = "have" /\ rq' = [rq EXCEPT ![r] = q] /\ cn' = [cn EXCEPT ![d] = c] /\ UNCHANGED pool
  BY DEF GotConn, goes
<1>2. rq[r] \in RequestRecords /\ Change(r, rq[r]) /\ ~rq[r].read /\ d \in Dials /\ Suits(pool.owner, r, d)
  BY <1>1, AtConn DEF OnConn
<1>3. "trip" \in Ats /\ "trip" \in OnConn /\ "trip" # "wait" /\ rq[r].cc # None
  BY <1>2, PoolAssumption DEF Ats, OnConn
<1>4. Change(r, q) /\ q.at = "trip" /\ q.cc = d
  BY <1>2, <1>3, MoveChange
<1>5. cn[d] \in ConnRecords
  BY <1>2, TypesOf
<1>6. c \in ConnRecords /\ c.reserved = cn[d].reserved
  BY <1>5 DEF ConnRecords
<1> HIDE DEF d, q, c
<1>7. Has(q) = Has(rq[r]) /\ Placed(pool.owner, r, q)
  BY <1>1, <1>2, <1>4 DEF Has, Placed, Change, d
<1>8. \A e \in Dials : cn'[e].reserved = cn[e].reserved
  BY <1>1, <1>2, <1>6, ConnUpdate
<1>9. Slots(r, q)
  BY <1>7, <1>8, SlotSame
<1>10. Good(r, q)
  BY <1>1, <1>2, <1>4, <1>6, <1>7, <1>9, ConnUpdate, PoolSame DEF Good
<1>11. QED
  BY <1>10

LEMMA OneLess ==
  /\ \A u, v \in Nat, k \in {0, 1} : v = u - 1 \/ v = 0 => v <= (u - k) + 0 \/ v = 0
  /\ \A v \in Nat : v <= (v - 0) + 0
OBVIOUS

\* A request that leaves the connection it is on for good: it is off it, or its
\* stream is open and its slot no longer a promise.
LEMMA LeaveGood ==
  ASSUME RequestInv, NEW r \in Requests, rq[r].at \in {"trip", "unusable", "not established"},
         NEW c \in ConnRecords,
         c.reserved = IF cn[rq[r].cc].reserved > 0 THEN cn[rq[r].cc].reserved - 1 ELSE 0,
         cn' = [cn EXCEPT ![rq[r].cc] = c], UNCHANGED pool,
         NEW q, Change(r, q), q.at \notin {"have", "trip"}, Placed(pool.owner, r, q), rq' = [rq EXCEPT ![r] = q]
  PROVE  Good(r, q)
<1> DEFINE d == rq[r].cc
<1>1. d \in Dials /\ d # None
  BY AtConn, PoolAssumption DEF OnConn
<1>2. cn[d].reserved \in Nat
  BY <1>1, TypesOf DEF ConnRecords
<1>3. cn' \in [Dials -> ConnRecords] /\ cn'[d].reserved = c.reserved
      /\ \A e \in Dials \ {d} : cn'[e].reserved = cn[e].reserved
  BY <1>1, ConnUpdate
<1>4. Has(q) = None
  BY DEF Has
<1>5. \A e \in Dials \ {d} : Has(rq[r]) # e
  BY PoolAssumption DEF Has
<1>6. \/ cn'[d].reserved = cn[d].reserved - 1
      \/ cn'[d].reserved = 0
  BY <1>3
<1>7. Counted(rq[r], d) \in {0, 1} /\ Counted(q, d) = 0
  BY <1>1, <1>4 DEF Counted
<1>a. cn'[d].reserved \in Nat
  BY <1>1, <1>3, TypesOf DEF ConnRecords
<1> HIDE DEF d
<1>8. ASSUME NEW e \in Dials
      PROVE  /\ cn'[e].reserved \in Nat
             /\ \/ cn'[e].reserved <= (cn[e].reserved - Counted(rq[r], e)) + Counted(q, e)
                \/ cn'[e].reserved = 0
  <2>1. CASE e = d
    <3> DEFINE u == cn[d].reserved
               v == cn'[d].reserved
               k == Counted(rq[r], d)
    <3>1. u \in Nat /\ v \in Nat /\ k \in {0, 1} /\ (v = u - 1 \/ v = 0)
      BY <1>2, <1>6, <1>7, <1>a
    <3> HIDE DEF u, v, k
    <3>2. v <= (u - k) + 0 \/ v = 0
      BY <3>1, OneLess
    <3>3. QED
      BY <1>7, <1>a, <2>1, <3>2 DEF u, v, k
  <2>2. CASE e # d
    <3>1. cn'[e].reserved = cn[e].reserved /\ cn[e].reserved \in Nat
      <4>1. cn[e] \in ConnRecords
        BY TypesOf
      <4>2. cn[e].reserved \in Nat
        BY <4>1 DEF ConnRecords
      <4>3. QED
        BY <1>3, <2>2, <4>2
    <3>2. Counted(rq[r], e) = 0 /\ Counted(q, e) = 0
      BY <1>4, <1>5, <2>2, PoolAssumption DEF Counted
    <3> DEFINE u == cn[e].reserved
               v == cn'[e].reserved
    <3>3. v \in Nat /\ v = u
      BY <3>1
    <3> HIDE DEF u, v
    <3>4. v <= (u - 0) + 0
      BY <3>3, OneLess
    <3>5. QED
      BY <3>2, <3>3, <3>4 DEF u, v
  <2>3. QED
    BY <2>1, <2>2
<1>9. Slots(r, q)
  BY <1>8 DEF Slots
<1>10. QED
  BY <1>3, <1>9, PoolSame DEF Good

LEMMA TakenRecord ==
  ASSUME RequestInv, NEW d \in Dials
  PROVE  /\ taken(d, 1) \in ConnRecords
         /\ taken(d, 1).reserved = IF cn[d].reserved > 0 THEN cn[d].reserved - 1 ELSE 0
<1> DEFINE n == IF cn[d].reserved > 0 THEN cn[d].reserved - 1 ELSE 0
<1>1. cn[d] \in ConnRecords
  BY TypesOf
<1>2. n \in Nat
  <2>1. cn[d].reserved \in Nat
    BY <1>1 DEF ConnRecords
  <2>2. QED
    BY <2>1
<1>3. taken(d, 1) = [cn[d] EXCEPT !.timer = FALSE, !.reserved = n]
  BY <1>1 DEF taken, ConnRecords
<1> HIDE DEF n
<1>4. [cn[d] EXCEPT !.timer = FALSE, !.reserved = n] \in ConnRecords
  BY <1>1, <1>2 DEF ConnRecords
<1>5. [cn[d] EXCEPT !.timer = FALSE, !.reserved = n].reserved = n
  BY <1>1 DEF ConnRecords
<1>6. QED
  BY <1>3, <1>4, <1>5 DEF n

LEMMA TripGood ==
  ASSUME RequestInv, NEW r \in Requests,
         AddStream(r) \/ Unusable(r) \/ NotEstablished(r) \/ GivesUp(r) \/ cleanupWriteRequest(r)
  PROVE  \E q : Good(r, q)
<1> DEFINE d == rq[r].cc
           t == taken(d, 1)
           n == IF cn[d].reserved > 0 THEN cn[d].reserved - 1 ELSE 0
<1>1. rq[r].at \in {"trip", "unusable", "not established"} /\ UNCHANGED pool
  BY DEF AddStream, Unusable, NotEstablished, GivesUp, cleanupWriteRequest
<1>2. rq[r] \in RequestRecords /\ Change(r, rq[r]) /\ ~rq[r].read /\ d \in Dials /\ Suits(pool.owner, r, d) /\ Proper(r, rq[r])
  BY <1>1, AtConn DEF OnConn
<1>a. n \in Nat
  <2>1. cn[d] \in ConnRecords
    BY <1>2, TypesOf
  <2>2. cn[d].reserved \in Nat
    BY <2>1 DEF ConnRecords
  <2>3. QED
    BY <2>2
<1>3. t \in ConnRecords /\ t.reserved = n /\ cn[d] \in ConnRecords
  BY <1>2, TakenRecord, TypesOf
<1>4. d # None
  BY <1>2, PoolAssumption
<1>5. ASSUME AddStream(r) PROVE \E q : Good(r, q)
  <2> DEFINE s == t.streams \cup {r}
             b == t.doNotReuse \/ rq[r].close
             c == [t EXCEPT !.streams = s, !.fresh = FALSE, !.doNotReuse = b]
             q == [rq[r] EXCEPT !.at = "sent", !.torn = FALSE]
  <2>1. cn' = [cn EXCEPT ![d] = c]
    BY <1>5 DEF AddStream
  <2>2. s \in SUBSET Requests /\ b \in BOOLEAN
    BY <1>2, <1>3 DEF ConnRecords, RequestRecords
  <2>3. rq' = [rq EXCEPT ![r] = q]
    <3>1. rq[r].torn = FALSE /\ rq[r].read = FALSE
      BY <1>2 DEF Proper, RequestRecords
    <3>2. rq' = [rq EXCEPT ![r] = [rq[r] EXCEPT !.at = "sent", !.torn = rq[r].torn \/ rq[r].read]]
      BY <1>2, <1>5 DEF AddStream, RequestRecords
    <3>3. QED
      BY <3>1, <3>2
  <2>4. "sent" \in Ats /\ "sent" \in OnConn
    BY DEF Ats, OnConn
  <2> HIDE DEF t, s, b, n
  <2>5. c \in ConnRecords /\ c.reserved = n
    BY <1>3, <2>2 DEF ConnRecords
  <2>6. q \in RequestRecords
    BY <1>2, <2>4 DEF RequestRecords
  <2>7. /\ q.at = "sent" /\ q.cc = d /\ ~q.torn /\ q.read = rq[r].read /\ q.canceled = rq[r].canceled
        /\ q.close = rq[r].close /\ q.res = rq[r].res
    BY <1>2 DEF RequestRecords
  <2> HIDE DEF q, c
  <2>8. Change(r, q) /\ Placed(pool.owner, r, q)
    BY <1>2, <1>4, <2>4, <2>6, <2>7 DEF Change, Proper, Placed
  <2>9. Good(r, q)
    BY <1>1, <2>1, <2>3, <2>5, <2>7, <2>8, LeaveGood DEF n
  <2>10. QED
    BY <2>9
<1>6. ASSUME Unusable(r) \/ NotEstablished(r) PROVE \E q : Good(r, q)
  <2>1. PICK e \in {"unusable", "not established"} : cn' = [cn EXCEPT ![d] = t] /\ goes(r, e)
    BY <1>6 DEF Unusable, NotEstablished
  <2> DEFINE q == [rq[r] EXCEPT !.at = e]
  <2>2. e \in Ats /\ e \in OnConn /\ e \notin {"wait", "have", "trip"} /\ rq' = [rq EXCEPT ![r] = q]
    BY <2>1 DEF Ats, OnConn, goes
  <2>3. Change(r, q) /\ q.at = e /\ q.cc = d
    <3>1. e \in Ats /\ e # "wait" /\ (rq[r].cc # None <=> e \in OnConn)
      BY <1>4, <2>2
    <3>2. rq[r] \in RequestRecords /\ Change(r, rq[r]) /\ ~rq[r].read
      BY <1>2
    <3> HIDE DEF d, t, n
    <3>3. QED
      BY <3>1, <3>2, MoveChange DEF d
  <2> HIDE DEF t, q, n
  <2>4. Placed(pool.owner, r, q)
    BY <1>2, <2>2, <2>3 DEF Placed
  <2>5. Good(r, q)
    BY <1>1, <1>3, <2>1, <2>2, <2>3, <2>4, LeaveGood DEF n
  <2>6. QED
    BY <2>5
<1>7. ASSUME cleanupWriteRequest(r) PROVE \E q : Good(r, q)
  <2> DEFINE c == [cn[d] EXCEPT !.reserved = n]
  <2>1. cn' = [cn EXCEPT ![d] = c]
    BY <1>2, <1>3, <1>7 DEF cleanupWriteRequest, ConnRecords
  <2>2. c \in ConnRecords /\ c.reserved = n
    BY <1>3, <1>a DEF ConnRecords
  <2> HIDE DEF c, n
  <2>3. ASSUME NEW q, Change(r, q), q.at \notin {"have", "trip"}, Placed(pool.owner, r, q), rq' = [rq EXCEPT ![r] = q]
        PROVE  Good(r, q)
    BY <1>1, <2>1, <2>2, <2>3, LeaveGood DEF n
  <2>4. CASE rq[r].canceled /\ fails(r, "canceled")
    <3> DEFINE q == over(rq[r], "canceled")
    <3>1. rq' = [rq EXCEPT ![r] = q] /\ "canceled" \in Ends
      BY <1>2, <2>4 DEF fails, Ends
    <3>2. Change(r, q) /\ q.at \notin OnConn /\ q.at # "wait"
      BY <1>2, <2>4, <3>1, OverChange, OverPlaced
    <3> HIDE DEF q
    <3>3. Placed(pool.owner, r, q) /\ q.at \notin {"have", "trip"}
      BY <3>2, OffConn DEF OnConn
    <3>4. QED
      BY <2>3, <3>1, <3>2, <3>3
  <2>5. CASE rq' = [rq EXCEPT ![r] = retried(rq[r], r, "unusable")]
    <3> DEFINE q == retried(rq[r], r, "unusable")
    <3>1. Change(r, q) /\ q.at \notin OnConn /\ q.at # "wait"
      BY <1>2, RetryChange, RetryPlaced
    <3>2. rq' = [rq EXCEPT ![r] = q]
      BY <2>5
    <3> HIDE DEF q
    <3>3. Placed(pool.owner, r, q) /\ q.at \notin {"have", "trip"}
      BY <3>1, OffConn DEF OnConn
    <3>4. QED
      BY <2>3, <3>1, <3>2, <3>3
  <2>6. CASE goes(r, "report")
    <3> DEFINE q == [rq[r] EXCEPT !.at = "report"]
    <3>1. "report" \in Ats /\ "report" \in OnConn /\ "report" # "wait" /\ rq' = [rq EXCEPT ![r] = q]
      BY <2>6 DEF Ats, OnConn, goes
    <3>2. Change(r, q) /\ q.at = "report" /\ q.cc = d
      BY <1>2, <1>4, <3>1, MoveChange
    <3> HIDE DEF q
    <3>3. Placed(pool.owner, r, q)
      BY <1>2, <3>2 DEF Placed
    <3>4. QED
      BY <2>3, <3>1, <3>2, <3>3
  <2>7. QED
    BY <1>2, <1>7, <2>4, <2>5, <2>6 DEF cleanupWriteRequest
<1>8. ASSUME GivesUp(r) PROVE \E q : Good(r, q)
  <2> DEFINE q == over(rq[r], "canceled")
             c == [cn[d] EXCEPT !.reserved = n]
  <2>1. cn' = [cn EXCEPT ![d] = c] /\ rq' = [rq EXCEPT ![r] = q] /\ rq[r].canceled
    BY <1>2, <1>3, <1>8 DEF GivesUp, fails, ConnRecords
  <2>2. "canceled" \in Ends
    BY DEF Ends
  <2>3. Change(r, q) /\ q.at \notin OnConn /\ q.at # "wait"
    BY <1>2, <2>1, <2>2, OverChange, OverPlaced
  <2>5. c \in ConnRecords /\ c.reserved = n
    BY <1>3, <1>a DEF ConnRecords
  <2> HIDE DEF q, c, n
  <2>6. Placed(pool.owner, r, q) /\ q.at \notin {"have", "trip"}
    BY <2>3, OffConn DEF OnConn
  <2>7. Good(r, q)
    BY <1>1, <2>1, <2>3, <2>5, <2>6, LeaveGood DEF n
  <2>8. QED
    BY <2>7
<1>9. QED
  BY <1>5, <1>6, <1>7, <1>8

LEMMA MishapGood ==
  ASSUME RequestInv, NEW p, PoolGood(p), p.faults = pool.faults, mishap(p)
  PROVE  PoolGood(pool') /\ pool'.owner = p.owner
<1> DEFINE n == pool.faults + 1
<1>1. n \in 0..MaxFaults
  <2>1. pool.faults \in 0..MaxFaults /\ pool.faults < MaxFaults /\ MaxFaults \in Nat
    BY TypesOf, PoolAssumption DEF mishap
  <2>2. QED
    BY <2>1
<1>2. p \in PoolRecords
  BY DEF PoolGood
<1>3. pool' = [p EXCEPT !.faults = n]
  BY <1>2 DEF mishap, PoolRecords
<1> HIDE DEF n
<1>4. pool' \in PoolRecords
  BY <1>1, <1>2, <1>3 DEF PoolRecords
<1>5. pool'.conns = p.conns /\ pool'.dialing = p.dialing /\ pool'.owner = p.owner
  BY <1>2, <1>3 DEF PoolRecords
<1>6. QED
  BY <1>4, <1>5 DEF PoolGood

LEMMA MarkDeadGood ==
  ASSUME RequestInv, NEW d
  PROVE  PoolGood(markDead(pool, d)) /\ markDead(pool, d).owner = pool.owner /\ markDead(pool, d).faults = pool.faults
<1> DEFINE s == filterOutClientConn(pool.conns, d)
           p == [pool EXCEPT !.conns = s]
<1>1. pool \in PoolRecords /\ pool.conns \in Seq(Shared(pool.owner)) /\ pool.conns \in Seq(Dials)
      /\ pool.dialing \in Shared(pool.owner) \cup {None}
  BY TypesOf DEF RequestInv, OwnerInv
<1>2. s \in Seq(Shared(pool.owner)) /\ s \in Seq(Dials)
  BY <1>1, FilterOutType
<1>3. markDead(pool, d) = p
  BY <1>1 DEF markDead, PoolRecords
<1> HIDE DEF s
<1>4. p \in PoolRecords
  BY <1>1, <1>2 DEF PoolRecords
<1>5. p.conns = s /\ p.owner = pool.owner /\ p.dialing = pool.dialing /\ p.faults = pool.faults
  BY <1>1 DEF PoolRecords
<1>6. QED
  BY <1>1, <1>2, <1>3, <1>4, <1>5 DEF PoolGood

LEMMA PoolGoodNow ==
  ASSUME RequestInv
  PROVE  PoolGood(pool)
BY TypesOf DEF PoolGood, RequestInv, OwnerInv

LEMMA ReportsGood ==
  ASSUME RequestInv, NEW r \in Requests, Reports(r)
  PROVE  \E q : Good(r, q)
<1> DEFINE d == rq[r].cc
           q == over(rq[r], "not established")
           c == [cn[d] EXCEPT !.timer = FALSE]
<1>1. rq[r].at = "report" /\ rq' = [rq EXCEPT ![r] = q] /\ cn' = [cn EXCEPT ![d] = c] /\ pool' = markDead(pool, d)
  BY DEF Reports, fails
<1>2. rq[r] \in RequestRecords /\ Change(r, rq[r]) /\ d \in Dials /\ Proper(r, rq[r]) /\ Has(rq[r]) = None
  BY <1>1, AtConn DEF OnConn, Has
<1>3. "not established" \in Ends
  BY DEF Ends
<1>4. Change(r, q) /\ q.at \notin OnConn /\ q.at # "wait"
  BY <1>2, <1>3, OverChange, OverPlaced
<1>5. c \in ConnRecords /\ c.reserved = cn[d].reserved
  BY <1>2, TypesOf, ConnEdits
<1> HIDE DEF q, c, d
<1>6. cn' \in [Dials -> ConnRecords] /\ \A e \in Dials : cn'[e].reserved = cn[e].reserved
  BY <1>1, <1>2, <1>5, ConnUpdate
<1>7. PoolGood(pool')
  BY <1>1, MarkDeadGood
<1>8. Good(r, q)
  BY <1>1, <1>2, <1>4, <1>6, <1>7, FreeStep
<1>9. QED
  BY <1>8

LEMMA ReadsBodyGood ==
  ASSUME RequestInv, NEW r \in Requests, ReadsBody(r)
  PROVE  \E q : Good(r, q)
<1> DEFINE q == [rq[r] EXCEPT !.read = TRUE]
<1>1. rq[r].at = "sent" /\ Body[r] # "none" /\ rq' = [rq EXCEPT ![r] = q] /\ UNCHANGED <<cn, pool>>
  BY DEF ReadsBody
<1>2. rq[r] \in RequestRecords /\ Change(r, rq[r]) /\ Placed(pool.owner, r, rq[r])
  BY AtConn, TypesOf
<1>3. q \in RequestRecords
  BY <1>2 DEF RequestRecords
<1>4. /\ q.at = rq[r].at /\ q.cc = rq[r].cc /\ q.call = rq[r].call /\ q.torn = rq[r].torn /\ q.res = rq[r].res
      /\ q.canceled = rq[r].canceled /\ q.close = rq[r].close
  BY <1>2 DEF RequestRecords
<1> HIDE DEF q
<1>5. Change(r, q) /\ Placed(pool.owner, r, q) /\ Has(q) = Has(rq[r])
  BY <1>1, <1>2, <1>3, <1>4 DEF Change, Proper, Placed, Has
<1>6. Good(r, q)
  BY <1>1, <1>5, ConnSame, PoolSame, SlotSame DEF Good
<1>7. QED
  BY <1>6

LEMMA CancelGood ==
  ASSUME RequestInv, NEW r \in Requests, Cancel(r)
  PROVE  \E q : Good(r, q)
<1> DEFINE q == [rq[r] EXCEPT !.canceled = TRUE]
<1>1. rq' = [rq EXCEPT ![r] = q] /\ UNCHANGED cn /\ mishap(pool)
  BY DEF Cancel
<1>2. rq[r] \in RequestRecords /\ Change(r, rq[r]) /\ Placed(pool.owner, r, rq[r])
  BY AtConn, TypesOf
<1>3. q \in RequestRecords
  BY <1>2 DEF RequestRecords
<1>4. /\ q.at = rq[r].at /\ q.cc = rq[r].cc /\ q.call = rq[r].call /\ q.torn = rq[r].torn /\ q.res = rq[r].res
      /\ q.canceled = TRUE /\ q.close = rq[r].close /\ q.read = rq[r].read
  BY <1>2 DEF RequestRecords
<1> HIDE DEF q
<1>5. Change(r, q) /\ Placed(pool.owner, r, q) /\ Has(q) = Has(rq[r])
  BY <1>2, <1>3, <1>4 DEF Change, Proper, Placed, Has
<1>6. PoolGood(pool') /\ pool'.owner = pool.owner
  BY <1>1, PoolGoodNow, MishapGood
<1>7. Good(r, q)
  BY <1>1, <1>5, <1>6, ConnSame, SlotSame DEF Good
<1>8. QED
  BY <1>7

\* The end of a stream: the slot was given back when it began.
LEMMA StreamEndGood ==
  ASSUME RequestInv, NEW r \in Requests, rq[r].at = "sent", leaves(r), PoolGood(pool'),
         NEW q, Change(r, q), q.at \notin OnConn, q.at # "wait", rq' = [rq EXCEPT ![r] = q]
  PROVE  Good(r, q)
<1> DEFINE d == rq[r].cc
           s == cn[d].streams \ {r}
           c == [cn[d] EXCEPT !.streams = s]
<1>1. d \in Dials /\ cn[d] \in ConnRecords /\ Has(rq[r]) = None
  BY AtConn, TypesOf DEF OnConn, Has
<1>2. s \in SUBSET Requests
  BY <1>1, ConnEdits
<1>3. cn' = [cn EXCEPT ![d] = c]
  BY DEF leaves
<1> HIDE DEF s
<1>4. c \in ConnRecords /\ c.reserved = cn[d].reserved
  BY <1>1, <1>2 DEF ConnRecords
<1> HIDE DEF c
<1>5. cn' \in [Dials -> ConnRecords] /\ \A e \in Dials : cn'[e].reserved = cn[e].reserved
  BY <1>1, <1>3, <1>4, ConnUpdate
<1>6. QED
  BY <1>1, <1>5, FreeStep

LEMMA SentGood ==
  ASSUME RequestInv, NEW r \in Requests, Responds(r) \/ Refused(r) \/ Aborted(r) \/ Abandoned(r)
  PROVE  \E q : Good(r, q)
<1>1. rq[r].at = "sent" /\ leaves(r)
  BY DEF Responds, Refused, Aborted, Abandoned
<1>2. rq[r] \in RequestRecords /\ Change(r, rq[r]) /\ Proper(r, rq[r]) /\ rq[r].err \in Errs
  BY AtConn DEF RequestRecords
<1>3. ASSUME Responds(r) \/ Abandoned(r) PROVE \E q : Good(r, q)
  <2>1. PICK e \in {"ok", "canceled"} : fails(r, e) /\ (e = "canceled" => rq[r].canceled)
    BY <1>3 DEF Responds, Abandoned
  <2> DEFINE q == over(rq[r], e)
  <2>2. rq' = [rq EXCEPT ![r] = q] /\ e \in Ends
    BY <2>1 DEF fails, Ends
  <2>3. Change(r, q) /\ q.at \notin OnConn /\ q.at # "wait"
    BY <1>2, <2>1, <2>2, OverChange, OverPlaced
  <2> HIDE DEF q
  <2>4. PoolGood(pool')
    BY <1>3, PoolSame DEF Responds, Abandoned
  <2>5. Good(r, q)
    BY <1>1, <2>2, <2>3, <2>4, StreamEndGood
  <2>6. QED
    BY <2>5
<1>4. ASSUME Refused(r) PROVE \E q : Good(r, q)
  <2> DEFINE q == retried(rq[r], r, "refused")
  <2>1. rq' = [rq EXCEPT ![r] = q] /\ mishap(pool)
    BY <1>4 DEF Refused
  <2>2. Change(r, q) /\ q.at \notin OnConn /\ q.at # "wait"
    BY <1>2, RetryChange, RetryPlaced
  <2> HIDE DEF q
  <2>3. PoolGood(pool')
    BY <2>1, PoolGoodNow, MishapGood
  <2>4. Good(r, q)
    BY <1>1, <2>1, <2>2, <2>3, StreamEndGood
  <2>5. QED
    BY <2>4
<1>5. ASSUME Aborted(r) PROVE \E q : Good(r, q)
  <2> DEFINE w == [rq[r] EXCEPT !.err = None]
             e == rq[r].err
             q == retried(w, r, e)
  <2>1. rq' = [rq EXCEPT ![r] = q] /\ e \in {"goaway", "lost"} /\ UNCHANGED pool
    BY <1>2, <1>5 DEF Aborted, Errs
  <2>2. w \in RequestRecords
    <3>1. None \in Errs
      BY DEF Errs
    <3>2. QED
      BY <1>2, <3>1 DEF RequestRecords
  <2>3. /\ w.at = rq[r].at /\ w.cc = rq[r].cc /\ w.call = rq[r].call /\ w.torn = rq[r].torn /\ w.res = rq[r].res
        /\ w.canceled = rq[r].canceled /\ w.close = rq[r].close /\ w.read = rq[r].read
    BY <1>2 DEF RequestRecords
  <2> HIDE DEF w, e
  <2>4. Change(r, w)
    BY <1>2, <2>2, <2>3 DEF Change, Proper
  <2>5. Change(r, q) /\ q.at \notin OnConn /\ q.at # "wait"
    BY <1>2, <2>1, <2>2, <2>4, RetryChange, RetryPlaced
  <2> HIDE DEF q
  <2>6. Good(r, q)
    BY <1>1, <2>1, <2>5, PoolSame, StreamEndGood
  <2>7. QED
    BY <2>6
<1>6. QED
  BY <1>3, <1>4, <1>5

LEMMA RequestGood ==
  ASSUME RequestInv, ReservedInv, NEW r \in Requests, RequestStep(r)
  PROVE  \E q : Good(r, q)
BY BeginGood, GetFromPoolGood, StartDialGood, AwakeGood, GotConnGood, BackoffGood, TripGood, ReportsGood,
   ReadsBodyGood, SentGood, CancelGood DEF RequestStep

-----------------------------------------------------------------------------
(* The steps of the connections and the dials.                              *)

\* A step that moves no request: nothing or only its error changes.
LEMMA ConnKeeps ==
  ASSUME RequestInv, ReservedInv, DialInv', PoolGood(pool'), pool'.owner = pool.owner,
         cn' \in [Dials -> ConnRecords], \A d \in Dials : cn'[d].reserved = cn[d].reserved,
         rq' \in [Requests -> RequestRecords],
         \A r \in Requests : Change(r, rq'[r]) /\ Placed(pool.owner, r, rq'[r]) /\ Has(rq'[r]) = Has(rq[r]),
         \A d \in Dials : result'[d] = "canceled" =>
            result[d] = "canceled" \/ (pool.owner[d] # None /\ rq[pool.owner[d]].canceled)
  PROVE  RequestInv' /\ ReservedInv'
<1>1. RequestInv'
  BY StepKeeps
<1>2. ASSUME NEW d \in Dials PROVE cn'[d].reserved <= Cardinality(Promised(d)')
  <2>1. Promised(d)' = {r \in Requests : Has(rq'[r]) = d} /\ Promised(d) = {r \in Requests : Has(rq[r]) = d}
    BY PoolAssumption DEF Promised, Has
  <2>2. Promised(d)' = Promised(d)
    BY <2>1
  <2>3. QED
    BY <2>2 DEF ReservedInv
<1>3. QED
  BY <1>1, <1>2 DEF ReservedInv

LEMMA RequestsSame ==
  ASSUME RequestInv, UNCHANGED rq
  PROVE  /\ rq' \in [Requests -> RequestRecords]
         /\ \A r \in Requests : Change(r, rq'[r]) /\ Placed(pool.owner, r, rq'[r]) /\ Has(rq'[r]) = Has(rq[r])
BY TypesOf

LEMMA AbortKeeps ==
  ASSUME RequestInv, NEW rs, NEW e \in {"goaway", "lost"}, abort(rs, e)
  PROVE  /\ rq' \in [Requests -> RequestRecords]
         /\ \A r \in Requests : Change(r, rq'[r]) /\ Placed(pool.owner, r, rq'[r]) /\ Has(rq'[r]) = Has(rq[r])
<1>1. ASSUME NEW r \in Requests
      PROVE  rq'[r] \in RequestRecords /\ Change(r, rq'[r]) /\ Placed(pool.owner, r, rq'[r]) /\ Has(rq'[r]) = Has(rq[r])
  <2>1. rq[r] \in RequestRecords /\ Change(r, rq[r]) /\ Placed(pool.owner, r, rq[r])
    BY TypesOf
  <2> DEFINE w == [rq[r] EXCEPT !.err = e]
  <2>2. w \in RequestRecords
    <3>1. e \in Errs
      BY DEF Errs
    <3>2. QED
      BY <2>1, <3>1 DEF RequestRecords
  <2>3. /\ w.at = rq[r].at /\ w.cc = rq[r].cc /\ w.call = rq[r].call /\ w.torn = rq[r].torn /\ w.res = rq[r].res
        /\ w.canceled = rq[r].canceled /\ w.close = rq[r].close /\ w.read = rq[r].read
    BY <2>1 DEF RequestRecords
  <2>4. rq'[r] = w \/ rq'[r] = rq[r]
    BY DEF abort
  <2> HIDE DEF w
  <2>5. Change(r, w) /\ Placed(pool.owner, r, w) /\ Has(w) = Has(rq[r])
    BY <2>1, <2>2, <2>3 DEF Change, Proper, Placed, Has
  <2>6. QED
    BY <2>1, <2>2, <2>4, <2>5
<1>2. rq' = [r \in Requests |-> rq'[r]]
  BY DEF abort
<1>3. QED
  BY <1>1, <1>2

\* The slots of a connection stay as they are whatever else becomes of it.
LEMMA OneConn ==
  ASSUME RequestInv, NEW d \in Dials, NEW c \in ConnRecords, c.reserved = cn[d].reserved, cn' = [cn EXCEPT ![d] = c]
  PROVE  cn' \in [Dials -> ConnRecords] /\ \A e \in Dials : cn'[e].reserved = cn[e].reserved
BY ConnUpdate

LEMMA DialingKeeps ==
  ASSUME RequestInv, ReservedInv, DialInv', NEW d \in Dials, Dialing(d) \/ DialCanceled(d)
  PROVE  RequestInv' /\ ReservedInv'
<1>1. UNCHANGED <<rq, cn, pool>>
  BY DEF Dialing, DialCanceled, poolVars
<1>2. result \in [Dials -> {Absent, "ok", "error", "handshake failure", "canceled"}]
  BY DEF RequestInv, DialInv, DialType
<1>3. ASSUME NEW e \in Dials, result'[e] = "canceled"
      PROVE  result[e] = "canceled" \/ (pool.owner[e] # None /\ rq[pool.owner[e]].canceled)
  <2>1. CASE DialCanceled(d)
    BY <1>2, <1>3, <2>1 DEF DialCanceled
  <2>2. CASE Dialing(d)
    <3>1. result' = result \/ \E how \in {"ok", "error", "handshake failure"} : result' = [result EXCEPT ![d] = how]
      BY <2>2 DEF Dialing, Connect, ConnectFails, Handshake, CaptureBegins, CaptureEnds, CaptureFails, RefreshHello,
         HandshakeFails, Goto, Return
    <3>2. QED
      BY <1>2, <1>3, <3>1
  <2>3. QED
    BY <2>1, <2>2
<1>4. PoolGood(pool') /\ pool'.owner = pool.owner
  BY <1>1, PoolSame
<1>5. cn' \in [Dials -> ConnRecords] /\ \A e \in Dials : cn'[e].reserved = cn[e].reserved
  BY <1>1, ConnSame
<1>6. rq' \in [Requests -> RequestRecords]
      /\ \A r \in Requests : Change(r, rq'[r]) /\ Placed(pool.owner, r, rq'[r]) /\ Has(rq'[r]) = Has(rq[r])
  BY <1>1, RequestsSame
<1>7. QED
  BY <1>3, <1>4, <1>5, <1>6, ConnKeeps

LEMMA NewConnKeeps ==
  ASSUME RequestInv, ReservedInv, DialInv', NEW d \in Dials, NewClientConn(d)
  PROVE  RequestInv' /\ ReservedInv'
<1> DEFINE b == own(d)
           c == [cn[d] EXCEPT !.up = TRUE, !.single = b]
<1>1. cn' = [cn EXCEPT ![d] = c] /\ UNCHANGED <<rq, pool, result>> /\ pool.owner[d] # None
  BY DEF NewClientConn, vars
<1>2. cn[d] \in ConnRecords /\ b \in BOOLEAN
  <2>1. pool.owner[d] \in Requests /\ cn[d] \in ConnRecords
    BY <1>1, TypesOf
  <2>2. rq[pool.owner[d]] \in RequestRecords
    BY <2>1, TypesOf
  <2>3. QED
    BY <2>1, <2>2 DEF own, RequestRecords
<1> HIDE DEF b
<1>3. c \in ConnRecords /\ c.reserved = cn[d].reserved
  BY <1>2 DEF ConnRecords
<1> HIDE DEF c
<1>4. QED
  BY <1>1, <1>3, OneConn, PoolSame, RequestsSame, ConnKeeps

LEMMA DialDoneKeeps ==
  ASSUME RequestInv, ReservedInv, DialInv', NEW d \in Dials, DialDone(d)
  PROVE  RequestInv' /\ ReservedInv'
<1> DEFINE f == pool.done \cup {d}
           l == IF pool.dialing = d THEN None ELSE pool.dialing
           p == [pool EXCEPT !.done = f, !.dialing = l]
<1>1. pool \in PoolRecords /\ f \in SUBSET Dials /\ UNCHANGED <<rq, cn, result>> /\ pool.owner[d] # None
  BY TypesOf DEF DialDone, vars
<1>2. l \in Shared(pool.owner) \cup {None} /\ l \in Dials \cup {None}
  BY TypesOf DEF RequestInv, OwnerInv
<1>3. pool' = IF result[d] = "ok" /\ ~own(d) THEN addConn(p, d) ELSE p
  BY <1>1 DEF DialDone, PoolRecords
<1> HIDE DEF f, l
<1>4. p \in PoolRecords
  BY <1>1, <1>2 DEF PoolRecords
<1>5. p.conns = pool.conns /\ p.owner = pool.owner /\ p.dialing = l
  BY <1>1 DEF PoolRecords
<1> HIDE DEF p
<1>6. pool.conns \in Seq(Shared(pool.owner)) /\ pool.conns \in Seq(Dials)
  BY TypesOf DEF RequestInv, OwnerInv
<1>7. PoolGood(p)
  BY <1>2, <1>4, <1>5, <1>6 DEF PoolGood
<1>8. PoolGood(pool') /\ pool'.owner = pool.owner
  <2>1. CASE pool' = p
    BY <1>5, <1>7, <2>1
  <2>2. CASE pool' # p
    <3> DEFINE s == Append(pool.conns, d)
    <3>1. d \in Shared(pool.owner) /\ pool' = [p EXCEPT !.conns = s]
      <4>1. ~own(d) /\ pool' = addConn(p, d)
        BY <1>3, <2>2
      <4>2. addConn(p, d) = [p EXCEPT !.conns = Append(p.conns, d)]
        BY <1>4, <2>2, <4>1 DEF addConn, PoolRecords
      <4>3. QED
        BY <1>1, <1>5, <4>1, <4>2 DEF Shared, own
    <3>2. \A S, T : \A t \in Seq(S), e \in S : Append(t, e) \in Seq(S)
      OBVIOUS
    <3>3. s \in Seq(Shared(pool.owner)) /\ s \in Seq(Dials)
      BY <1>6, <3>1, <3>2
    <3> HIDE DEF s
    <3>4. pool' \in PoolRecords
      BY <1>4, <3>1, <3>3 DEF PoolRecords
    <3>5. pool'.conns = s /\ pool'.owner = pool.owner /\ pool'.dialing = l
      BY <1>4, <1>5, <3>1 DEF PoolRecords
    <3>6. QED
      BY <1>2, <3>3, <3>4, <3>5 DEF PoolGood
  <2>3. QED
    BY <2>1, <2>2
<1>9. QED
  BY <1>1, <1>8, ConnSame, RequestsSame, ConnKeeps

LEMMA BrokenKeeps ==
  ASSUME RequestInv, ReservedInv, DialInv', NEW d \in Dials,
         GoAway(d) \/ UnusedTimer(d) \/ \E late \in BOOLEAN : Cleanup(d, late)
  PROVE  RequestInv' /\ ReservedInv'
<1>1. cn[d] \in ConnRecords /\ UNCHANGED result
  BY TypesOf DEF GoAway, UnusedTimer, Cleanup, vars
<1>2. PoolGood(markDead(pool, d)) /\ markDead(pool, d).owner = pool.owner /\ markDead(pool, d).faults = pool.faults
  BY MarkDeadGood
<1>3. ASSUME GoAway(d) PROVE RequestInv' /\ ReservedInv'
  <2> DEFINE c == [cn[d] EXCEPT !.goAway = TRUE]
  <2>1. cn' = [cn EXCEPT ![d] = c] /\ mishap(markDead(pool, d)) /\ \E rs : abort(rs, "goaway")
    BY <1>3 DEF GoAway
  <2>2. c \in ConnRecords /\ c.reserved = cn[d].reserved
    BY <1>1 DEF ConnRecords
  <2> HIDE DEF c
  <2>3. PoolGood(pool') /\ pool'.owner = pool.owner
    BY <1>2, <2>1, MishapGood
  <2>4. cn' \in [Dials -> ConnRecords] /\ \A e \in Dials : cn'[e].reserved = cn[e].reserved
    BY <2>1, <2>2, OneConn
  <2>5. rq' \in [Requests -> RequestRecords]
        /\ \A r \in Requests : Change(r, rq'[r]) /\ Placed(pool.owner, r, rq'[r]) /\ Has(rq'[r]) = Has(rq[r])
    BY <2>1, AbortKeeps
  <2>6. QED
    BY <1>1, <2>3, <2>4, <2>5, ConnKeeps
<1>4. ASSUME UnusedTimer(d) PROVE RequestInv' /\ ReservedInv'
  <2> DEFINE c == [cn[d] EXCEPT !.timer = FALSE]
  <2>1. cn' = [cn EXCEPT ![d] = c] /\ pool' = markDead(pool, d) /\ UNCHANGED rq
    BY <1>4 DEF UnusedTimer
  <2>2. c \in ConnRecords /\ c.reserved = cn[d].reserved
    BY <1>1 DEF ConnRecords
  <2> HIDE DEF c
  <2>3. QED
    BY <1>1, <1>2, <2>1, <2>2, OneConn, RequestsSame, ConnKeeps
<1>5. ASSUME NEW late \in BOOLEAN, Cleanup(d, late) PROVE RequestInv' /\ ReservedInv'
  <2> DEFINE stays == ~cn[d].reused /\ ~late /\ ~cn[d].closedOnIdle
             c == [cn[d] EXCEPT !.closed = TRUE, !.cleaned = TRUE, !.timer = stays]
             p == IF stays THEN pool ELSE markDead(pool, d)
  <2>1. cn' = [cn EXCEPT ![d] = c] /\ mishap(p) /\ abort(cn[d].streams, "lost")
    BY <1>5 DEF Cleanup
  <2>2. stays \in BOOLEAN
    OBVIOUS
  <2>3. PoolGood(p) /\ p.owner = pool.owner /\ p.faults = pool.faults
    BY <1>2, PoolGoodNow
  <2> HIDE DEF stays, p
  <2>4. c \in ConnRecords /\ c.reserved = cn[d].reserved
    BY <1>1, <2>2 DEF ConnRecords
  <2> HIDE DEF c
  <2>5. PoolGood(pool') /\ pool'.owner = pool.owner
    BY <2>1, <2>3, MishapGood
  <2>6. cn' \in [Dials -> ConnRecords] /\ \A e \in Dials : cn'[e].reserved = cn[e].reserved
    BY <2>1, <2>4, OneConn
  <2>7. rq' \in [Requests -> RequestRecords]
        /\ \A r \in Requests : Change(r, rq'[r]) /\ Placed(pool.owner, r, rq'[r]) /\ Has(rq'[r]) = Has(rq[r])
    BY <2>1, AbortKeeps
  <2>8. QED
    BY <1>1, <2>5, <2>6, <2>7, ConnKeeps
<1>6. QED
  BY <1>3, <1>4, <1>5

LEMMA SweepKeeps ==
  ASSUME RequestInv, ReservedInv, DialInv', closeIdleConnections
  PROVE  RequestInv' /\ ReservedInv'
<1>1. ASSUME NEW d \in Dials PROVE cn'[d] \in ConnRecords /\ cn'[d].reserved = cn[d].reserved
  <2> DEFINE c == [cn[d] EXCEPT !.closed = TRUE, !.closedOnIdle = TRUE]
  <2>1. cn[d] \in ConnRecords
    BY TypesOf
  <2>2. c \in ConnRecords /\ c.reserved = cn[d].reserved
    BY <2>1 DEF ConnRecords
  <2>3. cn'[d] = c \/ cn'[d] = cn[d]
    BY DEF closeIdleConnections, closeIfIdle
  <2> HIDE DEF c
  <2>4. QED
    BY <2>1, <2>2, <2>3
<1>2. cn' = [d \in Dials |-> cn'[d]] /\ mishap(pool) /\ UNCHANGED <<rq, result>>
  BY DEF closeIdleConnections, vars
<1>3. cn' \in [Dials -> ConnRecords]
  BY <1>1, <1>2
<1>4. PoolGood(pool') /\ pool'.owner = pool.owner
  BY <1>2, PoolGoodNow, MishapGood
<1>5. QED
  BY <1>1, <1>2, <1>3, <1>4, RequestsSame, ConnKeeps

-----------------------------------------------------------------------------
(* The invariants of the pool.                                              *)

LEMMA PoolStep == RequestInv /\ ReservedInv /\ [PoolNext]_allVars => RequestInv' /\ ReservedInv'
<1> SUFFICES ASSUME RequestInv, ReservedInv, [PoolNext]_allVars PROVE RequestInv' /\ ReservedInv'
  OBVIOUS
<1>1. DialInv'
  BY DialStep DEF RequestInv
<1>2. ASSUME NEW r \in Requests, RequestStep(r) PROVE RequestInv' /\ ReservedInv'
  <2>1. UNCHANGED vars
    BY <1>2 DEF RequestStep, Begin, GetFromPool, getStartDial, Awake, GotConn, Backoff, AddStream, Unusable,
       NotEstablished, cleanupWriteRequest, Reports, GivesUp, ReadsBody, Responds, Refused, Aborted, Abandoned, Cancel
  <2>2. PICK q : Good(r, q)
    BY <1>2, RequestGood
  <2>3. QED
    BY <1>1, <2>1, <2>2, GoodKeeps
<1>3. ASSUME NEW d \in Dials, ConnStep(d) PROVE RequestInv' /\ ReservedInv'
  BY <1>1, <1>3, DialingKeeps, NewConnKeeps, DialDoneKeeps, BrokenKeeps DEF ConnStep
<1>4. CASE closeIdleConnections
  BY <1>1, <1>4, SweepKeeps
<1>5. CASE UNCHANGED allVars \/ Over
  <2>1. UNCHANGED <<rq, cn, pool, result>>
    BY <1>5 DEF Over, allVars, poolVars, vars
  <2>2. QED
    BY <1>1, <2>1, PoolSame, ConnSame, RequestsSame, ConnKeeps
<1>6. QED
  BY <1>2, <1>3, <1>4, <1>5 DEF PoolNext

LEMMA PoolStart == PoolInit => RequestInv /\ ReservedInv
<1> SUFFICES ASSUME PoolInit PROVE RequestInv /\ ReservedInv
  OBVIOUS
<1>1. DialInv
  BY DialAssumption DEF PoolInit, Init, DialInv, DialType, DialTries, DialFresh
<1>2. PICK close \in SUBSET Closing :
        rq = [r \in Requests |-> [at |-> "idle", call |-> None, cc |-> None, retry |-> 0, canceled |-> FALSE,
                                  read |-> FALSE, torn |-> FALSE, res |-> None, err |-> None, close |-> r \in close]]
  BY DEF PoolInit
<1>3. "idle" \in Ats /\ None \in Ends /\ None \in Errs /\ 0 \in Counts /\ "idle" \notin OnConn
  BY PoolAssumption DEF Ats, Ends, Errs, Counts, OnConn
<1>4. rq \in [Requests -> RequestRecords]
  BY <1>2, <1>3 DEF RequestRecords
<1>5. ASSUME NEW r \in Requests
      PROVE  rq[r].at = "idle" /\ rq[r].cc = None /\ rq[r].read = FALSE /\ rq[r].torn = FALSE /\ rq[r].res = None
  BY <1>2
<1>6. \A r \in Requests : Proper(r, rq[r]) /\ Placed(pool.owner, r, rq[r])
  <2>1. SUFFICES ASSUME NEW r \in Requests PROVE Proper(r, rq[r]) /\ Placed(pool.owner, r, rq[r])
    OBVIOUS
  <2>2. rq[r].at = "idle" /\ rq[r].cc = None /\ ~rq[r].read /\ ~rq[r].torn /\ rq[r].res # "canceled"
    BY <1>5, PoolAssumption
  <2>3. rq[r].at \notin OnConn /\ rq[r].at # "wait"
    BY <1>3, <2>2
  <2>4. QED
    BY <2>2, <2>3 DEF Proper, Placed
<1>7. cn \in [Dials -> ConnRecords] /\ \A d \in Dials : cn[d].reserved = 0
  BY DEF PoolInit, NoConn, ConnRecords
<1>8. /\ pool.conns = <<>> /\ pool.dialing = None /\ pool.owner = [d \in Dials |-> None]
      /\ pool.done = {} /\ pool.faults = 0
      /\ pool = [conns |-> <<>>, dialing |-> None, owner |-> [d \in Dials |-> None], done |-> {}, faults |-> 0]
  BY DEF PoolInit
<1>9. pool \in PoolRecords
  <2>1. <<>> \in Seq(Dials) /\ [d \in Dials |-> None] \in [Dials -> Requests \cup {None}] /\ 0 \in 0..MaxFaults
    BY PoolAssumption
  <2>2. QED
    BY <1>8, <2>1 DEF PoolRecords
<1>10. CancelInv
  BY DialAssumption DEF PoolInit, Init, CancelInv
<1>11. OwnerInv
  BY <1>6, <1>8 DEF OwnerInv
<1>12. ASSUME NEW d \in Dials PROVE Cardinality(Promised(d)) = 0
  <2>1. Promised(d) = {}
    BY <1>5 DEF Promised
  <2>2. QED
    BY <2>1, FS_EmptySet
<1>13. QED
  BY <1>1, <1>4, <1>6, <1>7, <1>9, <1>10, <1>11, <1>12 DEF RequestInv, PoolType, ReservedInv

\* However requests, dials and connections interleave, each connection keeps
\* exactly the slots of the requests that were promised one and are still on
\* their way to it: a slot is given back once, whether the request is sent,
\* fails, is cancelled or finds the connection broken (transport.go:953).
THEOREM SlotsReturned == PoolSpec => []ReservationsReturned
<1>1. RequestInv /\ ReservedInv => ReservationsReturned
  BY DEF ReservedInv, Promised, ReservationsReturned
<1>2. QED
  BY <1>1, PoolStart, PoolStep, PTL DEF PoolSpec, allVars

\* A request fails with a cancellation only when it was cancelled itself,
\* although it may have waited for the dial of a request that was
\* (client_conn_pool.go:282).
THEOREM OwnCancelOnly == PoolSpec => []NoForeignCancel
<1>1. RequestInv /\ ReservedInv => NoForeignCancel
  BY DEF RequestInv, Proper, NoForeignCancel
<1>2. QED
  BY <1>1, PoolStart, PoolStep, PTL DEF PoolSpec, allVars

\* Whatever becomes of the connections under it, a request sends its body from
\* the first byte (transport_common.go:395).
THEOREM BodiesWhole == PoolSpec => []BodyFromTheStart
<1>1. RequestInv /\ ReservedInv => BodyFromTheStart
  BY DEF RequestInv, Proper, BodyFromTheStart
<1>2. QED
  BY <1>1, PoolStart, PoolStep, PTL DEF PoolSpec, allVars
=============================================================================
