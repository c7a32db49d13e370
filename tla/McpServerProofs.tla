---------------------------- MODULE McpServerProofs ---------------------------
(***************************************************************************)
(* Proofs about McpServer, for any lines, any number of them, and logins   *)
(* at any moment.                                                          *)
(***************************************************************************)
EXTENDS McpServer, SequenceTheorems, WellFoundedInduction, TLAPS

-----------------------------------------------------------------------------
(* Sequences of sequences.                                                  *)

\* A nonempty set of naturals has a least element.
LEMMA LeastNat ==
  ASSUME NEW T \in SUBSET Nat, T # {}
  PROVE  \E x \in T : \A y \in T : x <= y
<1>1. PICK x \in T : \A y \in T : ~(<<y, x>> \in OpToRel(<, Nat))
  BY WFMin, NatLessThanWellFounded
<1>2. \A y \in Nat : y < x => <<y, x>> \in OpToRel(<, Nat)
  BY DEF OpToRel
<1>3. \A y \in T : ~(y < x)
  BY <1>1, <1>2
<1>4. QED
  BY <1>3

\* f is the function FlattenSeq builds, up to n.
Flattens(f, seqs, n) ==
  f = [i \in 1..n |-> IF i = 1 THEN seqs[i] ELSE f[i - 1] \o seqs[i]]

LEMMA FlattensUnique ==
  ASSUME NEW seqs, NEW more, NEW f, NEW g, NEW n \in Nat, NEW m \in Nat,
         Flattens(f, seqs, n), Flattens(g, more, m), n <= m, \A i \in 1..n : seqs[i] = more[i]
  PROVE  \A i \in 1..n : f[i] = g[i]
<1> DEFINE Bad == {i \in 1..n : f[i] # g[i]}
<1>1. SUFFICES ASSUME Bad # {} PROVE FALSE
  OBVIOUS
<1>2. PICK i \in Bad : \A j \in Bad : i <= j
  <2>1. Bad \in SUBSET Nat
    OBVIOUS
  <2> HIDE DEF Bad
  <2>2. QED
    BY <1>1, <2>1, LeastNat
<1>3. i \in 1..n /\ i \in 1..m
  BY <1>2
<1>4. /\ f[i] = IF i = 1 THEN seqs[i] ELSE f[i - 1] \o seqs[i]
      /\ g[i] = IF i = 1 THEN more[i] ELSE g[i - 1] \o more[i]
  BY <1>3 DEF Flattens
<1>5. CASE i = 1
  BY <1>2, <1>3, <1>4, <1>5
<1>6. CASE i # 1
  <2>1. i - 1 \in 1..n /\ i - 1 \notin Bad
    <3> HIDE DEF Bad
    <3>1. QED
      BY <1>2, <1>3, <1>6
  <2>2. f[i - 1] = g[i - 1]
    BY <2>1
  <2>3. QED
    BY <1>2, <1>3, <1>4, <1>6, <2>2
<1>7. QED
  BY <1>5, <1>6

\* One element more, if there was a function for the others.
LEMMA FlattensMore ==
  ASSUME NEW n \in Nat, NEW seqs, NEW f, Flattens(f, seqs, n)
  PROVE  \E g : Flattens(g, seqs, n + 1)
<1> DEFINE last == IF n = 0 THEN seqs[1] ELSE f[n] \o seqs[n + 1]
           g == [i \in 1..(n + 1) |-> IF i = n + 1 THEN last ELSE f[i]]
<1>1. ASSUME NEW i \in 1..(n + 1) PROVE g[i] = IF i = 1 THEN seqs[i] ELSE g[i - 1] \o seqs[i]
  <2>1. CASE i = n + 1
    <3>1. g[i] = last
      BY <2>1
    <3>2. CASE n = 0
      BY <2>1, <3>1, <3>2
    <3>3. CASE n # 0
      <4>1. g[i - 1] = f[n] /\ i # 1
        BY <2>1, <3>3
      <4>2. QED
        BY <2>1, <3>1, <3>3, <4>1
    <3>4. QED
      BY <3>2, <3>3
  <2>2. CASE i # n + 1
    <3>1. i \in 1..n /\ g[i] = f[i] /\ (i # 1 => g[i - 1] = f[i - 1])
      BY <2>2
    <3>2. f[i] = IF i = 1 THEN seqs[i] ELSE f[i - 1] \o seqs[i]
      BY <3>1 DEF Flattens
    <3>3. QED
      BY <3>1, <3>2
  <2>3. QED
    BY <2>1, <2>2
<1>2. g = [i \in 1..(n + 1) |-> g[i]]
  OBVIOUS
<1> HIDE DEF g
<1>3. Flattens(g, seqs, n + 1)
  BY <1>1, <1>2 DEF Flattens
<1>4. QED
  BY <1>3

LEMMA FlattensExists ==
  ASSUME NEW seqs, NEW n \in Nat
  PROVE  \E f : Flattens(f, seqs, n)
<1> DEFINE Bad == {k \in Nat : ~\E f : Flattens(f, seqs, k)}
<1>1. SUFFICES ASSUME Bad # {} PROVE FALSE
  OBVIOUS
<1>2. PICK k \in Bad : \A j \in Bad : k <= j
  <2>1. Bad \in SUBSET Nat
    OBVIOUS
  <2> HIDE DEF Bad
  <2>2. QED
    BY <1>1, <2>1, LeastNat
<1>3. k \in Nat
  OBVIOUS
<1>4. k # 0
  <2>1. Flattens([i \in 1..0 |-> <<>>], seqs, 0)
    BY DEF Flattens
  <2>2. QED
    BY <2>1
<1>5. k - 1 \in Nat /\ k - 1 \notin Bad
  <2> HIDE DEF Bad
  <2>1. QED
    BY <1>2, <1>3, <1>4
<1>6. \E f : Flattens(f, seqs, k - 1)
  BY <1>5
<1>7. \E f : Flattens(f, seqs, (k - 1) + 1)
  BY <1>5, <1>6, FlattensMore
<1>8. (k - 1) + 1 = k
  BY <1>3
<1>9. QED
  BY <1>7, <1>8

LEMMA FlattenDef ==
  ASSUME NEW seqs, NEW n \in Nat \ {0}, n = Len(seqs)
  PROVE  \E f : Flattens(f, seqs, n) /\ FlattenSeq(seqs) = f[n]
<1> DEFINE f == CHOOSE h : Flattens(h, seqs, n)
<1>1. \E h : Flattens(h, seqs, n)
  BY FlattensExists
<1>2. Flattens(f, seqs, n)
  BY <1>1
<1>3. FlattenSeq(seqs) = f[n]
  BY DEF FlattenSeq, Flattens
<1> HIDE DEF f
<1>4. QED
  BY <1>2, <1>3

LEMMA FlattenLast ==
  ASSUME NEW seqs, NEW more, NEW n \in Nat \ {0}, NEW m \in Nat \ {0},
         n = Len(seqs), m = Len(more), m = n + 1, \A i \in 1..n : seqs[i] = more[i]
  PROVE  FlattenSeq(more) = FlattenSeq(seqs) \o more[m]
<1>1. PICK f : Flattens(f, seqs, n) /\ FlattenSeq(seqs) = f[n]
  BY FlattenDef
<1>2. PICK g : Flattens(g, more, m) /\ FlattenSeq(more) = g[m]
  BY FlattenDef
<1>3. \A i \in 1..n : f[i] = g[i]
  <2>1. n <= m /\ n \in Nat /\ m \in Nat
    OBVIOUS
  <2>2. QED
    BY <1>1, <1>2, <2>1, FlattensUnique
<1>4. f[n] = g[n] /\ m - 1 = n /\ m # 1 /\ m \in 1..m
  BY <1>3
<1>5. g[m] = IF m = 1 THEN more[m] ELSE g[m - 1] \o more[m]
  BY <1>2, <1>4 DEF Flattens
<1>6. QED
  BY <1>1, <1>2, <1>4, <1>5

\* The sequences of a longer sequence are those of the shorter one, and then
\* those of what was appended.
LEMMA FlattenAppend ==
  ASSUME NEW S, NEW seqs \in Seq(Seq(S)), NEW s \in Seq(S)
  PROVE  FlattenSeq(Append(seqs, s)) = FlattenSeq(seqs) \o s
<1> DEFINE n == Len(seqs)
           more == Append(seqs, s)
<1>1. n \in Nat /\ n + 1 \in Nat \ {0} /\ Len(more) = n + 1 /\ more[n + 1] = s /\ \A i \in 1..n : seqs[i] = more[i]
  OBVIOUS
<1>2. CASE n = 0
  <2>1. FlattenSeq(seqs) = <<>> /\ <<>> \o s = s
    BY <1>2 DEF FlattenSeq
  <2>2. Len(more) = 1 /\ more[1] = s
    BY <1>1, <1>2
  <2> HIDE DEF more
  <2>3. PICK f : Flattens(f, more, 1) /\ FlattenSeq(more) = f[1]
    <3>1. \A k \in Nat \ {0} : k = Len(more) => \E f : Flattens(f, more, k) /\ FlattenSeq(more) = f[k]
      BY FlattenDef
    <3>2. QED
      BY <2>2, <3>1
  <2>4. f[1] = more[1]
    BY <2>3 DEF Flattens
  <2>5. QED
    BY <2>1, <2>2, <2>3, <2>4 DEF more
<1>3. CASE n # 0
  <2> HIDE DEF n, more
  <2>1. n \in Nat \ {0} /\ n = Len(seqs)
    BY <1>1, <1>3 DEF n
  <2>2. PICK m \in Nat \ {0} : m = n + 1 /\ m = Len(more) /\ more[m] = s
    BY <1>1
  <2>3. FlattenSeq(more) = FlattenSeq(seqs) \o more[m]
    BY <1>1, <2>1, <2>2, FlattenLast
  <2>4. QED
    BY <2>2, <2>3 DEF more
<1>4. QED
  BY <1>2, <1>3

-----------------------------------------------------------------------------
(* The ids due.                                                             *)

LEMMA DueOfType ==
  ASSUME NEW m, NEW i \in Nat
  PROVE  DueOf(m, i) \in Seq(Nat)
BY DEF DueOf

\* A line more adds its own id, null or nothing at the end.
LEMMA DueMore ==
  ASSUME NEW ms \in Seq(Messages), NEW m \in Messages
  PROVE  Due(Append(ms, m)) = Due(ms) \o DueOf(m, Len(ms) + 1)
<1> DEFINE n == Len(ms)
           more == Append(ms, m)
           all == [i \in DOMAIN ms |-> DueOf(ms[i], i)]
           d == DueOf(m, n + 1)
<1>1. n \in Nat /\ DOMAIN ms = 1..n /\ DOMAIN more = 1..(n + 1) /\ more[n + 1] = m /\ \A i \in 1..n : more[i] = ms[i]
  OBVIOUS
<1>2. \A i \in 1..n : DueOf(ms[i], i) \in Seq(Nat)
  BY <1>1, DueOfType
<1>3. all \in Seq(Seq(Nat)) /\ Len(all) = n /\ \A i \in 1..n : all[i] = DueOf(ms[i], i)
  BY <1>1, <1>2
<1>4. d \in Seq(Nat)
  BY <1>1, DueOfType
<1> HIDE DEF all, d
<1>5. [i \in DOMAIN more |-> DueOf(more[i], i)] = Append(all, d)
  <2> DEFINE A == Append(all, d)
             B == [i \in DOMAIN more |-> DueOf(more[i], i)]
  <2>1. A \in Seq(Seq(Nat)) /\ Len(A) = n + 1 /\ A[n + 1] = d /\ \A i \in 1..n : A[i] = all[i]
    BY <1>1, <1>3, <1>4
  <2>2. \A i \in 1..(n + 1) : DueOf(more[i], i) \in Seq(Nat)
    BY <1>1, DueOfType
  <2>3. B \in Seq(Seq(Nat)) /\ Len(B) = n + 1 /\ B[n + 1] = d /\ \A i \in 1..n : B[i] = DueOf(ms[i], i)
    <3>1. B = [i \in 1..(n + 1) |-> DueOf(more[i], i)]
      BY <1>1
    <3>2. B \in [1..(n + 1) -> Seq(Nat)]
      BY <2>2, <3>1
    <3>3. \A i \in 1..(n + 1) : B[i] = DueOf(more[i], i)
      BY <3>1
    <3> HIDE DEF B, more, n
    <3>4. \A k \in Nat : \A S : \A s \in [1..k -> S] : s \in Seq(S) /\ Len(s) = k
      OBVIOUS
    <3>5. B \in Seq(Seq(Nat)) /\ Len(B) = n + 1
      <4>1. n + 1 \in Nat
        BY <1>1
      <4>2. QED
        BY <3>2, <3>4, <4>1
    <3>6. n + 1 \in 1..(n + 1) /\ \A i \in 1..n : i \in 1..(n + 1)
      BY <1>1
    <3>7. B[n + 1] = d
      BY <1>1, <3>3, <3>6 DEF d
    <3>8. \A i \in 1..n : B[i] = DueOf(ms[i], i)
      BY <1>1, <3>3, <3>6
    <3>9. QED
      BY <3>5, <3>7, <3>8
  <2> HIDE DEF A, B
  <2>4. \A i \in 1..Len(A) : A[i] = B[i]
    <3>1. \A i \in 1..(n + 1) : i = n + 1 \/ i \in 1..n
      BY <1>1
    <3>2. \A i \in 1..n : A[i] = B[i]
      BY <1>3, <2>1, <2>3
    <3> HIDE DEF n
    <3>3. QED
      BY <2>1, <2>3, <3>1, <3>2
  <2>5. A = B
    BY <2>1, <2>3, <2>4, SeqEqual
  <2>6. QED
    BY <2>5 DEF A, B
<1>6. FlattenSeq(Append(all, d)) = FlattenSeq(all) \o d
  BY <1>3, <1>4, FlattenAppend
<1>7. QED
  BY <1>5, <1>6 DEF Due, all, d

-----------------------------------------------------------------------------
(* The invariants.                                                          *)

\* A line is being worked on.
Busy == {"factory", "tool", "ask", "bridge", "usage", "check"}
Upstream == {"tool", "ask", "bridge", "usage", "check"}

Bodies == {"none", "result", ParseError, MethodNotFound, InvalidParams, InternalError}
Answer == [id : Nat, body : Bodies]
Kinds == {"ask", "bridge", "usage", "threads"}
Request == [kind : Kinds, end : Ends]

TypeOK ==
  /\ pc \in Busy \cup {"read", "write", "ended"}
  /\ input \in Seq(Messages) /\ out \in Seq(Answer) /\ resp \in Answer
  /\ calls \in Seq(Seq(Request)) /\ Len(calls) = Len(input)
  /\ client \in Nat /\ tried \in Nat /\ token \in Nat /\ before \in Nat
  /\ pc \in Busy \cup {"write"} => Len(input) > 0

\* The client is of a session that was in the file after the line was read.
SessionInv == before <= token /\ (pc \in Upstream => client >= before)

\* The id that the response under way will have.
Owed == CASE pc \in Busy   -> <<Len(input)>>
          [] pc = "write"  -> <<resp.id>>
          [] OTHER         -> <<>>

Ids == [i \in DOMAIN out |-> out[i].id]

OrderInv == pc # "ended" => Ids \o Owed = Due(input)

\* What was sent for the line under way, and that nothing was answered to it yet.
CallInv ==
  LET n     == Len(input)
      sent  == calls[n]
      k     == Len(sent)
      asks  == input[n].name \in Asks /\ input[n].query
      check == input[n].name = "pplx_spec_check"
  IN  /\ \A i \in DOMAIN out : out[i].id <= n /\ (pc \in Busy \cup {"write"} => out[i].id < n)
      /\ pc \in Busy => IsCall(input[n])
      /\ pc \in {"factory", "tool", "usage"} => sent = <<>>
      /\ pc = "usage" => input[n].name = "pplx_usage"
      /\ pc = "ask" => \/ asks /\ sent = <<>>
                       \/ check /\ tried = 1 /\ k = 1 /\ sent[1].kind = "usage"
      /\ pc = "bridge" => /\ Bridge = "auto"
                          /\ \/ asks /\ k = 1 /\ sent[1].kind = "ask" /\ sent[1].end = "worthy"
                             \/ /\ check /\ tried = 1 /\ k = 2 /\ sent[1].kind = "usage"
                                /\ sent[2].kind = "ask" /\ sent[2].end = "worthy"
      /\ pc = "check" => /\ check /\ tried \in 0..2 /\ k <= 3
                         /\ tried = 0 => sent = <<>>
                         /\ tried = 1 => k = 1 /\ sent[1].kind = "usage"
                         /\ tried = 2 => k > 1 /\ sent[1].kind = "usage" /\ OneAsk(sent, 2, k)
      /\ pc = "write" /\ resp.id # 0 => resp.id = n /\ PaidFor(resp)

Inv == TypeOK /\ SessionInv /\ OrderInv /\ CallInv /\ CallsPaidFor

-----------------------------------------------------------------------------
LEMMA Responds ==
  ASSUME NEW i, NEW b, Respond(i, b)
  PROVE  pc' = "write" /\ resp' = [id |-> i, body |-> b] /\ resp'.id = i /\ resp'.body = b
BY DEF Respond

LEMMA Dispatches ==
  ASSUME NEW m, NEW i, dispatch(m, i)
  PROVE  \/ pc' = "factory" /\ resp' = resp /\ m.method = "tools/call"
         \/ /\ pc' = "write" /\ resp'.id = i
            /\ m.method # "tools/call" \/ resp'.body = InvalidParams
<1>1. CASE m.method = "tools/call" /\ m.name # "" /\ pc' = "factory" /\ UNCHANGED resp
  BY <1>1
<1>2. CASE m.method = "tools/call" /\ m.name = "" /\ Respond(i, InvalidParams)
  BY <1>2, Responds
<1>3. CASE m.method = "unknown" /\ Respond(i, MethodNotFound)
  BY <1>3, Responds
<1>4. CASE m.method \notin {"tools/call", "unknown"} /\ Respond(i, "result")
  BY <1>4, Responds
<1>5. QED
  BY <1>1, <1>2, <1>3, <1>4 DEF dispatch

\* What a tool hands back is its answer, or one endpoint of the check.
LEMMA Returned ==
  ASSUME NEW end, Returns(end)
  PROVE  \/ /\ pc' = "check" /\ resp' = resp /\ tried' = tried + 1 /\ tried' # 3 /\ msg.name = "pplx_spec_check"
         \/ Respond(Len(input), "result") /\ tried' = tried + 1 /\ tried' = 3 /\ msg.name = "pplx_spec_check"
         \/ /\ Respond(Len(input), IF end = "ok" THEN "result" ELSE InternalError) /\ tried' = tried
            /\ msg.name # "pplx_spec_check"
<1>1. Len(Endpoints) = 3
  BY DEF Endpoints
<1>2. QED
  BY <1>1 DEF Returns

\* The steps of a tool that runs: a request, perhaps the last one, or only the way
\* to the ask of the check.
RunStep(end) == askDirect(end) \/ askViaBridge(end) \/ Usage(end) \/ specCheck(end)

LEMMA Runs ==
  ASSUME NEW end, RunStep(end)
  PROVE  /\ pc \in {"ask", "bridge", "usage", "check"} /\ UNCHANGED <<input, out, client, token, before>>
         /\ \/ pc' \in {"ask", "bridge", "check"} /\ resp' = resp
            \/ \E body \in {"result", InternalError} : Respond(Len(input), body)
         /\ tried' \in {tried, tried + 1}
         /\ calls' = calls \/ \E kind \in {"ask", "bridge", "usage", Endpoints[tried + 1]} : Call(kind, end)
         /\ pc # "check" => \E kind \in {"ask", "bridge", "usage"} : Call(kind, end)
<1> DEFINE handed == /\ tried' \in {tried, tried + 1}
                     /\ \/ pc' = "check" /\ resp' = resp
                        \/ \E body \in {"result", InternalError} : Respond(Len(input), body)
<1>1. Returns(end) => handed
  BY Returned
<1> HIDE DEF handed
<1>2. handed => /\ tried' \in {tried, tried + 1}
                /\ \/ pc' \in {"ask", "bridge", "check"} /\ resp' = resp
                   \/ \E body \in {"result", InternalError} : Respond(Len(input), body)
  BY DEF handed
<1>3. CASE askDirect(end)
  BY <1>1, <1>2, <1>3 DEF askDirect
<1>4. CASE askViaBridge(end)
  BY <1>1, <1>2, <1>4 DEF askViaBridge
<1>5. CASE Usage(end)
  BY <1>1, <1>2, <1>5 DEF Usage
<1>6. CASE specCheck(end)
  BY <1>1, <1>2, <1>6 DEF specCheck
<1>7. QED
  BY <1>3, <1>4, <1>5, <1>6 DEF RunStep

\* The token file only moves on to later sessions.
LEMMA SessionStep == TypeOK /\ SessionInv /\ [Next]_vars => SessionInv'
<1> SUFFICES ASSUME TypeOK, SessionInv, [Next]_vars PROVE SessionInv'
  OBVIOUS
<1>0. client \in Nat /\ token \in Nat /\ before \in Nat
  BY DEF TypeOK
<1>1. ASSUME NEW m \in Messages, ReadLine(m) PROVE SessionInv'
  <2>1. before' = token /\ token' = token /\ handleLine(m, Len(input) + 1)
    BY <1>1 DEF ReadLine
  <2>2. pc' \in {"read", "factory", "write"}
    BY <2>1, Responds, Dispatches DEF handleLine
  <2>3. QED
    BY <1>0, <2>1, <2>2 DEF SessionInv, Upstream
<1>2. CASE factory
  BY <1>0, <1>2 DEF factory, SessionInv, Upstream
<1>3. CASE factoryFails
  BY <1>3 DEF factoryFails, Respond, SessionInv, Upstream
<1>4. CASE callTool
  <2>1. pc = "tool" /\ UNCHANGED <<client, before, token>>
    BY <1>4 DEF callTool
  <2>2. QED
    BY <2>1 DEF SessionInv, Upstream
<1>5. ASSUME NEW end \in Ends, RunStep(end) PROVE SessionInv'
  <2>1. pc \in Upstream /\ UNCHANGED <<client, before, token>>
    BY <1>5, Runs DEF Upstream
  <2>2. QED
    BY <2>1 DEF SessionInv
<1>6. CASE Write
  BY <1>6 DEF Write, SessionInv, Upstream
<1>7. CASE End
  BY <1>7 DEF End, SessionInv, Upstream
<1>8. CASE Login
  BY <1>0, <1>8 DEF Login, SessionInv
<1>9. CASE UNCHANGED vars
  BY <1>9 DEF vars, SessionInv
<1>10. QED
  BY <1>1, <1>2, <1>3, <1>4, <1>5, <1>6, <1>7, <1>8, <1>9 DEF Next, Step, RunStep

-----------------------------------------------------------------------------
(* The order of the responses.                                              *)

LEMMA DueType ==
  ASSUME TypeOK
  PROVE  Ids \in Seq(Nat) /\ Len(Ids) = Len(out) /\ Len(input) \in Nat
<1>1. out \in Seq(Answer) /\ input \in Seq(Messages)
  BY DEF TypeOK
<1>2. \A r \in Answer : r.id \in Nat
  BY DEF Answer
<1>3. Len(out) \in Nat /\ DOMAIN out = 1..Len(out) /\ \A i \in 1..Len(out) : out[i] \in Answer
  BY <1>1
<1>4. Len(input) \in Nat
  BY <1>1
<1>5. Ids \in [1..Len(out) -> Nat]
  BY <1>2, <1>3 DEF Ids
<1>6. \A k \in Nat : \A S : \A s \in [1..k -> S] : s \in Seq(S) /\ Len(s) = k
  OBVIOUS
<1>7. QED
  BY <1>3, <1>4, <1>5, <1>6

\* A line with an id is owed a response, a malformed one a null response, and
\* no other line any.
LEMMA ReadOrder ==
  ASSUME TypeOK, OrderInv, NEW m \in Messages, ReadLine(m)
  PROVE  OrderInv'
<1> DEFINE n == Len(input)
<1>1. pc = "read" /\ input' = Append(input, m) /\ out' = out /\ handleLine(m, n + 1)
  BY DEF ReadLine
<1>2. Ids' = Ids
  BY <1>1 DEF Ids
<1>3. n \in Nat /\ Len(input') = n + 1 /\ Ids \in Seq(Nat)
  BY <1>1, DueType DEF TypeOK
<1>4. Ids = Due(input)
  <2>1. Owed = <<>> /\ Ids \o Owed = Due(input)
    BY <1>1 DEF OrderInv, Owed, Busy
  <2>2. QED
    BY <1>3, <2>1, ConcatEmptySeq
<1>5. Due(input') = Ids \o DueOf(m, n + 1)
  BY <1>1, <1>4, DueMore DEF TypeOK
<1>6. Owed' = DueOf(m, n + 1)
  <2>1. m.form \in {"blank", "junk", "notification", "request"}
    BY McpAssumption
  <2>2. handleLine(m, n + 1)
    BY <1>1
  <2>3. CASE m.form \in {"blank", "notification"}
    <3>1. pc' = "read"
      BY <2>2, <2>3 DEF handleLine
    <3>2. Owed' = <<>>
      BY <3>1 DEF Owed, Busy
    <3>3. QED
      BY <2>3, <3>2 DEF DueOf
  <2>4. CASE m.form = "junk"
    <3>1. Respond(0, ParseError)
      BY <2>2, <2>4 DEF handleLine
    <3>2. pc' = "write" /\ resp'.id = 0
      BY <3>1, Responds
    <3>3. Owed' = <<resp'.id>>
      BY <3>2 DEF Owed, Busy
    <3>4. QED
      BY <2>4, <3>2, <3>3 DEF DueOf
  <2>5. CASE m.form = "request"
    <3>1. dispatch(m, n + 1)
      BY <2>2, <2>5 DEF handleLine
    <3>2. pc' = "factory" \/ (pc' = "write" /\ resp'.id = n + 1)
      BY <3>1, Dispatches
    <3>3. CASE pc' = "factory"
      <4>1. Owed' = <<n + 1>>
        BY <1>3, <3>3 DEF Owed, Busy
      <4>2. QED
        BY <2>5, <4>1 DEF DueOf
    <3>4. CASE pc' = "write" /\ resp'.id = n + 1
      <4>1. Owed' = <<resp'.id>>
        BY <3>4 DEF Owed, Busy
      <4>2. QED
        BY <2>5, <3>4, <4>1 DEF DueOf
    <3>5. QED
      BY <3>2, <3>3, <3>4
  <2>6. QED
    BY <2>1, <2>3, <2>4, <2>5
<1>7. QED
  BY <1>2, <1>5, <1>6 DEF OrderInv

LEMMA OrderStep == TypeOK /\ OrderInv /\ [Next]_vars => OrderInv'
<1> SUFFICES ASSUME TypeOK, OrderInv, [Next]_vars PROVE OrderInv'
  OBVIOUS
<1>1. ASSUME NEW m \in Messages, ReadLine(m) PROVE OrderInv'
  BY <1>1, ReadOrder
<1>2. CASE factory \/ factoryFails \/ callTool \/ \E end \in Ends : RunStep(end)
  <2> DEFINE Answered == pc' = "write" /\ resp'.id = Len(input)
  <2>1. pc \in Busy /\ input' = input /\ out' = out /\ (pc' \in Busy \/ Answered)
    <3>1. CASE factory
      BY <3>1 DEF factory, Busy
    <3>2. CASE factoryFails
      BY <3>2, Responds DEF factoryFails, Busy
    <3>3. CASE callTool
      BY <3>3, Responds DEF callTool, Busy
    <3>4. ASSUME NEW end \in Ends, RunStep(end) PROVE pc \in Busy /\ input' = input /\ out' = out /\ (pc' \in Busy \/ Answered)
      BY <3>4, Runs, Responds DEF Busy
    <3> HIDE DEF Answered
    <3>7. QED
      BY <1>2, <3>1, <3>2, <3>3, <3>4
  <2>2. Owed = <<Len(input)>>
    BY <2>1 DEF Owed, Busy
  <2>3. Owed' = <<Len(input)>>
    <3>1. CASE pc' \in Busy
      BY <2>1, <3>1 DEF Owed, Busy
    <3>2. CASE Answered
      BY <3>2 DEF Owed, Busy
    <3>3. QED
      BY <2>1, <3>1, <3>2
  <2>4. Ids' = Ids /\ pc # "ended"
    BY <2>1 DEF Ids, Busy
  <2>5. QED
    BY <2>1, <2>2, <2>3, <2>4 DEF OrderInv
<1>3. CASE Write
  <2>1. pc = "write" /\ out' = Append(out, resp) /\ pc' = "read" /\ input' = input
    BY <1>3 DEF Write
  <2>2. Owed = <<resp.id>> /\ Owed' = <<>>
    BY <2>1 DEF Owed, Busy
  <2> DEFINE more == Append(out, resp)
             k == Len(out)
  <2>3. out \in Seq(Answer) /\ resp \in Answer
    BY DEF TypeOK
  <2>4. resp.id \in Nat /\ \A r \in Answer : r.id \in Nat
    BY <2>3 DEF Answer
  <2>5. k \in Nat /\ DOMAIN more = 1..(k + 1) /\ DOMAIN out = 1..k /\ more[k + 1] = resp /\ \A i \in 1..k : more[i] = out[i]
    BY <2>3
  <2>6. Ids \in Seq(Nat) /\ Len(Ids) = k /\ Append(Ids, resp.id) = Ids \o <<resp.id>> /\ Append(Ids, resp.id) \in Seq(Nat)
    <3>1. Ids \in Seq(Nat) /\ Len(Ids) = k
      BY DueType
    <3>2. \A s \in Seq(Nat) : \A e \in Nat : Append(s, e) = s \o <<e>> /\ Append(s, e) \in Seq(Nat)
      OBVIOUS
    <3>3. QED
      BY <2>4, <3>1, <3>2
  <2>7. Ids' = Append(Ids, resp.id)
    <3> HIDE DEF more, k
    <3>1. Ids' = [i \in 1..(k + 1) |-> more[i].id]
      BY <2>1, <2>5 DEF Ids, more
    <3>2. \A i \in 1..k : Ids[i] = out[i].id
      BY <2>5 DEF Ids
    <3>3. DOMAIN Append(Ids, resp.id) = 1..(k + 1)
      BY <2>4, <2>5, <2>6
    <3>4. \A i \in 1..(k + 1) : Append(Ids, resp.id)[i] = IF i = k + 1 THEN resp.id ELSE Ids[i]
      BY <2>4, <2>5, <2>6
    <3>5. \A i \in 1..(k + 1) : i \in 1..k \/ i = k + 1
      BY <2>5
    <3>6. \A i \in 1..(k + 1) : Append(Ids, resp.id)[i] = more[i].id
      <4>1. ASSUME NEW i \in 1..(k + 1) PROVE Append(Ids, resp.id)[i] = more[i].id
        <5>1. CASE i = k + 1
          BY <2>5, <3>4, <5>1
        <5>2. CASE i \in 1..k /\ i # k + 1
          BY <2>5, <3>2, <3>4, <5>2
        <5>3. QED
          BY <3>5, <5>1, <5>2
      <4>2. QED
        BY <4>1
    <3>7. \A S : \A s \in Seq(S) : s = [i \in DOMAIN s |-> s[i]]
      OBVIOUS
    <3>8. Append(Ids, resp.id) = [i \in 1..(k + 1) |-> Append(Ids, resp.id)[i]]
      BY <2>6, <3>3, <3>7
    <3>9. QED
      BY <3>1, <3>6, <3>8
  <2>8. Ids' \o Owed' = Ids \o Owed
    BY <2>2, <2>6, <2>7, ConcatEmptySeq
  <2>9. QED
    BY <2>1, <2>8 DEF OrderInv
<1>4. CASE End
  BY <1>4 DEF End, OrderInv
<1>5. CASE Login \/ UNCHANGED vars
  <2>1. UNCHANGED <<pc, input, resp, out>>
    BY <1>5 DEF Login, vars
  <2>2. QED
    BY <2>1 DEF OrderInv, Owed, Ids
<1>6. QED
  BY <1>1, <1>2, <1>3, <1>4, <1>5 DEF Next, Step, RunStep

-----------------------------------------------------------------------------
(* The types.                                                               *)

LEMMA AnswerType ==
  ASSUME NEW i \in Nat, NEW b \in Bodies, Respond(i, b)
  PROVE  resp' \in Answer
BY Responds DEF Answer

\* A request is added to those of the line under way, and to no other's.
LEMMA CallType ==
  ASSUME NEW kind \in Kinds, NEW end \in Ends, TypeOK, Len(input) > 0, Call(kind, end)
  PROVE  /\ calls' \in Seq(Seq(Request)) /\ Len(calls') = Len(input)
         /\ calls[Len(input)] \in Seq(Request)
         /\ calls'[Len(input)] = Append(calls[Len(input)], [kind |-> kind, end |-> end])
         /\ \A i \in 1..Len(input) : i # Len(input) => calls'[i] = calls[i]
<1> DEFINE n == Len(input)
           r == [kind |-> kind, end |-> end]
<1>1. calls \in Seq(Seq(Request)) /\ Len(calls) = n /\ n \in Nat /\ n > 0
  BY DEF TypeOK
<1>2. r \in Request
  BY DEF Request
<1>3. calls' = [calls EXCEPT ![n] = Append(calls[n], r)]
  BY DEF Call
<1> HIDE DEF r
<1>4. n \in 1..n /\ DOMAIN calls = 1..n /\ calls[n] \in Seq(Request)
  BY <1>1
<1> HIDE DEF n
<1>5. Append(calls[n], r) \in Seq(Request)
  BY <1>2, <1>4
<1>6. \A S : \A s \in Seq(S) : \A i \in DOMAIN s : \A e \in S : [s EXCEPT ![i] = e] \in Seq(S) /\ Len([s EXCEPT ![i] = e]) = Len(s)
  OBVIOUS
<1>7. calls' \in Seq(Seq(Request)) /\ Len(calls') = n
  BY <1>1, <1>3, <1>4, <1>5, <1>6
<1>8. calls'[n] = Append(calls[n], r) /\ \A i \in 1..n : i # n => calls'[i] = calls[i]
  BY <1>3, <1>4
<1>9. QED
  BY <1>4, <1>7, <1>8 DEF n, r

\* The check has an endpoint to try.
LEMMA CheckKind == CallInv /\ pc = "check" => tried \in 0..2 /\ Endpoints[tried + 1] \in Kinds
<1> SUFFICES ASSUME CallInv, pc = "check" PROVE tried \in 0..2 /\ Endpoints[tried + 1] \in Kinds
  OBVIOUS
<1>1. tried \in 0..2
  BY DEF CallInv
<1>2. Endpoints[1] = "usage" /\ Endpoints[2] = "ask" /\ Endpoints[3] = "threads"
  BY DEF Endpoints
<1>3. tried + 1 = 1 \/ tried + 1 = 2 \/ tried + 1 = 3
  BY <1>1
<1>4. QED
  BY <1>1, <1>2, <1>3 DEF Kinds

LEMMA TypeStep == TypeOK /\ CallInv /\ [Next]_vars => TypeOK'
<1> SUFFICES ASSUME TypeOK, CallInv, [Next]_vars PROVE TypeOK'
  OBVIOUS
<1> DEFINE n == Len(input)
<1>0. /\ input \in Seq(Messages) /\ out \in Seq(Answer) /\ resp \in Answer /\ n \in Nat
      /\ calls \in Seq(Seq(Request)) /\ Len(calls) = n
      /\ client \in Nat /\ tried \in Nat /\ token \in Nat /\ before \in Nat
      /\ pc \in Busy \cup {"read", "write", "ended"}
      /\ (pc \in Busy \cup {"write"} => n > 0)
  BY DEF TypeOK
<1>a. {"result", ParseError, MethodNotFound, InvalidParams, InternalError} \subseteq Bodies
  BY DEF Bodies
<1> HIDE DEF n
<1>1. ASSUME NEW m \in Messages, ReadLine(m) PROVE TypeOK'
  <2>1. /\ input' = Append(input, m) /\ before' = token /\ calls' = Append(calls, <<>>)
        /\ handleLine(m, n + 1) /\ UNCHANGED <<out, client, tried, token>>
    BY <1>1 DEF ReadLine, n
  <2>2. input' \in Seq(Messages) /\ Len(input') = n + 1
    BY <1>0, <2>1 DEF n
  <2>3. calls' \in Seq(Seq(Request)) /\ Len(calls') = n + 1
    <3>1. \A s \in Seq(Seq(Request)) : \A e \in Seq(Request) : Append(s, e) \in Seq(Seq(Request)) /\ Len(Append(s, e)) = Len(s) + 1
      OBVIOUS
    <3>2. QED
      BY <1>0, <2>1, <3>1
  <2>4. resp' \in Answer /\ pc' \in {"read", "write", "factory"}
    <3>1. n + 1 \in Nat /\ 0 \in Nat
      BY <1>0
    <3>2. CASE m.form \in {"blank", "notification"} /\ pc' = "read" /\ UNCHANGED resp
      BY <1>0, <3>2
    <3>3. CASE Respond(0, ParseError)
      BY <1>a, <3>1, <3>3, AnswerType, Responds
    <3>4. CASE dispatch(m, n + 1)
      <4>1. CASE pc' = "factory" /\ UNCHANGED resp
        BY <1>0, <4>1
      <4>2. ASSUME NEW b \in {"result", MethodNotFound, InvalidParams}, Respond(n + 1, b) PROVE resp' \in Answer /\ pc' = "write"
        BY <1>a, <3>1, <4>2, AnswerType, Responds
      <4>3. QED
        BY <3>4, <4>1, <4>2 DEF dispatch
    <3>5. QED
      BY <2>1, <3>2, <3>3, <3>4 DEF handleLine
  <2>5. n + 1 > 0
    BY <1>0
  <2>6. QED
    BY <1>0, <2>1, <2>2, <2>3, <2>4, <2>5 DEF TypeOK, Busy
<1>2. CASE factory
  BY <1>0, <1>2 DEF factory, TypeOK, Busy, n
<1>3. CASE factoryFails
  <2>1. resp' \in Answer /\ pc' = "write"
    BY <1>0, <1>3, <1>a, AnswerType, Responds DEF factoryFails, n
  <2>2. pc = "factory" /\ UNCHANGED <<input, out, client, tried, calls, token, before>>
    BY <1>3 DEF factoryFails
  <2>3. QED
    BY <1>0, <2>1, <2>2 DEF TypeOK, Busy, n
<1>4. CASE callTool
  <2>1. pc = "tool" /\ tried' = 0 /\ UNCHANGED <<input, out, client, calls, token, before>>
    BY <1>4 DEF callTool
  <2>2. resp' \in Answer /\ pc' \in {"ask", "usage", "check", "write"}
    <3>1. CASE pc' \in {"ask", "usage", "check"} /\ UNCHANGED resp
      BY <1>0, <3>1
    <3>2. CASE Respond(n, InvalidParams)
      BY <1>0, <1>a, <3>2, AnswerType, Responds
    <3>3. QED
      BY <1>4, <3>1, <3>2 DEF callTool, n
  <2>3. QED
    BY <1>0, <2>1, <2>2 DEF TypeOK, Busy, n
<1>5. ASSUME NEW end \in Ends, RunStep(end) PROVE TypeOK'
  <2>1. /\ pc \in {"ask", "bridge", "usage", "check"} /\ UNCHANGED <<input, out, client, token, before>>
        /\ tried' \in {tried, tried + 1} /\ n > 0
    BY <1>0, <1>5, Runs DEF Busy
  <2>2. calls' \in Seq(Seq(Request)) /\ Len(calls') = n
    <3>1. calls' = calls \/ \E kind \in Kinds : Call(kind, end)
      <4>1. CASE pc = "check"
        BY <1>5, <4>1, Runs, CheckKind DEF Kinds
      <4>2. CASE pc # "check"
        BY <1>5, <4>2, Runs DEF Kinds
      <4>3. QED
        BY <4>1, <4>2
    <3>2. CASE calls' = calls
      BY <1>0, <3>2
    <3>3. CASE \E kind \in Kinds : Call(kind, end)
      <4>1. PICK kind \in Kinds : Call(kind, end)
        BY <3>3
      <4>2. Len(input) > 0
        BY <2>1 DEF n
      <4>3. calls' \in Seq(Seq(Request)) /\ Len(calls') = Len(input)
        BY <1>5, <4>1, <4>2, CallType
      <4>4. QED
        BY <4>3 DEF n
    <3>4. QED
      BY <3>1, <3>2, <3>3
  <2>3. resp' \in Answer /\ pc' \in {"ask", "bridge", "check", "write"}
    <3>1. CASE \E body \in {"result", InternalError} : Respond(n, body)
      BY <1>0, <1>a, <3>1, AnswerType, Responds
    <3>2. CASE pc' \in {"ask", "bridge", "check"} /\ resp' = resp
      BY <1>0, <3>2
    <3>3. QED
      BY <1>5, <3>1, <3>2, Runs DEF n
  <2>4. QED
    BY <1>0, <2>1, <2>2, <2>3 DEF TypeOK, Busy, n
<1>6. CASE Write
  <2>1. pc = "write" /\ out' = Append(out, resp) /\ pc' = "read" /\ UNCHANGED <<input, resp, client, tried, calls, token, before>>
    BY <1>6 DEF Write
  <2>2. out' \in Seq(Answer)
    BY <1>0, <2>1
  <2>3. QED
    BY <1>0, <2>1, <2>2 DEF TypeOK, Busy, n
<1>7. CASE End
  BY <1>0, <1>7 DEF End, TypeOK, Busy, n
<1>8. CASE Login
  <2>1. token' \in Nat /\ UNCHANGED <<pc, input, resp, out, client, tried, calls, before>>
    BY <1>0, <1>8 DEF Login
  <2>2. QED
    BY <1>0, <2>1 DEF TypeOK, n
<1>9. CASE UNCHANGED vars
  BY <1>0, <1>9 DEF vars, TypeOK, n
<1>10. QED
  BY <1>1, <1>2, <1>3, <1>4, <1>5, <1>6, <1>7, <1>8, <1>9 DEF Next, Step, RunStep

-----------------------------------------------------------------------------
(* What was sent.                                                           *)

\* Nothing sent pays for an error, and for what is no tool call.
LEMMA PaidNothing ==
  ASSUME NEW m, NEW body, ~IsCall(m) \/ body \in {InvalidParams, InternalError}
  PROVE  Paid(m, <<>>, body)
BY DEF Paid, InvalidParams, InternalError

\* A tool pays with the requests it is made of.
LEMMA PaidKinds ==
  ASSUME NEW m, NEW sent, NEW body, IsCall(m), body \in {"result", InternalError}, Len(sent) \in Nat,
         \/ /\ (body = "result") = (sent[Len(sent)].end = "ok")
            /\ \/ m.name \in Asks /\ m.query /\ Len(sent) > 0 /\ OneAsk(sent, 1, Len(sent))
               \/ m.name = "pplx_usage" /\ Len(sent) = 1 /\ sent[1].kind = "usage"
         \/ /\ m.name = "pplx_spec_check" /\ Len(sent) > 2 /\ sent[1].kind = "usage"
            /\ sent[Len(sent)].kind = "threads" /\ OneAsk(sent, 2, Len(sent) - 1)
  PROVE  Paid(m, sent, body)
<1>1. body # InvalidParams
  BY DEF InvalidParams, InternalError
<1>2. CASE m.name \in Asks
  BY <1>1, <1>2 DEF Paid, Asks
<1>3. CASE m.name = "pplx_usage"
  BY <1>1, <1>3 DEF Paid, Asks
<1>4. CASE m.name = "pplx_spec_check"
  BY <1>1, <1>4 DEF Paid, Asks
<1>5. QED
  BY <1>2, <1>3, <1>4

\* A response once paid for stays so: the requests of its line are all sent.
LEMMA StaysPaid ==
  ASSUME CallsPaidFor, out' = out,
         \A i \in DOMAIN out : out[i].id # 0 =>
            input'[out[i].id] = input[out[i].id] /\ calls'[out[i].id] = calls[out[i].id]
  PROVE  CallsPaidFor'
<1>1. SUFFICES ASSUME NEW i \in DOMAIN out, out[i].id # 0 PROVE Paid(input'[out[i].id], calls'[out[i].id], out[i].body)
  BY DEF CallsPaidFor, PaidFor
<1>2. Paid(input[out[i].id], calls[out[i].id], out[i].body)
  BY <1>1 DEF CallsPaidFor, PaidFor
<1>3. QED
  BY <1>1, <1>2

\* While a line is worked on, only its own requests change.
LEMMA BusyPaid ==
  ASSUME TypeOK, CallInv, CallsPaidFor, pc \in Busy \cup {"write"}, out' = out, input' = input,
         \A i \in 1..Len(input) : i # Len(input) => calls'[i] = calls[i]
  PROVE  CallsPaidFor'
<1>1. ASSUME NEW i \in DOMAIN out, out[i].id # 0 PROVE out[i].id \in 1..Len(input) /\ out[i].id # Len(input)
  <2>1. out[i].id < Len(input)
    BY DEF CallInv
  <2>2. out[i].id \in Nat /\ Len(input) \in Nat
    <3>1. out \in Seq(Answer) /\ input \in Seq(Messages)
      BY DEF TypeOK
    <3>2. out[i] \in Answer /\ Len(input) \in Nat
      BY <1>1, <3>1
    <3>3. QED
      BY <3>2 DEF Answer
  <2>3. QED
    BY <1>1, <2>1, <2>2
<1>2. QED
  BY <1>1, StaysPaid

\* A response under way for the line: the facts CallInv asks of it.
LEMMA Responded ==
  ASSUME TypeOK, CallInv, pc \in Busy, input' = input, out' = out, NEW body, Respond(Len(input), body),
         Paid(input[Len(input)], calls'[Len(input)], body)
  PROVE  CallInv'
<1> DEFINE n == Len(input)
<1>1. pc' = "write" /\ resp'.id = n /\ resp'.body = body
  BY Responds
<1>2. \A i \in DOMAIN out : out[i].id <= n /\ out[i].id < n
  BY DEF CallInv
<1>3. PaidFor(resp)'
  BY <1>1 DEF PaidFor
<1>4. pc' \notin Busy /\ pc' \notin {"factory", "tool", "ask", "bridge", "usage", "check"}
  BY <1>1 DEF Busy
<1> HIDE DEF n
<1>5. Len(input') = n
  BY DEF n
<1>6. QED
  BY <1>1, <1>2, <1>3, <1>4, <1>5 DEF CallInv

-----------------------------------------------------------------------------
(* Each action, and what was sent.                                          *)

LEMMA ReadCalls ==
  ASSUME TypeOK, CallInv, CallsPaidFor, NEW m \in Messages, ReadLine(m)
  PROVE  CallInv' /\ CallsPaidFor'
<1> DEFINE n == Len(input)
<1>1. /\ pc = "read" /\ input' = Append(input, m) /\ calls' = Append(calls, <<>>) /\ out' = out
      /\ handleLine(m, n + 1)
  BY DEF ReadLine
<1>2. input \in Seq(Messages) /\ calls \in Seq(Seq(Request)) /\ Len(calls) = n /\ n \in Nat /\ out \in Seq(Answer)
  BY DEF TypeOK
<1>3. \A i \in DOMAIN out : out[i].id <= n /\ out[i].id \in Nat
  <2>1. \A i \in DOMAIN out : out[i].id <= n
    BY DEF CallInv
  <2>2. \A i \in DOMAIN out : out[i] \in Answer
    BY <1>2
  <2>3. QED
    BY <2>1, <2>2 DEF Answer
<1>4. Len(input') = n + 1 /\ input'[n + 1] = m /\ \A i \in 1..n : input'[i] = input[i]
  BY <1>1, <1>2
<1>5. calls'[n + 1] = <<>> /\ \A i \in 1..n : calls'[i] = calls[i]
  BY <1>1, <1>2
<1> HIDE DEF n
<1>6. CallsPaidFor'
  <2>1. ASSUME NEW i \in DOMAIN out, out[i].id # 0 PROVE out[i].id \in 1..n
    BY <1>2, <1>3, <2>1
  <2>2. QED
    BY <1>1, <1>4, <1>5, <2>1, StaysPaid
<1>7. \A i \in DOMAIN out : out[i].id <= n + 1 /\ out[i].id < n + 1
  BY <1>2, <1>3
<1>8. /\ pc' \in {"read", "factory", "write"}
      /\ (pc' = "factory" => IsCall(m))
      /\ (pc' = "write" /\ resp'.id # 0 => resp'.id = n + 1 /\ Paid(m, <<>>, resp'.body))
  <2>1. CASE m.form \in {"blank", "notification"} /\ pc' = "read" /\ UNCHANGED resp
    BY <2>1
  <2>2. CASE Respond(0, ParseError)
    BY <2>2, Responds
  <2>3. CASE m.form = "request" /\ dispatch(m, n + 1)
    <3>1. CASE pc' = "factory" /\ m.method = "tools/call"
      BY <2>3, <3>1 DEF IsCall
    <3>2. CASE pc' = "write" /\ resp'.id = n + 1 /\ (m.method # "tools/call" \/ resp'.body = InvalidParams)
      <4>1. ~IsCall(m) \/ resp'.body \in {InvalidParams, InternalError}
        BY <3>2 DEF IsCall
      <4>2. QED
        BY <3>2, <4>1, PaidNothing
    <3>3. QED
      BY <2>3, <3>1, <3>2, Dispatches
  <2>4. QED
    BY <1>1, <2>1, <2>2, <2>3 DEF handleLine
<1>9. CallInv'
  <2>1. pc' \in Busy => pc' = "factory"
    BY <1>8 DEF Busy
  <2>2. pc' \notin {"ask", "bridge", "usage", "check"}
    BY <1>8
  <2>3. pc' = "write" /\ resp'.id # 0 => PaidFor(resp)'
    BY <1>4, <1>5, <1>8 DEF PaidFor
  <2>4. QED
    BY <1>1, <1>4, <1>5, <1>7, <1>8, <2>1, <2>2, <2>3 DEF CallInv
<1>10. QED
  BY <1>6, <1>9

\* The tool runs, or is refused, before anything is sent.
LEMMA ToolCalls ==
  ASSUME TypeOK, CallInv, CallsPaidFor, factory \/ factoryFails \/ callTool
  PROVE  CallInv' /\ CallsPaidFor'
<1> DEFINE n == Len(input)
<1>1. pc \in Busy /\ UNCHANGED <<input, out, calls>> /\ pc \in {"factory", "tool"}
  BY DEF factory, factoryFails, callTool, Busy
<1>2. CallsPaidFor'
  BY <1>1, BusyPaid
<1>3. /\ \A i \in DOMAIN out : out[i].id <= n /\ out[i].id < n
      /\ IsCall(input[n]) /\ calls[n] = <<>>
  BY <1>1 DEF CallInv
<1>4. ASSUME NEW body \in {InvalidParams, InternalError}, Respond(n, body) PROVE CallInv'
  <2>1. Paid(input[n], calls'[n], body)
    BY <1>1, <1>3, PaidNothing
  <2>2. QED
    BY <1>1, <1>4, <2>1, Responded
<1>5. ASSUME pc' \in Busy \ {"bridge"}, pc' = "ask" => input[n].name \in Asks /\ input[n].query,
             pc' = "usage" => input[n].name = "pplx_usage",
             pc' = "check" => input[n].name = "pplx_spec_check" /\ tried' = 0
      PROVE  CallInv'
  <2>1. pc' # "write" /\ pc' # "bridge"
    BY <1>5 DEF Busy
  <2> HIDE DEF n
  <2>2. Len(input') = n /\ input' = input /\ out' = out /\ calls' = calls
    BY <1>1 DEF n
  <2>3. calls'[n] = <<>> /\ Len(calls'[n]) = 0
    BY <1>3, <2>2
  <2>4. QED
    BY <1>3, <1>5, <2>1, <2>2, <2>3 DEF CallInv
<1>6. CASE factory
  BY <1>2, <1>5, <1>6 DEF factory, Busy
<1>7. CASE factoryFails
  BY <1>2, <1>4, <1>7 DEF factoryFails
<1>8. CASE callTool
  <2>1. CASE Respond(n, InvalidParams)
    BY <1>2, <1>4, <2>1
  <2>2. CASE input[n].name \in Asks /\ input[n].query /\ pc' = "ask"
    BY <1>2, <1>5, <2>2 DEF Busy
  <2>3. CASE input[n].name = "pplx_usage" /\ pc' = "usage"
    BY <1>2, <1>5, <2>3 DEF Busy
  <2>4. CASE input[n].name = "pplx_spec_check" /\ pc' = "check" /\ tried' = 0
    BY <1>2, <1>5, <2>4 DEF Busy
  <2>5. msg = input[n]
    BY DEF msg, Last
  <2>6. QED
    BY <1>8, <2>1, <2>2, <2>3, <2>4, <2>5 DEF callTool
<1>9. QED
  BY <1>2, <1>6, <1>7, <1>8

\* What a request adds to those of the line under way.
LEMMA Sends ==
  ASSUME TypeOK, CallInv, CallsPaidFor, NEW end \in Ends, NEW kind \in Kinds, pc \in Busy,
         Call(kind, end), UNCHANGED <<input, out>>
  PROVE  LET sent == calls[Len(input)]
             more == calls'[Len(input)]
             k    == Len(sent)
         IN  /\ CallsPaidFor'
             /\ k \in Nat /\ (sent = <<>> => k = 0) /\ Len(more) = k + 1
             /\ more[k + 1].kind = kind /\ more[k + 1].end = end
             /\ \A i \in 1..k : more[i] = sent[i]
<1> DEFINE n == Len(input)
           sent == calls[n]
           more == calls'[n]
           r == [kind |-> kind, end |-> end]
<1>1. n > 0
  BY DEF TypeOK
<1>2. sent \in Seq(Request) /\ more = Append(sent, r) /\ \A i \in 1..n : i # n => calls'[i] = calls[i]
  BY <1>1, CallType
<1>3. CallsPaidFor'
  BY <1>2, BusyPaid
<1> HIDE DEF sent, more
<1>4. /\ Len(sent) \in Nat /\ (sent = <<>> => Len(sent) = 0) /\ Len(more) = Len(sent) + 1
      /\ more[Len(sent) + 1] = r /\ \A i \in 1..Len(sent) : more[i] = sent[i]
  BY <1>2
<1>5. QED
  BY <1>3, <1>4 DEF sent, more

\* The request that ends an ask ends the tool, or leads on in the check.
LEMMA AskEnds ==
  ASSUME TypeOK, CallInv, CallsPaidFor, pc \in Busy, UNCHANGED <<input, out>>, NEW end \in Ends, Returns(end),
         LET m    == input[Len(input)]
             more == calls'[Len(input)]
             k    == Len(more)
         IN  /\ k \in Nat /\ more[k].end = end
             /\ \/ m.name \in Asks /\ m.query /\ k > 0 /\ OneAsk(more, 1, k)
                \/ m.name = "pplx_usage" /\ k = 1 /\ more[1].kind = "usage"
                \/ /\ m.name = "pplx_spec_check" /\ tried = 1 /\ k \in 2..3 /\ more[1].kind = "usage"
                   /\ OneAsk(more, 2, k)
  PROVE  CallInv'
<1> DEFINE n == Len(input)
           m == input[n]
           more == calls'[n]
           k == Len(more)
           body == IF end = "ok" THEN "result" ELSE InternalError
<1>1. msg = m /\ IsCall(m)
  BY DEF msg, Last, CallInv
<1>2. body \in {"result", InternalError} /\ ((body = "result") = (end = "ok"))
  BY DEF InternalError
<1>3. CASE m.name # "pplx_spec_check"
  <2>1. Respond(n, body)
    BY <1>1, <1>3, Returned
  <2>2. Paid(m, more, body)
    <3> HIDE DEF n, m, more, k, body
    <3>1. /\ k \in Nat /\ more[k].end = end
          /\ \/ m.name \in Asks /\ m.query /\ k > 0 /\ OneAsk(more, 1, k)
             \/ m.name = "pplx_usage" /\ k = 1 /\ more[1].kind = "usage"
      BY <1>3 DEF n, m, more, k
    <3>2. QED
      BY <1>1, <1>2, <3>1, PaidKinds DEF k
  <2>3. QED
    BY <2>1, <2>2, Responded
<1>4. CASE m.name = "pplx_spec_check"
  <2>1. /\ k \in 2..3 /\ more[1].kind = "usage" /\ OneAsk(more, 2, k) /\ tried = 1
    BY <1>4 DEF Asks
  <2>2. pc' = "check" /\ tried' = 2
    BY <1>1, <1>4, <2>1, Returned
  <2>3. \A i \in DOMAIN out : out[i].id <= n /\ out[i].id < n
    BY DEF CallInv
  <2> HIDE DEF n, m, more, k, body
  <2>4. Len(input') = n /\ input' = input /\ out' = out /\ calls'[n] = more /\ Len(more) = k
    BY DEF n, more, k
  <2>5. QED
    BY <1>1, <1>4, <2>1, <2>2, <2>3, <2>4 DEF CallInv, m
<1>5. QED
  BY <1>3, <1>4

LEMMA DirectCalls ==
  ASSUME TypeOK, CallInv, CallsPaidFor, NEW end \in Ends, askDirect(end)
  PROVE  CallInv' /\ CallsPaidFor'
<1> DEFINE n == Len(input)
           m == input[n]
           sent == calls[n]
           more == calls'[n]
           k == Len(sent)
<1>1. /\ pc = "ask" /\ Bridge # "always" /\ Call("ask", end) /\ UNCHANGED <<input, out>>
      /\ IF Bridge = "auto" /\ end = "worthy" THEN pc' = "bridge" /\ UNCHANGED <<resp, tried>> ELSE Returns(end)
  BY DEF askDirect
<1>2. pc \in Busy /\ "ask" \in Kinds
  BY <1>1 DEF Busy, Kinds
<1>3. /\ CallsPaidFor'
      /\ k \in Nat /\ (sent = <<>> => k = 0) /\ Len(more) = k + 1
      /\ more[k + 1].kind = "ask" /\ more[k + 1].end = end
      /\ \A i \in 1..k : more[i] = sent[i]
  BY <1>1, <1>2, Sends
<1>4. /\ \/ m.name \in Asks /\ m.query /\ sent = <<>>
         \/ m.name = "pplx_spec_check" /\ tried = 1 /\ k = 1 /\ sent[1].kind = "usage"
      /\ IsCall(m) /\ \A i \in DOMAIN out : out[i].id <= n /\ out[i].id < n
  BY <1>1, <1>2 DEF CallInv
<1>5. CASE Bridge = "auto" /\ end = "worthy"
  <2>1. pc' = "bridge" /\ tried' = tried
    BY <1>1, <1>5
  <2> HIDE DEF n, m, sent, more, k
  <2>2. Len(input') = n /\ input' = input /\ out' = out /\ calls'[n] = more
    BY <1>1 DEF n, more
  <2>3. \/ m.name \in Asks /\ m.query /\ Len(more) = 1 /\ more[1].kind = "ask" /\ more[1].end = "worthy"
        \/ /\ m.name = "pplx_spec_check" /\ tried' = 1 /\ Len(more) = 2 /\ more[1].kind = "usage"
           /\ more[2].kind = "ask" /\ more[2].end = "worthy"
    BY <1>3, <1>4, <1>5, <2>1
  <2>4. CallInv'
    BY <1>4, <1>5, <2>1, <2>2, <2>3 DEF CallInv, m
  <2>5. QED
    BY <1>3, <2>4
<1>6. CASE ~(Bridge = "auto" /\ end = "worthy")
  <2>1. Returns(end)
    BY <1>1, <1>6
  <2> HIDE DEF n, m, sent, more, k
  <2>2. \/ m.name \in Asks /\ m.query /\ Len(more) = 1 /\ OneAsk(more, 1, 1)
        \/ m.name = "pplx_spec_check" /\ tried = 1 /\ Len(more) = 2 /\ more[1].kind = "usage" /\ OneAsk(more, 2, 2)
    BY <1>1, <1>3, <1>4, <1>6 DEF OneAsk
  <2>3. more[Len(more)].end = end /\ Len(more) \in Nat
    BY <1>3
  <2>4. CallInv'
    <3>1. /\ Len(more) \in Nat /\ more[Len(more)].end = end
          /\ \/ m.name \in Asks /\ m.query /\ Len(more) > 0 /\ OneAsk(more, 1, Len(more))
             \/ m.name = "pplx_usage" /\ Len(more) = 1 /\ more[1].kind = "usage"
             \/ /\ m.name = "pplx_spec_check" /\ tried = 1 /\ Len(more) \in 2..3 /\ more[1].kind = "usage"
                /\ OneAsk(more, 2, Len(more))
      <4>1. CASE m.name \in Asks /\ m.query /\ Len(more) = 1 /\ OneAsk(more, 1, 1)
        <5>1. Len(more) > 0 /\ OneAsk(more, 1, Len(more))
          BY <4>1
        <5>2. QED
          BY <2>3, <4>1, <5>1
      <4>2. CASE m.name = "pplx_spec_check" /\ tried = 1 /\ Len(more) = 2 /\ more[1].kind = "usage" /\ OneAsk(more, 2, 2)
        <5>1. Len(more) \in 2..3 /\ OneAsk(more, 2, Len(more))
          BY <4>2
        <5>2. QED
          BY <2>3, <4>2, <5>1
      <4>3. QED
        BY <2>2, <4>1, <4>2
    <3>2. QED
      BY <1>1, <1>2, <2>1, <3>1, AskEnds DEF n, m, more
  <2>5. QED
    BY <1>3, <2>4
<1>7. QED
  BY <1>5, <1>6

LEMMA BridgeCalls ==
  ASSUME TypeOK, CallInv, CallsPaidFor, NEW end \in Ends, askViaBridge(end)
  PROVE  CallInv' /\ CallsPaidFor'
<1> DEFINE n == Len(input)
           m == input[n]
           sent == calls[n]
           more == calls'[n]
           k == Len(sent)
<1>1. /\ pc = (IF Bridge = "always" THEN "ask" ELSE "bridge") /\ Call("bridge", end) /\ UNCHANGED <<input, out>>
      /\ Returns(end)
  BY DEF askViaBridge
<1>2. pc \in Busy /\ "bridge" \in Kinds
  BY <1>1 DEF Busy, Kinds
<1>3. /\ CallsPaidFor'
      /\ k \in Nat /\ (sent = <<>> => k = 0) /\ Len(more) = k + 1
      /\ more[k + 1].kind = "bridge" /\ more[k + 1].end = end
      /\ \A i \in 1..k : more[i] = sent[i]
  BY <1>1, <1>2, Sends
<1>4. /\ pc = "ask" => \/ m.name \in Asks /\ m.query /\ sent = <<>>
                       \/ m.name = "pplx_spec_check" /\ tried = 1 /\ k = 1 /\ sent[1].kind = "usage"
      /\ pc = "bridge" => /\ Bridge = "auto"
                          /\ \/ m.name \in Asks /\ m.query /\ k = 1 /\ sent[1].kind = "ask" /\ sent[1].end = "worthy"
                             \/ /\ m.name = "pplx_spec_check" /\ tried = 1 /\ k = 2 /\ sent[1].kind = "usage"
                                /\ sent[2].kind = "ask" /\ sent[2].end = "worthy"
  BY DEF CallInv
<1> HIDE DEF n, m, sent, more, k
<1>5. /\ Len(more) \in Nat /\ more[Len(more)].end = end
      /\ \/ m.name \in Asks /\ m.query /\ Len(more) > 0 /\ OneAsk(more, 1, Len(more))
         \/ m.name = "pplx_usage" /\ Len(more) = 1 /\ more[1].kind = "usage"
         \/ /\ m.name = "pplx_spec_check" /\ tried = 1 /\ Len(more) \in 2..3 /\ more[1].kind = "usage"
            /\ OneAsk(more, 2, Len(more))
  <2>1. CASE Bridge = "always"
    <3>1. \/ m.name \in Asks /\ m.query /\ k = 0
          \/ m.name = "pplx_spec_check" /\ tried = 1 /\ k = 1 /\ sent[1].kind = "usage"
      BY <1>1, <1>3, <1>4, <2>1
    <3>2. QED
      BY <1>3, <2>1, <3>1 DEF OneAsk
  <2>2. CASE Bridge # "always"
    <3>1. /\ Bridge = "auto"
          /\ \/ m.name \in Asks /\ m.query /\ k = 1 /\ sent[1].kind = "ask" /\ sent[1].end = "worthy"
             \/ /\ m.name = "pplx_spec_check" /\ tried = 1 /\ k = 2 /\ sent[1].kind = "usage"
                /\ sent[2].kind = "ask" /\ sent[2].end = "worthy"
      BY <1>1, <1>4, <2>2
    <3>2. QED
      BY <1>3, <2>2, <3>1 DEF OneAsk
  <2>3. QED
    BY <2>1, <2>2
<1>6. CallInv'
  BY <1>1, <1>2, <1>5, AskEnds DEF n, m, more
<1>7. QED
  BY <1>3, <1>6

LEMMA UsageCalls ==
  ASSUME TypeOK, CallInv, CallsPaidFor, NEW end \in Ends, Usage(end)
  PROVE  CallInv' /\ CallsPaidFor'
<1> DEFINE n == Len(input)
           m == input[n]
           sent == calls[n]
           more == calls'[n]
           k == Len(sent)
<1>1. pc = "usage" /\ Call("usage", end) /\ UNCHANGED <<input, out>> /\ Returns(end)
  BY DEF Usage
<1>2. pc \in Busy /\ "usage" \in Kinds
  BY <1>1 DEF Busy, Kinds
<1>3. /\ CallsPaidFor'
      /\ k \in Nat /\ (sent = <<>> => k = 0) /\ Len(more) = k + 1
      /\ more[k + 1].kind = "usage" /\ more[k + 1].end = end
  BY <1>1, <1>2, Sends
<1>4. m.name = "pplx_usage" /\ sent = <<>>
  BY <1>1 DEF CallInv
<1> HIDE DEF n, m, sent, more, k
<1>5. Len(more) = 1 /\ more[1].kind = "usage" /\ more[Len(more)].end = end
  BY <1>3, <1>4
<1>6. CallInv'
  BY <1>1, <1>2, <1>4, <1>5, AskEnds DEF n, m, more
<1>7. QED
  BY <1>3, <1>6

\* The check goes through its endpoints.
LEMMA CheckCalls ==
  ASSUME TypeOK, CallInv, CallsPaidFor, NEW end \in Ends, specCheck(end)
  PROVE  CallInv' /\ CallsPaidFor'
<1> DEFINE n == Len(input)
           m == input[n]
           sent == calls[n]
           more == calls'[n]
           k == Len(sent)
           kind == Endpoints[tried + 1]
<1>1. /\ pc = "check" /\ UNCHANGED <<input, out>>
      /\ \/ kind = "ask" /\ pc' = "ask" /\ UNCHANGED <<resp, tried, calls>>
         \/ kind # "ask" /\ Call(kind, end) /\ Returns(end)
  BY DEF specCheck
<1>2. pc \in Busy /\ kind \in Kinds /\ tried \in 0..2
  BY <1>1, CheckKind DEF Busy
<1>3. /\ IsCall(m) /\ m.name = "pplx_spec_check" /\ k <= 3
      /\ tried = 0 => sent = <<>>
      /\ tried = 1 => k = 1 /\ sent[1].kind = "usage"
      /\ tried = 2 => k > 1 /\ sent[1].kind = "usage" /\ OneAsk(sent, 2, k)
      /\ \A i \in DOMAIN out : out[i].id <= n /\ out[i].id < n
  BY <1>1, <1>2 DEF CallInv
<1>4. msg = m
  BY DEF msg, Last
<1>5. Endpoints[1] = "usage" /\ Endpoints[2] = "ask" /\ Endpoints[3] = "threads"
  BY DEF Endpoints
<1> HIDE DEF n, m, sent, more, k
<1>6. kind = "ask" <=> tried = 1
  BY <1>2, <1>5
<1>7. CASE tried = 1
  <2>1. pc' = "ask" /\ UNCHANGED <<tried, calls>>
    BY <1>1, <1>6, <1>7
  <2>2. CallsPaidFor'
    BY <1>1, <1>2, <2>1, BusyPaid
  <2>3. Len(input') = n /\ input' = input /\ out' = out /\ calls'[n] = sent
    BY <1>1, <2>1 DEF n, sent
  <2>4. CallInv'
    BY <1>3, <1>7, <2>1, <2>3 DEF CallInv, m, k
  <2>5. QED
    BY <2>2, <2>4
<1>8. CASE tried # 1
  <2>1. Call(kind, end) /\ Returns(end)
    BY <1>1, <1>6, <1>8
  <2>2. /\ CallsPaidFor'
        /\ k \in Nat /\ (sent = <<>> => k = 0) /\ Len(more) = k + 1
        /\ more[k + 1].kind = kind
        /\ \A i \in 1..k : more[i] = sent[i]
    BY <1>1, <1>2, <2>1, Sends DEF n, sent, more, k
  <2>3. CASE tried = 0
    <3>1. Len(more) = 1 /\ more[1].kind = "usage"
      BY <1>3, <1>5, <2>2, <2>3
    <3>2. pc' = "check" /\ tried' = 1
      BY <1>3, <1>4, <2>1, <2>3, Returned
    <3>3. Len(input') = n /\ input' = input /\ out' = out /\ calls'[n] = more
      BY <1>1 DEF n, more
    <3>4. tried' \in 0..2 /\ Len(calls'[n]) = 1 /\ calls'[n][1].kind = "usage"
      BY <3>1, <3>2, <3>3
    <3>5. pc' # "bridge" /\ pc' # "write" /\ m.name = "pplx_spec_check" /\ IsCall(m)
      BY <1>3, <3>2
    <3>6. CallInv'
      BY <1>3, <3>2, <3>3, <3>4, <3>5 DEF CallInv, m
    <3>7. QED
      BY <2>2, <3>6
  <2>4. CASE tried = 2
    <3>1. Respond(n, "result")
      BY <1>3, <1>4, <2>1, <2>4, Returned DEF n
    <3>2. /\ Len(more) > 2 /\ more[1].kind = "usage" /\ more[Len(more)].kind = "threads"
          /\ Len(more) \in Nat /\ k \in Nat /\ k > 1 /\ Len(more) - 1 = k
      BY <1>3, <1>5, <2>2, <2>4
    <3>3. OneAsk(more, 2, k)
      <4>1. OneAsk(sent, 2, k) /\ 2 \in 1..k /\ k \in 1..k
        BY <1>3, <2>4, <3>2
      <4>2. more[2] = sent[2] /\ more[k] = sent[k]
        BY <2>2, <4>1
      <4>3. QED
        BY <4>1, <4>2 DEF OneAsk
    <3>4. Paid(m, more, "result")
      BY <1>3, <3>2, <3>3, PaidKinds
    <3>5. CallInv'
      BY <1>1, <1>2, <3>1, <3>4, Responded DEF n, m, more
    <3>6. QED
      BY <2>2, <3>5
  <2>5. QED
    BY <1>2, <1>8, <2>3, <2>4
<1>9. QED
  BY <1>7, <1>8

\* The response is written with its line paid for.
LEMMA WriteCalls ==
  ASSUME TypeOK, CallInv, CallsPaidFor, Write
  PROVE  CallInv' /\ CallsPaidFor'
<1> DEFINE n == Len(input)
           k == Len(out)
<1>1. pc = "write" /\ pc' = "read" /\ out' = Append(out, resp) /\ UNCHANGED <<input, calls>>
  BY DEF Write
<1>2. out \in Seq(Answer) /\ resp \in Answer /\ n \in Nat
  BY DEF TypeOK
<1>3. /\ \A i \in DOMAIN out : out[i].id <= n
      /\ (resp.id # 0 => resp.id = n /\ PaidFor(resp))
  BY <1>1 DEF CallInv
<1>4. resp.id \in Nat
  BY <1>2 DEF Answer
<1>5. /\ DOMAIN out' = 1..(k + 1) /\ DOMAIN out = 1..k /\ out'[k + 1] = resp
      /\ \A i \in 1..k : out'[i] = out[i]
  BY <1>1, <1>2
<1>6. k \in Nat
  BY <1>2
<1> HIDE DEF n, k
<1>7. \A i \in 1..(k + 1) : i \in 1..k \/ i = k + 1
  BY <1>6
<1>8. \A i \in DOMAIN out' : out'[i].id <= n
  BY <1>2, <1>3, <1>4, <1>5, <1>7
<1>9. CallInv'
  <2>1. Len(input') = n
    BY <1>1 DEF n
  <2>2. QED
    BY <1>1, <1>8, <2>1 DEF CallInv, Busy
<1>10. CallsPaidFor'
  <2>1. \A i \in DOMAIN out' : out'[i].id # 0 => Paid(input[out'[i].id], calls[out'[i].id], out'[i].body)
    BY <1>3, <1>5, <1>7 DEF CallsPaidFor, PaidFor
  <2>2. QED
    BY <1>1, <2>1 DEF CallsPaidFor, PaidFor
<1>11. QED
  BY <1>9, <1>10

LEMMA CallStep == TypeOK /\ CallInv /\ CallsPaidFor /\ [Next]_vars => CallInv' /\ CallsPaidFor'
<1> SUFFICES ASSUME TypeOK, CallInv, CallsPaidFor, [Next]_vars PROVE CallInv' /\ CallsPaidFor'
  OBVIOUS
<1>1. ASSUME NEW m \in Messages, ReadLine(m) PROVE CallInv' /\ CallsPaidFor'
  BY <1>1, ReadCalls
<1>2. CASE factory \/ factoryFails \/ callTool
  BY <1>2, ToolCalls
<1>3. ASSUME NEW end \in Ends, askDirect(end) \/ askViaBridge(end) PROVE CallInv' /\ CallsPaidFor'
  BY <1>3, DirectCalls, BridgeCalls
<1>4. ASSUME NEW end \in Ends, Usage(end) \/ specCheck(end) PROVE CallInv' /\ CallsPaidFor'
  BY <1>4, UsageCalls, CheckCalls
<1>5. CASE Write
  BY <1>5, WriteCalls
<1>6. CASE End
  <2>1. pc' = "ended" /\ UNCHANGED <<input, out, calls>>
    BY <1>6 DEF End
  <2>2. CallsPaidFor'
    BY <2>1 DEF CallsPaidFor, PaidFor
  <2>3. CallInv'
    BY <2>1 DEF CallInv, Busy
  <2>4. QED
    BY <2>2, <2>3
<1>7. CASE Login \/ UNCHANGED vars
  <2>1. UNCHANGED <<pc, input, resp, out, tried, calls>>
    BY <1>7 DEF Login, vars
  <2>2. QED
    BY <2>1 DEF CallInv, CallsPaidFor, PaidFor
<1>8. QED
  BY <1>1, <1>2, <1>3, <1>4, <1>5, <1>6, <1>7 DEF Next, Step

-----------------------------------------------------------------------------
(* The theorems.                                                            *)

LEMMA Start == Init => Inv
<1> SUFFICES ASSUME Init PROVE Inv
  OBVIOUS
<1>1. TypeOK
  <2>1. <<>> \in Seq(Messages) /\ <<>> \in Seq(Answer) /\ <<>> \in Seq(Seq(Request)) /\ Len(<<>>) = 0
    OBVIOUS
  <2>2. resp \in Answer
    BY DEF Init, Answer, Bodies
  <2>3. QED
    BY <2>1, <2>2 DEF Init, TypeOK, Busy
<1>2. SessionInv
  BY DEF Init, SessionInv, Upstream
<1>3. OrderInv
  <2>1. Owed = <<>>
    BY DEF Init, Owed, Busy
  <2>2. Ids = <<>>
    BY DEF Init, Ids
  <2>3. Due(<<>>) = <<>>
    BY DEF Due, FlattenSeq
  <2>4. QED
    BY <2>1, <2>2, <2>3 DEF Init, OrderInv
<1>4. CallInv
  BY DEF Init, CallInv, Busy
<1>5. CallsPaidFor
  BY DEF Init, CallsPaidFor
<1>6. QED
  BY <1>1, <1>2, <1>3, <1>4, <1>5 DEF Inv

\* What holds of every state of the loop.
THEOREM Invariant == Spec => []Inv
<1>1. Inv /\ [Next]_vars => Inv'
  BY TypeStep, SessionStep, OrderStep, CallStep DEF Inv
<1>2. QED
  BY Start, <1>1, PTL DEF Spec

\* A tool call never uses a session older than the one in the token file when
\* its line was read: every call builds its client anew (cmd/pplx/mcp.go).
THEOREM LoginNoticed == Spec => []NoStaleSession
<1>1. Inv => NoStaleSession
  BY DEF Inv, SessionInv, NoStaleSession, Upstream
<1>2. QED
  BY Invariant, <1>1, PTL

\* Whatever lines are read, each request gets one response and each malformed
\* line a null one, in the order read (handleLine, Run).
THEOREM OneResponsePerRequest == Spec => []AnsweredInOrder
<1>1. ASSUME Inv PROVE AnsweredInOrder
  <2>1. SUFFICES ASSUME pc = "read" PROVE Ids = Due(input)
    BY DEF AnsweredInOrder, Ids
  <2>2. Ids \in Seq(Nat)
    BY <1>1, DueType DEF Inv
  <2>3. Owed = <<>>
    BY <2>1 DEF Owed, Busy
  <2>4. Ids \o Owed = Due(input)
    BY <1>1, <2>1 DEF Inv, OrderInv
  <2>5. QED
    BY <2>2, <2>3, <2>4, ConcatEmptySeq
<1>2. QED
  BY Invariant, <1>1, PTL

\* What is tried at Perplexity is what the answered tool calls stand for, no less
\* and no more, the second try of an ask over the bridge included (callTool,
\* specCheck, Conversation.Ask).
THEOREM OnlyPaidCalls == Spec => []CallsPaidFor
<1>1. Inv => CallsPaidFor
  BY DEF Inv
<1>2. QED
  BY Invariant, <1>1, PTL
=============================================================================
