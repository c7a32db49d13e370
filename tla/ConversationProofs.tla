------------------------- MODULE ConversationProofs -------------------------
(***************************************************************************)
(* Proofs about Conversation, for any sets of conversations and asks, any  *)
(* bridge settings and any overlap of the asks; the last part is about     *)
(* asks that their callers do not overlap.                                 *)
(***************************************************************************)
EXTENDS Conversation, TLAPS

-----------------------------------------------------------------------------
(* Type correctness.                                                        *)

\* A field read while it may be written is a value of the field, or torn.
LEMMA RacyReadType ==
  ASSUME NEW a, NEW field, NEW value, NEW v \in RacyRead(a, field, value)
  PROVE  v \in {value, Torn}
BY DEF RacyRead

\* A frame changes the head of its ask to a head.
LEMMA AbsorbHeadType ==
  ASSUME NEW a \in Asks, NEW f \in FrameHeads(a), NEW h \in Heads
  PROVE  absorbHead(h, f) \in Heads
<1>1. <<a, "direct">> \in Entry
  BY DEF Entry, Paths
<1>2. QED
  BY <1>1 DEF absorbHead, Heads, FrameHeads, Latest

\* What follows an error keeps the types, whichever error it is.
LEMMA FailType ==
  ASSUME TypeOK, NEW a \in Asks, NEW e \in Errors, pc[a] # "idle", Fail(a, e)
  PROVE  TypeOK'
<1>1. EmptyHead \in Heads
  BY DEF EmptyHead, Heads
<1>2. QED
  BY <1>1 DEF TypeOK, Fail, PCs, BridgePCs, Paths, shared, request, payload

LEMMA TypeStep == TypeOK /\ [Next]_vars => TypeOK'
<1> SUFFICES ASSUME TypeOK, [Next]_vars PROVE TypeOK'
  OBVIOUS
<1> USE DEF shared, request, payload
<1>1. ASSUME NEW a \in Asks, NEW k \in Kinds, NEW c \in Convs, Begin(a, k, c)
      PROVE  TypeOK'
  BY <1>1, ConversationAssumption DEF TypeOK, Begin, PCs, DirectPCs, BridgePCs, Paths
<1>2. ASSUME NEW a \in Asks, NEW at, NEW next \in PCs, NEW skip \in PCs,
             LoadUUID(a, at, next, skip), at # "idle"
      PROVE  TypeOK'
  BY <1>2, RacyReadType DEF TypeOK, LoadUUID
<1>3. ASSUME NEW a \in Asks, NEW at, NEW next \in PCs, LoadToken(a, at, next), at # "idle"
      PROVE  TypeOK'
  BY <1>3, RacyReadType DEF TypeOK, LoadToken
<1>4. ASSUME NEW a \in Asks, NEW at, Panic(a, at), at # "idle"
      PROVE  TypeOK'
  BY <1>4 DEF TypeOK, Panic, PCs
<1>5. ASSUME NEW a \in Asks, LocalStep(a)
      PROVE  TypeOK'
  <2>1. CASE buildPayload(a)
    BY <2>1, <1>2 DEF buildPayload, PCs, DirectPCs
  <2>2. CASE buildPayloadToken(a)
    BY <2>2, <1>3 DEF buildPayloadToken, PCs, DirectPCs
  <2>3. CASE PostSSEPanics(a)
    BY <2>3, <1>4 DEF PostSSEPanics
  <2>4. CASE checkAuthwall(a)
    <3>1. CASE head[a].authwalled
      BY <2>4, <3>1, FailType DEF checkAuthwall, Errors
    <3>2. CASE ~head[a].authwalled
      BY <2>4, <3>2 DEF TypeOK, checkAuthwall, PCs, AdoptPCs
    <3>3. QED
      BY <3>1, <3>2
  <2>5. CASE bridgeRequest(a)
    BY <2>5, <1>2 DEF bridgeRequest, PCs, BridgePCs
  <2>6. CASE bridgeRequestToken(a)
    BY <2>6, <1>3 DEF bridgeRequestToken, PCs, BridgePCs
  <2>7. CASE bridgePanics(a)
    BY <2>7, <1>4 DEF bridgePanics
  <2>8. CASE storeUUID(a)
    BY <2>8 DEF TypeOK, storeUUID, PCs, AdoptPCs, Latest, Heads
  <2>9. CASE storeToken(a)
    BY <2>9 DEF TypeOK, storeToken, PCs, AdoptPCs, Latest, Heads
  <2>10. CASE answer(a)
    BY <2>10, RacyReadType DEF TypeOK, answer, PCs
  <2>11. QED
    BY <1>5, <2>1, <2>2, <2>3, <2>4, <2>5, <2>6, <2>7, <2>8, <2>9, <2>10 DEF LocalStep
<1>6. ASSUME NEW a \in Asks, RemoteStep(a)
      PROVE  TypeOK'
  <2>1. CASE InitSearch(a)
    BY <2>1 DEF TypeOK, InitSearch, PCs, DirectPCs
  <2>2. CASE PostSSE(a)
    BY <2>2 DEF TypeOK, PostSSE, PCs, DirectPCs
  <2>3. CASE EndOfStream(a)
    BY <2>3 DEF TypeOK, EndOfStream, PCs, DirectPCs
  <2>4. CASE bridgeAnswers(a)
    <3>1. <<a, "bridge">> \in Entry
      BY DEF Entry, Paths
    <3>2. PICK h \in Heads : head' = [head EXCEPT ![a] = h]
      BY <2>4, <3>1 DEF bridgeAnswers, Heads
    <3>3. QED
      BY <2>4, <3>2 DEF TypeOK, bridgeAnswers, PCs, AdoptPCs
  <2>5. ASSUME NEW f \in FrameHeads(a), ReceiveFrame(a, f)
        PROVE  TypeOK'
    <3>1. pc[a] = "scan"
      BY <2>5 DEF ReceiveFrame
    <3>2. ASSUME NEW e \in Errors, Fail(a, e)
          PROVE  TypeOK'
      BY <3>1, <3>2, FailType
    <3>3. CASE frameError(f, f.clarify) \in {"nil", "stop"}
      <4>1. absorbHead(head[a], f) \in Heads
        BY AbsorbHeadType DEF TypeOK
      <4>2. /\ head' = [head EXCEPT ![a] = absorbHead(head[a], f)]
            /\ \E p \in {"authwall", "scan"} : pc' = [pc EXCEPT ![a] = p]
            /\ UNCHANGED <<shared, request, payload, via, outcome, answerUUID>>
        BY <2>5, <3>3 DEF ReceiveFrame
      <4>3. QED
        BY <3>1, <4>1, <4>2 DEF TypeOK, PCs, DirectPCs
    <3>4. CASE frameError(f, f.clarify) \notin {"nil", "stop"}
      BY <2>5, <3>2, <3>4 DEF ReceiveFrame, Errors
    <3>5. QED
      BY <3>3, <3>4
  <2>6. QED
    BY <1>6, <2>1, <2>2, <2>3, <2>4, <2>5 DEF RemoteStep
<1>7. ASSUME NEW a \in Asks, FailureStep(a)
      PROVE  TypeOK'
  <2>1. CASE bridgeFails(a)
    BY <2>1 DEF TypeOK, bridgeFails, PCs
  <2>2. CASE ~bridgeFails(a)
    BY <1>7, <2>2, FailType DEF FailureStep, InitSearchFails, PostSSEFails, ReadError, Errors
  <2>3. QED
    BY <2>1, <2>2
<1>8. CASE UNCHANGED vars
  BY <1>8 DEF TypeOK, vars
<1>9. QED
  BY <1>1, <1>5, <1>6, <1>7, <1>8 DEF Next

\* Every field keeps its type: in particular a conversation never stores a
\* torn string, and an ask that has begun always has a conversation.
THEOREM TypeCorrect == Spec => []TypeOK
<1>1. Init => TypeOK
  BY DEF Init, TypeOK, EmptyHead, Heads, PCs, Paths, Errors
<1>2. QED
  BY <1>1, TypeStep, PTL DEF Spec

-----------------------------------------------------------------------------
(* The shape of a step: it belongs to one ask, the others do not notice, and *)
(* an ask that has reached its answer keeps it.                              *)

Unmoved(q) ==
  /\ pc'[q] = pc[q] /\ via'[q] = via[q] /\ conv'[q] = conv[q] /\ head'[q] = head[q]
  /\ outcome'[q] = outcome[q] /\ last'[q] = last[q] /\ lastToken'[q] = lastToken[q]
  /\ answerUUID'[q] = answerUUID[q] /\ prior'[q] = prior[q]

KeepsAnswer(a) ==
  pc[a] \in AdoptPCs =>
    /\ pc'[a] \in AdoptPCs \cup {"done"}
    /\ via'[a] = via[a] /\ head'[a] = head[a]
    /\ outcome'[a] \in {outcome[a], "ok", "panic"}

StepOf(a) ==
  /\ pc[a] # "done" /\ pc'[a] # "idle"
  /\ pc[a] # "idle" => conv'[a] = conv[a] /\ prior'[a] = prior[a]
  /\ KeepsAnswer(a)
  /\ \A q \in Asks \ {a} : Unmoved(q)

LEMMA FailShape ==
  ASSUME TypeOK, NEW a \in Asks, NEW e, Fail(a, e), pc[a] \in DirectPCs
  PROVE  StepOf(a)
BY DEF TypeOK, Fail, StepOf, Unmoved, KeepsAnswer, DirectPCs, AdoptPCs, shared, request, payload

LEMMA LocalShape ==
  ASSUME TypeOK, NEW a \in Asks, LocalStep(a)
  PROVE  StepOf(a)
<1> USE DEF shared, request, payload, StepOf, Unmoved, KeepsAnswer, AdoptPCs
<1>1. ASSUME NEW at, NEW next \in PCs \ {"idle"}, NEW skip \in PCs \ {"idle"},
             at \in {"payload", "request"}, LoadUUID(a, at, next, skip)
      PROVE  StepOf(a)
  BY <1>1 DEF TypeOK, LoadUUID
<1>2. ASSUME NEW at, NEW next \in PCs \ {"idle"},
             at \in {"payloadToken", "requestToken"}, LoadToken(a, at, next)
      PROVE  StepOf(a)
  BY <1>2 DEF TypeOK, LoadToken
<1>3. ASSUME NEW at, at \in {"post", "run"}, Panic(a, at)
      PROVE  StepOf(a)
  BY <1>3 DEF TypeOK, Panic
<1>4. CASE buildPayload(a)
  BY <1>4, <1>1 DEF buildPayload, PCs, DirectPCs
<1>5. CASE buildPayloadToken(a)
  BY <1>5, <1>2 DEF buildPayloadToken, PCs, DirectPCs
<1>6. CASE PostSSEPanics(a) \/ bridgePanics(a)
  BY <1>6, <1>3 DEF PostSSEPanics, bridgePanics
<1>7. CASE checkAuthwall(a)
  <2>1. CASE head[a].authwalled
    BY <1>7, <2>1, FailShape DEF checkAuthwall, DirectPCs
  <2>2. CASE ~head[a].authwalled
    BY <1>7, <2>2 DEF TypeOK, checkAuthwall
  <2>3. QED
    BY <2>1, <2>2
<1>8. CASE bridgeRequest(a)
  BY <1>8, <1>1 DEF bridgeRequest, PCs, BridgePCs
<1>9. CASE bridgeRequestToken(a)
  BY <1>9, <1>2 DEF bridgeRequestToken, PCs, BridgePCs
<1>10. CASE storeUUID(a)
  BY <1>10 DEF TypeOK, storeUUID
<1>11. CASE storeToken(a)
  BY <1>11 DEF TypeOK, storeToken
<1>12. CASE answer(a)
  BY <1>12 DEF TypeOK, answer
<1>13. QED
  BY <1>4, <1>5, <1>6, <1>7, <1>8, <1>9, <1>10, <1>11, <1>12 DEF LocalStep

LEMMA RemoteShape ==
  ASSUME TypeOK, NEW a \in Asks, RemoteStep(a)
  PROVE  StepOf(a)
<1> USE DEF shared, request, payload
<1>1. CASE InitSearch(a) \/ PostSSE(a) \/ EndOfStream(a) \/ bridgeAnswers(a)
  BY <1>1 DEF TypeOK, InitSearch, PostSSE, EndOfStream, bridgeAnswers,
              StepOf, Unmoved, KeepsAnswer, AdoptPCs
<1>2. ASSUME NEW f \in FrameHeads(a), ReceiveFrame(a, f)
      PROVE  StepOf(a)
  <2>1. pc[a] = "scan"
    BY <1>2 DEF ReceiveFrame
  <2>2. CASE \E e : Fail(a, e)
    BY <2>1, <2>2, FailShape DEF DirectPCs
  <2>3. CASE ~\E e : Fail(a, e)
    <3>1. /\ head' = [head EXCEPT ![a] = absorbHead(head[a], f)]
          /\ \E p \in {"authwall", "scan"} : pc' = [pc EXCEPT ![a] = p]
          /\ UNCHANGED <<shared, request, payload, via, outcome, answerUUID>>
      BY <1>2, <2>3 DEF ReceiveFrame
    <3>2. QED
      BY <2>1, <3>1 DEF TypeOK, StepOf, Unmoved, KeepsAnswer, AdoptPCs
  <2>4. QED
    BY <2>2, <2>3
<1>3. QED
  BY <1>1, <1>2, RemoteStep(a) DEF RemoteStep

LEMMA FailureShape ==
  ASSUME TypeOK, NEW a \in Asks, FailureStep(a)
  PROVE  StepOf(a)
<1>1. CASE bridgeFails(a)
  BY <1>1 DEF TypeOK, bridgeFails, StepOf, Unmoved, KeepsAnswer, AdoptPCs,
              shared, request, payload
<1>2. CASE ~bridgeFails(a)
  BY <1>2, FailShape DEF FailureStep, InitSearchFails, PostSSEFails, ReadError, DirectPCs
<1>3. QED
  BY <1>1, <1>2

LEMMA BeginShape ==
  ASSUME TypeOK, NEW a \in Asks, NEW k, NEW c \in Convs, Begin(a, k, c)
  PROVE  StepOf(a)
BY DEF TypeOK, Begin, StepOf, Unmoved, KeepsAnswer, AdoptPCs, shared, request, payload

-----------------------------------------------------------------------------
(* The inductive invariant.  Control ties the program counter to the path    *)
(* and the answer; OwnHead says whose thread an answer can name; Entries is   *)
(* NoJunkThread and ConversationIsolation in one, stated on every place an    *)
(* entry can be.                                                             *)

Control ==
  \A a \in Asks :
    /\ pc[a] \in DirectPCs => via[a] = "direct"
    /\ pc[a] \in BridgePCs => via[a] = "bridge"
    /\ pc[a] \in AdoptPCs => ~head[a].authwalled
    /\ pc[a] # "done" => outcome[a] = "none"
    /\ outcome[a] = "ok" => ~head[a].authwalled
    /\ pc[a] = "idle" => /\ head[a] = EmptyHead
                         /\ last[a] = Absent /\ lastToken[a] = Absent
                         /\ answerUUID[a] = Absent /\ prior[a] = {}

OwnHead ==
  \A a \in Asks : /\ head[a].uuid \in {<<a, via[a]>>, Absent}
                  /\ head[a].token \in {<<a, via[a]>>, Absent}

Sound(e, c) == e \in Entry => Adopted(e) /\ conv[e[1]] = c

Entries ==
  /\ \A c \in Convs : Sound(backendUUID[c], c) /\ Sound(readWriteToken[c], c)
  /\ \A a \in Asks : /\ Sound(last[a], conv[a]) /\ Sound(lastToken[a], conv[a])
                     /\ Sound(answerUUID[a], conv[a])

IInv == TypeOK /\ Control /\ OwnHead /\ Entries

LEMMA InitIInv == Init => IInv
<1> SUFFICES ASSUME Init PROVE IInv
  OBVIOUS
<1>1. TypeOK
  BY DEF Init, TypeOK, EmptyHead, Heads, PCs, Paths, Errors
<1>2. Control /\ OwnHead
  BY DEF Init, Control, OwnHead, EmptyHead, DirectPCs, BridgePCs, AdoptPCs
<1>3. Entries
  BY ConversationAssumption DEF Init, Entries, Sound
<1>4. QED
  BY <1>1, <1>2, <1>3 DEF IInv

\* A sound entry stays sound: its ask has its answer for good.
LEMMA SoundStable ==
  ASSUME IInv, TypeOK', NEW a \in Asks, StepOf(a), NEW e, NEW c, Sound(e, c)
  PROVE  Sound(e, c)'
<1> SUFFICES ASSUME e \in Entry PROVE (Adopted(e) /\ conv[e[1]] = c)'
  BY DEF Sound
<1>1. e[1] \in Asks /\ Adopted(e) /\ conv[e[1]] = c
  BY DEF Sound, Entry
<1>2. CASE e[1] = a
  BY <1>1, <1>2 DEF Adopted, StepOf, KeepsAnswer, AdoptPCs
<1>3. CASE e[1] # a
  BY <1>1, <1>3 DEF Adopted, StepOf, Unmoved
<1>4. QED
  BY <1>2, <1>3

\* The entry an ask adopts is sound.
LEMMA OwnSound ==
  ASSUME IInv, NEW a \in Asks, pc[a] \in AdoptPCs
  PROVE  Sound(head[a].uuid, conv[a]) /\ Sound(head[a].token, conv[a])
<1>1. Adopted(<<a, via[a]>>)
  BY DEF IInv, Control, Adopted, AdoptPCs
<1>2. head[a].uuid \in {<<a, via[a]>>, Absent} /\ head[a].token \in {<<a, via[a]>>, Absent}
  BY DEF IInv, OwnHead
<1>3. Sound(<<a, via[a]>>, conv[a])
  BY <1>1 DEF Sound
<1>4. Sound(Absent, conv[a])
  BY ConversationAssumption DEF Sound
<1>5. QED
  BY <1>2, <1>3, <1>4

\* What a step changes of the shared fields: nothing, or its own conversation
\* gets the entry its ask has adopted.
StoresOwn(a) ==
  /\ backendUUID' \in {backendUUID, [backendUUID EXCEPT ![conv[a]] = head[a].uuid]}
  /\ readWriteToken' \in {readWriteToken, [readWriteToken EXCEPT ![conv[a]] = head[a].token]}
  /\ shared' # shared => pc[a] \in AdoptPCs

\* What a step changes of the places of its own ask: nothing, or the current
\* value of a field of its conversation, or a torn one.
Reads(a) ==
  /\ last'[a] \in {last[a], Torn, backendUUID[conv[a]]}
  /\ lastToken'[a] \in {lastToken[a], Absent, Torn, readWriteToken[conv[a]]}
  /\ answerUUID'[a] \in {answerUUID[a], Torn, backendUUID[conv[a]]}

\* Conversation fields and payloads move only as StoresOwn and Reads say.
DataStep(a) == StoresOwn(a) /\ (pc[a] = "idle" => UNCHANGED <<last, lastToken, answerUUID>>)
                 /\ (pc[a] # "idle" => Reads(a))

LEMMA LoadUUIDData ==
  ASSUME TypeOK, NEW a \in Asks, NEW at, NEW next, NEW skip, at # "idle",
         LoadUUID(a, at, next, skip)
  PROVE  DataStep(a)
<1>1. PICK v \in RacyRead(a, "uuid", backendUUID[conv[a]]) : last' = [last EXCEPT ![a] = v]
  BY DEF LoadUUID
<1>2. v \in {backendUUID[conv[a]], Torn}
  BY RacyReadType
<1>3. QED
  BY <1>1, <1>2 DEF TypeOK, LoadUUID, DataStep, StoresOwn, Reads, shared, request

LEMMA LoadTokenData ==
  ASSUME TypeOK, NEW a \in Asks, NEW at, NEW next, at # "idle", LoadToken(a, at, next)
  PROVE  DataStep(a)
<1>1. PICK v \in RacyRead(a, "token", readWriteToken[conv[a]]) :
           lastToken' = [lastToken EXCEPT ![a] = v]
  BY DEF LoadToken
<1>2. v \in {readWriteToken[conv[a]], Torn}
  BY RacyReadType
<1>3. QED
  BY <1>1, <1>2 DEF TypeOK, LoadToken, DataStep, StoresOwn, Reads, shared, request

\* Every other step but a store and the answer leaves them all alone.
LEMMA QuietData ==
  ASSUME NEW a \in Asks, UNCHANGED <<shared, payload, answerUUID>>
  PROVE  DataStep(a)
BY DEF DataStep, StoresOwn, Reads, shared, payload

LEMMA NextData ==
  ASSUME TypeOK, NEW a \in Asks,
         LocalStep(a) \/ RemoteStep(a) \/ FailureStep(a)
           \/ \E k \in Kinds, c \in Convs : Begin(a, k, c)
  PROVE  DataStep(a)
<1>1. CASE buildPayload(a) \/ bridgeRequest(a)
  BY <1>1, LoadUUIDData DEF buildPayload, bridgeRequest
<1>2. CASE buildPayloadToken(a) \/ bridgeRequestToken(a)
  BY <1>2, LoadTokenData DEF buildPayloadToken, bridgeRequestToken
<1>3. CASE storeUUID(a)
  BY <1>3 DEF TypeOK, storeUUID, Latest, DataStep, StoresOwn, Reads, AdoptPCs,
              shared, payload
<1>4. CASE storeToken(a)
  BY <1>4 DEF TypeOK, storeToken, Latest, DataStep, StoresOwn, Reads, AdoptPCs,
              shared, payload
<1>5. CASE answer(a)
  <2>1. PICK v \in RacyRead(a, "uuid", backendUUID[conv[a]]) :
             answerUUID' = [answerUUID EXCEPT ![a] = v]
    BY <1>5 DEF answer
  <2>2. v \in {backendUUID[conv[a]], Torn}
    BY RacyReadType
  <2>3. QED
    BY <1>5, <2>1, <2>2 DEF TypeOK, answer, DataStep, StoresOwn, Reads, shared, payload
<1>6. CASE PostSSEPanics(a) \/ checkAuthwall(a) \/ bridgePanics(a)
  BY <1>6, QuietData DEF PostSSEPanics, checkAuthwall, bridgePanics, Panic, Fail
<1>7. CASE RemoteStep(a)
  BY <1>7, QuietData DEF RemoteStep, InitSearch, PostSSE, EndOfStream, bridgeAnswers,
                         ReceiveFrame, Fail
<1>8. CASE FailureStep(a)
  BY <1>8, QuietData DEF FailureStep, InitSearchFails, PostSSEFails, ReadError,
                         bridgeFails, Fail
<1>9. CASE \E k \in Kinds, c \in Convs : Begin(a, k, c)
  BY <1>9, QuietData DEF Begin
<1>10. QED
  BY <1>1, <1>2, <1>3, <1>4, <1>5, <1>6, <1>7, <1>8, <1>9 DEF LocalStep

StepBy(a) ==
  \/ LocalStep(a) \/ RemoteStep(a) \/ FailureStep(a)
  \/ \E k \in Kinds, c \in Convs : Begin(a, k, c)

LEMMA NextShape ==
  ASSUME TypeOK, NEW a \in Asks, StepBy(a)
  PROVE  StepOf(a)
BY LocalShape, RemoteShape, FailureShape, BeginShape DEF StepBy

LEMMA EntriesStep ==
  ASSUME IInv, TypeOK', NEW a \in Asks, StepBy(a)
  PROVE  Entries'
<1>1. StepOf(a) /\ DataStep(a) /\ TypeOK
  BY NextShape, NextData DEF IInv, StepBy
<1>2. ASSUME NEW e, NEW c, Sound(e, c)
      PROVE  Sound(e, c)'
  BY <1>1, <1>2, SoundStable
<1>3. ASSUME NEW c \in Convs
      PROVE  (Sound(backendUUID[c], c) /\ Sound(readWriteToken[c], c))'
  <2>1. Sound(backendUUID[c], c) /\ Sound(readWriteToken[c], c)
    BY DEF IInv, Entries
  <2>2. pc[a] \in AdoptPCs =>
          Sound(head[a].uuid, conv[a]) /\ Sound(head[a].token, conv[a])
    BY OwnSound
  <2>3. Sound(backendUUID'[c], c)
    BY <1>1, <2>1, <2>2 DEF DataStep, StoresOwn, TypeOK, shared
  <2>4. Sound(readWriteToken'[c], c)
    BY <1>1, <2>1, <2>2 DEF DataStep, StoresOwn, TypeOK, shared
  <2>5. QED
    BY <1>2, <2>3, <2>4
<1>4. ASSUME NEW q \in Asks
      PROVE  (/\ Sound(last[q], conv[q]) /\ Sound(lastToken[q], conv[q])
              /\ Sound(answerUUID[q], conv[q]))'
  <2>1. /\ Sound(last[q], conv[q]) /\ Sound(lastToken[q], conv[q])
        /\ Sound(answerUUID[q], conv[q])
    BY DEF IInv, Entries
  <2>2. CASE q # a
    BY <1>1, <1>2, <2>1, <2>2 DEF StepOf, Unmoved
  <2>3. CASE q = a /\ pc[a] = "idle"
    <3>1. last'[a] = Absent /\ lastToken'[a] = Absent /\ answerUUID'[a] = Absent
      BY <1>1, <2>3 DEF IInv, Control, DataStep
    <3>2. QED
      BY <3>1, <2>3, ConversationAssumption DEF Sound
  <2>4. CASE q = a /\ pc[a] # "idle"
    <3>1. Sound(backendUUID[conv[a]], conv[a]) /\ Sound(readWriteToken[conv[a]], conv[a])
      BY <2>4 DEF IInv, Entries, TypeOK
    <3>2. Sound(Absent, conv[a]) /\ Sound(Torn, conv[a])
      BY ConversationAssumption DEF Sound
    <3>3. /\ Sound(last'[a], conv[a]) /\ Sound(lastToken'[a], conv[a])
          /\ Sound(answerUUID'[a], conv[a])
      BY <1>1, <2>1, <2>4, <3>1, <3>2 DEF DataStep, Reads
    <3>4. conv'[a] = conv[a]
      BY <1>1, <2>4 DEF StepOf
    <3>5. QED
      BY <1>2, <2>4, <3>3, <3>4
  <2>5. QED
    BY <2>2, <2>3, <2>4
<1>5. QED
  BY <1>3, <1>4 DEF Entries

\* An error moves its ask to the bridge with an empty head, or ends it.
LEMMA FailControl ==
  ASSUME IInv, NEW a \in Asks, NEW e \in Errors, pc[a] \in DirectPCs, Fail(a, e)
  PROVE  (Control /\ OwnHead)'
<1> USE DEF IInv, TypeOK, Control, OwnHead, Fail, DirectPCs, BridgePCs, AdoptPCs,
            Errors, EmptyHead, shared, request, payload
<1>1. CASE retries(a, e)
  BY <1>1
<1>2. CASE ~retries(a, e)
  BY <1>2
<1>3. QED
  BY <1>1, <1>2

LEMMA ControlStep ==
  ASSUME IInv, NEW a \in Asks, StepBy(a)
  PROVE  (Control /\ OwnHead)'
<1> USE DEF IInv, TypeOK, Control, OwnHead, DirectPCs, BridgePCs, AdoptPCs,
            shared, request, payload
<1>1. ASSUME NEW k \in Kinds, NEW c \in Convs, Begin(a, k, c)
      PROVE  (Control /\ OwnHead)'
  BY <1>1 DEF Begin, EmptyHead
<1>2. CASE buildPayload(a) \/ bridgeRequest(a)
  BY <1>2 DEF buildPayload, bridgeRequest, LoadUUID
<1>3. CASE buildPayloadToken(a) \/ bridgeRequestToken(a)
  BY <1>3 DEF buildPayloadToken, bridgeRequestToken, LoadToken
<1>4. CASE PostSSEPanics(a) \/ bridgePanics(a) \/ bridgeFails(a)
  BY <1>4 DEF PostSSEPanics, bridgePanics, bridgeFails, Panic
<1>5. CASE checkAuthwall(a)
  <2>1. CASE head[a].authwalled
    BY <1>5, <2>1, FailControl DEF checkAuthwall, Errors
  <2>2. CASE ~head[a].authwalled
    BY <1>5, <2>2 DEF checkAuthwall
  <2>3. QED
    BY <2>1, <2>2
<1>6. CASE storeUUID(a) \/ storeToken(a)
  BY <1>6 DEF storeUUID, storeToken
<1>7. CASE answer(a)
  BY <1>7 DEF answer
<1>8. CASE InitSearch(a) \/ PostSSE(a) \/ EndOfStream(a)
  BY <1>8 DEF InitSearch, PostSSE, EndOfStream
<1>9. CASE bridgeAnswers(a)
  <2>1. PICK u \in {<<a, "bridge">>, Absent}, t \in {<<a, "bridge">>, Absent} :
          head' = [head EXCEPT ![a] = [authwalled |-> FALSE, uuid |-> u, token |-> t]]
    BY <1>9 DEF bridgeAnswers
  <2>2. head'[a].uuid = u /\ head'[a].token = t /\ ~head'[a].authwalled
    BY <2>1
  <2>3. \A q \in Asks \ {a} : head'[q] = head[q]
    BY <2>1
  <2>4. QED
    BY <1>9, <2>2, <2>3 DEF bridgeAnswers
<1>10. ASSUME NEW f \in FrameHeads(a), ReceiveFrame(a, f)
       PROVE  (Control /\ OwnHead)'
  <2>1. CASE frameError(f, f.clarify) \notin {"nil", "stop"}
    BY <1>10, <2>1, FailControl DEF ReceiveFrame, Errors
  <2>2. CASE frameError(f, f.clarify) \in {"nil", "stop"}
    <3>1. /\ head' = [head EXCEPT ![a] = absorbHead(head[a], f)]
          /\ \E p \in {"authwall", "scan"} : pc' = [pc EXCEPT ![a] = p]
          /\ UNCHANGED <<shared, request, payload, via, outcome, answerUUID>>
          /\ pc[a] = "scan"
      BY <1>10, <2>2 DEF ReceiveFrame
    <3>2. /\ absorbHead(head[a], f).uuid \in {<<a, "direct">>, Absent}
          /\ absorbHead(head[a], f).token \in {<<a, "direct">>, Absent}
      BY <3>1 DEF absorbHead, Latest, FrameHeads
    <3>3. QED
      BY <3>1, <3>2
  <2>3. QED
    BY <2>1, <2>2
<1>11. CASE InitSearchFails(a) \/ PostSSEFails(a) \/ ReadError(a)
  BY <1>11, FailControl DEF InitSearchFails, PostSSEFails, ReadError, Errors
<1>12. QED
  BY <1>1, <1>2, <1>3, <1>4, <1>5, <1>6, <1>7, <1>8, <1>9, <1>10, <1>11
     DEF StepBy, LocalStep, RemoteStep, FailureStep

LEMMA IInvStep == IInv /\ [Next]_vars => IInv'
<1> SUFFICES ASSUME IInv, [Next]_vars PROVE IInv'
  OBVIOUS
<1>1. TypeOK'
  BY TypeStep DEF IInv
<1>2. CASE UNCHANGED vars
  BY <1>2 DEF IInv, TypeOK, Control, OwnHead, Entries, Sound, Adopted, vars,
              shared, request, payload
<1>3. CASE \E a \in Asks : StepBy(a)
  BY <1>1, <1>3, ControlStep, EntriesStep DEF IInv
<1>4. QED
  BY <1>2, <1>3 DEF Next, StepBy

\* The invariant of the entries, for every reachable state.
THEOREM EntriesInvariant == Spec => []IInv
BY InitIInv, IInvStep, PTL DEF Spec

\* No conversation, request or answer names the thread of a failed, authwalled
\* or abandoned stream.
THEOREM JunkThreadFree == Spec => []NoJunkThread
<1>1. IInv => NoJunkThread
  BY DEF IInv, Entries, Sound, NoJunkThread
<1>2. QED
  BY <1>1, EntriesInvariant, PTL

\* Conversations do not leak into each other, however their asks interleave.
THEOREM Isolation == Spec => []ConversationIsolation
<1>1. IInv => ConversationIsolation
  BY DEF IInv, Entries, Sound, ConversationIsolation
<1>2. QED
  BY <1>1, EntriesInvariant, PTL

-----------------------------------------------------------------------------
(* Real-time order.  Remembered is what makes NoForgottenTurn inductive: once *)
(* a turn has stored its uuid, its conversation only ever holds entries of    *)
(* asks that had not returned when the turn began, because whoever overwrites *)
(* it is running, and those that had returned are not.                        *)

PriorDone == \A a \in Asks : \A q \in prior[a] : pc[q] = "done"

Remembered ==
  \A p \in Asks :
    Happened(p) /\ head[p].uuid # Absent =>
      /\ backendUUID[conv[p]] \in Entry
      /\ backendUUID[conv[p]][1] \notin prior[p]

TurnInv == IInv /\ PriorDone /\ Remembered /\ NoForgottenTurn

Unread == {"idle", "payload", "request"}

\* A payload gets its uuid in one read, and keeps it.
LastStep(a) ==
  pc'[a] \notin Unread =>
    \/ pc[a] \notin Unread /\ last'[a] = last[a]
    \/ /\ pc[a] \in {"payload", "request"}
       /\ last'[a] \in RacyRead(a, "uuid", backendUUID[conv[a]])

\* A turn happens by storing its uuid, and by nothing else; the uuid of a
\* conversation is overwritten in no other way.
HappenStep(a) ==
  \/ /\ pc[a] = "storeUUID"
     /\ backendUUID' = [backendUUID EXCEPT ![conv[a]] = Latest(head[a].uuid, @)]
  \/ /\ Happened(a)' => Happened(a)
     /\ UNCHANGED backendUUID

LEMMA FailTurn ==
  ASSUME TypeOK, NEW a \in Asks, NEW e \in Errors, Fail(a, e),
         pc[a] \in DirectPCs \ {"payload"}
  PROVE  LastStep(a) /\ HappenStep(a)
<1> USE DEF TypeOK, Fail, LastStep, HappenStep, Happened, Unread, DirectPCs, Errors,
            shared, request, payload
<1>1. CASE retries(a, e)
  BY <1>1
<1>2. CASE ~retries(a, e)
  BY <1>2
<1>3. QED
  BY <1>1, <1>2

LEMMA TurnStep ==
  ASSUME IInv, NEW a \in Asks, StepBy(a)
  PROVE  LastStep(a) /\ HappenStep(a)
<1> USE DEF LastStep, HappenStep, Happened, Unread, IInv, TypeOK, Control,
            DirectPCs, BridgePCs, AdoptPCs, shared, request, payload
<1>1. ASSUME NEW k \in Kinds, NEW c \in Convs, Begin(a, k, c)
      PROVE  LastStep(a) /\ HappenStep(a)
  BY <1>1 DEF Begin
<1>2. CASE buildPayload(a) \/ bridgeRequest(a)
  BY <1>2 DEF buildPayload, bridgeRequest, LoadUUID
<1>3. CASE buildPayloadToken(a) \/ bridgeRequestToken(a)
  BY <1>3 DEF buildPayloadToken, bridgeRequestToken, LoadToken
<1>4. CASE PostSSEPanics(a) \/ bridgePanics(a) \/ bridgeFails(a)
  BY <1>4 DEF PostSSEPanics, bridgePanics, bridgeFails, Panic
<1>5. CASE checkAuthwall(a)
  <2>1. CASE head[a].authwalled
    BY <1>5, <2>1, FailTurn DEF checkAuthwall, Errors
  <2>2. CASE ~head[a].authwalled
    BY <1>5, <2>2 DEF checkAuthwall
  <2>3. QED
    BY <2>1, <2>2
<1>6. CASE storeUUID(a) \/ storeToken(a)
  BY <1>6 DEF storeUUID, storeToken
<1>7. CASE answer(a)
  BY <1>7 DEF answer
<1>8. CASE InitSearch(a) \/ PostSSE(a) \/ EndOfStream(a) \/ bridgeAnswers(a)
  BY <1>8 DEF InitSearch, PostSSE, EndOfStream, bridgeAnswers
<1>9. ASSUME NEW f \in FrameHeads(a), ReceiveFrame(a, f)
      PROVE  LastStep(a) /\ HappenStep(a)
  <2>1. CASE frameError(f, f.clarify) \notin {"nil", "stop"}
    BY <1>9, <2>1, FailTurn DEF ReceiveFrame, Errors
  <2>2. CASE frameError(f, f.clarify) \in {"nil", "stop"}
    <3>1. /\ \E p \in {"authwall", "scan"} : pc' = [pc EXCEPT ![a] = p]
          /\ UNCHANGED <<shared, payload, outcome>>
          /\ pc[a] = "scan"
      BY <1>9, <2>2 DEF ReceiveFrame
    <3>2. QED
      BY <3>1
  <2>3. QED
    BY <2>1, <2>2
<1>10. CASE InitSearchFails(a) \/ PostSSEFails(a) \/ ReadError(a)
  BY <1>10, FailTurn DEF InitSearchFails, PostSSEFails, ReadError, Errors
<1>11. QED
  BY <1>1, <1>2, <1>3, <1>4, <1>5, <1>6, <1>7, <1>8, <1>9, <1>10
     DEF StepBy, LocalStep, RemoteStep, FailureStep

LEMMA RememberedStep ==
  ASSUME TurnInv, TypeOK', NEW a \in Asks, StepBy(a)
  PROVE  (PriorDone /\ Remembered)'
<1>1. TypeOK /\ StepOf(a) /\ HappenStep(a)
  BY NextShape, TurnStep DEF TurnInv, IInv
<1>2. PriorDone'
  <2>1. \A q \in Asks : pc[q] = "done" => pc'[q] = "done"
    BY <1>1 DEF StepOf, Unmoved
  <2>2. \A r \in Asks : prior'[r] = prior[r] \/ prior'[r] \subseteq {q \in Asks : pc[q] = "done"}
    <3>1. CASE pc[a] # "idle"
      BY <1>1, <3>1 DEF StepOf, Unmoved
    <3>2. CASE pc[a] = "idle"
      <4>1. PICK k \in Kinds, c \in Convs : Begin(a, k, c)
        BY <3>2 DEF StepBy, LocalStep, RemoteStep, FailureStep, buildPayload,
             buildPayloadToken, PostSSEPanics, checkAuthwall, bridgeRequest,
             bridgeRequestToken, bridgePanics, storeUUID, storeToken, answer, LoadUUID,
             LoadToken, Panic, InitSearch, PostSSE, EndOfStream, bridgeAnswers,
             ReceiveFrame, InitSearchFails, PostSSEFails, ReadError, bridgeFails
      <4>2. QED
        BY <1>1, <4>1 DEF Begin, TypeOK
    <3>3. QED
      BY <3>1, <3>2
  <2>3. QED
    BY <1>1, <2>1, <2>2 DEF TurnInv, PriorDone, TypeOK
<1>3. ASSUME NEW p \in Asks, Happened(p)', head'[p].uuid # Absent
      PROVE  (backendUUID[conv[p]] \in Entry /\ backendUUID[conv[p]][1] \notin prior[p])'
  <2>1. a \notin prior[p]
    BY <1>1 DEF TurnInv, PriorDone, StepOf
  <2>2. pc[p] # "idle"
    BY <1>1, <1>3 DEF TurnInv, IInv, Control, StepOf, Unmoved, HappenStep, Happened
  <2>3. conv'[p] = conv[p] /\ prior'[p] = prior[p] /\ conv[p] \in Convs
    BY <1>1, <2>2 DEF StepOf, Unmoved, TypeOK
  <2>4. CASE backendUUID'[conv[p]] # backendUUID[conv[p]]
    <3>1. pc[a] = "storeUUID" /\ conv[a] = conv[p] /\ backendUUID'[conv[p]] = head[a].uuid
      BY <1>1, <2>3, <2>4 DEF HappenStep, Latest, TypeOK
    <3>2. head[a].uuid # Absent
      BY <1>1, <2>3, <2>4, <3>1 DEF HappenStep, Latest, TypeOK
    <3>3. head[a].uuid = <<a, via[a]>> /\ via[a] \in Paths
      BY <3>2 DEF TurnInv, IInv, OwnHead, TypeOK
    <3>4. QED
      BY <2>1, <2>3, <3>1, <3>3 DEF Entry
  <2>5. CASE backendUUID'[conv[p]] = backendUUID[conv[p]] /\ Happened(p)
    <3>1. head'[p] = head[p]
      BY <1>1, <2>5 DEF StepOf, Unmoved, KeepsAnswer, Happened, AdoptPCs,
                        TurnInv, IInv, Control
    <3>2. QED
      BY <1>3, <2>3, <2>5, <3>1 DEF TurnInv, Remembered
  <2>6. CASE backendUUID'[conv[p]] = backendUUID[conv[p]] /\ ~Happened(p)
    <3>1. p = a
      BY <1>1, <1>3, <2>6 DEF StepOf, Unmoved, Happened
    <3>2. pc[a] = "storeUUID"
      BY <1>1, <1>3, <2>6, <3>1 DEF HappenStep
    <3>3. head'[a] = head[a]
      BY <1>1, <3>2 DEF StepOf, KeepsAnswer, AdoptPCs
    <3>4. backendUUID' = [backendUUID EXCEPT ![conv[a]] = Latest(head[a].uuid, @)]
      BY <1>1, <1>3, <2>6, <3>1 DEF HappenStep
    <3>5. backendUUID'[conv[p]] = head[a].uuid /\ head[a].uuid = <<a, via[a]>> /\ via[a] \in Paths
      BY <1>1, <1>3, <2>3, <3>1, <3>3, <3>4 DEF Latest, TurnInv, IInv, OwnHead, TypeOK
    <3>6. QED
      BY <2>1, <2>3, <3>5 DEF Entry
  <2>7. QED
    BY <2>4, <2>5, <2>6
<1>4. QED
  BY <1>2, <1>3 DEF Remembered

LEMMA NoForgottenStep ==
  ASSUME TurnInv, TypeOK', NEW a \in Asks, StepBy(a)
  PROVE  NoForgottenTurn'
<1>1. TypeOK /\ StepOf(a) /\ LastStep(a)
  BY NextShape, TurnStep DEF TurnInv, IInv
<1> SUFFICES ASSUME NEW r \in Asks, NEW p \in prior'[r],
                    pc'[r] \notin Unread, conv'[p] = conv'[r],
                    outcome'[p] = "ok", head'[p].uuid # Absent
             PROVE  last'[r] \in Entry /\ last'[r][1] \notin prior'[p]
  BY DEF NoForgottenTurn, Unread
<1>2. pc[r] # "idle"
  <2>1. CASE r # a
    BY <1>1, <2>1 DEF StepOf, Unmoved, Unread
  <2>2. CASE r = a
    BY <1>1, <2>2 DEF LastStep, Unread
  <2>3. QED
    BY <2>1, <2>2
<1>3. p \in prior[r] /\ p \in Asks
  BY <1>1, <1>2 DEF StepOf, Unmoved, TypeOK
<1>4. p # a /\ Unmoved(p)
  BY <1>1, <1>3 DEF TurnInv, PriorDone, StepOf
<1>5. conv'[r] = conv[r]
  BY <1>1, <1>2 DEF StepOf, Unmoved
<1>6. CASE pc[r] \notin Unread /\ last'[r] = last[r]
  BY <1>3, <1>4, <1>5, <1>6 DEF TurnInv, NoForgottenTurn, Unmoved, Unread
<1>7. CASE r = a /\ last'[r] \in RacyRead(r, "uuid", backendUUID[conv[r]])
  <2>1. backendUUID[conv[r]] \in Entry /\ backendUUID[conv[r]][1] \notin prior[p]
    BY <1>3, <1>4, <1>5 DEF TurnInv, Remembered, Unmoved, Happened
  <2>2. last'[r] = backendUUID[conv[r]]
    BY <1>7, <2>1, ConversationAssumption DEF RacyRead
  <2>3. QED
    BY <1>4, <2>1, <2>2 DEF Unmoved
<1>8. QED
  BY <1>1, <1>6, <1>7 DEF LastStep, StepOf, Unmoved

\* A turn answered before a request began is never forgotten by it.
THEOREM TurnsRemembered == Spec => []NoForgottenTurn
<1>1. Init => TurnInv
  <2>1. Init => PriorDone /\ Remembered /\ NoForgottenTurn
    BY DEF Init, PriorDone, Remembered, NoForgottenTurn, Happened
  <2>2. QED
    BY <2>1, InitIInv DEF TurnInv
<1>2. TurnInv /\ [Next]_vars => TurnInv'
  <2> SUFFICES ASSUME TurnInv, [Next]_vars PROVE TurnInv'
    OBVIOUS
  <2>1. IInv' /\ TypeOK'
    BY IInvStep DEF TurnInv, IInv
  <2>2. CASE UNCHANGED vars
    BY <2>1, <2>2 DEF TurnInv, PriorDone, Remembered, NoForgottenTurn, Happened, vars,
                      shared, request, payload
  <2>3. CASE \E a \in Asks : StepBy(a)
    BY <2>1, <2>3, RememberedStep, NoForgottenStep DEF TurnInv
  <2>4. QED
    BY <2>2, <2>3 DEF Next, StepBy
<1>3. TurnInv => NoForgottenTurn
  BY DEF TurnInv
<1>4. QED
  BY <1>1, <1>2, <1>3, PTL DEF Spec

-----------------------------------------------------------------------------
(* Asks that never overlap.  Alone is what Serialized buys: of the asks on a  *)
(* conversation one at most is running, so no read is torn and what it read   *)
(* is still there when it stores (Carries).  Chain is LinearThread in a form  *)
(* that a step preserves: the thread a conversation is on was made by a turn  *)
(* that has happened, and no turn that has happened follows up on it.         *)

Alone ==
  \A q, r \in Asks : Active(q) /\ Active(r) /\ conv[q] = conv[r] => q = r

Reading == {"payloadToken", "requestToken"}
Waiting == {"init", "post", "scan", "authwall", "run", "storeUUID"}

tokenSent(a) == IF last[a] = Absent THEN Absent ELSE readWriteToken[conv[a]]

Carries ==
  \A a \in Asks :
    /\ pc[a] \in Reading \cup Waiting => last[a] = backendUUID[conv[a]]
    /\ pc[a] \in Reading => last[a] # Absent
    /\ pc[a] \in Waiting => lastToken[a] = tokenSent(a)

Made(e) == e \in Entry => pc[e[1]] \in {"storeToken", "answer", "done"}

TurnOn(p, c) == Happened(p) /\ conv[p] = c /\ head[p].uuid # Absent

Chain ==
  \A c \in Convs :
    /\ Made(backendUUID[c])
    /\ \A p \in Asks : TurnOn(p, c) => Made(last[p]) /\ last[p] # backendUUID[c]
    /\ \A p, q \in Asks : TurnOn(p, c) /\ TurnOn(q, c) /\ p # q => last[p] # last[q]

SerialInv == IInv /\ Alone /\ Carries /\ Chain

-----------------------------------------------------------------------------
(* What an ask that runs alone on its conversation can do in one step.       *)

Kept(a) == last'[a] = last[a] /\ lastToken'[a] = lastToken[a] /\ conv'[a] = conv[a]

Starts(a) ==
  /\ pc[a] = "idle" /\ pc'[a] \in {"payload", "request"} /\ outcome'[a] = "none"
  /\ conv'[a] \in Convs /\ \A q \in Asks : Active(q) => conv[q] # conv'[a]
  /\ UNCHANGED shared

ReadsUUID(a) ==
  /\ pc[a] \in {"payload", "request"} /\ outcome'[a] = "none"
  /\ last'[a] = backendUUID[conv[a]]
  /\ \/ pc'[a] \in Reading /\ last'[a] # Absent
     \/ pc'[a] \in {"init", "run"} /\ last'[a] = Absent /\ lastToken'[a] = Absent
  /\ UNCHANGED shared

ReadsToken(a) ==
  /\ pc[a] \in Reading /\ pc'[a] \in {"init", "run"} /\ outcome'[a] = "none"
  /\ last'[a] = last[a] /\ lastToken'[a] = readWriteToken[conv[a]]
  /\ UNCHANGED shared

Waits(a) ==
  /\ pc[a] \in Waiting \ {"storeUUID"} /\ pc'[a] \in Waiting \cup {"request", "done"}
  /\ outcome'[a] # "ok"
  /\ Kept(a) /\ UNCHANGED shared

StoresUUID(a) ==
  /\ pc[a] = "storeUUID" /\ pc'[a] = "storeToken" /\ outcome'[a] = "none"
  /\ backendUUID' = [backendUUID EXCEPT ![conv[a]] = Latest(head[a].uuid, @)]
  /\ Kept(a) /\ head'[a] = head[a] /\ UNCHANGED readWriteToken

StoresToken(a) ==
  /\ pc[a] = "storeToken" /\ pc'[a] = "answer" /\ outcome'[a] = "none"
  /\ readWriteToken' = [readWriteToken EXCEPT ![conv[a]] = Latest(head[a].token, @)]
  /\ Kept(a) /\ head'[a] = head[a] /\ UNCHANGED backendUUID

Answers(a) ==
  /\ pc[a] = "answer" /\ pc'[a] = "done" /\ outcome'[a] = "ok"
  /\ Kept(a) /\ head'[a] = head[a] /\ UNCHANGED shared

AloneStep(a) ==
  \/ Starts(a) \/ ReadsUUID(a) \/ ReadsToken(a) \/ Waits(a)
  \/ StoresUUID(a) \/ StoresToken(a) \/ Answers(a)

\* No read of an ask that runs alone is torn.
LEMMA ReadAlone ==
  ASSUME Alone, NEW a \in Asks, Active(a), NEW field, NEW value,
         NEW v \in RacyRead(a, field, value)
  PROVE  v = value
<1>1. ~\E q \in Asks \ {a} : conv[q] = conv[a] /\ Writing(q, field)
  BY DEF Alone, Writing, Active
<1>2. QED
  BY <1>1 DEF RacyRead

LEMMA FailAlone ==
  ASSUME IInv, NEW a \in Asks, NEW e \in Errors, Fail(a, e),
         pc[a] \in Waiting \ {"storeUUID"}
  PROVE  Waits(a)
<1> USE DEF IInv, TypeOK, Control, Fail, Waits, Kept, Waiting, Errors, shared, request, payload
<1>1. CASE retries(a, e)
  BY <1>1
<1>2. CASE ~retries(a, e)
  BY <1>2
<1>3. QED
  BY <1>1, <1>2

LEMMA StepAlone ==
  ASSUME Serialized, IInv, Alone, NEW a \in Asks, StepBy(a)
  PROVE  AloneStep(a)
<1> USE DEF AloneStep, IInv, TypeOK, Control, shared, request, payload
<1>1. ASSUME NEW k \in Kinds, NEW c \in Convs, Begin(a, k, c)
      PROVE  Starts(a)
  BY <1>1 DEF Begin, Starts
<1>2. CASE buildPayload(a) \/ bridgeRequest(a)
  <2>1. Active(a) /\ pc[a] \in {"payload", "request"}
    BY <1>2 DEF buildPayload, bridgeRequest, LoadUUID, Active
  <2>2. last'[a] = backendUUID[conv[a]]
    <3>1. PICK v \in RacyRead(a, "uuid", backendUUID[conv[a]]) : last' = [last EXCEPT ![a] = v]
      BY <1>2 DEF buildPayload, bridgeRequest, LoadUUID
    <3>2. v = backendUUID[conv[a]]
      BY <2>1, ReadAlone
    <3>3. QED
      BY <3>1, <3>2
  <2>3. \/ pc'[a] \in Reading /\ last'[a] # Absent
        \/ pc'[a] \in {"init", "run"} /\ last'[a] = Absent
    BY <1>2 DEF buildPayload, bridgeRequest, LoadUUID, Reading
  <2>4. lastToken'[a] = Absent /\ outcome'[a] = "none" /\ UNCHANGED shared
    BY <1>2, <2>1 DEF buildPayload, bridgeRequest, LoadUUID
  <2>5. QED
    BY <2>1, <2>2, <2>3, <2>4 DEF ReadsUUID
<1>3. CASE buildPayloadToken(a) \/ bridgeRequestToken(a)
  <2>1. Active(a) /\ pc[a] \in Reading
    BY <1>3 DEF buildPayloadToken, bridgeRequestToken, LoadToken, Active, Reading
  <2>2. lastToken'[a] = readWriteToken[conv[a]]
    <3>1. PICK v \in RacyRead(a, "token", readWriteToken[conv[a]]) :
               lastToken' = [lastToken EXCEPT ![a] = v]
      BY <1>3 DEF buildPayloadToken, bridgeRequestToken, LoadToken
    <3>2. v = readWriteToken[conv[a]]
      BY <2>1, ReadAlone
    <3>3. QED
      BY <3>1, <3>2
  <2>3. /\ pc'[a] \in {"init", "run"} /\ outcome'[a] = "none"
        /\ last'[a] = last[a] /\ UNCHANGED shared
    BY <1>3, <2>1 DEF buildPayloadToken, bridgeRequestToken, LoadToken, Reading
  <2>4. QED
    BY <2>1, <2>2, <2>3 DEF ReadsToken
<1>4. CASE PostSSEPanics(a) \/ bridgePanics(a) \/ bridgeFails(a)
  BY <1>4 DEF PostSSEPanics, bridgePanics, bridgeFails, Panic, Waits, Waiting, Kept
<1>5. CASE checkAuthwall(a)
  <2>1. CASE head[a].authwalled
    BY <1>5, <2>1, FailAlone DEF checkAuthwall, Errors, Waiting
  <2>2. CASE ~head[a].authwalled
    BY <1>5, <2>2 DEF checkAuthwall, Waits, Waiting, Kept
  <2>3. QED
    BY <2>1, <2>2
<1>6. CASE storeUUID(a)
  BY <1>6 DEF storeUUID, StoresUUID, Kept
<1>7. CASE storeToken(a)
  BY <1>7 DEF storeToken, StoresToken, Kept
<1>8. CASE answer(a)
  <2>1. PICK v \in RacyRead(a, "uuid", backendUUID[conv[a]]) :
               outcome' = [outcome EXCEPT ![a] =
                             IF v = Torn /\ kind[a] = "Ask" THEN "panic" ELSE "ok"]
    BY <1>8 DEF answer
  <2>2. pc[a] = "answer" /\ Active(a)
    BY <1>8 DEF answer, Active
  <2>3. v # Torn
    <3>1. backendUUID[conv[a]] \in Entry \cup {Absent}
      BY <2>2
    <3>2. v = backendUUID[conv[a]]
      BY <2>1, <2>2, ReadAlone
    <3>3. QED
      BY <3>1, <3>2, ConversationAssumption
  <2>4. outcome'[a] = "ok"
    BY <2>1, <2>3
  <2>5. pc' = [pc EXCEPT ![a] = "done"] /\ UNCHANGED <<backendUUID, readWriteToken, conv, last, lastToken, head>>
    BY <1>8 DEF answer
  <2>6. QED
    BY <2>2, <2>4, <2>5 DEF Answers, Kept
<1>9. CASE InitSearch(a) \/ PostSSE(a) \/ EndOfStream(a) \/ bridgeAnswers(a)
  BY <1>9 DEF InitSearch, PostSSE, EndOfStream, bridgeAnswers, Waits, Waiting, Kept
<1>10. ASSUME NEW f \in FrameHeads(a), ReceiveFrame(a, f)
       PROVE  Waits(a)
  <2>1. CASE frameError(f, f.clarify) \notin {"nil", "stop"}
    BY <1>10, <2>1, FailAlone DEF ReceiveFrame, Errors, Waiting
  <2>2. CASE frameError(f, f.clarify) \in {"nil", "stop"}
    <3>1. /\ \E p \in {"authwall", "scan"} : pc' = [pc EXCEPT ![a] = p]
          /\ UNCHANGED <<shared, request, payload, outcome>>
          /\ pc[a] = "scan"
      BY <1>10, <2>2 DEF ReceiveFrame
    <3>2. QED
      BY <3>1 DEF Waits, Waiting, Kept
  <2>3. QED
    BY <2>1, <2>2
<1>11. CASE InitSearchFails(a) \/ PostSSEFails(a) \/ ReadError(a)
  BY <1>11, FailAlone DEF InitSearchFails, PostSSEFails, ReadError, Errors, Waiting
<1>12. QED
  BY <1>1, <1>2, <1>3, <1>4, <1>5, <1>6, <1>7, <1>8, <1>9, <1>10, <1>11
     DEF StepBy, LocalStep, RemoteStep, FailureStep

-----------------------------------------------------------------------------
LEMMA AloneKept ==
  ASSUME TypeOK, Alone, NEW a \in Asks, StepOf(a), AloneStep(a)
  PROVE  Alone'
<1> SUFFICES ASSUME NEW q \in Asks, NEW r \in Asks, Active(q)', Active(r)',
                    conv'[q] = conv'[r], q # r
             PROVE  FALSE
  BY DEF Alone
<1>1. CASE ~Starts(a)
  <2>1. pc[a] # "idle"
    BY <1>1 DEF AloneStep, ReadsUUID, ReadsToken, Waits, StoresUUID, StoresToken,
                Answers, Reading, Waiting
  <2>2. ASSUME NEW p \in Asks, Active(p)'
        PROVE  Active(p) /\ conv'[p] = conv[p]
    BY <2>1, <2>2 DEF StepOf, Unmoved, Active
  <2>3. QED
    BY <2>2 DEF Alone
<1>2. CASE Starts(a)
  <2>1. ASSUME NEW p \in Asks \ {a}, Active(p)'
        PROVE  Active(p) /\ conv'[p] = conv[p] /\ conv[p] # conv'[a]
    BY <1>2, <2>1 DEF StepOf, Unmoved, Active, Starts
  <2>2. QED
    BY <2>1 DEF Alone
<1>3. QED
  BY <1>1, <1>2

LEMMA CarriesKept ==
  ASSUME SerialInv, NEW a \in Asks, StepOf(a), AloneStep(a)
  PROVE  Carries'
<1> USE DEF shared
<1> SUFFICES ASSUME NEW q \in Asks
             PROVE  (/\ pc[q] \in Reading \cup Waiting => last[q] = backendUUID[conv[q]]
                     /\ pc[q] \in Reading => last[q] # Absent
                     /\ pc[q] \in Waiting => lastToken[q] = tokenSent(q))'
  BY DEF Carries
<1>1. /\ pc[q] \in Reading \cup Waiting => last[q] = backendUUID[conv[q]]
      /\ pc[q] \in Reading => last[q] # Absent
      /\ pc[q] \in Waiting => lastToken[q] = tokenSent(q)
  BY DEF SerialInv, Carries
<1>2. CASE q # a /\ pc[q] \in Reading \cup Waiting
  <2>1. conv[q] \in Convs
    BY <1>2 DEF SerialInv, IInv, TypeOK, Reading, Waiting
  <2>2. StoresUUID(a) \/ StoresToken(a) => conv[q] # conv[a]
    BY <1>2 DEF SerialInv, Alone, Active, Reading, Waiting, StoresUUID, StoresToken
  <2>3. backendUUID'[conv[q]] = backendUUID[conv[q]]
    BY <2>1, <2>2 DEF AloneStep, Starts, ReadsUUID, ReadsToken, Waits, StoresUUID,
                      StoresToken, Answers, SerialInv, IInv, TypeOK
  <2>4. readWriteToken'[conv[q]] = readWriteToken[conv[q]]
    BY <2>1, <2>2 DEF AloneStep, Starts, ReadsUUID, ReadsToken, Waits, StoresUUID,
                      StoresToken, Answers, SerialInv, IInv, TypeOK
  <2>5. QED
    BY <1>1, <1>2, <2>3, <2>4 DEF StepOf, Unmoved, tokenSent
<1>3. CASE q # a /\ pc[q] \notin Reading \cup Waiting
  BY <1>3 DEF StepOf, Unmoved
<1>4. CASE q = a
  <2>1. CASE Starts(a) \/ StoresUUID(a) \/ StoresToken(a) \/ Answers(a)
    BY <1>4, <2>1 DEF Starts, StoresUUID, StoresToken, Answers, Reading, Waiting
  <2>2. CASE ReadsUUID(a)
    BY <1>4, <2>2 DEF ReadsUUID, StepOf, Reading, Waiting, tokenSent
  <2>3. CASE ReadsToken(a)
    BY <1>1, <1>4, <2>3 DEF ReadsToken, StepOf, Reading, Waiting, tokenSent
  <2>4. CASE Waits(a)
    BY <1>1, <1>4, <2>4 DEF Waits, Kept, Reading, Waiting, tokenSent
  <2>5. QED
    BY <2>1, <2>2, <2>3, <2>4 DEF AloneStep
<1>5. QED
  BY <1>2, <1>3, <1>4

\* Only storing its uuid makes a turn happen.
LEMMA TurnAlone ==
  ASSUME IInv, NEW a \in Asks, StepOf(a), AloneStep(a), ~StoresUUID(a),
         NEW p \in Asks
  PROVE  /\ Happened(p)' <=> Happened(p)
         /\ Happened(p) => /\ head'[p] = head[p] /\ conv'[p] = conv[p]
                           /\ last'[p] = last[p] /\ lastToken'[p] = lastToken[p]
<1>1. CASE p # a
  BY <1>1 DEF StepOf, Unmoved, Happened
<1>2. CASE p = a
  <2>1. CASE Starts(a) \/ ReadsUUID(a) \/ ReadsToken(a) \/ Waits(a)
    BY <1>2, <2>1 DEF IInv, Control, Happened, Starts, ReadsUUID, ReadsToken, Waits,
                      Reading, Waiting
  <2>2. CASE StoresToken(a) \/ Answers(a)
    BY <1>2, <2>2 DEF Happened, StoresToken, Answers, Kept
  <2>3. QED
    BY <2>1, <2>2 DEF AloneStep
<1>3. QED
  BY <1>1, <1>2

LEMMA MadeKept ==
  ASSUME NEW a \in Asks, StepOf(a), AloneStep(a), NEW e, Made(e)
  PROVE  Made(e)'
<1> SUFFICES ASSUME e \in Entry PROVE pc'[e[1]] \in {"storeToken", "answer", "done"}
  BY DEF Made
<1>1. e[1] \in Asks /\ pc[e[1]] \in {"storeToken", "answer", "done"}
  BY DEF Made, Entry
<1>2. CASE e[1] # a
  BY <1>1, <1>2 DEF StepOf, Unmoved
<1>3. CASE e[1] = a
  BY <1>1, <1>3 DEF AloneStep, Starts, ReadsUUID, ReadsToken, Waits, StoresUUID,
                    StoresToken, Answers, Reading, Waiting
<1>4. QED
  BY <1>2, <1>3

LEMMA ChainKept ==
  ASSUME SerialInv, NEW a \in Asks, StepOf(a), AloneStep(a)
  PROVE  Chain'
<1> USE DEF shared
<1> SUFFICES ASSUME NEW c \in Convs
             PROVE  (/\ Made(backendUUID[c])
                     /\ \A p \in Asks : TurnOn(p, c) => Made(last[p]) /\ last[p] # backendUUID[c]
                     /\ \A p, q \in Asks :
                          TurnOn(p, c) /\ TurnOn(q, c) /\ p # q => last[p] # last[q])'
  BY DEF Chain
<1>0. /\ Made(backendUUID[c])
      /\ \A p \in Asks : TurnOn(p, c) => Made(last[p]) /\ last[p] # backendUUID[c]
      /\ \A p, q \in Asks : TurnOn(p, c) /\ TurnOn(q, c) /\ p # q => last[p] # last[q]
  BY DEF SerialInv, Chain
<1>1. CASE ~StoresUUID(a)
  <2>1. backendUUID' = backendUUID
    BY <1>1 DEF AloneStep, Starts, ReadsUUID, ReadsToken, Waits, StoresToken, Answers
  <2>2. ASSUME NEW p \in Asks, TurnOn(p, c)'
        PROVE  TurnOn(p, c) /\ last'[p] = last[p]
    BY <1>1, <2>2, TurnAlone DEF TurnOn, SerialInv
  <2>3. \A p \in Asks : TurnOn(p, c)' => (Made(last[p]))' /\ last'[p] # backendUUID'[c]
    BY <1>0, <2>1, <2>2, MadeKept
  <2>4. (Made(backendUUID[c]))'
    BY <1>0, <2>1, MadeKept
  <2>5. \A p, q \in Asks : TurnOn(p, c)' /\ TurnOn(q, c)' /\ p # q => last'[p] # last'[q]
    BY <1>0, <2>2
  <2>6. QED
    BY <2>3, <2>4, <2>5
<1>2. CASE StoresUUID(a) /\ (conv[a] # c \/ head[a].uuid = Absent)
  <2>1. backendUUID'[c] = backendUUID[c]
    BY <1>2 DEF StoresUUID, Latest, SerialInv, IInv, TypeOK
  <2>2. ASSUME NEW p \in Asks, TurnOn(p, c)'
        PROVE  TurnOn(p, c) /\ last'[p] = last[p]
    BY <1>2, <2>2 DEF TurnOn, StepOf, Unmoved, StoresUUID, Kept, Happened
  <2>3. \A p \in Asks : TurnOn(p, c)' => (Made(last[p]))' /\ last'[p] # backendUUID'[c]
    BY <1>0, <2>1, <2>2, MadeKept
  <2>4. (Made(backendUUID[c]))'
    BY <1>0, <2>1, MadeKept
  <2>5. \A p, q \in Asks : TurnOn(p, c)' /\ TurnOn(q, c)' /\ p # q => last'[p] # last'[q]
    BY <1>0, <2>2
  <2>6. QED
    BY <2>3, <2>4, <2>5
<1>3. CASE StoresUUID(a) /\ conv[a] = c /\ head[a].uuid # Absent
  <2>1. backendUUID'[c] = <<a, via[a]>> /\ <<a, via[a]>> \in Entry
    BY <1>3 DEF StoresUUID, Latest, SerialInv, IInv, OwnHead, TypeOK, Entry
  <2>2. last'[a] = backendUUID[c]
    BY <1>3 DEF StoresUUID, Kept, SerialInv, Carries, Waiting
  <2>3. ASSUME NEW p \in Asks \ {a}, TurnOn(p, c)'
        PROVE  TurnOn(p, c) /\ last'[p] = last[p]
    BY <2>3 DEF TurnOn, StepOf, Unmoved, Happened
  <2>4. ASSUME NEW e, Made(e)
        PROVE  e # <<a, via[a]>>
    BY <1>3, <2>1, <2>4 DEF Made, StoresUUID
  <2>5. (Made(backendUUID[c]))'
    BY <1>3, <2>1 DEF Made, StoresUUID
  <2>6. \A p \in Asks : TurnOn(p, c)' => (Made(last[p]))' /\ last'[p] # backendUUID'[c]
    BY <1>0, <2>1, <2>2, <2>3, <2>4, MadeKept
  <2>7. \A p, q \in Asks : TurnOn(p, c)' /\ TurnOn(q, c)' /\ p # q => last'[p] # last'[q]
    BY <1>0, <2>2, <2>3
  <2>8. QED
    BY <2>5, <2>6, <2>7
<1>4. QED
  BY <1>1, <1>2, <1>3

LEMMA InitSerial == Init => SerialInv
<1> SUFFICES ASSUME Init PROVE SerialInv
  OBVIOUS
<1>1. Alone /\ Carries
  BY DEF Init, Alone, Active, Carries, Reading, Waiting
<1>2. Chain
  <2>0. Absent \notin Entry
    BY ConversationAssumption
  <2>1. \A c \in Convs : backendUUID[c] \notin Entry
    BY <2>0 DEF Init
  <2>2. \A p \in Asks : ~Happened(p)
    BY DEF Init, Happened
  <2>3. QED
    BY <2>1, <2>2 DEF Chain, Made, TurnOn
<1>3. QED
  BY <1>1, <1>2, InitIInv DEF SerialInv

LEMMA StepSerial ==
  ASSUME Serialized, SerialInv, [Next]_vars
  PROVE  SerialInv'
<1>1. IInv'
  BY IInvStep DEF SerialInv
<1>2. CASE UNCHANGED vars
  <2> USE <1>2 DEF vars, shared, request, payload
  <2>1. Alone'
    BY DEF SerialInv, Alone, Active
  <2>2. Carries'
    BY DEF SerialInv, Carries, tokenSent
  <2>3. Chain'
    BY DEF SerialInv, Chain, Made, TurnOn, Happened
  <2>4. QED
    BY <1>1, <2>1, <2>2, <2>3 DEF SerialInv
<1>3. ASSUME NEW a \in Asks, StepBy(a)
      PROVE  SerialInv'
  <2>1. StepOf(a) /\ AloneStep(a)
    BY <1>3, NextShape, StepAlone DEF SerialInv, IInv
  <2>2. QED
    BY <1>1, <2>1, AloneKept, CarriesKept, ChainKept DEF SerialInv, IInv
<1>4. QED
  BY <1>2, <1>3 DEF Next, StepBy

\* The invariant of asks that their callers do not overlap.
THEOREM SerialInvariant == ASSUME Serialized PROVE Spec => []SerialInv
BY InitSerial, StepSerial, Serialized, PTL DEF Spec

\* Asks that do not overlap make one thread of a conversation: no two answered
\* turns start it or follow up on the same turn.
THEOREM OneThread == ASSUME Serialized PROVE Spec => []LinearThread
<1>1. SerialInv => LinearThread
  <2> SUFFICES ASSUME SerialInv, NEW q \in Asks, NEW r \in Asks,
                      q # r, conv[q] = conv[r], outcome[q] = "ok", outcome[r] = "ok",
                      head[q].uuid # Absent, head[r].uuid # Absent
               PROVE  last[q] # last[r]
    BY DEF LinearThread
  <2>1. conv[q] \in Convs
    BY DEF SerialInv, IInv, TypeOK, Control
  <2>2. QED
    BY <2>1 DEF SerialInv, Chain, TurnOn, Happened
<1>2. QED
  BY <1>1, SerialInvariant, PTL

-----------------------------------------------------------------------------
(* Refinement of Thread: storing the uuid is the turn, and every other step   *)
(* leaves the thread and its turns as they are.                              *)

\* The token about to be stored on a conversation is that of the one ask that
\* runs on it.
LEMMA PendingAlone ==
  ASSUME Alone, NEW a \in Asks, Active(a)
  PROVE  pendingToken(conv[a]) = IF pc[a] = "storeToken" THEN head[a].token ELSE Absent
<1>1. {q \in Asks : conv[q] = conv[a] /\ pc[q] = "storeToken"}
        = IF pc[a] = "storeToken" THEN {a} ELSE {}
  BY DEF Alone, Active
<1>2. (CHOOSE q \in {a} : TRUE) = a
  OBVIOUS
<1>3. QED
  BY <1>1, <1>2 DEF pendingToken

LEMMA PendingAloneNext ==
  ASSUME Alone', NEW a \in Asks, Active(a)'
  PROVE  pendingToken(conv[a])' = IF pc'[a] = "storeToken" THEN head'[a].token ELSE Absent
<1>1. {q \in Asks : conv'[q] = conv'[a] /\ pc'[q] = "storeToken"}
        = IF pc'[a] = "storeToken" THEN {a} ELSE {}
  BY DEF Alone, Active
<1>2. (CHOOSE q \in {a} : TRUE) = a
  OBVIOUS
<1>3. QED
  BY <1>1, <1>2 DEF pendingToken

LEMMA PendingKept ==
  ASSUME NEW a \in Asks, StepOf(a), NEW c,
         \/ pc[a] # "storeToken" /\ pc'[a] # "storeToken"
         \/ conv[a] # c /\ conv'[a] # c
  PROVE  pendingToken(c)' = pendingToken(c)
<1> DEFINE s == {q \in Asks : conv[q] = c /\ pc[q] = "storeToken"}
           t == {q \in Asks : conv'[q] = c /\ pc'[q] = "storeToken"}
<1>1. s = t
  BY DEF StepOf, Unmoved
<1>2. \A q \in s : head'[q] = head[q]
  BY DEF StepOf, Unmoved
<1>3. s # {} => (CHOOSE q \in s : TRUE) \in s
  OBVIOUS
<1>4. pendingToken(c) = IF s = {} THEN Absent ELSE head[CHOOSE q \in s : TRUE].token
  BY DEF pendingToken
<1>5. pendingToken(c)' = IF t = {} THEN Absent ELSE head'[CHOOSE q \in t : TRUE].token
  BY DEF pendingToken
<1> HIDE DEF s, t
<1>6. QED
  BY <1>1, <1>2, <1>3, <1>4, <1>5

LEMMA ThreadKept ==
  ASSUME SerialInv, SerialInv', NEW a \in Asks, StepOf(a), AloneStep(a), ~StoresUUID(a)
  PROVE  UNCHANGED <<threadOf, turnsOf>>
<1>1. ASSUME NEW c \in Convs
      PROVE  /\ backendUUID'[c] = backendUUID[c]
             /\ Latest(pendingToken(c)', readWriteToken'[c])
                  = Latest(pendingToken(c), readWriteToken[c])
  <2>1. backendUUID'[c] = backendUUID[c]
    BY DEF AloneStep, Starts, ReadsUUID, ReadsToken, Waits, StoresToken, Answers, shared
  <2>2. CASE ~StoresToken(a)
    <3>1. pc[a] # "storeToken" /\ pc'[a] # "storeToken" /\ readWriteToken' = readWriteToken
      BY <2>2 DEF AloneStep, Starts, ReadsUUID, ReadsToken, Waits, Answers, shared,
                  Reading, Waiting
    <3>2. QED
      BY <2>1, <3>1, PendingKept
  <2>3. CASE StoresToken(a) /\ c # conv[a]
    <3>1. conv'[a] = conv[a] /\ readWriteToken'[c] = readWriteToken[c]
      BY <2>3 DEF StoresToken, Kept, SerialInv, IInv, TypeOK
    <3>2. QED
      BY <2>1, <2>3, <3>1, PendingKept
  <2>4. CASE StoresToken(a) /\ c = conv[a]
    <3>1. pendingToken(c) = head[a].token
      BY <2>4, PendingAlone DEF StoresToken, Active, SerialInv
    <3>2. pendingToken(c)' = Absent
      <4>1. Active(a)' /\ pc'[a] # "storeToken" /\ conv'[a] = c
        BY <2>4 DEF StoresToken, Active, Kept
      <4>2. QED
        BY <4>1, PendingAloneNext DEF SerialInv
    <3>3. readWriteToken'[c] = Latest(head[a].token, readWriteToken[c])
      BY <2>4 DEF StoresToken, SerialInv, IInv, TypeOK
    <3>4. QED
      BY <2>1, <3>1, <3>2, <3>3 DEF Latest
  <2>5. QED
    BY <2>2, <2>3, <2>4
<1>2. threadOf' = threadOf
  BY <1>1 DEF threadOf
<1>3. ASSUME NEW c \in Convs
      PROVE  {turnOf(q)' : q \in {p \in Asks : conv'[p] = c /\ Happened(p)'}}
               = {turnOf(q) : q \in {p \in Asks : conv[p] = c /\ Happened(p)}}
  <2>1. \A p \in Asks : /\ Happened(p)' <=> Happened(p)
                        /\ Happened(p) => conv'[p] = conv[p] /\ turnOf(p)' = turnOf(p)
    BY TurnAlone DEF SerialInv, turnOf
  <2>2. QED
    BY <2>1
<1>4. turnsOf' = turnsOf
  BY <1>3 DEF turnsOf
<1>5. QED
  BY <1>2, <1>4

LEMMA ThreadTurn ==
  ASSUME SerialInv, SerialInv', NEW a \in Asks, StepOf(a), StoresUUID(a)
  PROVE  T!Turn(conv[a], head[a].uuid, head[a].token)
<1> DEFINE c == conv[a]
<1>1. c \in Convs /\ conv'[a] = c /\ head'[a] = head[a]
  BY DEF StoresUUID, Kept, SerialInv, IInv, TypeOK
<1>2. pendingToken(c) = Absent
  BY PendingAlone DEF StoresUUID, Active, SerialInv
<1>3. pendingToken(c)' = head[a].token
  <2>1. Active(a)' /\ pc'[a] = "storeToken"
    BY DEF StoresUUID, Active
  <2>2. QED
    BY <1>1, <2>1, PendingAloneNext DEF SerialInv
<1>4. \A d \in Convs : d # c => pendingToken(d)' = pendingToken(d)
  BY <1>1, PendingKept
<1>5. readWriteToken' = readWriteToken
  BY DEF StoresUUID
<1>6. /\ backendUUID'[c] = Latest(head[a].uuid, backendUUID[c])
      /\ \A d \in Convs : d # c => backendUUID'[d] = backendUUID[d]
  BY DEF StoresUUID, SerialInv, IInv, TypeOK
<1>7. threadOf[c] = [uuid |-> backendUUID[c], token |-> readWriteToken[c]]
  BY <1>1, <1>2 DEF threadOf, Latest
<1>8. threadOf' = [threadOf EXCEPT ![c] = [uuid  |-> Latest(head[a].uuid, threadOf[c].uuid),
                                           token |-> Latest(head[a].token, threadOf[c].token)]]
  <2>1. \A d \in Convs : threadOf'[d] = [uuid  |-> backendUUID'[d],
                                         token |-> Latest(pendingToken(d)', readWriteToken'[d])]
    BY DEF threadOf
  <2>2. \A d \in Convs : d # c => threadOf'[d] = threadOf[d]
    BY <1>4, <1>5, <1>6, <2>1 DEF threadOf
  <2>3. threadOf'[c] = [uuid  |-> Latest(head[a].uuid, threadOf[c].uuid),
                        token |-> Latest(head[a].token, threadOf[c].token)]
    BY <1>1, <1>3, <1>5, <1>6, <1>7, <2>1
  <2>4. threadOf = [d \in Convs |-> threadOf[d]] /\ threadOf' = [d \in Convs |-> threadOf'[d]]
    BY DEF threadOf
  <2>5. QED
    BY <1>1, <2>2, <2>3, <2>4
<1>9. turnOf(a)' = [uuid        |-> head[a].uuid,
                    token       |-> head[a].token,
                    parent      |-> threadOf[c].uuid,
                    parentToken |-> IF threadOf[c].uuid = Absent THEN Absent
                                    ELSE threadOf[c].token]
  <2>1. last[a] = backendUUID[c] /\ lastToken[a] = tokenSent(a)
    BY DEF StoresUUID, SerialInv, Carries, Waiting
  <2>2. last'[a] = last[a] /\ lastToken'[a] = lastToken[a]
    BY DEF StoresUUID, Kept
  <2>3. QED
    BY <1>1, <1>7, <2>1, <2>2 DEF turnOf, tokenSent
<1>10. turnsOf' = [turnsOf EXCEPT ![c] = @ \cup {turnOf(a)'}]
  <2> DEFINE done(d) == {p \in Asks : conv[p] = d /\ Happened(p)}
             next(d) == {p \in Asks : conv'[p] = d /\ Happened(p)'}
  <2>1. \A p \in Asks \ {a} : /\ conv'[p] = conv[p] /\ (Happened(p)' <=> Happened(p))
                              /\ turnOf(p)' = turnOf(p)
    BY DEF StepOf, Unmoved, Happened, turnOf
  <2>2. ~Happened(a) /\ Happened(a)'
    BY DEF Happened, StoresUUID, SerialInv, IInv, Control
  <2>3. next(c) = done(c) \cup {a} /\ a \notin done(c)
    BY <1>1, <2>1, <2>2
  <2>4. \A d \in Convs : d # c => next(d) = done(d) /\ a \notin done(d)
    BY <1>1, <2>1, <2>2
  <2>5. /\ turnsOf = [d \in Convs |-> {turnOf(p) : p \in done(d)}]
        /\ turnsOf' = [d \in Convs |-> {turnOf(p)' : p \in next(d)}]
    BY DEF turnsOf
  <2>6. {turnOf(p)' : p \in next(c)} = {turnOf(p) : p \in done(c)} \cup {turnOf(a)'}
    BY <2>1, <2>3
  <2>7. \A d \in Convs : d # c => {turnOf(p)' : p \in next(d)} = {turnOf(p) : p \in done(d)}
    BY <2>1, <2>4
  <2> HIDE DEF done, next
  <2>8. QED
    BY <1>1, <2>5, <2>6, <2>7
<1>11. QED
  BY <1>8, <1>9, <1>10 DEF T!Turn, T!Or, Latest

\* Asks that do not overlap implement Thread: every answered turn is asked on the
\* thread exactly as the turn before it left it.
THEOREM ThreadImplemented == ASSUME Serialized PROVE Spec => ThreadSpec
<1>1. Init => T!Init
  <2> SUFFICES ASSUME Init PROVE T!Init
    OBVIOUS
  <2>1. \A p \in Asks : ~Happened(p) /\ pc[p] # "storeToken"
    BY DEF Init, Happened
  <2>2. \A c \in Convs : pendingToken(c) = Absent
    BY <2>1 DEF pendingToken
  <2>3. threadOf = [c \in Convs |-> [uuid |-> Absent, token |-> Absent]]
    BY <2>2 DEF Init, threadOf, Latest
  <2>4. turnsOf = [c \in Convs |-> {}]
    BY <2>1 DEF turnsOf
  <2>5. QED
    BY <2>3, <2>4 DEF T!Init
<1>2. SerialInv /\ SerialInv' /\ [Next]_vars => [T!Next]_<<threadOf, turnsOf>>
  <2> SUFFICES ASSUME SerialInv, SerialInv', [Next]_vars
               PROVE  [T!Next]_<<threadOf, turnsOf>>
    OBVIOUS
  <2>1. CASE UNCHANGED vars
    BY <2>1 DEF vars, shared, request, payload, threadOf, turnsOf, turnOf, Happened, pendingToken
  <2>2. ASSUME NEW a \in Asks, StepBy(a)
        PROVE  [T!Next]_<<threadOf, turnsOf>>
    <3>1. StepOf(a) /\ AloneStep(a)
      BY <2>2, NextShape, StepAlone DEF SerialInv, IInv
    <3>2. CASE StoresUUID(a)
      <4>1. conv[a] \in Convs
        BY <3>2 DEF StoresUUID, SerialInv, IInv, TypeOK
      <4>2. head[a].uuid \in Entry \cup {Absent} /\ head[a].token \in Entry \cup {Absent}
        BY DEF SerialInv, IInv, TypeOK, Heads
      <4>3. QED
        BY <3>1, <3>2, <4>1, <4>2, ThreadTurn DEF T!Next
    <3>3. CASE ~StoresUUID(a)
      BY <3>1, <3>3, ThreadKept
    <3>4. QED
      BY <3>2, <3>3
  <2>3. QED
    BY <2>1, <2>2 DEF Next, StepBy
<1>3. QED
  BY <1>1, <1>2, SerialInvariant, PTL DEF Spec, ThreadSpec, T!Spec
=============================================================================
