--------------------------- MODULE ApiServerProofs ---------------------------
(***************************************************************************)
(* Proofs about ApiServer, for any requests, inputs and conversation ids,  *)
(* and any number of logins, expiries and chunks.                          *)
(***************************************************************************)
EXTENDS ApiServer, TLAPS

PCs == {"idle", "body", "factory", "conversation", "asking", "torn", "done", "aborted"}
Servings == {"up", "draining", "stopped", "failed"}
Events == {"message_start", "content_block_start", "content_block_delta", "content_block_stop",
           "message_delta", "message_stop", "error"}
Conversations == [creator : Reqs, session : Nat]

TypeOK ==
  /\ serving \in Servings /\ token \in Nat
  /\ convs \in [ConvIds -> Conversations \cup {Absent}]
  /\ pc \in [Reqs -> PCs] /\ input \in [Reqs -> Inputs \cup {Absent}]
  /\ client \in [Reqs -> Nat] /\ conv \in [Reqs -> Conversations \cup {Absent}]
  /\ status \in [Reqs -> Nat] /\ events \in [Reqs -> Seq(Events)]

\* A request is let in once, and from then on has its input.
LetIn == \A r \in Reqs : pc[r] = "idle" <=> input[r] = Absent

LEMMA ConvIDType ==
  ASSUME NEW q \in Inputs
  PROVE  convID(q) \in ConvIds
BY ApiAssumption DEF convID

LEMMA RefusalType ==
  ASSUME NEW q
  PROVE  refusal(q) \in Nat
BY DEF refusal

TypeInv == TypeOK /\ LetIn

LEMMA LookupType ==
  ASSUME TypeInv, NEW r \in Reqs, pc[r] = "conversation"
  PROVE  /\ lookup(r) \in Conversations
         /\ input[r] \in Inputs /\ convID(input[r]) \in ConvIds
<1>1. input[r] \in Inputs
  BY DEF TypeInv, TypeOK, LetIn
<1>2. convID(input[r]) \in ConvIds
  BY <1>1, ConvIDType
<1>3. QED
  BY <1>1, <1>2 DEF TypeInv, TypeOK, lookup, Conversations

\* Events are sent in sequence.
LEMMA SendType ==
  ASSUME TypeOK, NEW r \in Reqs, NEW evs \in Seq(Events), Send(r, evs)
  PROVE  events' \in [Reqs -> Seq(Events)]
<1>1. events[r] \o evs \in Seq(Events)
  BY DEF TypeOK
<1>2. QED
  BY <1>1 DEF TypeOK, Send

LEMMA TypeStep == TypeInv /\ [Next]_vars => TypeInv'
<1> SUFFICES ASSUME TypeInv, [Next]_vars PROVE TypeInv'
  OBVIOUS
<1> USE DEF TypeInv, TypeOK, LetIn, PCs, Servings, server, response
<1>1. ASSUME NEW r \in Reqs, NEW q \in Inputs, Arrive(r, q) PROVE TypeInv'
  <2>1. q # Absent
    BY ApiAssumption
  <2>2. QED
    BY <1>1, <2>1 DEF Arrive
<1>2. ASSUME NEW r \in Reqs, HandlerStep(r) PROVE TypeInv'
  <2>1. CASE Factory(r)
    <3>1. CASE token = 0 \/ token \in expired
      <4>1. /\ Finish(r, 500) /\ pc[r] = "factory"
            /\ UNCHANGED <<serving, token, expired, convs, input, client, conv, peer, events>>
        BY <2>1, <3>1 DEF Factory
      <4>2. QED
        BY <4>1 DEF Finish
    <3>2. CASE ~(token = 0 \/ token \in expired)
      BY <2>1, <3>2 DEF Factory
    <3>3. QED
      BY <3>1, <3>2
  <2>2. CASE FactoryFails(r)
    BY <2>2 DEF FactoryFails, Finish
  <2>3. CASE conversation(r)
    <3>1. lookup(r) \in Conversations /\ convID(input[r]) \in ConvIds
      BY <2>3, LookupType DEF conversation
    <3>2. events' \in [Reqs -> Seq(Events)]
      <4>1. <<"message_start", "content_block_start">> \in Seq(Events)
        BY DEF Events
      <4>2. QED
        BY <2>3, <4>1, SendType DEF conversation
    <3>3. \E p \in {"asking", "done"}, code \in Nat : pc' = [pc EXCEPT ![r] = p] /\ status' = [status EXCEPT ![r] = code]
      <4>1. status = [status EXCEPT ![r] = status[r]] /\ status[r] \in Nat
        OBVIOUS
      <4>2. QED
        BY <2>3, <4>1 DEF conversation, Finish
    <3>4. convs' \in [ConvIds -> Conversations \cup {Absent}] /\ conv' \in [Reqs -> Conversations \cup {Absent}]
      BY <2>3, <3>1 DEF conversation
    <3>5. QED
      BY <2>3, <3>2, <3>3, <3>4 DEF conversation
  <2>4. CASE AskFails(r)
    <3>1. events' \in [Reqs -> Seq(Events)]
      <4>1. <<"error">> \in Seq(Events)
        BY DEF Events
      <4>2. QED
        BY <2>4, <4>1, SendType DEF AskFails
    <3>2. \E code \in Nat : Finish(r, code)
      BY <2>4 DEF AskFails
    <3>3. QED
      BY <2>4, <3>1, <3>2 DEF AskFails, Finish
  <2>5. CASE handleMessages(r)
    <3>1. refusal(input[r]) \in Nat
      BY RefusalType
    <3>2. QED
      BY <2>5, <3>1 DEF handleMessages, Finish
  <2>6. CASE BodyCut(r)
    BY <2>6 DEF BodyCut, Finish
  <2>7. CASE Panic(r)
    BY <2>7 DEF Panic
  <2>8. QED
    BY <1>2, <2>1, <2>2, <2>3, <2>4, <2>5, <2>6, <2>7 DEF HandlerStep
<1>3. ASSUME NEW r \in Reqs, RemoteStep(r) PROVE TypeInv'
  <2>1. events' \in [Reqs -> Seq(Events)]
    <3>1. /\ <<"content_block_delta">> \in Seq(Events)
          /\ <<"content_block_stop", "message_delta", "message_stop">> \in Seq(Events)
      BY DEF Events
    <3>2. QED
      BY <1>3, <3>1, SendType DEF RemoteStep, Chunk, AskAnswers, ReadTorn, Stall, Resume, Disconnect, Becomes
  <2>2. CASE Chunk(r)
    BY <2>1, <2>2 DEF Chunk
  <2>3. CASE AskAnswers(r)
    BY <2>1, <2>3 DEF AskAnswers, Finish
  <2>4. CASE ReadTorn(r)
    BY <2>4 DEF ReadTorn
  <2>5. CASE Stall(r) \/ Resume(r) \/ Disconnect(r)
    BY <2>5 DEF Stall, Resume, Disconnect, Becomes
  <2>6. QED
    BY <1>3, <2>2, <2>3, <2>4, <2>5 DEF RemoteStep
<1>4. CASE Login \/ Expire \/ Interrupt \/ Shutdown \/ ListenFails
  BY <1>4 DEF Login, Expire, Interrupt, Shutdown, ListenFails
<1>5. CASE UNCHANGED vars
  BY <1>5 DEF vars
<1>6. QED
  BY <1>1, <1>2, <1>3, <1>4, <1>5 DEF Next

LEMMA TypeInit == Init => TypeInv
BY ApiAssumption DEF Init, TypeInv, TypeOK, LetIn, PCs, Servings

-----------------------------------------------------------------------------
(* One conversation per id.                                                 *)

Served == {"asking", "torn", "done", "aborted"}

\* A live conversation was made by a request that holds it and whose id it is
\* filed under, and a request holds the live conversation of its id.
Filed ==
  /\ \A id \in ConvIds : convs[id] # Absent =>
        conv[convs[id].creator] = convs[id] /\ convID(input[convs[id].creator]) = id
  /\ \A r \in Reqs : conv[r] # Absent =>
        /\ pc[r] \in Served
        /\ conv[r] = convs[convID(input[r])]

ConvInv == TypeInv /\ Filed

LEMMA FiledMeansOne == ConvInv => OneConversationPerId
<1> SUFFICES ASSUME ConvInv, NEW r \in Reqs, NEW q \in Reqs, conv[r] # Absent, conv[q] # Absent
             PROVE  conv[r] = conv[q] <=> convID(input[r]) = convID(input[q])
  BY DEF OneConversationPerId
<1>1. \A p \in Reqs : conv[p] # Absent => input[p] \in Inputs
  <2>1. \A p \in Reqs : conv[p] # Absent => pc[p] # "idle"
    BY DEF ConvInv, Filed, Served
  <2>2. QED
    BY <2>1 DEF ConvInv, TypeInv, TypeOK, LetIn
<1>2. convID(input[r]) \in ConvIds /\ convID(input[q]) \in ConvIds
  BY <1>1, ConvIDType
<1>3. QED
  BY <1>2 DEF ConvInv, Filed

LEMMA FiledStep == ConvInv /\ [Next]_vars => Filed'
<1> SUFFICES ASSUME ConvInv, [Next]_vars PROVE Filed'
  OBVIOUS
<1>1. ASSUME NEW r \in Reqs, conversation(r) PROVE Filed'
  <2> DEFINE id == convID(input[r])
             c  == lookup(r)
  <2>1. c \in Conversations /\ id \in ConvIds /\ c # Absent
    BY <1>1, LookupType, ApiAssumption DEF conversation, ConvInv, Conversations
  <2>2. /\ conv' = [conv EXCEPT ![r] = c] /\ convs' = [convs EXCEPT ![id] = c]
        /\ input' = input /\ conv[r] = Absent
        /\ pc'[r] \in Served /\ \A q \in Reqs : q # r => pc'[q] = pc[q]
    BY <1>1 DEF conversation, Finish, ConvInv, TypeInv, TypeOK, Filed, Served
  <2>3. CASE convs[id] = Absent
    <3>1. c = [creator |-> r, session |-> client[r]]
      BY <2>3 DEF lookup
    <3>2. \A q \in Reqs : q # r /\ conv[q] # Absent => convID(input[q]) # id
      BY <2>3 DEF ConvInv, Filed
    <3>3. \A i \in ConvIds : i # id /\ convs[i] # Absent => convs[i].creator # r /\ convs[i].creator \in Reqs
      BY <2>2 DEF ConvInv, Filed, TypeInv, TypeOK, Conversations
    <3>4. ASSUME NEW i \in ConvIds, convs'[i] # Absent
          PROVE  conv'[convs'[i].creator] = convs'[i] /\ convID(input'[convs'[i].creator]) = i
      BY <2>1, <2>2, <3>1, <3>3, <3>4 DEF ConvInv, Filed, TypeInv, TypeOK
    <3>5. ASSUME NEW q \in Reqs, conv'[q] # Absent
          PROVE  pc'[q] \in Served /\ conv'[q] = convs'[convID(input'[q])]
      BY <2>1, <2>2, <3>2, <3>5 DEF ConvInv, Filed, TypeInv, TypeOK
    <3>6. QED
      BY <3>4, <3>5 DEF Filed
  <2>4. CASE convs[id] # Absent
    <3>1. c = convs[id] /\ convs' = convs
      BY <2>1, <2>2, <2>4 DEF lookup, ConvInv, TypeInv, TypeOK
    <3>2. c.creator # r /\ c.creator \in Reqs
      BY <2>1, <2>2, <2>4, <3>1 DEF ConvInv, Filed, Conversations
    <3>3. \A i \in ConvIds : convs[i] # Absent => convs[i].creator # r /\ convs[i].creator \in Reqs
      BY <2>2 DEF ConvInv, Filed, TypeInv, TypeOK, Conversations
    <3>4. ASSUME NEW i \in ConvIds, convs'[i] # Absent
          PROVE  conv'[convs'[i].creator] = convs'[i] /\ convID(input'[convs'[i].creator]) = i
      BY <2>2, <3>1, <3>3, <3>4 DEF ConvInv, Filed, TypeInv, TypeOK
    <3>5. ASSUME NEW q \in Reqs, conv'[q] # Absent
          PROVE  pc'[q] \in Served /\ conv'[q] = convs'[convID(input'[q])]
      BY <2>2, <3>1, <3>5 DEF ConvInv, Filed, TypeInv, TypeOK
    <3>6. QED
      BY <3>4, <3>5 DEF Filed
  <2>5. QED
    BY <2>3, <2>4
<1>2. ASSUME NEW r \in Reqs, NEW q \in Inputs, Arrive(r, q) PROVE Filed'
  <2>1. conv[r] = Absent /\ conv' = conv /\ convs' = convs
    BY <1>2 DEF Arrive, server, ConvInv, Filed, Served
  <2>2. \A p \in Reqs : p # r => input'[p] = input[p] /\ pc'[p] = pc[p]
    BY <1>2 DEF Arrive, ConvInv, TypeInv, TypeOK
  <2>3. \A i \in ConvIds : convs[i] # Absent => convs[i].creator # r /\ convs[i].creator \in Reqs
    BY <2>1 DEF ConvInv, Filed, TypeInv, TypeOK, Conversations
  <2>4. QED
    BY <2>1, <2>2, <2>3 DEF ConvInv, Filed
<1>3. ASSUME UNCHANGED <<convs, conv, input>>,
             \A p \in Reqs : pc[p] \in Served => pc'[p] \in Served
      PROVE  Filed'
  BY <1>3 DEF ConvInv, Filed
<1>4. ASSUME NEW r \in Reqs, HandlerStep(r) \/ RemoteStep(r), ~conversation(r)
      PROVE  Filed'
  <2>1. UNCHANGED <<convs, conv, input>>
    BY <1>4 DEF HandlerStep, RemoteStep, handleMessages, BodyCut, Factory, FactoryFails, AskFails, Panic,
                Chunk, AskAnswers, ReadTorn, Stall, Resume, Disconnect, Becomes
  <2>2. \A p \in Reqs : pc[p] \in Served => pc'[p] \in Served
    BY <1>4 DEF HandlerStep, RemoteStep, handleMessages, BodyCut, Factory, FactoryFails, AskFails, Panic,
                Chunk, AskAnswers, ReadTorn, Stall, Resume, Disconnect, Becomes, Finish, Served,
                ConvInv, TypeInv, TypeOK
  <2>3. QED
    BY <1>3, <2>1, <2>2
<1>5. CASE Login \/ Expire \/ Interrupt \/ Shutdown \/ ListenFails
  BY <1>3, <1>5 DEF Login, Expire, Interrupt, Shutdown, ListenFails
<1>6. CASE UNCHANGED vars
  BY <1>3, <1>6 DEF vars
<1>7. QED
  BY <1>1, <1>2, <1>4, <1>5, <1>6 DEF Next

\* Requests with the same conversation id ask on the same Conversation object,
\* and different ids never share one, however their lookups interleave
\* (server.go:208-220).
THEOREM ConversationPerId == Spec => []OneConversationPerId
<1>1. Init => ConvInv
  BY TypeInit DEF Init, ConvInv, Filed
<1>2. ConvInv /\ [Next]_vars => ConvInv'
  BY TypeStep, FiledStep DEF ConvInv
<1>3. QED
  BY <1>1, <1>2, FiledMeansOne, PTL DEF Spec

-----------------------------------------------------------------------------
(* The events of a stream.                                                  *)

InBlock == {"content_block_start", "content_block_delta"}
Closed == {"message_stop", "error"}

\* Which event may come after which.
Follows(e, i) ==
  \/ e[i] \in {"content_block_delta", "content_block_stop"} /\ e[i-1] \in InBlock
  \/ e[i] = "message_delta" /\ e[i-1] = "content_block_stop"
  \/ e[i] = "message_stop" /\ e[i-1] = "message_delta"
  \/ e[i] = "error" /\ e[i-1] \in InBlock

WellFormed(e) ==
  /\ Len(e) >= 2 /\ e[1] = "message_start" /\ e[2] = "content_block_start"
  /\ \A i \in 3..Len(e) : Follows(e, i)

\* A stream is empty up to the ask, then inside its block, and closed in the end,
\* unless its handler panics, right after it was opened.
StreamInv ==
  \A r \in Reqs :
    /\ pc[r] \in {"idle", "body", "factory", "conversation"} => events[r] = <<>>
    /\ pc[r] = "asking" => (events[r] = <<>> <=> ~input[r].stream)
    /\ events[r] # <<>> =>
         /\ WellFormed(events[r])
         /\ events[r][Len(events[r])] \in (IF pc[r] = "done" THEN Closed ELSE InBlock)
         /\ pc[r] \in {"torn", "aborted"} => Len(events[r]) = 2

\* A handler panics only on a conversation that another request is given too.
Shared ==
  \A r \in Reqs :
    /\ pc[r] \in {"asking", "torn", "aborted"} => conv[r] # Absent
    /\ pc[r] \in {"torn", "aborted"} => \E q \in Reqs \ {r} : conv[q] = conv[r]

LEMMA StreamMeansWellFormed == TypeInv /\ StreamInv /\ Shared => WellFormedStream
<1> SUFFICES ASSUME TypeInv, StreamInv, Shared, NEW r \in Reqs, events[r] # <<>>
             PROVE  /\ events[r][1] = "message_start" /\ events[r][2] = "content_block_start"
                    /\ \A i \in 3..Len(events[r]) : Follows(events[r], i)
                    /\ pc[r] = "done" <=> events[r][Len(events[r])] \in {"message_stop", "error"}
                    /\ pc[r] = "aborted" => Len(events[r]) = 2 /\ \E q \in Reqs \ {r} : conv[q] = conv[r]
  BY DEF WellFormedStream, Follows, InBlock
<1>1. QED
  BY DEF StreamInv, Shared, WellFormed, Closed, InBlock

\* Inside the block a delta may follow, or one of the two ends.
LEMMA SendKeepsForm ==
  ASSUME NEW e \in Seq(Events), WellFormed(e), e[Len(e)] \in InBlock
  PROVE  /\ WellFormed(e \o <<"content_block_delta">>)
         /\ WellFormed(e \o <<"error">>)
         /\ WellFormed(e \o <<"content_block_stop", "message_delta", "message_stop">>)
<1>1. ASSUME NEW x \in {"content_block_delta", "error"}
      PROVE  WellFormed(e \o <<x>>)
  <2> DEFINE f == e \o <<x>>
  <2>1. Len(f) = Len(e) + 1 /\ (\A i \in 1..Len(e) : f[i] = e[i]) /\ f[Len(e) + 1] = x
    OBVIOUS
  <2> HIDE DEF f
  <2>2. ASSUME NEW i \in 3..Len(f) PROVE Follows(f, i)
    <3>1. CASE i <= Len(e)
      BY <2>1, <3>1 DEF WellFormed, Follows
    <3>2. CASE i = Len(e) + 1
      BY <2>1, <3>2 DEF WellFormed, Follows
    <3>3. QED
      BY <2>1, <3>1, <3>2
  <2>3. QED
    BY <2>1, <2>2 DEF WellFormed, f
<1>2. WellFormed(e \o <<"content_block_stop", "message_delta", "message_stop">>)
  <2> DEFINE f == e \o <<"content_block_stop", "message_delta", "message_stop">>
  <2>1. /\ Len(f) = Len(e) + 3 /\ \A i \in 1..Len(e) : f[i] = e[i]
        /\ f[Len(e) + 1] = "content_block_stop" /\ f[Len(e) + 2] = "message_delta"
        /\ f[Len(e) + 3] = "message_stop"
    OBVIOUS
  <2> HIDE DEF f
  <2>2. ASSUME NEW i \in 3..Len(f) PROVE Follows(f, i)
    <3>1. CASE i <= Len(e)
      BY <2>1, <3>1 DEF WellFormed, Follows
    <3>2. CASE i = Len(e) + 1
      BY <2>1, <3>2 DEF WellFormed, Follows
    <3>3. CASE i = Len(e) + 2 \/ i = Len(e) + 3
      BY <2>1, <3>3 DEF Follows
    <3>4. QED
      BY <2>1, <3>1, <3>2, <3>3
  <2>3. QED
    BY <2>1, <2>2 DEF WellFormed, f
<1>3. QED
  BY <1>1, <1>2

LEMMA StreamStep == TypeInv /\ StreamInv /\ [Next]_vars => StreamInv'
<1> SUFFICES ASSUME TypeInv, StreamInv, [Next]_vars PROVE StreamInv'
  OBVIOUS
<1> DEFINE Fine(r, e, p, q) ==
      /\ p \in {"idle", "body", "factory", "conversation"} => e = <<>>
      /\ p = "asking" => (e = <<>> <=> ~q.stream)
      /\ e # <<>> =>
           /\ WellFormed(e) /\ e[Len(e)] \in (IF p = "done" THEN Closed ELSE InBlock)
           /\ p \in {"torn", "aborted"} => Len(e) = 2
<1>1. \A r \in Reqs : Fine(r, events[r], pc[r], input[r]) /\ events[r] \in Seq(Events)
  BY DEF StreamInv, TypeInv, TypeOK
<1>2. ASSUME \A r \in Reqs : Fine(r, events'[r], pc'[r], input'[r]) PROVE StreamInv'
  BY <1>2 DEF StreamInv
<1>3. ASSUME NEW r \in Reqs, Fine(r, events'[r], pc'[r], input'[r]),
             \A q \in Reqs \ {r} : events'[q] = events[q] /\ pc'[q] = pc[q] /\ input'[q] = input[q]
      PROVE  StreamInv'
  BY <1>1, <1>2, <1>3
<1>4. ASSUME NEW r \in Reqs, NEW q \in Inputs, Arrive(r, q) PROVE StreamInv'
  <2>1. /\ events[r] = <<>> /\ events' = events /\ pc'[r] = "body"
        /\ \A p \in Reqs \ {r} : pc'[p] = pc[p] /\ input'[p] = input[p]
    BY <1>1, <1>4 DEF Arrive, response, TypeInv, TypeOK
  <2>2. QED
    BY <1>3, <2>1
<1>5. ASSUME NEW r \in Reqs, handleMessages(r) \/ BodyCut(r) \/ Factory(r) \/ FactoryFails(r) PROVE StreamInv'
  <2>1. /\ events[r] = <<>> /\ events' = events /\ input' = input
        /\ pc'[r] \in {"factory", "conversation", "done"}
        /\ \A p \in Reqs \ {r} : pc'[p] = pc[p]
    BY <1>1, <1>5 DEF handleMessages, BodyCut, Factory, FactoryFails, Finish, TypeInv, TypeOK
  <2>2. QED
    BY <1>3, <2>1
<1>6. ASSUME NEW r \in Reqs, conversation(r) PROVE StreamInv'
  <2>1. input[r].stream \in BOOLEAN /\ Flusher \in BOOLEAN
    BY <1>6, LookupType, ApiAssumption DEF conversation
  <2>2. /\ events[r] = <<>> /\ input' = input
        /\ \A p \in Reqs \ {r} : pc'[p] = pc[p] /\ events'[p] = events[p]
    BY <1>1, <1>6 DEF conversation, Finish, Send, response, TypeInv, TypeOK
  <2>3. CASE input[r].stream /\ Flusher
    <3> DEFINE e == <<"message_start", "content_block_start">>
    <3>1. pc'[r] = "asking" /\ events'[r] = events[r] \o e
      BY <1>6, <2>3 DEF conversation, Send, TypeInv, TypeOK
    <3>2. events[r] \o e = e
      BY <2>2
    <3>3. e # <<>> /\ WellFormed(e) /\ e[Len(e)] \in InBlock
      BY DEF WellFormed, InBlock
    <3>4. QED
      BY <1>3, <2>2, <2>3, <3>1, <3>2, <3>3
  <2>4. CASE input[r].stream /\ ~Flusher
    <3>1. pc'[r] = "done" /\ events' = events
      BY <1>6, <2>4 DEF conversation, Finish, TypeInv, TypeOK
    <3>2. QED
      BY <1>3, <2>2, <3>1
  <2>5. CASE ~input[r].stream
    <3>1. pc'[r] = "asking" /\ events' = events
      BY <1>6, <2>5 DEF conversation, response, TypeInv, TypeOK
    <3>2. QED
      BY <1>3, <2>2, <2>5, <3>1
  <2>6. QED
    BY <2>1, <2>3, <2>4, <2>5
<1>7. ASSUME NEW r \in Reqs, Chunk(r) \/ AskAnswers(r) \/ AskFails(r) PROVE StreamInv'
  <2>1. /\ pc[r] = "asking" /\ input' = input
        /\ \A p \in Reqs \ {r} : pc'[p] = pc[p] /\ events'[p] = events[p]
    BY <1>7 DEF Chunk, AskAnswers, AskFails, Finish, Send, TypeInv, TypeOK
  <2>2. CASE ~input[r].stream
    <3>1. pc'[r] = "done" /\ events' = events
      BY <1>7, <2>2 DEF Chunk, AskAnswers, AskFails, Finish, TypeInv, TypeOK
    <3>2. events[r] = <<>>
      BY <1>1, <2>1, <2>2
    <3>3. QED
      BY <1>3, <2>1, <3>1, <3>2
  <2>3. CASE input[r].stream
    <3> DEFINE e == events[r]
    <3>1. e \in Seq(Events) /\ WellFormed(e) /\ e[Len(e)] \in InBlock /\ e # <<>>
      BY <1>1, <2>1, <2>3
    <3>2. CASE Chunk(r)
      <4> DEFINE f == e \o <<"content_block_delta">>
      <4>1. pc'[r] = pc[r] /\ events'[r] = f
        BY <3>2 DEF Chunk, Send, TypeInv, TypeOK
      <4>2. f # <<>> /\ WellFormed(f) /\ f[Len(f)] \in InBlock
        BY <3>1, SendKeepsForm DEF InBlock
      <4>3. QED
        BY <1>3, <2>1, <2>3, <4>1, <4>2
    <3>3. CASE AskAnswers(r)
      <4> DEFINE f == e \o <<"content_block_stop", "message_delta", "message_stop">>
      <4>1. pc'[r] = "done" /\ events'[r] = f
        BY <2>3, <3>3 DEF AskAnswers, Finish, Send, TypeInv, TypeOK
      <4>2. f # <<>> /\ WellFormed(f) /\ f[Len(f)] \in Closed
        BY <3>1, SendKeepsForm DEF Closed
      <4>3. QED
        BY <1>3, <2>1, <4>1, <4>2
    <3>4. CASE AskFails(r)
      <4> DEFINE f == e \o <<"error">>
      <4>1. pc'[r] = "done" /\ events'[r] = f
        BY <2>3, <3>4 DEF AskFails, Finish, Send, TypeInv, TypeOK
      <4>2. f # <<>> /\ WellFormed(f) /\ f[Len(f)] \in Closed
        BY <3>1, SendKeepsForm DEF Closed
      <4>3. QED
        BY <1>3, <2>1, <4>1, <4>2
    <3>5. QED
      BY <1>7, <3>2, <3>3, <3>4
  <2>4. QED
    BY <2>2, <2>3
<1>8. ASSUME NEW r \in Reqs, ReadTorn(r) \/ Panic(r) PROVE StreamInv'
  <2>1. /\ events' = events /\ input' = input /\ pc[r] \in {"asking", "torn"}
        /\ pc'[r] \in {"torn", "aborted"} /\ \A p \in Reqs \ {r} : pc'[p] = pc[p]
    BY <1>8 DEF ReadTorn, Panic, response, TypeInv, TypeOK
  <2>2. events[r] # <<>> => Len(events[r]) = 2
    BY <1>1, <1>8 DEF ReadTorn, Panic
  <2>3. QED
    BY <1>1, <1>3, <2>1, <2>2
<1>9. ASSUME UNCHANGED <<pc, input, events>> PROVE StreamInv'
  BY <1>9 DEF StreamInv
<1>10. QED
  BY <1>4, <1>5, <1>6, <1>7, <1>8, <1>9 DEF Next, HandlerStep, RemoteStep, Stall, Resume, Disconnect, Becomes,
     Login, Expire, Interrupt, Shutdown, ListenFails, vars, response

LEMMA SharedStep == ConvInv /\ Shared /\ [Next]_vars => Shared'
<1> SUFFICES ASSUME ConvInv, Shared, [Next]_vars, NEW r \in Reqs
             PROVE  /\ pc'[r] \in {"asking", "torn", "aborted"} => conv'[r] # Absent
                    /\ pc'[r] \in {"torn", "aborted"} => \E q \in Reqs \ {r} : conv'[q] = conv'[r]
  BY DEF Shared
<1> USE DEF handleMessages, BodyCut, Factory, FactoryFails, conversation, AskFails, Panic,
            Chunk, AskAnswers, ReadTorn, Stall, Resume, Disconnect, Becomes
<1>1. ASSUME NEW q \in Reqs, conv[q] # Absent PROVE conv'[q] = conv[q]
  <2>1. pc[q] # "conversation"
    BY <1>1 DEF ConvInv, Filed, Served
  <2>2. QED
    BY <2>1 DEF Next, Arrive, HandlerStep, RemoteStep, Login, Expire, Interrupt, Shutdown, ListenFails, vars,
                ConvInv, TypeInv, TypeOK
<1>2. pc'[r] = "asking" => pc[r] = "asking" \/ conv'[r] # Absent
  <2>1. CASE conversation(r)
    <3>1. lookup(r) # Absent
      BY <2>1, LookupType, ApiAssumption DEF ConvInv, Conversations
    <3>2. QED
      BY <2>1, <3>1 DEF ConvInv, TypeInv, TypeOK
  <2>2. CASE ~conversation(r)
    BY <2>2 DEF Next, Arrive, HandlerStep, RemoteStep, Finish, Login, Expire, Interrupt, Shutdown, ListenFails, vars,
                ConvInv, TypeInv, TypeOK
  <2>3. QED
    BY <2>1, <2>2
<1>3. pc'[r] \in {"torn", "aborted"} => pc[r] \in {"torn", "aborted"} \/ ReadTorn(r)
  BY DEF Next, Arrive, HandlerStep, RemoteStep, Finish, Login, Expire, Interrupt, Shutdown, ListenFails, vars,
         ConvInv, TypeInv, TypeOK
<1>4. pc'[r] \in {"torn", "aborted"} => conv[r] # Absent /\ \E q \in Reqs \ {r} : conv[q] = conv[r]
  BY <1>3 DEF Shared
<1>5. QED
  BY <1>1, <1>2, <1>4 DEF Shared

\* The events of a stream are those of one Anthropic message, closed once by
\* message_stop or by one error, for any number of chunks, however its client
\* stalls or leaves; only a request that shares its conversation can have its
\* stream cut, right after it was opened (server.go:267-303, plain.go:201).
THEOREM StreamsWellFormed == Spec => []WellFormedStream
<1>1. Init => ConvInv /\ StreamInv /\ Shared
  BY TypeInit DEF Init, ConvInv, Filed, StreamInv, Shared
<1>2. ConvInv /\ StreamInv /\ Shared /\ [Next]_vars => (ConvInv /\ StreamInv /\ Shared)'
  BY TypeStep, FiledStep, StreamStep, SharedStep DEF ConvInv
<1>3. ConvInv /\ StreamInv /\ Shared => WellFormedStream
  BY StreamMeansWellFormed DEF ConvInv
<1>4. QED
  BY <1>1, <1>2, <1>3, PTL DEF Spec
=============================================================================
