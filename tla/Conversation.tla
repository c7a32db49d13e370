---------------------------- MODULE Conversation ----------------------------
(***************************************************************************)
(* Conversations of internal/pplx (ask.go, bridge.go) and the asks that    *)
(* run on them.  A Conversation keeps backendUUID and readWriteToken and   *)
(* has no lock; the API server hands the same one to every request with    *)
(* the same conversation id, so several asks may run on it at once.  Each  *)
(* ask is a process: it reads the fields into its payload, talks to the    *)
(* server (twice, then a stream) or to the python bridge, and writes the   *)
(* fields at the end.  Every read and write of a field is a step.          *)
(*                                                                         *)
(* The thread an ask creates on the server is named by an entry: the ask   *)
(* and the path that made it.  Of the stream only the head of the frames   *)
(* is kept; AnswerStream models their content.                             *)
(***************************************************************************)
EXTENDS SSE

CONSTANTS Convs,         \* the live conversations
          Asks,          \* the calls of Ask and AskStream
          Kinds,         \* which of the two the callers use
          Torn,          \* a string header read while it is being written
          BridgeEnv,     \* value of PPLX_BRIDGE: "", "0" or "1"
          NoBridgeEnv,   \* value of PPLX_NO_BRIDGE: "" or "1"
          Serialized     \* TRUE: callers never overlap asks on a conversation

Paths == {"direct", "bridge"}
Entry == Asks \X Paths

ASSUME ConversationAssumption ==
  /\ BridgeEnv \in {"", "0", "1"}
  /\ NoBridgeEnv \in {"", "1"}
  /\ Serialized \in BOOLEAN
  /\ Kinds \subseteq {"Ask", "AskStream"}
  /\ Absent \notin Entry /\ Torn \notin Entry /\ Absent # Torn
  /\ Absent \notin Convs

VARIABLES
  backendUUID, readWriteToken,  \* the fields of each conversation
  pc, kind, conv, via,          \* where each ask is, on what, along which path
  last, lastToken,              \* what its payload carries
  head,                         \* thread identity taken from its answer
  outcome,                      \* what it returned
  answerUUID,                   \* Answer.UUID
  prior                         \* history: the asks that had returned when it began

shared  == <<backendUUID, readWriteToken>>
request == <<kind, conv, prior>>
payload == <<last, lastToken>>
vars == <<shared, request, payload, pc, via, head, outcome, answerUUID>>

-----------------------------------------------------------------------------
(* Errors, by what bridgeWorthy makes of their text.  A transport error or  *)
(* a clarifying question may or may not contain one of the signatures.      *)

Errors == {"rateLimited", "authwalled", "clarify", "clarifySignature",
           "transport", "transportSignature"}

bridgeEnabled == BridgeEnv = "1"
bridgeAuto == NoBridgeEnv # "1" /\ BridgeEnv # "0"
bridgeWorthy(e) == e \in {"rateLimited", "authwalled", "clarifySignature", "transportSignature"}

DirectPCs == {"payload", "payloadToken", "init", "post", "scan", "authwall"}
BridgePCs == {"request", "requestToken", "run"}
AdoptPCs  == {"storeUUID", "storeToken", "answer"}
PCs == {"idle", "done"} \cup DirectPCs \cup BridgePCs \cup AdoptPCs

Active(a) == pc[a] \notin {"idle", "done"}

Init ==
  /\ backendUUID = [c \in Convs |-> Absent]
  /\ readWriteToken = [c \in Convs |-> Absent]
  /\ pc = [a \in Asks |-> "idle"]
  /\ kind = [a \in Asks |-> "Ask"]
  /\ conv = [a \in Asks |-> Absent]
  /\ via = [a \in Asks |-> "direct"]
  /\ last = [a \in Asks |-> Absent]
  /\ lastToken = [a \in Asks |-> Absent]
  /\ head = [a \in Asks |-> EmptyHead]
  /\ outcome = [a \in Asks |-> "none"]
  /\ answerUUID = [a \in Asks |-> Absent]
  /\ prior = [a \in Asks |-> {}]

-----------------------------------------------------------------------------
(* Ask and AskStream: the choice of the path, and what follows a failure.   *)

\* Ask goes straight to the bridge when PPLX_BRIDGE=1; AskStream never does.
Begin(a, k, c) ==
  LET bridged == k = "Ask" /\ bridgeEnabled IN
  /\ pc[a] = "idle"
  /\ Serialized => \A q \in Asks : Active(q) => conv[q] # c
  /\ kind' = [kind EXCEPT ![a] = k]
  /\ conv' = [conv EXCEPT ![a] = c]
  /\ prior' = [prior EXCEPT ![a] = {q \in Asks : pc[q] = "done"}]
  /\ via' = [via EXCEPT ![a] = IF bridged THEN "bridge" ELSE "direct"]
  /\ pc' = [pc EXCEPT ![a] = IF bridged THEN "request" ELSE "payload"]
  /\ UNCHANGED <<shared, payload, head, outcome, answerUUID>>

\* A failed askDirect is retried once through the bridge; everything else is
\* returned to the caller.
retries(a, e) == kind[a] = "Ask" /\ bridgeAuto /\ bridgeWorthy(e)

Fail(a, e) ==
  /\ IF retries(a, e)
     THEN /\ pc' = [pc EXCEPT ![a] = "request"]
          /\ via' = [via EXCEPT ![a] = "bridge"]
          /\ head' = [head EXCEPT ![a] = EmptyHead]
          /\ UNCHANGED outcome
     ELSE /\ pc' = [pc EXCEPT ![a] = "done"]
          /\ outcome' = [outcome EXCEPT ![a] = e]
          /\ UNCHANGED <<via, head>>
  /\ UNCHANGED <<shared, request, payload, answerUUID>>

-----------------------------------------------------------------------------
(* Unsynchronised reads.  A string is two words: while another ask writes a *)
(* field that was empty, a reader may see the new length with the old nil   *)
(* pointer.  The values otherwise have one length, so any other mix of two  *)
(* headers is the old or the new value.                                     *)

Writing(q, field) ==
  \/ field = "uuid"  /\ pc[q] = "storeUUID"  /\ head[q].uuid # Absent
  \/ field = "token" /\ pc[q] = "storeToken" /\ head[q].token # Absent

RacyRead(a, field, value) ==
  {value} \cup {t \in {Torn} : value = Absent /\ \E q \in Asks \ {a} :
                                 conv[q] = conv[a] /\ Writing(q, field)}

\* The uuid goes into the request when it is not empty, and only then is the
\* token looked at (both paths do the same).
LoadUUID(a, at, next, skip) ==
  /\ pc[a] = at
  /\ \E v \in RacyRead(a, "uuid", backendUUID[conv[a]]) :
       /\ last' = [last EXCEPT ![a] = v]
       /\ pc' = [pc EXCEPT ![a] = IF v = Absent THEN skip ELSE next]
  /\ lastToken' = [lastToken EXCEPT ![a] = Absent]
  /\ UNCHANGED <<shared, request, via, head, outcome, answerUUID>>

LoadToken(a, at, next) ==
  /\ pc[a] = at
  /\ \E v \in RacyRead(a, "token", readWriteToken[conv[a]]) :
       lastToken' = [lastToken EXCEPT ![a] = v]
  /\ pc' = [pc EXCEPT ![a] = next]
  /\ UNCHANGED <<shared, request, last, via, head, outcome, answerUUID>>

\* json.Marshal follows the nil pointer; net/http recovers the panic of the
\* handler and drops the connection.
TornPayload(a) == Torn \in {last[a], lastToken[a]}

Panic(a, at) ==
  /\ pc[a] = at /\ TornPayload(a)
  /\ pc' = [pc EXCEPT ![a] = "done"]
  /\ outcome' = [outcome EXCEPT ![a] = "panic"]
  /\ UNCHANGED <<shared, request, payload, via, head, answerUUID>>

-----------------------------------------------------------------------------
(* askDirect, and AskStream, which repeats it.                              *)

buildPayload(a) == LoadUUID(a, "payload", "payloadToken", "init")

buildPayloadToken(a) == LoadToken(a, "payloadToken", "init")

InitSearch(a) ==
  /\ pc[a] = "init"
  /\ pc' = [pc EXCEPT ![a] = "post"]
  /\ UNCHANGED <<shared, request, payload, via, head, outcome, answerUUID>>

InitSearchFails(a) ==
  /\ pc[a] = "init"
  /\ \E e \in {"transport", "transportSignature"} : Fail(a, e)

PostSSE(a) ==
  /\ pc[a] = "post" /\ ~TornPayload(a)
  /\ pc' = [pc EXCEPT ![a] = "scan"]
  /\ UNCHANGED <<shared, request, payload, via, head, outcome, answerUUID>>

PostSSEPanics(a) == Panic(a, "post")

PostSSEFails(a) ==
  /\ pc[a] = "post" /\ ~TornPayload(a)
  /\ \E e \in {"transport", "transportSignature"} : Fail(a, e)

\* The heads of the frames the server may send on the stream of ask a.
FrameHeads(a) ==
  [rateLimited : BOOLEAN, upsell : BOOLEAN, final : BOOLEAN, clarify : BOOLEAN,
   uuid : {<<a, "direct">>, Absent}, token : {<<a, "direct">>, Absent}]

ReceiveFrame(a, f) ==
  LET err == frameError(f, f.clarify) IN
  /\ pc[a] = "scan"
  /\ \/ /\ err = "rateLimited"
        /\ Fail(a, "rateLimited")
     \/ /\ err \in {"nil", "stop"}
        /\ head' = [head EXCEPT ![a] = absorbHead(@, f)]
        /\ pc' = [pc EXCEPT ![a] = IF err = "stop" THEN "authwall" ELSE "scan"]
        /\ UNCHANGED <<shared, request, payload, via, outcome, answerUUID>>
     \/ /\ err = "clarify"
        /\ \E e \in {"clarify", "clarifySignature"} : Fail(a, e)

EndOfStream(a) ==
  /\ pc[a] = "scan"
  /\ pc' = [pc EXCEPT ![a] = "authwall"]
  /\ UNCHANGED <<shared, request, payload, via, head, outcome, answerUUID>>

\* Mutant: no timeout ends the reading of the body.
ReadError_never(a) == pc[a] = "scan" /\ FALSE /\ UNCHANGED vars

ReadError(a) ==
  /\ pc[a] = "scan"
  /\ \E e \in {"transport", "transportSignature"} : Fail(a, e)

\* Mutant: the authwall flag is not looked at.
checkAuthwall_dropped(a) ==
  /\ pc[a] = "authwall"
  /\ pc' = [pc EXCEPT ![a] = "storeUUID"]
  /\ UNCHANGED <<shared, request, payload, via, head, outcome, answerUUID>>

checkAuthwall(a) ==
  /\ pc[a] = "authwall"
  /\ IF head[a].authwalled
     THEN Fail(a, "authwalled")
     ELSE /\ pc' = [pc EXCEPT ![a] = "storeUUID"]
          /\ UNCHANGED <<shared, request, payload, via, head, outcome, answerUUID>>

-----------------------------------------------------------------------------
(* askViaBridge.  The script is external: it fails, or prints an answer     *)
(* with or without a thread.                                                *)

bridgeRequest(a) == LoadUUID(a, "request", "requestToken", "run")

bridgeRequestToken(a) == LoadToken(a, "requestToken", "run")

bridgePanics(a) == Panic(a, "run")

bridgeAnswers(a) ==
  /\ pc[a] = "run" /\ ~TornPayload(a)
  /\ \E u, t \in {<<a, "bridge">>, Absent} :
       head' = [head EXCEPT ![a] = [authwalled |-> FALSE, uuid |-> u, token |-> t]]
  /\ pc' = [pc EXCEPT ![a] = "storeUUID"]
  /\ UNCHANGED <<shared, request, payload, via, outcome, answerUUID>>

\* The script fails or outlives its three minutes, prints what is not JSON,
\* or reports an error.
bridgeFails(a) ==
  /\ pc[a] = "run" /\ ~TornPayload(a)
  /\ pc' = [pc EXCEPT ![a] = "done"]
  /\ outcome' = [outcome EXCEPT ![a] = "bridge"]
  /\ UNCHANGED <<shared, request, payload, via, head, answerUUID>>

-----------------------------------------------------------------------------
(* The end of both paths: adopt the thread, then read it back.              *)

\* Mutant: the thread is a variable of the package, not of the conversation.
storeUUID_global(a) ==
  /\ pc[a] = "storeUUID"
  /\ backendUUID' = [c \in Convs |-> Latest(head[a].uuid, backendUUID[c])]
  /\ pc' = [pc EXCEPT ![a] = "storeToken"]
  /\ UNCHANGED <<readWriteToken, request, payload, via, head, outcome, answerUUID>>

\* Mutant: the uuid is adopted once, on the first turn.
storeUUID_once(a) ==
  /\ pc[a] = "storeUUID"
  /\ backendUUID' = [backendUUID EXCEPT ![conv[a]] = Latest(@, head[a].uuid)]
  /\ pc' = [pc EXCEPT ![a] = "storeToken"]
  /\ UNCHANGED <<readWriteToken, request, payload, via, head, outcome, answerUUID>>

storeUUID(a) ==
  /\ pc[a] = "storeUUID"
  /\ backendUUID' = [backendUUID EXCEPT ![conv[a]] = Latest(head[a].uuid, @)]
  /\ pc' = [pc EXCEPT ![a] = "storeToken"]
  /\ UNCHANGED <<readWriteToken, request, payload, via, head, outcome, answerUUID>>

\* Mutant: the token is not kept.
storeToken_dropped(a) ==
  /\ pc[a] = "storeToken"
  /\ pc' = [pc EXCEPT ![a] = "answer"]
  /\ UNCHANGED <<shared, request, payload, via, head, outcome, answerUUID>>

storeToken(a) ==
  /\ pc[a] = "storeToken"
  /\ readWriteToken' = [readWriteToken EXCEPT ![conv[a]] = Latest(head[a].token, @)]
  /\ pc' = [pc EXCEPT ![a] = "answer"]
  /\ UNCHANGED <<backendUUID, request, payload, via, head, outcome, answerUUID>>

\* Mutant: the uuid read back is stored again.
answer_storesBack(a) ==
  /\ pc[a] = "answer"
  /\ \E v \in RacyRead(a, "uuid", backendUUID[conv[a]]) :
       /\ answerUUID' = [answerUUID EXCEPT ![a] = v]
       /\ backendUUID' = [backendUUID EXCEPT ![conv[a]] = v]
       /\ outcome' = [outcome EXCEPT ![a] =
                        IF v = Torn /\ kind[a] = "Ask" THEN "panic" ELSE "ok"]
  /\ pc' = [pc EXCEPT ![a] = "done"]
  /\ UNCHANGED <<readWriteToken, request, payload, via, head>>

\* Answer.UUID is read from the conversation, not from the stream.  serveJSON
\* puts it into the message id, where a torn value panics; serveStream drops it.
answer(a) ==
  /\ pc[a] = "answer"
  /\ \E v \in RacyRead(a, "uuid", backendUUID[conv[a]]) :
       /\ answerUUID' = [answerUUID EXCEPT ![a] = v]
       /\ outcome' = [outcome EXCEPT ![a] =
                        IF v = Torn /\ kind[a] = "Ask" THEN "panic" ELSE "ok"]
  /\ pc' = [pc EXCEPT ![a] = "done"]
  /\ UNCHANGED <<shared, request, payload, via, head>>

-----------------------------------------------------------------------------
\* Steps the ask takes by itself.
LocalStep(a) ==
  \/ buildPayload(a) \/ buildPayloadToken(a) \/ PostSSEPanics(a) \/ checkAuthwall(a)
  \/ bridgeRequest(a) \/ bridgeRequestToken(a) \/ bridgePanics(a)
  \/ storeUUID(a) \/ storeToken(a) \/ answer(a)

\* Answers of the server and of the script: they may never come.
RemoteStep(a) ==
  \/ InitSearch(a) \/ PostSSE(a) \/ EndOfStream(a) \/ bridgeAnswers(a)
  \/ \E f \in FrameHeads(a) : ReceiveFrame(a, f)

\* Failures, among them the five minutes of the HTTP client, which cover the
\* reading of the body, and the three of the script.
FailureStep(a) ==
  InitSearchFails(a) \/ PostSSEFails(a) \/ ReadError(a) \/ bridgeFails(a)

Next ==
  \/ \E a \in Asks, k \in Kinds, c \in Convs : Begin(a, k, c)
  \/ \E a \in Asks : LocalStep(a) \/ RemoteStep(a) \/ FailureStep(a)

Spec == Init /\ [][Next]_vars

Fairness == \A a \in Asks : WF_vars(LocalStep(a)) /\ WF_vars(FailureStep(a))

FairSpec == Spec /\ Fairness

-----------------------------------------------------------------------------
(* Properties.                                                              *)

Heads == [authwalled : BOOLEAN, uuid : Entry \cup {Absent}, token : Entry \cup {Absent}]

TypeOK ==
  /\ backendUUID \in [Convs -> Entry \cup {Absent}]
  /\ readWriteToken \in [Convs -> Entry \cup {Absent}]
  /\ pc \in [Asks -> PCs]
  /\ kind \in [Asks -> {"Ask", "AskStream"}]
  /\ conv \in [Asks -> Convs \cup {Absent}]
  /\ \A a \in Asks : pc[a] # "idle" => conv[a] \in Convs
  /\ via \in [Asks -> Paths]
  /\ last \in [Asks -> Entry \cup {Absent, Torn}]
  /\ lastToken \in [Asks -> Entry \cup {Absent, Torn}]
  /\ head \in [Asks -> Heads]
  /\ outcome \in [Asks -> Errors \cup {"none", "ok", "panic", "bridge"}]
  /\ answerUUID \in [Asks -> Entry \cup {Absent, Torn}]
  /\ prior \in [Asks -> SUBSET Asks]

\* The path that made entry e ran to its end without an error or an authwall.
Adopted(e) ==
  /\ via[e[1]] = e[2]
  /\ pc[e[1]] \in AdoptPCs \cup {"done"}
  /\ outcome[e[1]] \in {"none", "ok", "panic"}
  /\ ~head[e[1]].authwalled

\* No conversation ever holds, no request ever follows up on, and no answer
\* ever names the thread of a stream that failed, hit the authwall or was
\* abandoned for the bridge (ask.go:131-135 "Do NOT adopt the authwalled
\* thread's state ... following up on it poisons the bridge retry").
NoJunkThread ==
  /\ \A c \in Convs : \A e \in {backendUUID[c], readWriteToken[c]} \cap Entry : Adopted(e)
  /\ \A a \in Asks : \A e \in {last[a], lastToken[a], answerUUID[a]} \cap Entry : Adopted(e)

\* A conversation holds only threads made by its own asks, and an ask sends
\* only threads of its own conversation: two conversation ids never leak into
\* each other (server.go:193-199, ask.go:80-85, bridge.go:63-68).
ConversationIsolation ==
  /\ \A c \in Convs : \A e \in {backendUUID[c], readWriteToken[c]} \cap Entry : conv[e[1]] = c
  /\ \A a \in Asks : \A e \in {last[a], lastToken[a], answerUUID[a]} \cap Entry :
       conv[e[1]] = conv[a]

\* A turn that was answered before a request began is never forgotten by it:
\* however asks overlap, the request is a follow-up, and on a thread at least
\* as recent as that turn: not on one of an ask that had itself returned when
\* the turn began (ask.go:80-86, 137-142).
NoForgottenTurn ==
  \A r \in Asks : \A p \in prior[r] :
    /\ pc[r] \notin {"idle", "payload", "request"}
    /\ conv[p] = conv[r] /\ outcome[p] = "ok" /\ head[p].uuid # Absent
    => last[r] \in Entry /\ last[r][1] \notin prior[p]

\* A conversation is one thread: no two answered turns follow up on the same
\* turn, nor do two of them start a thread.  README.md and server.go:208 say so
\* of requests that share a conversation ("creating it on demand so the second
\* request in the same conversation sends last_backend_uuid").
LinearThread ==
  \A q, r \in Asks :
    /\ q # r /\ conv[q] = conv[r]
    /\ outcome[q] = "ok" /\ outcome[r] = "ok"
    /\ head[q].uuid # Absent /\ head[r].uuid # Absent
    => last[q] # last[r]

\* README.md: "PPLX_BRIDGE=1 (always bridge)".
AlwaysBridge == bridgeEnabled => \A a \in Asks : pc[a] # "idle" => via[a] = "bridge"

\* Every ask returns, whatever the server, the script and the other asks do:
\* at most one retry, and each wait has a timeout (ask.go:94-103, plain.go:81,
\* bridge.go:73).
EveryAskReturns == \A a \in Asks : pc[a] # "idle" ~> pc[a] = "done"

-----------------------------------------------------------------------------
(* Refinement of Thread by serialized asks.  A turn happens when its uuid is *)
(* stored: the thread then includes the token about to be stored.            *)

Happened(a) == pc[a] \in {"storeToken", "answer"} \/ outcome[a] = "ok"

pendingToken(c) ==
  LET s == {a \in Asks : conv[a] = c /\ pc[a] = "storeToken"}
  IN  IF s = {} THEN Absent ELSE head[CHOOSE a \in s : TRUE].token

threadOf == [c \in Convs |->
  [uuid  |-> backendUUID[c],
   token |-> Latest(pendingToken(c), readWriteToken[c])]]

turnOf(a) == [uuid |-> head[a].uuid, token |-> head[a].token,
              parent |-> last[a], parentToken |-> lastToken[a]]

turnsOf == [c \in Convs |-> {turnOf(a) : a \in {q \in Asks : conv[q] = c /\ Happened(q)}}]

T == INSTANCE Thread WITH None <- Absent, Ids <- Entry, thread <- threadOf, turns <- turnsOf

\* Asks that do not overlap implement Thread: the reads before the network and
\* the three separate accesses after it act as one step, whether the answer
\* came from the stream or, after a failed stream, from the bridge ("mirroring
\* Conversation.Ask's contract including followup state", bridge.go:47-49).
ThreadSpec == T!Spec
=============================================================================
