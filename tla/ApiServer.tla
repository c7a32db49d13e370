----------------------------- MODULE ApiServer ------------------------------
(***************************************************************************)
(* The Anthropic-compatible server: pplx serve (cmd/pplx/serve.go) and the *)
(* handler of /v1/messages (internal/api/server.go).  Each request runs in *)
(* a goroutine of its own; they share the map of live conversations, which *)
(* has a mutex, and the token file, which pplx login rewrites at any time. *)
(*                                                                         *)
(* A session is the number of the login it comes from.  A conversation is  *)
(* the request that created it together with the session of the transport  *)
(* client it was created with.  What happens inside Ask and AskStream is   *)
(* the business of Conversation and AnswerStream: here an ask forwards     *)
(* some chunks and returns an answer or an error, or panics because it has *)
(* read a string of the conversation that another ask was storing.         *)
(*                                                                         *)
(* The server sets no timeouts, so what a handler reads from its client or *)
(* writes to it may wait: a client may stall, and none has to go on.       *)
(***************************************************************************)
EXTENDS Naturals, Sequences

CONSTANTS Reqs,         \* the requests
          Inputs,       \* what a request may carry
          ConvIds,      \* conversation ids, "default" among them
          ApiKey,       \* the --api-key flag, Absent when not given
          Flusher,      \* the ResponseWriter can flush
          MaxLogins,    \* bound on the logins
          MaxChunks,    \* bound on the chunks of one answer
          Absent

ASSUME ApiAssumption ==
  /\ MaxLogins \in Nat /\ MaxChunks \in Nat /\ Flusher \in BOOLEAN
  /\ "default" \in ConvIds /\ Absent \notin ConvIds
  /\ \A q \in Inputs : q.conversation \in ConvIds \cup {Absent} /\ q.stream \in BOOLEAN
  /\ Absent \notin Inputs /\ Absent \notin [creator : Reqs, session : Nat]

VARIABLES
  serving,          \* the process: "up", "draining", "stopped" or "failed"
  token, expired,   \* the session in the token file, and those past their expiry
  convs,            \* the map of live conversations
  pc, input,        \* where each request is, and what it carries
  client,           \* session of the client the factory built for it
  conv,             \* the conversation it was given
  peer,             \* its client: "active", "stalled" or "gone"
  status, events    \* the response: HTTP status, and the events of a stream

server   == <<serving, token, expired>>
response == <<status, events>>
vars == <<server, convs, pc, input, client, conv, peer, response>>

Alive == serving \in {"up", "draining"}

Init ==
  /\ serving = "up" /\ token = 0 /\ expired = {}
  /\ convs = [id \in ConvIds |-> Absent]
  /\ pc = [r \in Reqs |-> "idle"]
  /\ input = [r \in Reqs |-> Absent]
  /\ client = [r \in Reqs |-> 0]
  /\ conv = [r \in Reqs |-> Absent]
  /\ peer = [r \in Reqs |-> "active"]
  /\ status = [r \in Reqs |-> 0]
  /\ events = [r \in Reqs |-> <<>>]

Send(r, evs) == events' = [events EXCEPT ![r] = @ \o evs]

\* Reading from the client and writing to it goes on while it does not stall;
\* once it is gone both return at once.
Ready(r) == peer[r] # "stalled"

Finish(r, code) ==
  /\ Ready(r)
  /\ pc' = [pc EXCEPT ![r] = "done"]
  /\ status' = [status EXCEPT ![r] = code]

-----------------------------------------------------------------------------
(* The handler up to the ask.                                               *)

\* The x-api-key header wins over the bearer token, even when it is wrong.
presentedKey(q) == IF q.xApiKey # Absent THEN q.xApiKey ELSE q.bearer

\* The first check that fails decides the status; 0 when all pass.  A message
\* is "ok", or is refused for its content or for its role.
refusal(q) ==
  IF q.method # "POST" THEN 405
  ELSE IF ApiKey # Absent /\ presentedKey(q) # ApiKey THEN 401
  ELSE IF ~q.json \/ q.messages = <<>> \/ ~q.model THEN 400
  ELSE IF \E i \in DOMAIN q.messages : q.messages[i] # "ok" THEN 400
  ELSE 0

\* The header of a request has come.  A connection taken before the interrupt
\* may bring one after it.
Arrive(r, q) ==
  /\ Alive /\ pc[r] = "idle"
  /\ input' = [input EXCEPT ![r] = q]
  /\ pc' = [pc EXCEPT ![r] = "body"]
  /\ UNCHANGED <<server, convs, client, conv, peer, response>>

\* The body is decoded, or thrown away by net/http before the refusal is sent:
\* both wait for the client.
handleMessages(r) ==
  /\ pc[r] = "body" /\ Ready(r)
  /\ IF refusal(input[r]) = 0
     THEN pc' = [pc EXCEPT ![r] = "factory"] /\ UNCHANGED status
     ELSE Finish(r, refusal(input[r]))
  /\ UNCHANGED <<server, convs, input, client, conv, peer, events>>

BodyCut(r) ==   \* the client leaves in the middle of its body
  /\ pc[r] = "body" /\ peer[r] = "gone"
  /\ refusal(input[r]) \in {0, 400}
  /\ Finish(r, 400)
  /\ UNCHANGED <<server, convs, input, client, conv, peer, events>>

\* The factory loads the token file anew for every request.
Factory(r) ==
  /\ pc[r] = "factory"
  /\ IF token = 0 \/ token \in expired
     THEN Finish(r, 500) /\ UNCHANGED client
     ELSE /\ client' = [client EXCEPT ![r] = token]
          /\ pc' = [pc EXCEPT ![r] = "conversation"]
          /\ UNCHANGED status
  /\ UNCHANGED <<server, convs, input, conv, peer, events>>

FactoryFails(r) ==   \* the spec or the transport cannot be set up
  /\ pc[r] = "factory"
  /\ Finish(r, 500)
  /\ UNCHANGED <<server, convs, input, client, conv, peer, events>>

convID(q) == IF q.conversation = Absent THEN "default" ELSE q.conversation

\* Mutant: the lookup is forgotten, every request makes a conversation.
lookup_always(r) == [creator |-> r, session |-> client[r]]

\* The live conversation of the id; the client just built is dropped when
\* there is one.
lookup(r) ==
  LET c == convs[convID(input[r])]
  IN  IF c = Absent THEN [creator |-> r, session |-> client[r]] ELSE c

\* conversation() under the mutex, then serveStream up to the ask, or serveJSON.
conversation(r) ==
  /\ pc[r] = "conversation"
  /\ input[r].stream => Ready(r)
  /\ conv' = [conv EXCEPT ![r] = lookup(r)]
  /\ convs' = [convs EXCEPT ![convID(input[r])] = lookup(r)]
  /\ IF input[r].stream /\ ~Flusher
     THEN Finish(r, 500) /\ UNCHANGED events
     ELSE /\ pc' = [pc EXCEPT ![r] = "asking"]
          /\ IF input[r].stream
             THEN /\ status' = [status EXCEPT ![r] = 200]
                  /\ Send(r, <<"message_start", "content_block_start">>)
             ELSE UNCHANGED response
  /\ UNCHANGED <<server, input, client, peer>>

-----------------------------------------------------------------------------
(* The ask and the end of the response.                                     *)

\* onChunk writes to the client, and the ask does not go on before it has.
Chunk(r) ==
  /\ pc[r] = "asking" /\ input[r].stream /\ Ready(r)
  /\ Len(events[r]) < MaxChunks + 2
  /\ Send(r, <<"content_block_delta">>)
  /\ UNCHANGED <<server, convs, pc, input, client, conv, peer, status>>

AskAnswers(r) ==
  /\ pc[r] = "asking"
  /\ Finish(r, 200)
  /\ IF input[r].stream
     THEN Send(r, <<"content_block_stop", "message_delta", "message_stop">>)
     ELSE UNCHANGED events
  /\ UNCHANGED <<server, convs, input, client, conv, peer>>

\* Mutant: after the error event the stream is closed as if it had succeeded.
AskFails_fallsThrough(r) ==
  /\ pc[r] = "asking"
  /\ IF input[r].stream
     THEN /\ Finish(r, 200)
          /\ Send(r, <<"error", "content_block_stop", "message_delta", "message_stop">>)
     ELSE Finish(r, 502) /\ UNCHANGED events
  /\ UNCHANGED <<server, convs, input, client, conv, peer>>

\* Mutant: an ask whose client has left is never given up.
AskFails_onlyConnected(r) ==
  /\ pc[r] = "asking" /\ peer[r] = "active"
  /\ IF input[r].stream
     THEN Finish(r, 200) /\ Send(r, <<"error">>)
     ELSE Finish(r, 502) /\ UNCHANGED events
  /\ UNCHANGED <<server, convs, input, client, conv, peer>>

\* A status line can only be sent once: a stream reports the error as an event.
AskFails(r) ==
  /\ pc[r] = "asking"
  /\ IF input[r].stream
     THEN Finish(r, 200) /\ Send(r, <<"error">>)
     ELSE Finish(r, 502) /\ UNCHANGED events
  /\ UNCHANGED <<server, convs, input, client, conv, peer>>

\* The ask reads a field while another ask on the conversation stores it, and
\* builds a payload or an answer of a string without bytes.  A stream does so
\* before its first chunk only: the uuid in its answer is dropped.
ReadTorn(r) ==
  /\ pc[r] = "asking"
  /\ input[r].stream => Len(events[r]) = 2
  /\ \E q \in Reqs \ {r} : pc[q] = "asking" /\ conv[q] = conv[r]
  /\ pc' = [pc EXCEPT ![r] = "torn"]
  /\ UNCHANGED <<server, convs, input, client, conv, peer, response>>

\* Mutant: the panic is recovered in the handler, which reports it like an error.
Panic_reported(r) ==
  /\ pc[r] = "torn"
  /\ pc' = [pc EXCEPT ![r] = "aborted"]
  /\ Send(r, <<"error">>)
  /\ UNCHANGED <<server, convs, input, client, conv, peer, status>>

\* net/http recovers the panic and closes the connection: no event, no status.
Panic(r) ==
  /\ pc[r] = "torn"
  /\ pc' = [pc EXCEPT ![r] = "aborted"]
  /\ UNCHANGED <<server, convs, input, client, conv, peer, response>>

-----------------------------------------------------------------------------
(* The clients.  When one leaves, the request context is cancelled, which   *)
(* makes its ask fail unless its answer is already in.                      *)

InHand(r) == pc[r] \notin {"idle", "done", "aborted"}

Becomes(r, state) ==
  /\ peer' = [peer EXCEPT ![r] = state]
  /\ UNCHANGED <<server, convs, pc, input, client, conv, response>>

Stall(r)      == InHand(r) /\ peer[r] = "active" /\ Becomes(r, "stalled")
Resume(r)     == InHand(r) /\ peer[r] = "stalled" /\ Becomes(r, "active")
Disconnect(r) == InHand(r) /\ peer[r] # "gone" /\ Becomes(r, "gone")

-----------------------------------------------------------------------------
(* The world around the handler.                                            *)

Login ==    \* pplx login in another process
  /\ token < MaxLogins
  /\ token' = token + 1
  /\ UNCHANGED <<serving, expired, convs, pc, input, client, conv, peer, response>>

Expire ==
  /\ token > 0 /\ token \notin expired
  /\ expired' = expired \cup {token}
  /\ UNCHANGED <<serving, token, convs, pc, input, client, conv, peer, response>>

Interrupt ==
  /\ serving = "up" /\ serving' = "draining"
  /\ UNCHANGED <<token, expired, convs, pc, input, client, conv, peer, response>>

\* Shutdown returns when no handler runs; it has no deadline.
Shutdown ==
  /\ serving = "draining"
  /\ \A r \in Reqs : ~InHand(r)
  /\ serving' = "stopped"
  /\ UNCHANGED <<token, expired, convs, pc, input, client, conv, peer, response>>

\* ListenAndServe returned another error: the process ends with it.
ListenFails ==
  /\ serving = "up" /\ serving' = "failed"
  /\ UNCHANGED <<token, expired, convs, pc, input, client, conv, peer, response>>

HandlerStep(r) ==
  /\ Alive
  /\ \/ handleMessages(r) \/ BodyCut(r) \/ Factory(r) \/ FactoryFails(r) \/ conversation(r)
     \/ AskFails(r) \/ Panic(r)

\* What the ask brings, and what the client does.
RemoteStep(r) ==
  Alive /\ (Chunk(r) \/ AskAnswers(r) \/ ReadTorn(r) \/ Stall(r) \/ Resume(r) \/ Disconnect(r))

Next ==
  \/ \E r \in Reqs, q \in Inputs : Arrive(r, q)
  \/ \E r \in Reqs : HandlerStep(r) \/ RemoteStep(r)
  \/ Login \/ Expire \/ Interrupt \/ Shutdown \/ ListenFails

Spec == Init /\ [][Next]_vars

\* A handler goes on by itself unless it waits for its client, and its ask at
\* least times out.
FairSpec == Spec /\ WF_vars(Shutdown) /\ \A r \in Reqs : WF_vars(HandlerStep(r))

-----------------------------------------------------------------------------
\* Requests with the same conversation id ask on the same Conversation object
\* for as long as the server runs, and different ids never share one
\* (server.go:208-220; the first requests of an id may race).
OneConversationPerId ==
  \A r, q \in Reqs :
    conv[r] # Absent /\ conv[q] # Absent =>
      (conv[r] = conv[q] <=> convID(input[r]) = convID(input[q]))

\* The events of a stream are those of an Anthropic message: opened once, every
\* delta inside the block, and closed by message_stop or by one error, after
\* which nothing follows (server.go:267-303; phase-2-mcp-api.md:85 "exact event
\* sequence ... message_stop (last)").  The one exception is a handler that
\* panics on a string it read while it was stored (ask.go:80, plain.go:201): its
\* stream is cut right after it was opened, and it shares its conversation.
WellFormedStream ==
  \A r \in Reqs : LET e == events[r] IN
    e # <<>> =>
      /\ e[1] = "message_start" /\ e[2] = "content_block_start"
      /\ \A i \in 3..Len(e) :
           \/ e[i] \in {"content_block_delta", "content_block_stop"} /\ e[i-1] \in {"content_block_start", "content_block_delta"}
           \/ e[i] = "message_delta" /\ e[i-1] = "content_block_stop"
           \/ e[i] = "message_stop" /\ e[i-1] = "message_delta"
           \/ e[i] = "error" /\ e[i-1] \in {"content_block_start", "content_block_delta"}
      /\ pc[r] = "done" <=> e[Len(e)] \in {"message_stop", "error"}
      /\ pc[r] = "aborted" => Len(e) = 2 /\ \E q \in Reqs \ {r} : conv[q] = conv[r]

\* token.go:20 "Perplexity token expired (run 'pplx login')": a request asks
\* with the session its factory has just loaded.
AsksWithLoadedSession ==
  \A r \in Reqs : conv[r] # Absent => conv[r].session = client[r]

\* Only its clients can keep the server from stopping after an interrupt: it
\* stops if each of them stalls for a limited time only, or leaves.  Neither an
\* ask without an answer, nor one that panics, nor requests that still come on
\* open connections hold it up (serve.go:58-60).
InterruptStops ==
  (\A r \in Reqs : <>[]Ready(r)) => (serving = "draining" ~> serving = "stopped")
=============================================================================
