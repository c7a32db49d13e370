------------------------------ MODULE McpServer ------------------------------
(***************************************************************************)
(* pplx mcp: the JSON-RPC server on standard input and output              *)
(* (internal/mcp/server.go, cmd/pplx/mcp.go).  It is one loop: a line is   *)
(* handled to its end, tool call included, before the next one is read.    *)
(* Around it, pplx login replaces the token file at any time.              *)
(*                                                                         *)
(* A message is named by its position in the input.  A session is the      *)
(* number of the login it stems from, 0 when there is none.  Of an ask,    *)
(* which Conversation models step by step, this module keeps what it sends *)
(* to Perplexity: one ask, or after some failures a second one through the *)
(* bridge (Conversation.Ask, internal/pplx/ask.go).                        *)
(***************************************************************************)
EXTENDS Naturals, SequencesExt

CONSTANTS Messages,      \* the lines a client may send
          MaxMessages,   \* bound on the lines
          MaxLogins,     \* bound on the logins
          Bridge         \* what PPLX_BRIDGE and PPLX_NO_BRIDGE choose for the process

ASSUME McpAssumption ==
  /\ Messages \subseteq [form : {"blank", "junk", "notification", "request"}, method : STRING,
                         name : STRING, query : BOOLEAN]
  /\ MaxMessages \in Nat /\ MaxLogins \in Nat /\ Bridge \in {"always", "auto", "never"}

ParseError     == "-32700"
MethodNotFound == "-32601"
InvalidParams  == "-32602"
InternalError  == "-32603"

VARIABLES
  pc,        \* "read", "factory", "tool", "ask", "bridge", "usage", "check", "write" or "ended"
  input,     \* the messages read so far
  resp,      \* the response about to be written
  out,       \* the responses written
  client,    \* session of the client the factory built for this call
  tried,     \* endpoints the spec check has tried
  calls,     \* what was tried at Perplexity for each message: kind and end
  token,     \* session in the token file
  before     \* session in the token file when the current line was read

vars == <<pc, input, resp, out, client, tried, calls, token, before>>

Init ==
  /\ pc = "read" /\ input = <<>> /\ out = <<>> /\ calls = <<>>
  /\ resp = [id |-> 0, body |-> "none"] /\ client = 0 /\ tried = 0
  /\ token = 0 /\ before = 0

msg == Last(input)

\* Only the loop writes to the output, after handleLine has returned.
Respond(id, body) == resp' = [id |-> id, body |-> body] /\ pc' = "write"

-----------------------------------------------------------------------------
(* handleLine and dispatch.                                                 *)

\* A tool call that names its tool goes on to the factory.
dispatch(m, id) ==
  \/ m.method = "tools/call" /\ m.name # "" /\ pc' = "factory" /\ UNCHANGED resp
  \/ m.method = "tools/call" /\ m.name = "" /\ Respond(id, InvalidParams)
  \/ m.method = "unknown" /\ Respond(id, MethodNotFound)
  \/ m.method \notin {"tools/call", "unknown"} /\ Respond(id, "result")

\* Mutant: a message without an id is dispatched all the same.
handleLine_answersAll(m, id) ==
  \/ m.form = "blank" /\ pc' = "read" /\ UNCHANGED resp
  \/ m.form = "junk"  /\ Respond(0, ParseError)
  \/ m.form \in {"notification", "request"} /\ dispatch(m, id)

\* A message without an id is not even dispatched.
handleLine(m, id) ==
  \/ m.form \in {"blank", "notification"} /\ pc' = "read" /\ UNCHANGED resp
  \/ m.form = "junk"    /\ Respond(0, ParseError)
  \/ m.form = "request" /\ dispatch(m, id)

ReadLine(m) ==
  /\ pc = "read" /\ Len(input) < MaxMessages
  /\ input' = Append(input, m)
  /\ before' = token
  /\ handleLine(m, Len(input) + 1)
  /\ calls' = Append(calls, <<>>)
  /\ UNCHANGED <<out, client, tried, token>>

-----------------------------------------------------------------------------
(* callTool.                                                                *)

\* Mutant: the client of the first call is kept for the later ones.
factory_cached ==
  /\ pc = "factory" /\ token # 0
  /\ client' = (IF client = 0 THEN token ELSE client) /\ pc' = "tool"
  /\ UNCHANGED <<input, resp, out, tried, calls, token, before>>

\* Every call loads the token file and builds a client of its own.
factory ==
  /\ pc = "factory" /\ token # 0
  /\ client' = token /\ pc' = "tool"
  /\ UNCHANGED <<input, resp, out, tried, calls, token, before>>

\* No token, an expired one, no spec or no transport: the tool does not run,
\* and its arguments are not looked at.
factoryFails ==
  /\ pc = "factory" /\ Respond(Len(input), InternalError)
  /\ UNCHANGED <<input, out, client, tried, calls, token, before>>

Asks == {"pplx_ask", "pplx_deep_research"}

callTool ==
  /\ pc = "tool"
  /\ \/ msg.name \in Asks /\ msg.query  /\ pc' = "ask" /\ UNCHANGED resp
     \/ msg.name = "pplx_usage"         /\ pc' = "usage" /\ UNCHANGED resp
     \/ msg.name = "pplx_spec_check"    /\ pc' = "check" /\ UNCHANGED resp
     \/ msg.name \in Asks /\ ~msg.query /\ Respond(Len(input), InvalidParams)
     \/ msg.name \notin Asks \cup {"pplx_usage", "pplx_spec_check"} /\ Respond(Len(input), InvalidParams)
  /\ tried' = 0
  /\ UNCHANGED <<input, out, client, calls, token, before>>

Call(kind, end) == calls' = [calls EXCEPT ![Len(input)] = Append(@, [kind |-> kind, end |-> end])]

Endpoints == <<"usage", "ask", "threads">>

\* The tool has its answer or error.  The spec check notes it and goes on to its
\* next endpoint; its report is a result also when it says FAIL.
Returns(end) ==
  IF msg.name = "pplx_spec_check"
  THEN /\ tried' = tried + 1
       /\ IF tried' = Len(Endpoints)
          THEN Respond(Len(input), "result") ELSE pc' = "check" /\ UNCHANGED resp
  ELSE Respond(Len(input), IF end = "ok" THEN "result" ELSE InternalError) /\ UNCHANGED tried

\* Conversation.Ask, on a new conversation.  A failure is "worthy" when its text
\* has one of the signs of bridgeWorthy: rate limit, authwall, handshake.
askDirect_anyFailure(end) ==     \* mutant: every failure goes to the bridge
  /\ pc = "ask" /\ Bridge # "always" /\ Call("ask", end)
  /\ IF Bridge = "auto" /\ end # "ok" THEN pc' = "bridge" /\ UNCHANGED <<resp, tried>> ELSE Returns(end)
  /\ UNCHANGED <<input, out, client, token, before>>

askDirect(end) ==
  /\ pc = "ask" /\ Bridge # "always" /\ Call("ask", end)
  /\ IF Bridge = "auto" /\ end = "worthy" THEN pc' = "bridge" /\ UNCHANGED <<resp, tried>> ELSE Returns(end)
  /\ UNCHANGED <<input, out, client, token, before>>

\* (The bridge script reads the token file itself.)
askViaBridge(end) ==
  /\ pc = (IF Bridge = "always" THEN "ask" ELSE "bridge") /\ Call("bridge", end)
  /\ Returns(end)
  /\ UNCHANGED <<input, out, client, token, before>>

Usage(end) ==
  /\ pc = "usage" /\ Call("usage", end)
  /\ Returns(end)
  /\ UNCHANGED <<input, out, client, token, before>>

\* Mutant: the check stops at the first endpoint that fails.
specCheck_stops(end) ==
  /\ pc = "check"
  /\ \/ Endpoints[tried + 1] = "ask" /\ pc' = "ask" /\ UNCHANGED <<resp, tried, calls>>
     \/ Endpoints[tried + 1] # "ask" /\ Call(Endpoints[tried + 1], end)
        /\ IF end = "ok" THEN Returns(end) ELSE Respond(Len(input), "result") /\ UNCHANGED tried
  /\ UNCHANGED <<input, out, client, token, before>>

\* Each endpoint is tried whatever the ones before it gave.
specCheck(end) ==
  /\ pc = "check"
  /\ \/ Endpoints[tried + 1] = "ask" /\ pc' = "ask" /\ UNCHANGED <<resp, tried, calls>>
     \/ Endpoints[tried + 1] # "ask" /\ Call(Endpoints[tried + 1], end) /\ Returns(end)
  /\ UNCHANGED <<input, out, client, token, before>>

-----------------------------------------------------------------------------
(* The loop.                                                                *)

Write ==
  /\ pc = "write" /\ out' = Append(out, resp) /\ pc' = "read"
  /\ UNCHANGED <<input, resp, client, tried, calls, token, before>>

\* The output is closed, or the input is at its end or has a line over 4 MB.
End ==
  /\ pc \in {"read", "write"} /\ pc' = "ended"
  /\ UNCHANGED <<input, resp, out, client, tried, calls, token, before>>

Login ==
  /\ token < MaxLogins /\ token' = token + 1
  /\ UNCHANGED <<pc, input, resp, out, client, tried, calls, before>>

Ends == {"ok", "error", "worthy"}

Step == \/ factory \/ factoryFails \/ callTool \/ Write
        \/ \E end \in Ends : askDirect(end) \/ askViaBridge(end) \/ Usage(end) \/ specCheck(end)

Next == (\E m \in Messages : ReadLine(m)) \/ Step \/ End \/ Login

Spec == Init /\ [][Next]_vars

-----------------------------------------------------------------------------
IsCall(m) == m.form = "request" /\ m.method = "tools/call"

\* The ids that must be answered, 0 standing for null: those of the requests
\* and, as null, of the lines that are no JSON.
DueOf(m, i) ==
  CASE m.form = "request" -> <<i>>
    [] m.form = "junk"    -> <<0>>
    [] OTHER              -> <<>>

Due(ms) == FlattenSeq([i \in DOMAIN ms |-> DueOf(ms[i], i)])

\* server.go:33 "writing one response per request (notifications produce
\* none)": when the loop is back at its input, the ids written are those due
\* for everything read, in that order.
AnsweredInOrder ==
  pc = "read" => [i \in DOMAIN out |-> out[i].id] = Due(input)

\* The i-th to the k-th request sent are those of one Conversation.Ask.
OneAsk(sent, i, k) ==
  IF Bridge = "always" THEN k = i /\ sent[i].kind = "bridge"
  ELSE /\ sent[i].kind = "ask"
       /\ IF Bridge = "auto" /\ sent[i].end = "worthy" THEN k = i + 1 /\ sent[k].kind = "bridge" ELSE k = i

\* The requests sent for a message m that was answered with body.
Paid(m, sent, body) ==
  LET n      == Len(sent)
      failed == body = InternalError /\ sent = <<>>
      fits   == (body = "result") = (sent[n].end = "ok")
  IN  IF ~IsCall(m) \/ body = InvalidParams THEN sent = <<>>
      ELSE CASE m.name \in Asks ->
                  IF m.query THEN failed \/ (n > 0 /\ OneAsk(sent, 1, n) /\ fits) ELSE sent = <<>>
             [] m.name = "pplx_usage" -> failed \/ (n = 1 /\ sent[1].kind = "usage" /\ fits)
             [] m.name = "pplx_spec_check" ->
                  failed \/ /\ n > 2 /\ sent[1].kind = "usage" /\ sent[n].kind = "threads"
                            /\ OneAsk(sent, 2, n - 1)
             [] OTHER -> sent = <<>>

PaidFor(o) == Paid(input[o.id], calls[o.id], o.body)

\* What was tried upstream is what the answered tool calls stand for: a call with
\* bad arguments, an unknown tool or no token tries nothing; an ask tries once,
\* and once more, through the bridge, exactly when the first try failed for a
\* reason the bridge may cure; its answer is a result only if the last try was;
\* and a spec check tries each of its endpoints once, its ask like any other ask
\* (server.go:202-252, 290-317; ask.go:94-103).  server.go:192 says that a spec
\* check "Consumes one query"; with the bridge on, it is two when the first
\* fails so.
CallsPaidFor == \A i \in DOMAIN out : out[i].id # 0 => PaidFor(out[i])

\* A tool call never uses a session older than the one that was in the token
\* file when its line was read: a login is noticed without a restart
\* (cmd/pplx/mcp.go:21-36).
NoStaleSession == pc \in {"tool", "ask", "bridge", "usage", "check"} => client >= before
=============================================================================
