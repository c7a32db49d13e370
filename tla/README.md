# A TLA+ verification of perplexity-proxy-go

`pplx` is a Go client of Perplexity's web interface. It asks questions over an
undocumented server-sent-event stream, keeps the thread of a conversation, and
offers the result on a command line, as an Anthropic-compatible HTTP server
(`pplx serve`) and as an MCP server (`pplx mcp`). Underneath it brings its own
HTTP/2, a fork of `golang.org/x/net/http2` changed to look like Chrome on the wire.
This directory models the parts that keep state or run concurrently, checks them
with TLC on small instances, and proves most of their safety properties with TLAPS for
every size.

Contents: [inventory](#inventory), [modules](#modules-and-how-they-follow-the-code),
[runs](#runs), [bounds](#bounds), [fairness](#fairness), [proofs](#proofs),
[where code and documentation disagree](#where-the-code-does-not-do-what-it-says),
[what is left out](#what-is-not-modelled), [plan](#plan).

## Inventory

| part | state it keeps | operations | what is hard about it |
|---|---|---|---|
| ask stream parser (`internal/pplx/sse.go`) | the fold of one stream: authwall flag, thread identity, answer, chunks, citations, title | `processData` and the `absorb*` functions per frame, `emitChunkDeltas` while streaming | frames of three shapes in any order, chunks that repeat, frames that are final |
| conversation (`ask.go`, `bridge.go`) | `backendUUID`, `readWriteToken`, no lock | `Ask`, `AskStream`, the retry over the python bridge | requests of the API server share one; fields are read before minutes of network and written after them; failed attempts have side effects upstream |
| line scanner (`transport/plain.go`) | buffer of unread bytes | `scanLines` under `PostSSE` | lines cut anywhere by reads, the cap, unterminated last line, errors that come with data |
| API server (`internal/api/server.go`, `cmd/pplx/serve.go`) | map of live conversations (mutex), the listener | `/v1/messages` handler, JSON or SSE answer, interrupt and shutdown | concurrent handlers, clients that stall or leave, errors and panics after the headers are out, draining |
| MCP server (`internal/mcp/server.go`, `cmd/pplx/mcp.go`) | none between lines | read a line, dispatch, call a tool, write a response | any mix of requests, notifications and junk; logins between calls |
| login (`auth.go`, `jar.go`, `token.go`, `commands.go`) | pending TOTP challenge, cookie jar, token file | sign-in, code, TOTP, session cookie, `Save`, `Load` | one-time code that must not be spent twice, session cookies in numbered chunks, a file rewritten in place by several processes |
| spec and `spec sync` (`internal/spec/spec.go`, `commands_spec.go`) | embedded spec, overrides file, environment | `Load`, fetch, compare, prompt, merge and write | three layers, edits by hand between syncs, a kill between truncation and write |
| TLS dial (`utls_client.go`, `chrome_hello.go`, `capture_hello.py`) | hello file, cached hello spec (mutex) | dial, capture on refusal, drop the cache, dial again | several dials heal at once over the same file and cache |
| HTTP transport (rest of `plain.go`, `chrome_h2.go`) | cookie jar | one request, one answer | none of its own |
| HTTP/2 connection pool (`http2x/client_conn_pool.go`, `transport_common.go`) | connections and dials per host, reservations | pick or dial, retry, mark dead, sweep idle ones | requests share dials and connections that die, are retired or belong to someone who was cancelled |
| HTTP/2 connection, client end (`http2x/transport.go`, `flow.go`, `pipe.go`, `databuffer.go`) | streams, windows, settings, shutdown flags | round trip, body writer, read loop, cancel, GOAWAY, ping, close | goroutine per request, read loop and timers over one connection; frames of streams that are gone |
| HTTP/2 connection, server end (`http2x/server.go`) | streams, windows, one write in flight, queue of control frames | serve loop, handlers, timers, graceful shutdown | handlers, timers and frames race to the serve loop, which panics when a stream is in the wrong state |
| framing and write scheduling (`frame.go`, `write.go`, `writesched*.go`) | Framer state, queues per stream | one method per frame, `ReadFrame`; `Push`, `Pop`, open, close, adjust | header blocks over several frames; DATA cut to fit windows; fairness |
| header compression and message headers (`xnet/hpack`, `httpcommon`, `httpguts`, `write.go`) | the dynamic table at both ends | encode and decode fields; request and response to header list and back | two tables that must agree for ever; size changes at moments the other end does not see |
| command line, `bridge setup`, probes, `dump` | none | parse flags, run, print | none |
| `idna`, `httpsfv`, `ciphers.go`, `config.go` | none | tables and parsers | none |

How they interact. `serve` and `mcp` build a transport client per request or call
from the token file (written by `login`, another process) and the effective spec
(written by `spec sync`). `serve` looks up a `Conversation` by id and calls `Ask` or
`AskStream` on it from as many goroutines as there are requests. An ask sends
`search_init`, then posts the query; the body goes through `scanLines`, line by
line into `processData`; at the end the ask stores the thread identity back in the
conversation. When the direct path fails with an error that looks like bot
scoring, `Ask` runs the python bridge once. Below, a request takes a connection from
the HTTP/2 pool, which dials when it has none; every dial goes through the TLS dial.
On the connection, callers, the read loop and timers of one end talk to the serve
loop and the handlers of the other; what they write goes through a write scheduler
(server), the header compression and the Framer. The program only uses the client
end against Perplexity, but ships, and tests the client against, the server end.

What makes each part correct:

* parser: the answer is what the server last said it is, whole and not doubled;
  the deltas forwarded add up to it; citations do not vanish;
* conversation: it never adopts the thread of a failed attempt, never that of
  another conversation, never forgets an answered turn; asks that do not overlap
  are one linear thread; every ask returns;
* scanner: the lines handed over do not depend on how the body was cut; a clean
  end has handed over everything; the buffer is bounded;
* API server: one conversation per id, a well-formed event stream in every
  outcome but one, after an interrupt an end that only a client can put off;
* MCP server: one response per request in order, upstream calls only for valid
  tool calls and a second one only where the bridge is due, never an outdated session;
* login: it fails only for reasons outside the program; it saves the session
  last issued, complete; a load that no save overlaps returns one login's token;
* spec sync: manual overrides survive, what was fetched is effective;
* dial: the retry uses a hello at least as new as the one just captured;
* pool: nobody fails for another's cancellation, a body is sent from its first byte
  or not at all, no connection keeps the slot of a request that is gone;
* connection: but for two orders of events that the property names, the ends never
  accuse each other or panic; a body that was cut is never reported as complete, the windows stay in step, a request that may be
  retried was not run, and no request is stuck;
* codec: the other end reads what was written, the tables agree, messages arrive,
  streams are served in order and in turn.

The hazards, line by line, with the property that covers each, are in
`PROJECT.json` under `hazards`.

## Modules and how they follow the code

`PROJECT.json` maps every definition to its source lines; definitions keep the
source's names. Definitions named `x_something` next to `x` are mutants: the form
a plausible bug would give `x`. No specification uses them; they show that the
property can fail.

* **SSE** - pure operators: a frame is a record of what `processData` looks at
  (upsell and rate-limit markers, uuid, token, title, final flag, and a body that
  is an object, blocks or steps). `absorbHead` takes the thread identity,
  `absorbBody` the content, `processData` gives the new state and nil, stop or an
  error. Answer text is a sequence of pieces.
* **AnswerStream** (extends SSE) - the fold over one stream as a machine:
  `Receive`, `EndOfStream`, `ReadError`. The history of frames is kept so that
  `AnswerIsLatest` can compare the fold with an independent reading of it.
* **AskWire** (extends AnswerStream) - the same client against the server the
  tests record: new chunks only while in progress, a stale full answer at any
  time, `DONE` with everything repeated, then the final frame. The server is
  external; constants name the liberties it may take.
* **Thread** - abstract: what a conversation promises. A turn happens at once, on
  the thread the previous turn left.
* **Conversation** (extends SSE) - asks as processes on shared conversations.
  Each read and each write of `backendUUID` and `readWriteToken` is one step, in
  the order of `buildPayload`, `Ask`, `AskStream` and `AskBridge`. The server and
  the bridge script answer, fail or stay silent at every point. A thread identity
  is an *entry*, the ask and the path that created it, so the model can tell whose
  thread a conversation holds. Two Go strings are read without synchronisation: a
  reader may see the length of the first value written with the nil pointer from
  before (`Torn`), and formatting that value panics. Values otherwise have one
  length, so every other mix of two headers is one of the two values. The word
  order inside a store and weaker orderings between different fields on arm64 are
  covered no further than that.
* **LineScanner** - `scanLines` byte class by byte class: `Read` (data and error
  may come together), `Split` of one line, `AfterSplit`, `AtEOF`. A byte is a line
  feed, carriage return, space, letter, a byte whose line makes the callback stop,
  or one whose line makes it fail. The reference reading `LinesOf` numbers the line
  ends of a whole body and knows nothing of buffers.
* **ApiServer** - the handler from arrival to response for every request, the map
  of conversations, the process from listening to stopped. Login and expiry happen
  in other processes at any time. A client may stall or leave at any point: decoding
  its body and writing to it wait while it stalls, since the server sets no timeouts.
  What goes on inside an ask is Conversation's business; here it forwards chunks and
  then answers or fails, or reads a torn string (`ReadTorn`) while another ask on the
  conversation is under way. The panic that follows is recovered by `net/http`, which
  closes the connection: no event, no status, the request is "aborted".
* **McpServer** - the loop with `handleLine`, `dispatch`, `callTool` and the tools;
  one call in flight at a time, logins in between. `calls` has, for each line read,
  the requests to Perplexity that were made while it was handled, and how each ended.
  An ask is `askDirect`, then `askViaBridge` when the failure is one for the bridge;
  `Bridge` is what the environment variables choose.
* **Login** - `cmdLogin` with `Auth`, the jar and the token store. One network
  exchange is a step; the server and the user answer as they like. Chunk cookies
  have numbers, hold one piece of the session each, and the jar joins them by number.
  The file is a sequence of cells
  marked with their writer, so in-place writes of different lengths mix as bytes do, and
  a reader takes it in several reads. `parse` accepts what `json.Unmarshal` accepts,
  which is any file whose first end of an object is its end: also the beginning of one
  token continued by the tail of another. `opened` and `suspect` are histories: the
  logins whose overlapping saves the file comes from, and the readers that met such saves.
* **SpecSync** - `spec.Load` and `spec sync` as functions on keys, with the file
  absent, valid or invalid, edits by hand and changes upstream at any time, and a
  kill at any point. `Shadowed` names the keys whose fetched value stays ineffective,
  because it is the embedded one and an older override hides it.
* **HelloDial** - `dialUTLS` with its single self-heal, the hello file and the
  cache, for several dials at once.
* **H2Pool** (extends HelloDial) - the connection pool and the retry loop on top of
  those dials. A connection has the name of the dial that made it; a round trip
  reserves a slot, becomes a stream, and ends in one of the ways `roundTripViaPool`
  tells apart. A request that gets no stream gives a slot back where it fails and, in
  a step of its own (`cleanupWriteRequest`), once more. Cancellations, refusals,
  GOAWAY, lost connections and sweeps are counted by `MaxFaults`.
* **H2Flow**, **H2Wire** - the windows (`outflow`, `inflow` with its delayed refresh)
  and the two ordered channels of a connection.
* **H2Client** - one `ClientConn`: `RoundTrip`, `writeRequest`, `writeRequestBody`,
  `cleanupWriteRequest` as the goroutine of a request, `ReadFrame` as the read loop
  with one operator per `process*` method, the caller who reads or closes the body,
  `Cancel`, the timers, `SendGoAway`, `CloseIfIdle`. A critical section of `cc.mu` or
  `cc.wmu` is one step; waits on `cc.cond` and on channels are guards.
* **H2Server** - one `serverConn`: the serve loop's iterations as steps (a frame read,
  a frame written, a message of a handler or a timer), handlers that read their
  body, answer with or without 1xx, length and trailers, panic, return early or
  close the body. `scheduleFrameWrite` ends each iteration and is part of each step.
  A panic of the source adds its reason to `panicked` and ends the loop.
  `staleTrailers` is a history: trailers came for a stream that was gone.
* **H2Conn** - the two ends composed over H2Wire, with the faults around them. The
  environment is bounded by a *load*: requests, body bytes and faults each cost
  something, and a behaviour may spend `MaxLoad`. A behaviour so has a long body, or
  two requests, or a fault, and pairs of these, not all of them together.
* **Hpack** - encoder, decoder and table, by entries and representations; octets count
  what a string takes on the wire and in the table.
* **H2Frame** - the Framer: each `Write*` method as the frames it gives, with padding,
  limits and `AllowIllegalWrites`; `ReadFrame` with the order of frames, all the
  parsers and `readMetaFrame`. An octet is a number below `Octet`.
* **H2Request**, **H2Response** - `EncodeHeaders` to `NewServerRequest`, and a handler's
  header, with trailers declared before or prefixed later, to `handleResponse`.
* **H2Sched** - the round-robin, random and RFC 9218 schedulers.
* **H2Codec** (extends the four) - one direction of a connection from what is asked to
  be written to what the other end makes of it, for a client and for a server with
  each scheduler. `refused` is the frame at which the reader gave up.

`MCx` modules only give constants their values. `xProofs` modules hold the theorems
about `x` and their proofs; `StreamProofs` holds those about AskWire with the parser,
and about LineScanner.

## Runs

`tlc -config X.cfg M` for each; "violation" runs end with a counterexample by
design and belong to a finding.

| run | module, configuration | shows |
|---|---|---|
| `answer_stream` | MCAskWire | Any four frames of 16 shapes: the fold agrees with the reference reading (`AnswerIsLatest`), citations stay and keep their numbering. On the recorded wire the answer equals what was sent at every moment, and the deltas add up to it. |
| `overlap` | MCConversation, MCOverlap | Two asks, each `Ask` or `AskStream`, on two conversations, overlapping freely, with every failure and the bridge retry, and a third ask that begins when one of them has returned: no junk thread, no leak, no turn that is forgotten because an older ask stores late, every ask returns. |
| `serialized` | MCConversation, MCSerial | Three asks that do not overlap: one linear thread, and they implement `Thread`. |
| `fork` | MCConversation, MCFork | *violation*: two overlapping requests of one conversation start two threads. |
| `api_server` | MCApiServer | Two requests of every kind; clients that stall, go on or leave; asks that fail, stay silent or panic on a torn read; logins, expiry, an interrupt at every point. What a stream looks like in each outcome, and that after an interrupt only a client that stalls for ever keeps the server from stopping. |
| `scan_lines` | LineScanner, MCScan | Every body of up to six bytes cut into reads in every way, ended by EOF, error, cap or callback. |
| `login` | MCLogin | Two logins and a reader through every answer, crash and full disk included, with saves that overlap each other and the reader. |
| `mcp_server` | MCMcpServer | Every sequence of three lines of twelve kinds, tools failing, asks that are sent again over the bridge, two logins. |
| `spec_sync` | MCSpecSync | Any number of syncs, three edits or upstream changes, kills. |
| `h2_pool` | MCH2Pool | Two requests and two dials: `RetryIsFresh` for dials that heal at once, `NoForeignCancel`, `BodyFromTheStart`, `ReservationsReturned` through three mishaps and the retries they cause, slots given back twice included. |
| `h2_conn` | MCH2Conn | A client and a server from the preface, or from an established connection, to the last frame: `NoConnError`, `BodyIntact`, `WindowsAgree`, `NeverRunTwice`, and no deadlock. The two orders in which the code does panic or accuse its peer occur, and are what `NoConnError` excepts. |
| `h2_codec` | MCH2Codec | `ReadsWhatWasWritten` and `TablesAgree` through every frame, table size and CONTINUATION; `MessageArrives` for requests, responses and trailers; `ServedInOrder` and `ServedInTurn` for each scheduler. The legal block the reader refuses and the trailers nobody writes occur, and are what `ReadsWhatWasWritten` excepts. |

Deadlock is not checked for the program's own parts: their processes are finite and
really end (asks return, commands exit, a server stops or waits for its clients). It is checked in the three
HTTP/2 runs. In `h2_conn` it carries a claim of its own: the only step of a model
at rest is `Quiet`, which needs every request to be over for its caller and for the
connection, so a request that nobody will wake shows up as a deadlock.

## Bounds

* `answer_stream`: `MaxFrames = 4`. The fold carries answer, chunk list and
  citations; a loss needs a frame that sets one, one that disturbs it, one that
  reads it, and an end. The frame set has one member for each branch of the parser.
  On the recorded wire: an answer of four one-letter chunks in at most eight frames,
  so that frames of one and of several chunks, stale answers between them and the
  repeated `DONE` all occur.
* `overlap`: three asks on two conversations, of which at most two are under way at a
  time (`Bounded`). A race for the fields is between two asks. `NoForgottenTurn` needs
  the third: one ask returns while an older one is still to store, the third begins
  after it and continues the thread. The third comes to asks of one conversation
  and of kind `Ask`, whose answers have no token, which is what keeps the run small; it
  begins while an older ask is under way, or after both. Asks and conversations
  are interchangeable, so the asks begin in their order and the first one on a fixed
  conversation. `ConversationProofs` removes all of these bounds for the invariants.
  The bridge variables are unset, which is the setting with the most behaviours
  (direct, then bridge).
* `serialized`: three asks on one conversation, since a token kept over a turn
  that brought none needs three; symmetry over asks, and no temporal property other
  than the refinement is checked with it. The kind is `Ask`: `AskStream` takes the same
  steps as its direct path.
* `api_server`: two requests, two conversation ids, two logins, two chunks, no
  symmetry because of the liveness property.
* `scan_lines`: cap 3, reads of up to 2 bytes, bodies of up to 6: lines of
  length 0 to 3 that straddle two and three reads, and bodies beyond the cap.
* `login`: tokens of two cells and of three (the old file's, and one login's), one
  reader, the session whole or in eleven chunks (the first number whose order by name differs),
  at most two sessions per login.
* `mcp_server`: three lines; the property is about order, which two lines can
  break, and about what one call leaves to the next. `Bridge = "auto"`, the setting in
  which an ask may be sent twice; the theorems hold for all three.
* `spec_sync`: three keys (one set by the environment, one sync never writes),
  three values, three edits.
* `h2_pool`: two requests, one with a body that cannot be sent twice and one that may
  ask for a connection of its own, two dials, `MaxRetry = 2` instead of 6 and three
  mishaps. The retry loop treats every retry after the first alike. A dial heals at
  most once, so captures are bounded without a cap.
* `h2_conn`: two requests on two streams with `MAX_CONCURRENT_STREAMS = 1`, so that one
  waits for the other. Bodies have up to two octets, and so do chunks and reads. The
  initial windows are of one octet and those the ends ask for of two, so that a
  window is used up exactly and a response of two octets waits for credit on the
  connection (larger than the initial ones, as the defaults are: a server set to a
  smaller one would reset streams whose data came before its SETTINGS were read).
  `InflowMinRefresh = 2` in place of 4096, so that credit is held back and returned. At
  most one fault.
  The load of a behaviour is at most 8. A request costs 3, each octet of its
  body or of its response 2, a HEAD or a connection of its own 2, trailers of the
  request 2, a fault 2 (cancel, panic, GOAWAY of the server, a handler that closes its
  body), 3 (read timeout) or 4 (the others). `New` begins with the settings still on the
  wire and costs 2. So there are two requests without bodies and with a fault of 2, or
  with one request body of one octet or one HEAD between them and no fault; one request
  without any body with every fault, with one octet (sent or received) and a fault of up
  to 3, with two octets or with an octet and trailers and no fault. Out of reach are two
  octets, or trailers, together with a fault, and two requests that both have a body.
  With `MaxLoad = 9` the properties hold as well (4.7 million states): that adds
  a fault of 2 to two octets and to trailers, and two octets while the settings
  are on the wire. Requests are symmetric.
* `h2_codec`: octets 0 to 3, so a header length needs several and `MaxReadSize` is 12;
  header frames of five octets, which cuts most blocks; a table of nine, which is
  three fields, and the sizes 0, 6 and 9 to change to, so that it shrinks to nothing,
  to a smaller table that keeps a field, and twice between two blocks; one call of a Framer method between two requests, or three frames of
  handlers on two streams with one event (window, priority, reset, table size)
  between them. The wire holds what one call wrote, since a Framer's reader does not
  look ahead. Schedulers do not look at headers, so each kind is given a different
  pair of responses instead of all.

## Fairness

Only two runs check liveness.

* `EveryAskReturns` (`overlap`): weak fairness of an ask's own steps (a runnable
  goroutine runs) and of its failure steps. The latter is what the timeouts
  guarantee: `newTransport` sets five minutes on the HTTP client
  (`cmd/pplx/commands.go:26`), which covers reading the body, and the bridge runs
  under three minutes (`bridge.go:73`). Nothing is assumed about Perplexity or the
  script: their answers are not fair, and they may send frames until the timeout.
* `InterruptStops` (`api_server`): weak fairness of each handler's own steps, again
  with the failure of its ask as the timeout, and of `Shutdown`, which returns once no
  handler runs. A client is not fair: the server sets no timeouts
  (`serve.go:44`) and shuts down without a deadline (`serve.go:60`), so one that sends
  its body slowly or stops reading keeps its handler, and the process, for ever. The
  property is conditional on that alone: if every client, from some time on,
  goes on or is gone, the server stops.

## Proofs

`tlapm XProofs.tla` checks them. Sets of asks, conversations, requests, dials, logins,
streams, lines, keys and bytes may have any size, and so may every bound that a module
takes as a constant. `PROJECT.json` lists the theorems with the property each states.

| module | theorems | what they state |
|---|---|---|
| ConversationProofs | `TypeCorrect`, `JunkThreadFree`, `Isolation`, `TurnsRemembered` | the invariants of `overlap` |
| | `OneThread`, `ThreadImplemented` | under `Serialized`: `LinearThread`, and Conversation implements `Thread` |
| StreamProofs | `TextUpToDate`, `DeltasAddUp` | the answer and the deltas on the recorded wire |
| | `LatestAnswer`, `CitationsRemain` | the answer and the citations, whatever the server sends |
| | `BufferIsBounded`, `CutsDoNotMatter`, `NothingLeftOut` | all of `scan_lines` |
| ApiServerProofs | `ConversationPerId`, `StreamsWellFormed` | all safety of `api_server` |
| McpServerProofs | `LoginNoticed`, `OneResponsePerRequest`, `OnlyPaidCalls` | all of `mcp_server` |
| LoginProofs | `NoLoginFailsItself`, `SessionsIntact`, `TokensWhole` | all of `login` |
| SpecSyncProofs | `OverridesSurvive`, `SyncTakesEffect` | all of `spec_sync` |
| H2PoolProofs | `RetriesAreFresh`, `OwnCancelOnly`, `BodiesWhole`, `SlotsReturned` | all of `h2_pool` |
| H2CodecProofs | `FramesInOrder`, `NoStreamPassedOver` | the scheduling of `h2_codec`: `ServedInOrder`, `ServedInTurn` |

**Assumptions.** The theorems rest on the named assumptions of the modules, which TLC
evaluates in every run, and on nothing else. They say that
values standing for "nothing" (`Absent`, `Torn`, `None`, `Empty`, `Invalid`) are not among
the values they are told apart from, that bounds and sizes are numbers, that the
constants have the sets of values the code distinguishes, and that the requests of a pool
are finitely many (their slots are counted). `UrgencyAssumption` of H2Sched and
`CodecAssumption` of H2Codec say that urgencies are numbers and there is one, that a
writing end is a client or a server with one of the three schedulers, that a stream's
priority is an urgency with the incremental flag, and that the windows and the frame
size are numbers. `AbsentAssumption` of AskWire says that
of every piece of the answer. `FrameAssumption` of AnswerStream is what decoding
JSON gives: the lists in a frame are lists, of blocks or steps whose data is there or
not, and a step is of one of the types the parser tells apart or another. Three hypotheses stand in theorems themselves:
`Serialized` in `OneThread` and `ThreadImplemented` (callers do not overlap asks on one
conversation; without it the `fork` run is the counterexample), `DoneRead` in
`TextUpToDate` (a `DONE` frame does not come before every chunk was sent and, at once, as
the final frame, whose content the code drops), and in `DeltasAddUp` that every
frame is of blocks and `DONE` is not early; where these fail, the section on
disagreements says what the code does.

**Conversations.** No safety property is inductive alone.

* `IInv` adds `Control` (the path an ask is on matches its program counter; an ask
  about to store is not authwalled; an ask that has not begun has touched nothing),
  `OwnHead` (what an ask took from its stream is its own entry on its own path) and
  `Entries` (every entry in a field, payload or answer was adopted, by an ask of that
  conversation). `OwnHead` is what fails when the bridge retry starts without clearing the
  state of the stream, and `Control` what fails when the authwall check is dropped.
* The proof that `Next` preserves `Entries` does not go action by action through all
  the conjuncts. Lemmas (`LocalShape`, `RemoteShape`, `FailureShape`, `BeginShape`)
  first show that every step moves only its own ask, and `NextData` that a step
  either stores its own head, or reads a field of its own conversation, or leaves
  the data alone; `EntriesStep` needs only these three cases.
* `TurnsRemembered` adds `PriorDone` (asks that had returned have returned) and
  `Remembered`: once a turn with a thread has happened, the conversation's uuid is
  an entry of an ask that had not returned before that turn began. It survives the
  stores of overlapping asks because any ask still able to store was not finished
  when the turn began. `NoForgottenTurn` follows when a later request reads the field.
* For asks that do not overlap, `SerialInv` adds `Alone` (one active ask per
  conversation), `Carries` (what an ask has read of the fields is what they still
  hold) and `Chain` (the field holds an entry no turn has continued yet, and the
  turns so far continued different ones). `LinearThread` is a part of `Chain`.
* `ThreadImplemented` uses the same invariant. The store of the uuid is the `Turn` of
  `Thread`: by `Carries` the entry it was asked with is still the thread's, by `Alone`
  the other asks of the conversation are not under way. Every other step leaves the
  three variables that Thread sees as they were.

**The recorded wire.** `WireInv`: the text is the chunks sent so far, joined, and
the chunk list and the deltas are those of the frames in progress.

**Any wire.** `StreamInv`: the content is what the answer data of all frames so far,
`AllData`, make of it (`Folded`): the chunk list is all their chunks, the answer is
`ReferenceAnswer`, the citations are in order. Two things carry it. A fold of the library is a
recursion over sets of indices; that it has a solution, and so takes one item after the
other, is shown once (`HasSolution`, `FoldSteps`) for the three folds used, over
blocks, over results and of lists put together. And `AnswerGrows`: one more datum settles
the answer or leaves it as it was. From there `FoldData`, `FoldBlocks`, `FoldStepList` and
`FoldFrame` follow the parser. A frame of the recorded server is
one of these frames (`WireReceives`), so the theorems hold for both.

**Scanner.** `BufInv` adds that the scanner continues only with a buffer
within the cap; a read adds at most one chunk, a split makes the buffer shorter.
`ScanInv` relates the scanner to a reading of the whole body: what is in the
buffer is what follows a line end of the body (`CutOff`), and what was handed over are
the body's lines up to that line end (`Handed`). The two lemmas that carry it are
`OneMore` (the next line end adds one line, or none if blank, to those of
`LinesOf`) and `LinesSame` (bytes that come later do not change the lines before).

**API server.** `Filed` (each live conversation was made by a request that holds it, and
a request holds the live one of its id) is the induction for `ConversationPerId`: it
is where looking up and creating under one lock is used. `StreamInv` says which
events a stream may have at each point of the handler; a torn read comes before the first
chunk and takes another request on the same conversation, which is what is left to say
of the stream of a handler that panicked.

**MCP server.** `Inv` relates the line being handled to everything written so far:
the ids of the responses plus the one owed are those the input is due
(`OrderInv`); what was sent for this line and no other, at each point of an ask that may
become two, alone or within a spec check (`CallInv`); the client is of a
session no older than when the line was read (`SessionInv`). That one more line adds the
ids it is due and no others (`FlattenSeq`) is proved by the least counterexample, since
the library's induction theorems cannot be used here.

**Login.** `CodeInv` follows the one-time code and the challenge through the two retries;
`JarInv`: what the jar reassembles is the session issued last, and that is what was
saved. `get` joins chunk cookies by number; that it gives back what `over` laid down, for any
number of chunks and any that were there before, is a lemma. `TokensWhole` rests on
`FileInv`: `SaverInv` says what the file is while logins save, alone or
overlapping, `ReaderInv` that unless overlapping saves were cut short the file starts as
one login's save does (`Starts`) and that a reader that is not suspect has
the beginning of it. `ParseOne` is what this is good for: of what starts as one save,
with whatever another left behind it, `parse` accepts only that save, whole.

**Spec sync.** `KeepInv` carries the user's keys through each stage of a sync: the file,
what was read of it, what is about to be written. `BringInv` does the same for what
was fetched, the keys that did not change and those that are `Shadowed` included.

**Connection pool.** `DialInv` bounds from below, at each point of a dial, how recent
the file, the cache and the hello used are (`DialFresh`). `OwnerInv` says whom a
connection or a dial under way belongs to, so that only a request's own dial, or one
that it does not wait for any more, ends because of that request; `CancelInv` is that
for the result of a dial. `ReservedInv`, the property itself, is inductive with these: a
step that takes a request off a connection gives a slot back at least once, and one
that gives back twice cannot take the count above what is left. It is an inequality since
the equation is false of the code. Its proof has one case per way out of a round trip.

**Write scheduling.** `CodecInv` speaks of one writing end and its history; what is on
the wire and the reading end do not occur in it.

* `Linked`: every open stream of a scheduler with turns is on the ring of its class,
  once, and on no other ring. Without it a removal could leave a closed stream on
  a ring, and `Pop` would not come back to the streams after it.
* `Behind`: a stream served while another of its ring could send is behind it. `Pop`
  takes the first stream of the ring that can send and the ring then begins after it, so
  a stream that was passed over is found before the one that passed it;
  `ServedInTurn` is this at the next `Pop`. The non-incremental streams of RFC 9218 have
  no turns (`inTurnWith`), and between urgencies the order of the search decides.
* `InOrder`: the pieces asked for are those written followed by those queued. A piece is
  an octet of DATA, an END_STREAM or another frame, so that a DATA frame
  cut to fit a window (`FrameWriteRequest.Consume`) has the pieces of the whole. Only
  for a closed stream, whose queue is dropped, it is the weaker "a beginning of".
* `Scheduler` adds what each scheduler's maps hold: the queues are of the open
  streams and of their frames, control frames are queued apart, nothing panicked.

The lemmas go from lists and rings to `Pop` and each operation of a scheduler, and from
there to the steps, one lemma per step. The scheduler that picks at random has no rings,
so `Linked` and `Behind` are required of the other two only. `NextOK` puts the steps together.

**Only model-checked.**

* Liveness: `EveryAskReturns` and `InterruptStops`. Fairness and `ENABLED` are out of
  the prover's reach.
* The connection (`h2_conn`): `NoConnError`, `BodyIntact`, `WindowsAgree` and
  `NeverRunTwice` relate two ends and everything on the wire between them, and the
  inductive strengthening would be as long as the models.
* Of the codec (`h2_codec`) `ReadsWhatWasWritten`, `TablesAgree` and `MessageArrives`:
  what a reader makes of the frames, and what a header block is encoded to, is
  computed by folds over the frames, fields and octets of the instance, so these are
  facts about what a fold computes rather than about the steps.
* What a fold computes over arbitrary data, in general. Where a theorem needs such a
  fact it is proved by the least counterexample (`FlattenSeq`, the numbering of line
  ends, the folds of the parser), which needs a fold the provers can unfold.

## Where the code does not do what it says

One disagreement has a run of its own (`findings` in `PROJECT.json`):

* `fork`: the uuid is read when an ask starts and stored when it ends, so overlapping
  requests of one conversation start a thread each, although `server.go:208` and
  the repository's README promise one shared thread.

The following properties are defined in the modules, with the sentence they come
from, and the code does not satisfy them. To see the counterexample, add the
definition as an INVARIANT to the configuration named.

* `AlwaysBridge` (Conversation; MCOverlap with `BridgeEnv = "1"`): `AskStream` never
  looks at `PPLX_BRIDGE`, while the README says "always bridge".
* `DeltasReproduceAnswer` with `Shapes = {"text"}` (MCAskWire): `absorbText` never calls
  `onChunk`, so a stream of `text` frames, "Primary shape" in `sse.go:111`, gives an
  answer without any delta. `stream_test.go:68` calls the agreement of the two an
  invariant.
* `AnswerUpToDate` with `DoneIsLast = TRUE` and `EarlyDone = TRUE` (MCAskWire): the content of a `DONE` frame that is itself the final one is dropped
  (`sse.go:102`), so text that only this frame carries is lost; the fixture
  `zz_authwall_test.go:18` ends with such a frame.
* `AsksWithLoadedSession` (MCApiServer): a live conversation keeps the session of
  the request that created it (`server.go:214`); a running server does not notice a
  new login for the conversations it knows.
* `OnlyLongLinesRefused` (MCScan with `Bytes = {LF, Letter}`): the cap is compared with
  the whole buffer (`plain.go:368`), so lines within the cap can be refused when a
  read brings more than one.
* `LoadsAreWhole` (MCLogin): a load during a save, or of a file in which a full disk cut
  one of two overlapping saves short, can take the beginning of one token and
  the end of the other for a token (`token.go:97`). `LoadsOneToken` excepts these.
* `LoggedInMeansLoadable` (MCLogin): two logins whose writes overlap can both succeed
  and leave a file that does not parse (`token.go:81`).
* `InSyncMeansEqual` (MCSpecSync): `spec sync` compares with the embedded spec
  (`commands_spec.go:212`), so a stale override is reported as in sync.
* `InvalidFileIsReplaced` (MCSpecSync): `spec.Load` fails on a malformed file
  (`commands_spec.go:202`) before the code that would replace it.
* `ReservedExactly` (MCH2Pool): a request that finds its connection unusable gives
  back its slot in `writeRequest` (`transport.go:1135`), and then, having no stream, another
  one in `cleanupWriteRequest` (`transport.go:1302-1304`), whose comment thinks of
  requests "canceled before creating the stream". A connection can so take one request
  more than it should.
* `LayoutKept` (MCH2Pool): `buildHybridSpec` empties the extension list of `out`,
  which is the layout itself (`chrome_hello.go:95-98`), so no captured extension is kept.

Smaller ones, met while reading: the comment at `commands.go:87` says the callback
is walked again, while `CompleteLogin` goes on from the pending challenge;
`decompressBody` undoes gzip and deflate only, while `appHeaders` offers br and zstd
and the comment at `plain.go:232` says "we own decoding whatever the server chose"; `pplx logout` is in the README and
not in the code; the spec check of the MCP server "Consumes one query" (`server.go:192`),
or two when its ask goes on to the bridge.

In HTTP/2, the first five seen by TLC as described, the others read. The first four
occur in the passing runs and are excepted by name in the property: delete the
exception to see the counterexample.

* `NoConnError`, `handlerPanicked`: the RST_STREAM of a handler that panicked is written
  without a look at the stream (`server.go:1175`). When a RST_STREAM of the client closes
  the stream meanwhile, the write's report closes it again (`server.go:1247`), which panics
  (`server.go:1562`) and ends the connection with all of its requests.
* `NoConnError`, `staleTrailers`: a server that resets a stream while the client's
  trailers for it are on the wire answers them with a connection error
  (`server.go:1882` and the comment there).
* `ReadsWhatWasWritten`, `refusesSecondUpdate`: after two size changes the encoder
  announces the smallest and the last; the decoder refuses the second announcement when
  its table is not empty (`hpack.go:414`), although RFC 7541 asks for both.
* `ReadsWhatWasWritten`, trailers: those all of whose values are invalid give an empty
  header block that is never written (`write.go:208`): the stream gets no END_STREAM.
* `CreditComesBack` (H2Conn; MCH2Conn): "But at least return their flow control"
  (`transport.go:2305`) holds for a stream that is gone, but DATA that arrives between
  the cancellation of a round trip and the end of its stream goes into a body nobody
  was given, and its credit never comes back. `WindowsAgree` says that the two ends
  agree on the window, not that it recovers.
* An interim 1xx of a handler counts as the header: a 100-continue that was due is then
  never written and the client's body waits for its timer (`server.go:1108`).
* `request.go:178` orders by rank with `sort.Slice`, so fields that Chrome's order does
  not list come in the random order of the map; `headerOrders` has them all.
  `2 * remainSize` there overflows for a limit of 2^31 and more.
* `fingerprint.go` describes PRIORITY frames and a window update that are not sent;
  the Chrome branch at `transport.go:548` sets the *peer's* initial window.
* A connection that breaks before its first use, once `CloseIdleConnections` has marked
  it, stays in the pool for good.

## What is not modelled

* Of `internal/http2x`: server push (the client's SETTINGS refuse it), the h2c upgrade,
  extended CONNECT's wait for SETTINGS, strict concurrency limits, the glue to
  `net/http`, tracing and logging, and the RFC 7540 scheduler, which is deprecated and
  which nothing in the repository selects. (Reading it: a closed node that is kept in
  the tree shares its queue's arrays with the pool; an idle node that is opened stays
  in `idleNodes` and can be evicted while open; `setParent` does not move
  `subtreeBytes`.)
* `idna`, `httpsfv`, the Huffman and integer codes, cipher tables and configuration
  defaults: stateless tables and parsers, whose results are constants of the instances.
* utls: external.
* The bytes of frames, headers, cookies and TLS hellos, JSON parsing, model-name
  mapping, printing, flag parsing.
* Wall-clock time: timeouts and expiry are steps that can happen at any moment.
* The rest of the HTTP transport, `spec show`, `spec check`, `bridge setup`, the
  probes and `dump`: each is a sequence of I/O without state of its own.
* `RestoreSession` has no caller.
* An edit of the overrides file in the instant between the read and the write
  inside `writeOverrides`: it is lost, as with any editor.

## Plan

Done: all modules above, in the order conversation and parser first (the core of
the program), then the servers on top of them, then scanner, login, spec and dial,
then HTTP/2 from the pool through the connection to the codec; theorems on all
modules but the HTTP/2 connection, and of the codec on its schedulers.

Next, in this order:

1. Proofs about parts of the HTTP/2 connection: what `inflow` and `outflow` of H2Flow
   preserve, and from it `WindowsAgree` for a single direction.
2. `TablesAgree` for Hpack alone: that encoder and decoder do the same to their tables.
3. Compose ApiServer with Conversation: handlers whose ask is the real one, so that
   junk threads, forks and torn reads are seen from the HTTP side.
