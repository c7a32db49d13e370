------------------------------ MODULE HelloDial ------------------------------
(***************************************************************************)
(* The TLS dial of the production transport: dialUTLS with its self-heal   *)
(* (internal/transport/utls_client.go) and the cached ClientHello spec     *)
(* (internal/transport/chrome_hello.go).  A dial that the server refuses   *)
(* in the handshake runs a capture script, which rewrites the hello file,  *)
(* drops the cache and tries once more.  Dials of concurrent requests      *)
(* share the file and the cache.                                           *)
(*                                                                         *)
(* A hello is the number of the capture it stems from: 0 is the embedded   *)
(* one, and AutoHello stands for the spec that utls generates itself.     *)
(***************************************************************************)
EXTENDS Naturals, SequencesExt

CONSTANTS Dials,        \* the concurrent dials
          Layout,       \* the extensions of a captured hello
          Absent, Torn, AutoHello

ASSUME DialAssumption ==
  Absent \notin Nat /\ Torn \notin Nat /\ Absent # Torn /\ Absent # "canceled"

VARIABLES
  pc, result,   \* where a dial is, and what it returned
  tries,        \* handshakes it made
  used,         \* the hello of its last handshake
  mine,         \* the capture its script finished, Absent before
  file,         \* the hello file: Absent, Torn or the number of a capture
  cache,        \* helloSpec: Absent, or the hello and its extensions
  captures      \* captures finished

vars == <<pc, result, tries, used, mine, file, cache, captures>>
dial == <<pc, result, tries, used, mine>>

Init ==
  /\ pc = [d \in Dials |-> "connect"] /\ result = [d \in Dials |-> Absent]
  /\ tries = [d \in Dials |-> 0] /\ used = [d \in Dials |-> Absent]
  /\ mine = [d \in Dials |-> Absent]
  /\ file = Absent /\ cache = Absent /\ captures = 0

Goto(d, where) == pc' = [pc EXCEPT ![d] = where] /\ UNCHANGED result
Return(d, how) == pc' = [pc EXCEPT ![d] = "done"] /\ result' = [result EXCEPT ![d] = how]

-----------------------------------------------------------------------------
(* The hello.                                                               *)

Live == {"key_share", "supported_groups"}

\* buildHybridSpec: out is the layout itself, not a copy, so emptying the list
\* of out leaves nothing to walk over, and only the live key share is appended.
buildHybridSpec(extensions) ==
  LET layout   == SubSeq(extensions, 1, 0)
      replaced == SelectSeq(layout, LAMBDA e : TRUE)
  IN  IF Contains(layout, "key_share") THEN replaced ELSE Append(replaced, "key_share")

\* What loadHelloSpec returns, under its mutex: the cached spec, else the one
\* of the file, else the embedded one; nothing when the file cannot be parsed.
loadHelloSpec ==
  CASE cache # Absent -> cache
    [] cache = Absent /\ file = Torn -> Absent
    [] OTHER -> [hello |-> IF file = Absent THEN 0 ELSE file, exts |-> buildHybridSpec(Layout)]

\* dialUTLSOpt up to the handshake: applyChromeHello falls back to AutoHello.
Connect(d) ==
  /\ pc[d] = "connect" /\ Goto(d, "handshake")
  /\ cache' = loadHelloSpec
  /\ used' = [used EXCEPT ![d] = IF loadHelloSpec = Absent THEN AutoHello ELSE loadHelloSpec.hello]
  /\ tries' = [tries EXCEPT ![d] = @ + 1]
  /\ UNCHANGED <<mine, file, captures>>

ConnectFails(d) ==     \* no TCP connection, before the hello is looked at
  /\ pc[d] = "connect"
  /\ Return(d, IF tries[d] = 0 THEN "error" ELSE "handshake failure")
  /\ UNCHANGED <<tries, used, mine, file, cache, captures>>

-----------------------------------------------------------------------------
(* dialUTLS.                                                                *)

Handshake(d) ==
  /\ pc[d] = "handshake" /\ Return(d, "ok")
  /\ UNCHANGED <<tries, used, mine, file, cache, captures>>

\* Only a handshake failure of the first try is healed; the second try gives
\* the error of the first one back.
HandshakeFails(d, refused) ==
  /\ pc[d] = "handshake"
  /\ CASE tries[d] = 2 -> Return(d, "handshake failure")
       [] tries[d] = 1 /\ refused -> Goto(d, "heal")
       [] OTHER -> Return(d, "error")
  /\ UNCHANGED <<tries, used, mine, file, cache, captures>>

\* The script truncates the file first and only then captures a hello.
CaptureBegins(d) ==
  /\ pc[d] = "heal" /\ Goto(d, "capture")
  /\ file' = Torn
  /\ UNCHANGED <<tries, used, mine, cache, captures>>

CaptureEnds(d) ==
  /\ pc[d] = "capture" /\ Goto(d, "refresh")
  /\ captures' = captures + 1
  /\ file' = captures' /\ mine' = [mine EXCEPT ![d] = captures']
  /\ UNCHANGED <<tries, used, cache>>

\* No python, no curl_cffi, or more than 15 seconds; the file may stay empty.
CaptureFails(d) ==
  /\ pc[d] \in {"heal", "capture"} /\ Return(d, "handshake failure")
  /\ UNCHANGED <<tries, used, mine, file, cache, captures>>

\* Mutant: the cache is not dropped.
RefreshHello_noop(d) ==
  /\ pc[d] = "refresh" /\ Goto(d, "connect")
  /\ UNCHANGED <<tries, used, mine, file, cache, captures>>

RefreshHello(d) ==
  /\ pc[d] = "refresh" /\ Goto(d, "connect")
  /\ cache' = Absent
  /\ UNCHANGED <<tries, used, mine, file, captures>>

Next ==
  \E d \in Dials :
    \/ Connect(d) \/ ConnectFails(d) \/ Handshake(d) \/ CaptureBegins(d)
    \/ CaptureEnds(d) \/ CaptureFails(d) \/ RefreshHello(d)
    \/ \E refused \in BOOLEAN : HandshakeFails(d, refused)

Spec == Init /\ [][Next]_vars

-----------------------------------------------------------------------------
\* The retry is made with the hello just captured or a later one, never with
\* the cached one that was refused, although other dials fill and drop the same
\* cache; AutoHello is used only when the file is being rewritten by another dial
\* (utls_client.go:80-88).
RetryIsFresh ==
  \A d \in Dials : tries[d] = 2 => used[d] = AutoHello \/ used[d] >= mine[d]

\* chrome_hello.go:43 "returns a hybrid spec: the extension LAYOUT from the
\* captured Chrome 150 hello": all its extensions are there.
LayoutKept ==
  cache # Absent => \A i \in DOMAIN Layout : Contains(cache.exts, Layout[i])
=============================================================================
