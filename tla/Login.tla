-------------------------------- MODULE Login --------------------------------
(***************************************************************************)
(* pplx login (cmd/pplx/commands.go), the sign-in flow it drives           *)
(* (internal/pplx/auth.go), the cookie jar that catches the session        *)
(* (internal/transport/jar.go), and the token file in which the session    *)
(* ends up and which every other command reads (internal/pplx/token.go).   *)
(*                                                                         *)
(* Logins run in processes of their own and share nothing but the file.    *)
(* One network exchange is one step.  The server and the user answer as    *)
(* they like; the server gives every login a one-time code, accepts it     *)
(* once, and hands out the session as one cookie or cut into numbered      *)
(* chunk cookies, expiring the cookies of the session it replaces.         *)
(*                                                                         *)
(* A session is the sequence of its pieces, and a chunk cookie holds one   *)
(* of them.  The file is a sequence of cells, each marked with the login   *)
(* that wrote it; what login l saves takes Size[l] cells.  All borders of  *)
(* cells lie within the string of the token, and the last cell of a login  *)
(* holds the rest of the file, its expiry included.  (A border elsewhere   *)
(* adds no outcome: a file cut there is refused like one cut before the    *)
(* last cell, and two files joined there are refused, or load with mixed   *)
(* dates or a mixed token like those joined within the string.)            *)
(***************************************************************************)
EXTENDS Naturals, FiniteSets, SequencesExt

CONSTANTS Logins,       \* the login processes
          Readers,      \* processes that load the token
          old,          \* the login an existing token file stems from
          Size,         \* cells that the token of each login takes
          Shapes,       \* number of chunk cookies of a session, 0 for one cookie
          MaxSessions,  \* bound on the sessions the server issues to a login
          Absent

ASSUME LoginAssumption ==
  /\ old \notin Logins /\ Size \in [Logins \cup {old} -> Nat \ {0}]
  /\ Shapes \subseteq Nat /\ MaxSessions \in Nat \ {0}
  /\ Absent # "disk" /\ Absent \notin Seq(Logins \cup {old})

VARIABLES
  pc, outcome,     \* where a login is, and why it ended
  pendingTOTP,     \* Auth waits for a TOTP code
  code, totp,      \* what the user typed
  jar,             \* cookie name -> value
  otp, challenge,  \* the server: the one-time code, the TOTP challenge
  session,         \* the server: the latest session of the login, Absent if none
  saved,           \* the value given to Save
  file, opened,    \* the token file, and the logins whose overlapping saves it comes from
  expired,         \* logins whose token is past its expiry
  rpc, data,       \* a reader: where it is, and what it has read
  suspect          \* the readers that met overlapping saves (history)

auth   == <<pendingTOTP, jar>>
server == <<otp, challenge, session>>
disk   == <<file, opened>>
reader == <<rpc, data, suspect>>
vars == <<pc, outcome, auth, code, totp, server, saved, disk, expired, reader>>

Whole(l) == [i \in 1..Size[l] |-> l]

Init ==
  /\ pc = [l \in Logins |-> "warm up"] /\ outcome = [l \in Logins |-> Absent]
  /\ pendingTOTP = [l \in Logins |-> FALSE]
  /\ code = [l \in Logins |-> Absent] /\ totp = [l \in Logins |-> Absent]
  /\ jar = [l \in Logins |-> <<>>]
  /\ otp = [l \in Logins |-> "none"] /\ challenge = [l \in Logins |-> "none"]
  /\ session = [l \in Logins |-> Absent] /\ saved = [l \in Logins |-> Absent]
  /\ file \in {Absent, Whole(old)} /\ opened = {} /\ expired = {}
  /\ rpc = [p \in Readers |-> "idle"] /\ data = [p \in Readers |-> <<>>] /\ suspect = {}

Goto(l, where) == pc' = [pc EXCEPT ![l] = where] /\ UNCHANGED outcome

End(l, why) ==
  /\ pc' = [pc EXCEPT ![l] = "done"]
  /\ outcome' = [outcome EXCEPT ![l] = why]

-----------------------------------------------------------------------------
(* The cookie jar.  A name is the session cookie, a chunk of it, or a       *)
(* cookie that only looks like a chunk.                                     *)

WholeCookie == <<"whole", 0>>
ChunkCookie(i) == <<"chunk", i>>
SignedCookie == <<"signed", 1>>     \* as in session-token.-1

\* The cookies of top, and those of base it does not replace.
over(top, base) == [n \in DOMAIN top \cup DOMAIN base |-> IF n \in DOMAIN top THEN top[n] ELSE base[n]]

\* Mutant: an expired cookie stays.
SetCookies_keeps(j, new, gone) == over(new, j)

SetCookies(j, new, gone) == over(new, [n \in DOMAIN j \ gone |-> j[n]])

\* The elements of S in the order of their places (SetToSortSeq tries every
\* permutation, too many for eleven chunks).
Ordered(S, place) ==
  [k \in 1..Cardinality(S) |-> CHOOSE i \in S : Cardinality({j \in S : place[j] < place[i]}) = k - 1]

chunks(j) == {n[2] : n \in {m \in DOMAIN j : m[1] = "chunk"}}

\* Mutant: the chunks are joined in the order of their names, 10 before 2.
get_byName(j) ==
  LET order == Ordered(chunks(j), [i \in chunks(j) |-> IF i < 10 THEN i * 11 ELSE (i \div 10) * 11 + 1 + (i % 10)])
  IN  IF WholeCookie \in DOMAIN j THEN j[WholeCookie]
      ELSE [k \in DOMAIN order |-> j[ChunkCookie(order[k])]]

\* The whole cookie, or else the chunks joined in numeric order.
get(j) ==
  LET order == Ordered(chunks(j), [i \in chunks(j) |-> i])
  IN  IF WholeCookie \in DOMAIN j THEN j[WholeCookie]
      ELSE [k \in DOMAIN order |-> j[ChunkCookie(order[k])]]

\* The cookies that carry a session cut into n chunks, or whole.
Cookies(s, n) ==
  IF n = 0 THEN [c \in {WholeCookie} |-> s]
  ELSE [c \in {ChunkCookie(i) : i \in 0..(n - 1)} \cup {SignedCookie} |->
          IF c = SignedCookie THEN <<0, 0>> ELSE s[c[2] + 1]]

\* The server issues its v-th session to l in some shape: a response that sets
\* its cookies and expires the others.
Pieces(v, n) == [i \in 1..(IF n = 0 THEN 1 ELSE n) |-> <<v, i>>]
Version(l) == IF session[l] = Absent THEN 1 ELSE Head(session[l])[1] + 1
Issue(l, n) ==
  LET s   == Pieces(Version(l), n)
      new == Cookies(s, n)
  IN  /\ session' = [session EXCEPT ![l] = s]
      /\ jar' = [jar EXCEPT ![l] = SetCookies(@, new, DOMAIN @ \ DOMAIN new)]

\* A response that may issue a session.
MayIssue(l) ==
  \/ UNCHANGED <<session, jar>>
  \/ Version(l) <= MaxSessions /\ \E n \in Shapes : Issue(l, n)

-----------------------------------------------------------------------------
(* RequestCode.  It leaves a CSRF token, so CompleteLogin never fetches one. *)

WarmUp(l) ==
  /\ pc[l] = "warm up" /\ Goto(l, "csrf")
  /\ UNCHANGED <<auth, code, totp, server, saved, disk, expired, reader>>

fetchCSRF(l, found) ==
  /\ pc[l] = "csrf"
  /\ IF found THEN Goto(l, "signin") ELSE End(l, "no csrf token")
  /\ UNCHANGED <<auth, code, totp, server, saved, disk, expired, reader>>

Signin(l) ==
  /\ pc[l] = "signin" /\ Goto(l, "code")
  /\ otp' = [otp EXCEPT ![l] = "sent"]
  /\ UNCHANGED <<auth, code, totp, challenge, session, saved, disk, expired, reader>>

\* The prompt of cmdLogin, then the first CompleteLogin.
EnterCode(l, typed) ==
  /\ pc[l] = "code"
  /\ code' = [code EXCEPT ![l] = typed]
  /\ IF typed = Absent THEN End(l, "no code typed") ELSE Goto(l, "resolve")
  /\ UNCHANGED <<auth, totp, server, saved, disk, expired, reader>>

-----------------------------------------------------------------------------
(* CompleteLogin.                                                           *)

\* The code is exchanged for the callback URL; a magic link is that URL.
resolveCode(l) ==
  /\ pc[l] = "resolve"
  /\ \/ code[l] = "link" /\ Goto(l, "callback") /\ UNCHANGED otp
     \/ code[l] = "right" /\ otp[l] = "sent"
        /\ otp' = [otp EXCEPT ![l] = "used"] /\ Goto(l, "callback")
     \/ code[l] = "right" /\ otp[l] = "used" /\ End(l, "code used twice") /\ UNCHANGED otp
     \/ code[l] = "wrong" /\ End(l, "wrong code") /\ UNCHANGED otp
  /\ UNCHANGED <<auth, code, totp, challenge, session, saved, disk, expired, reader>>

\* The callback answers without a redirect, and perhaps with a session.
CallbackPage(l) ==
  /\ pc[l] = "callback" /\ MayIssue(l) /\ Goto(l, "cookie")
  /\ UNCHANGED <<pendingTOTP, code, totp, otp, challenge, saved, disk, expired, reader>>

\* Mutant: the pending challenge is not remembered.
CallbackChallenge_forgets(l) ==
  /\ pc[l] = "callback"
  /\ challenge' = [challenge EXCEPT ![l] = "open"]
  /\ IF totp[l] = Absent THEN Goto(l, "totp") ELSE Goto(l, "verify")
  /\ UNCHANGED <<pendingTOTP, jar, code, totp, otp, session, saved, disk, expired, reader>>

\* It redirects to a TOTP challenge; pendingTOTP keeps the challenge for the
\* next CompleteLogin when there is no TOTP code yet.
CallbackChallenge(l) ==
  /\ pc[l] = "callback"
  /\ challenge' = [challenge EXCEPT ![l] = "open"]
  /\ pendingTOTP' = [pendingTOTP EXCEPT ![l] = totp[l] = Absent]
  /\ IF totp[l] = Absent THEN Goto(l, "totp") ELSE Goto(l, "verify")
  /\ UNCHANGED <<jar, code, totp, otp, session, saved, disk, expired, reader>>

\* It redirects to a page.
CallbackRedirect(l) ==
  /\ pc[l] = "callback" /\ MayIssue(l) /\ Goto(l, "get")
  /\ UNCHANGED <<pendingTOTP, code, totp, otp, challenge, saved, disk, expired, reader>>

\* It redirects nowhere, to an error, or to a challenge without a token.
CallbackFails(l) ==
  /\ pc[l] = "callback" /\ End(l, "callback refused")
  /\ UNCHANGED <<auth, code, totp, server, saved, disk, expired, reader>>

\* The second prompt of cmdLogin, then CompleteLogin again: a pending challenge
\* is resumed, for the code was consumed by the first call.
EnterTOTP(l, typed) ==
  /\ pc[l] = "totp"
  /\ totp' = [totp EXCEPT ![l] = typed]
  /\ IF typed = Absent THEN End(l, "no TOTP code typed")
     ELSE Goto(l, IF pendingTOTP[l] THEN "verify" ELSE "resolve")
  /\ UNCHANGED <<auth, code, server, saved, disk, expired, reader>>

\* Six digits are checked here, the code itself by the server, whose answer has
\* a redirect or not.
verifyTOTP(l) ==
  /\ pc[l] = "verify"
  /\ \/ totp[l] = "malformed" /\ End(l, "malformed TOTP code") /\ UNCHANGED <<challenge, session, jar>>
     \/ totp[l] = "wrong" /\ End(l, "wrong TOTP code") /\ UNCHANGED <<challenge, session, jar>>
     \/ /\ totp[l] = "right" /\ challenge[l] = "open"
        /\ challenge' = [challenge EXCEPT ![l] = "passed"]
        /\ MayIssue(l) /\ (Goto(l, "get") \/ Goto(l, "cookie"))
  /\ UNCHANGED <<pendingTOTP, code, totp, otp, saved, disk, expired, reader>>

Get(l) ==
  /\ pc[l] = "get" /\ MayIssue(l) /\ Goto(l, "cookie")
  /\ UNCHANGED <<pendingTOTP, code, totp, otp, challenge, saved, disk, expired, reader>>

\* The session is what the jar holds; an empty one ends the login, and Save is
\* never reached with one.
readCookie(l) ==
  /\ pc[l] = "cookie"
  /\ IF get(jar[l]) = <<>>
     THEN End(l, IF session[l] = Absent THEN "no session issued" ELSE "session not found") /\ UNCHANGED saved
     ELSE saved' = [saved EXCEPT ![l] = get(jar[l])] /\ Goto(l, "save")
  /\ UNCHANGED <<auth, code, totp, server, disk, expired, reader>>

\* Any exchange may fail: no answer in time, no connection, an HTTP error, or an
\* answer that reports one.
NetworkFails(l) ==
  /\ pc[l] \in {"warm up", "csrf", "signin", "resolve", "callback", "verify", "get"}
  /\ ~(pc[l] = "resolve" /\ code[l] = "link") /\ ~(pc[l] = "verify" /\ totp[l] = "malformed")
  /\ End(l, "network")
  /\ UNCHANGED <<auth, code, totp, server, saved, disk, expired, reader>>

Crash(l) ==
  /\ pc[l] # "done" /\ End(l, "crash")
  /\ UNCHANGED <<auth, code, totp, server, saved, disk, expired, reader>>

-----------------------------------------------------------------------------
(* The token file: WriteFile truncates it, then writes.                     *)

Saving(l) == pc[l] = "write"
Reading == {p \in Readers : rpc[p] = "more"}

SaveFails(l) ==     \* no directory, or the file cannot be opened
  /\ pc[l] = "save" /\ End(l, "disk")
  /\ UNCHANGED <<auth, code, totp, server, saved, disk, expired, reader>>

\* Mutant: the file is opened without being truncated.
Open_keeps(l) ==
  /\ pc[l] = "save" /\ Goto(l, "write")
  /\ file' = IF file = Absent THEN <<>> ELSE file
  /\ opened' = {l} \cup (IF \E k \in Logins : Saving(k) THEN opened ELSE {})
  /\ suspect' = suspect \cup Reading
  /\ UNCHANGED <<auth, code, totp, server, saved, expired, rpc, data>>

Open(l) ==
  /\ pc[l] = "save" /\ Goto(l, "write")
  /\ file' = <<>>
  /\ opened' = {l} \cup (IF \E k \in Logins : Saving(k) THEN opened ELSE {})
  /\ suspect' = suspect \cup Reading
  /\ UNCHANGED <<auth, code, totp, server, saved, expired, rpc, data>>

\* n cells of l over the start of the file, fewer than all on a full disk.
Write(l, n) ==
  /\ Saving(l)
  /\ file' = [i \in 1..n |-> l] \o SubSeq(file, n + 1, Len(file))
  /\ suspect' = suspect \cup Reading
  /\ End(l, IF n = Size[l] THEN "ok" ELSE "disk")
  /\ UNCHANGED <<auth, code, totp, server, saved, opened, expired, rpc, data>>

Expire(l) ==
  /\ pc[l] = "done" /\ outcome[l] = "ok" /\ l \notin expired
  /\ expired' = expired \cup {l}
  /\ UNCHANGED <<pc, outcome, auth, code, totp, server, saved, disk, reader>>

\* Of saves that overlapped, one was cut short on what another had written.
CutShort == \E l \in opened : outcome[l] = "disk" /\ opened # {l}

\* Load opens the file.
ReadFile(p) ==
  /\ rpc[p] = "idle"
  /\ rpc' = [rpc EXCEPT ![p] = IF file = Absent THEN "no token" ELSE "more"]
  /\ suspect' = IF CutShort THEN suspect \cup {p} ELSE suspect
  /\ UNCHANGED <<pc, outcome, auth, code, totp, server, saved, disk, expired, data>>

\* ReadFile sizes its buffer before it reads: a file that grows takes several reads.
Read(p) ==
  /\ rpc[p] = "more"
  /\ \E n \in (Len(data[p]) + 1)..Len(file) :
       data' = [data EXCEPT ![p] = @ \o SubSeq(file, Len(@) + 1, n)]
  /\ UNCHANGED <<pc, outcome, auth, code, totp, server, saved, disk, expired, rpc, suspect>>

\* json.Unmarshal wants one object and nothing else: the object ends with the last
\* cell of some login, and nowhere before.  Nothing tells it that the token string
\* stems from one login.  The login whose expiry it finds.
parse(d) ==
  IF /\ d # <<>> /\ Size[d[Len(d)]] = Len(d)
     /\ \A i \in 1..(Len(d) - 1) : Size[d[i]] # i
  THEN d[Len(d)] ELSE Absent

\* The end of the file: Unmarshal, and the checks of Load.
Load(p) ==
  LET tok == parse(data[p])
  IN  /\ rpc[p] = "more" /\ Len(file) <= Len(data[p])
      /\ rpc' = [rpc EXCEPT ![p] = IF tok = Absent THEN "parse error"
                                   ELSE IF tok \in expired THEN "expired" ELSE "loaded"]
      /\ UNCHANGED <<pc, outcome, auth, code, totp, server, saved, disk, expired, data, suspect>>

-----------------------------------------------------------------------------
LoginStep(l) ==
  \/ WarmUp(l) \/ Signin(l) \/ resolveCode(l) \/ CallbackPage(l) \/ CallbackChallenge(l)
  \/ CallbackRedirect(l) \/ CallbackFails(l) \/ verifyTOTP(l) \/ Get(l) \/ readCookie(l)
  \/ NetworkFails(l) \/ Crash(l) \/ SaveFails(l) \/ Open(l) \/ Expire(l)
  \/ \E b \in BOOLEAN : fetchCSRF(l, b)
  \/ \E typed \in {Absent, "right", "wrong", "link"} : EnterCode(l, typed)
  \/ \E typed \in {Absent, "right", "wrong", "malformed"} : EnterTOTP(l, typed)
  \/ \E n \in 0..Size[l] : Write(l, n)

Next == \/ \E l \in Logins : LoginStep(l)
        \/ \E p \in Readers : ReadFile(p) \/ Read(p) \/ Load(p)

Spec == Init /\ [][Next]_vars

-----------------------------------------------------------------------------
Causes == {"no csrf token", "no code typed", "wrong code", "callback refused", "no TOTP code typed",
           "malformed TOTP code", "wrong TOTP code", "no session issued", "network", "crash", "disk"}

\* A login fails only for a reason outside the program: it never spends the
\* one-time code twice, also when a TOTP challenge makes it start over, and never
\* loses the session it was given (auth.go:95-108, 165-170; jar.go:65-99).
NoSelfInflictedFailure == \A l \in Logins : outcome[l] \in Causes \cup {"ok", Absent}

\* What a login saves is the session the server issued last, complete and in
\* order, whether it came as one cookie or in chunks, and however often it was
\* replaced on the way (jar.go:35-48, 65-99; auth.go:109).
SavedSessionIntact == \A l \in Logins : saved[l] \in {Absent, session[l]}

\* A load that no save overlaps, and that succeeds, got exactly the bytes one
\* login wrote, whatever was cut short by a crash or a full disk before: a cut
\* token is refused, the old one is gone, and of two saves that overlapped one
\* has the whole file or it is refused (token.go:81-99).  (The exceptions are the
\* loads a save overlaps, and the file in which a full disk cut one of two
\* overlapping saves short: there the code takes the beginning of one token and
\* the end of the other for a token.  See LoadsAreWhole.)
LoadsOneToken ==
  \A p \in Readers \ suspect : rpc[p] = "loaded" => \E l \in Logins \cup {old} : data[p] = Whole(l)

\* Not satisfied by the code: token.go:97 knows nothing of the two logins whose
\* bytes it may have before it.
LoadsAreWhole ==
  \A p \in Readers : rpc[p] = "loaded" => \E l \in Logins \cup {old} : data[p] = Whole(l)

\* Not satisfied by the code: commands.go:102 "Logged in. Session valid until ...":
\* once every login the file comes from has said so, the file can be loaded.
LoggedInMeansLoadable ==
  opened # {} /\ (\A l \in opened : outcome[l] = "ok") => parse(file) # Absent
=============================================================================
