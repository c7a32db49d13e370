------------------------------ MODULE LoginProofs ------------------------------
(***************************************************************************)
(* Proofs about Login, for any number of logins and readers, sessions of   *)
(* any number of chunks, and tokens of any sizes.                          *)
(***************************************************************************)
EXTENDS Login, FiniteSetTheorems, TLAPS

-----------------------------------------------------------------------------
(* The cookie jar.                                                          *)

\* A response that expires what it does not set leaves what it sets.
LEMMA SetReplaces ==
  ASSUME NEW j, NEW D, NEW new, new = [c \in D |-> new[c]]
  PROVE  SetCookies(j, new, DOMAIN j \ DOMAIN new) = new
<1>1. DOMAIN new = D
  OBVIOUS
<1> DEFINE rest == [c \in DOMAIN j \ (DOMAIN j \ DOMAIN new) |-> j[c]]
<1>2. DOMAIN rest \subseteq D
  BY <1>1
<1> HIDE DEF rest
<1>3. D \cup DOMAIN rest = D
  BY <1>2
<1>4. over(new, rest) = [c \in D |-> new[c]]
  BY <1>1, <1>3 DEF over
<1>5. QED
  BY <1>4 DEF SetCookies, rest

\* The k-th of the first n numbers is k - 1.
LEMMA OrderedInterval ==
  ASSUME NEW n \in Nat, NEW S, S = 0..(n - 1)
  PROVE  Ordered(S, [i \in S |-> i]) = [k \in 1..n |-> k - 1]
<1> DEFINE place == [i \in S |-> i]
           below(i) == Cardinality({j \in S : place[j] < place[i]})
<1>1. Cardinality(S) = n
  <2>1. Cardinality(0..(n - 1)) = IF 0 > n - 1 THEN 0 ELSE (n - 1) - 0 + 1
    BY FS_Interval
  <2>2. QED
    BY <2>1
<1>2. ASSUME NEW i \in S PROVE below(i) = i
  <2>1. {j \in S : place[j] < place[i]} = 0..(i - 1)
    OBVIOUS
  <2>2. i \in Nat
    OBVIOUS
  <2>3. \A b \in Int : Cardinality(0..b) = IF 0 > b THEN 0 ELSE b - 0 + 1
    BY FS_Interval
  <2> HIDE DEF place
  <2>4. QED
    <3>1. i - 1 \in Int
      BY <2>2
    <3>2. Cardinality(0..(i - 1)) = IF 0 > i - 1 THEN 0 ELSE (i - 1) - 0 + 1
      BY <2>3, <3>1
    <3>3. (IF 0 > i - 1 THEN 0 ELSE (i - 1) - 0 + 1) = i
      BY <2>2
    <3>4. QED
      BY <2>1, <3>2, <3>3
<1>3. ASSUME NEW k \in 1..n PROVE (CHOOSE i \in S : below(i) = k - 1) = k - 1
  <2>1. k - 1 \in S
    OBVIOUS
  <2> HIDE DEF below
  <2>2. \A i \in S : below(i) = k - 1 <=> i = k - 1
    BY <1>2, <2>1
  <2>3. QED
    BY <2>1, <2>2
<1>4. Ordered(S, place) = [k \in 1..n |-> CHOOSE i \in S : below(i) = k - 1]
  BY <1>1 DEF Ordered
<1> HIDE DEF place, below
<1>5. Ordered(S, place) = [k \in 1..n |-> k - 1]
  BY <1>3, <1>4
<1>6. QED
  BY <1>5 DEF place

\* The jar gives back the session it was set, whole or in however many chunks.
LEMMA GetCookies ==
  ASSUME NEW v, NEW n \in Nat
  PROVE  get(Cookies(Pieces(v, n), n)) = Pieces(v, n)
<1> DEFINE s == Pieces(v, n)
           c == Cookies(s, n)
<1>1. CASE n = 0
  <2>1. c = [x \in {WholeCookie} |-> s]
    BY <1>1 DEF Cookies
  <2>2. QED
    BY <2>1 DEF get
<1>2. CASE n # 0
  <2> DEFINE N == {ChunkCookie(i) : i \in 0..(n - 1)} \cup {SignedCookie}
  <2>1. c = [x \in N |-> IF x = SignedCookie THEN <<0, 0>> ELSE s[x[2] + 1]]
    BY <1>2 DEF Cookies
  <2>2. WholeCookie \notin N
    BY DEF WholeCookie, ChunkCookie, SignedCookie
  <2>3. chunks(c) = 0..(n - 1)
    <3>1. DOMAIN c = N
      BY <2>1
    <3>2. {x \in N : x[1] = "chunk"} = {ChunkCookie(i) : i \in 0..(n - 1)}
      BY DEF ChunkCookie, SignedCookie
    <3> HIDE DEF N, c
    <3>3. \A i \in 0..(n - 1) : ChunkCookie(i)[2] = i
      BY DEF ChunkCookie
    <3>4. chunks(c) = {x[2] : x \in {ChunkCookie(i) : i \in 0..(n - 1)}}
      BY <3>1, <3>2 DEF chunks
    <3>5. QED
      BY <3>3, <3>4
  <2>4. \A k \in 1..n : c[ChunkCookie(k - 1)] = s[k]
    <3>1. ASSUME NEW k \in 1..n PROVE c[ChunkCookie(k - 1)] = s[k]
      <4>1. k - 1 \in 0..(n - 1) /\ (k - 1) + 1 = k
        OBVIOUS
      <4>2. ChunkCookie(k - 1) \in N /\ ChunkCookie(k - 1) # SignedCookie /\ ChunkCookie(k - 1)[2] = k - 1
        BY <4>1 DEF ChunkCookie, SignedCookie
      <4> HIDE DEF N, s, c
      <4>3. QED
        BY <2>1, <4>1, <4>2
    <3>2. QED
      BY <3>1
  <2>5. s = [k \in 1..n |-> s[k]]
    BY <1>2 DEF Pieces
  <2> HIDE DEF s, c
  <2>6. WholeCookie \notin DOMAIN c
    BY <2>1, <2>2
  <2> DEFINE order == Ordered(chunks(c), [i \in chunks(c) |-> i])
  <2>7. order = [k \in 1..n |-> k - 1]
    BY <2>3, OrderedInterval
  <2>8. get(c) = [k \in DOMAIN order |-> c[ChunkCookie(order[k])]]
    BY <2>6 DEF get
  <2> HIDE DEF order
  <2>9. get(c) = [k \in 1..n |-> c[ChunkCookie(k - 1)]]
    BY <2>7, <2>8
  <2>10. QED
    BY <2>4, <2>5, <2>9 DEF s, c
<1>3. QED
  BY <1>1, <1>2

LEMMA GetNothing ==
  ASSUME NEW j, j = <<>>
  PROVE  get(j) = <<>>
<1>1. DOMAIN j = {}
  OBVIOUS
<1>2. chunks(j) = {}
  BY <1>1 DEF chunks
<1> DEFINE order == Ordered(chunks(j), [i \in chunks(j) |-> i])
<1>3. DOMAIN order = {}
  <2>1. Cardinality(chunks(j)) = 0
    BY <1>2, FS_EmptySet
  <2>2. DOMAIN order = 1..Cardinality(chunks(j))
    BY DEF Ordered
  <2>3. QED
    BY <2>1, <2>2
<1>4. WholeCookie \notin DOMAIN j
  BY <1>1
<1>5. get(j) = [k \in DOMAIN order |-> j[ChunkCookie(order[k])]]
  BY <1>4 DEF get
<1> HIDE DEF order
<1>6. QED
  BY <1>3, <1>5

-----------------------------------------------------------------------------
(* The logins.                                                              *)

LEMMA IssueStep ==
  ASSUME NEW l \in Logins, NEW n \in Nat, l \in DOMAIN session, l \in DOMAIN jar, Issue(l, n)
  PROVE  /\ DOMAIN session' = DOMAIN session /\ DOMAIN jar' = DOMAIN jar
         /\ \A k \in Logins \ {l} : session'[k] = session[k] /\ jar'[k] = jar[k]
         /\ get(jar'[l]) = session'[l] /\ session'[l] # <<>>
<1> DEFINE s == Pieces(Version(l), n)
           new == Cookies(s, n)
           set == SetCookies(jar[l], new, DOMAIN jar[l] \ DOMAIN new)
<1>1. session' = [session EXCEPT ![l] = s] /\ jar' = [jar EXCEPT ![l] = set]
  BY DEF Issue
<1>2. set = new
  <2>1. \E D : new = [c \in D |-> new[c]]
    <3>1. CASE n = 0
      BY <3>1 DEF Cookies
    <3>2. CASE n # 0
      BY <3>2 DEF Cookies
    <3>3. QED
      BY <3>1, <3>2
  <2> HIDE DEF new
  <2>2. QED
    BY <2>1, SetReplaces
<1>3. get(new) = s
  BY GetCookies
<1>4. s # <<>>
  <2>1. 1 \in DOMAIN s
    BY DEF Pieces
  <2>2. QED
    BY <2>1
<1> HIDE DEF s, new, set
<1>5. QED
  BY <1>1, <1>2, <1>3, <1>4

Pcs == {"warm up", "csrf", "signin", "code", "resolve", "callback", "totp", "verify", "get", "cookie",
        "save", "write", "done"}

TypeOK ==
  /\ pc \in [Logins -> Pcs] /\ DOMAIN outcome = Logins /\ DOMAIN pendingTOTP = Logins
  /\ DOMAIN jar = Logins /\ DOMAIN otp = Logins /\ DOMAIN session = Logins /\ DOMAIN saved = Logins

\* The code is spent once, for a challenge is resumed and never started over.
CodeInv(l) ==
  /\ pc[l] \in {"code", "resolve"} => otp[l] = "sent"
  /\ pc[l] = "totp" => pendingTOTP[l]
  /\ outcome[l] \in Causes \cup {"ok", Absent}

\* The jar holds the session issued last, and that is what was saved.
JarInv(l) ==
  /\ \/ session[l] = Absent /\ jar[l] = <<>>
     \/ session[l] # <<>> /\ get(jar[l]) = session[l]
  /\ \/ saved[l] = Absent
     \/ saved[l] = session[l] /\ pc[l] \in {"save", "write", "done"}

LoginInv == TypeOK /\ \A l \in Logins : CodeInv(l) /\ JarInv(l)

\* What the other logins have does not change.
Kept(k) ==
  /\ pc'[k] = pc[k] /\ outcome'[k] = outcome[k] /\ pendingTOTP'[k] = pendingTOTP[k] /\ jar'[k] = jar[k]
  /\ otp'[k] = otp[k] /\ session'[k] = session[k] /\ saved'[k] = saved[k]

LEMMA KeptInv ==
  ASSUME NEW k, CodeInv(k), JarInv(k), Kept(k)
  PROVE  CodeInv(k)' /\ JarInv(k)'
BY DEF CodeInv, JarInv, Kept

\* A response that may issue a session keeps the jar and the session together.
LEMMA MayIssueStep ==
  ASSUME LoginInv, NEW l \in Logins, MayIssue(l)
  PROVE  /\ DOMAIN session' = Logins /\ DOMAIN jar' = Logins
         /\ \A k \in Logins \ {l} : session'[k] = session[k] /\ jar'[k] = jar[k]
         /\ \/ session'[l] = Absent /\ jar'[l] = <<>>
            \/ session'[l] # <<>> /\ get(jar'[l]) = session'[l]
<1>1. DOMAIN session = Logins /\ DOMAIN jar = Logins /\ JarInv(l)
  BY DEF LoginInv, TypeOK
<1>2. CASE UNCHANGED <<session, jar>>
  BY <1>1, <1>2 DEF JarInv
<1>3. ASSUME NEW n \in Shapes, Issue(l, n)
      PROVE  /\ DOMAIN session' = Logins /\ DOMAIN jar' = Logins
             /\ \A k \in Logins \ {l} : session'[k] = session[k] /\ jar'[k] = jar[k]
             /\ session'[l] # <<>> /\ get(jar'[l]) = session'[l]
  <2>1. n \in Nat
    BY LoginAssumption
  <2>2. QED
    BY <1>1, <1>3, <2>1, IssueStep
<1>4. QED
  BY <1>2, <1>3 DEF MayIssue

LEMMA GotoStep ==
  ASSUME TypeOK, NEW l \in Logins, NEW where \in Pcs, Goto(l, where)
  PROVE  /\ pc' \in [Logins -> Pcs] /\ pc'[l] = where /\ outcome' = outcome
         /\ \A k \in Logins \ {l} : pc'[k] = pc[k]
BY DEF TypeOK, Goto

LEMMA EndStep ==
  ASSUME TypeOK, NEW l \in Logins, NEW why, End(l, why)
  PROVE  /\ pc' \in [Logins -> Pcs] /\ pc'[l] = "done" /\ DOMAIN outcome' = Logins /\ outcome'[l] = why
         /\ \A k \in Logins \ {l} : pc'[k] = pc[k] /\ outcome'[k] = outcome[k]
<1>1. pc \in [Logins -> Pcs] /\ DOMAIN outcome = Logins
  BY DEF TypeOK
<1>2. pc' = [pc EXCEPT ![l] = "done"] /\ outcome' = [outcome EXCEPT ![l] = why] /\ "done" \in Pcs
  BY DEF End, Pcs
<1>3. QED
  BY <1>1, <1>2

LEMMA OwnStep ==
  ASSUME LoginInv, NEW l \in Logins, TypeOK', \A k \in Logins \ {l} : Kept(k), CodeInv(l)', JarInv(l)'
  PROVE  LoginInv'
<1>1. \A k \in Logins \ {l} : CodeInv(k)' /\ JarInv(k)'
  BY KeptInv DEF LoginInv
<1>2. QED
  BY <1>1 DEF LoginInv

\* A step that moves a login on, or ends it, and touches nothing it holds.
LEMMA QuietStep ==
  ASSUME LoginInv, NEW l \in Logins, UNCHANGED <<auth, otp, session, saved>>,
         \/ \E where \in Pcs : /\ Goto(l, where) /\ where \notin {"code", "totp"}
                               /\ where = "resolve" => pc[l] = "code"
                               /\ pc[l] \in {"save", "write", "done"} => where \in {"save", "write", "done"}
         \/ \E why \in Causes \cup {"ok"} : End(l, why)
  PROVE  LoginInv'
<1>1. TypeOK /\ CodeInv(l) /\ JarInv(l)
  BY DEF LoginInv
<1>2. UNCHANGED <<pendingTOTP, jar, otp, session, saved>>
  BY DEF auth
<1>3. ASSUME NEW where \in Pcs, Goto(l, where), where \notin {"code", "totp"}, where = "resolve" => pc[l] = "code",
             pc[l] \in {"save", "write", "done"} => where \in {"save", "write", "done"}
      PROVE  LoginInv'
  <2>1. /\ pc' \in [Logins -> Pcs] /\ pc'[l] = where /\ outcome' = outcome
        /\ \A k \in Logins \ {l} : pc'[k] = pc[k]
    BY <1>1, <1>3, GotoStep
  <2>2. TypeOK'
    BY <1>1, <1>2, <2>1 DEF TypeOK
  <2>3. CodeInv(l)'
    BY <1>1, <1>2, <1>3, <2>1 DEF CodeInv
  <2>4. JarInv(l)'
    BY <1>1, <1>2, <1>3, <2>1 DEF JarInv
  <2>5. \A k \in Logins \ {l} : Kept(k)
    BY <1>2, <2>1 DEF Kept
  <2>6. QED
    BY <2>2, <2>3, <2>4, <2>5, OwnStep
<1>4. ASSUME NEW why \in Causes \cup {"ok"}, End(l, why) PROVE LoginInv'
  <2>1. /\ pc' \in [Logins -> Pcs] /\ pc'[l] = "done" /\ DOMAIN outcome' = Logins /\ outcome'[l] = why
        /\ \A k \in Logins \ {l} : pc'[k] = pc[k] /\ outcome'[k] = outcome[k]
    BY <1>1, <1>4, EndStep
  <2>2. TypeOK'
    BY <1>1, <1>2, <2>1 DEF TypeOK
  <2>3. CodeInv(l)'
    BY <1>4, <2>1 DEF CodeInv
  <2>4. JarInv(l)'
    BY <1>1, <1>2, <2>1 DEF JarInv
  <2>5. \A k \in Logins \ {l} : Kept(k)
    BY <1>2, <2>1 DEF Kept
  <2>6. QED
    BY <2>2, <2>3, <2>4, <2>5, OwnStep
<1>5. QED
  BY <1>3, <1>4

\* A step in which the server may issue a session.
LEMMA IssuingStep ==
  ASSUME LoginInv, NEW l \in Logins, MayIssue(l), UNCHANGED <<pendingTOTP, otp, saved>>,
         pc[l] \notin {"save", "write", "done"},
         NEW where \in {"cookie", "get"}, Goto(l, where)
  PROVE  LoginInv'
<1>1. TypeOK /\ CodeInv(l) /\ JarInv(l)
  BY DEF LoginInv
<1>2. /\ pc' \in [Logins -> Pcs] /\ pc'[l] = where /\ outcome' = outcome
      /\ \A k \in Logins \ {l} : pc'[k] = pc[k]
  BY <1>1, GotoStep DEF Pcs
<1>3. /\ DOMAIN session' = Logins /\ DOMAIN jar' = Logins
      /\ \A k \in Logins \ {l} : session'[k] = session[k] /\ jar'[k] = jar[k]
      /\ \/ session'[l] = Absent /\ jar'[l] = <<>>
         \/ session'[l] # <<>> /\ get(jar'[l]) = session'[l]
  BY MayIssueStep
<1>4. TypeOK'
  BY <1>1, <1>2, <1>3 DEF TypeOK
<1>5. CodeInv(l)'
  BY <1>1, <1>2 DEF CodeInv
<1>6. JarInv(l)'
  <2>1. saved'[l] = Absent
    BY <1>1 DEF JarInv
  <2>2. QED
    BY <1>3, <2>1 DEF JarInv
<1>7. \A k \in Logins \ {l} : Kept(k)
  BY <1>2, <1>3 DEF Kept
<1>8. QED
  BY <1>4, <1>5, <1>6, <1>7, OwnStep

LEMMA SigninStep == ASSUME LoginInv, NEW l \in Logins, Signin(l) PROVE LoginInv'
<1>1. TypeOK /\ CodeInv(l) /\ JarInv(l)
  BY DEF LoginInv
<1>2. /\ pc[l] = "signin" /\ Goto(l, "code") /\ otp' = [otp EXCEPT ![l] = "sent"]
      /\ UNCHANGED <<pendingTOTP, jar, session, saved>>
  BY DEF Signin, auth
<1>3. /\ pc' \in [Logins -> Pcs] /\ pc'[l] = "code" /\ outcome' = outcome
      /\ \A k \in Logins \ {l} : pc'[k] = pc[k]
  BY <1>1, <1>2, GotoStep DEF Pcs
<1>4. DOMAIN otp' = Logins /\ otp'[l] = "sent" /\ \A k \in Logins \ {l} : otp'[k] = otp[k]
  BY <1>1, <1>2 DEF TypeOK
<1>5. TypeOK'
  BY <1>1, <1>2, <1>3, <1>4 DEF TypeOK
<1>6. CodeInv(l)' /\ JarInv(l)'
  BY <1>1, <1>2, <1>3, <1>4 DEF CodeInv, JarInv
<1>7. \A k \in Logins \ {l} : Kept(k)
  BY <1>2, <1>3, <1>4 DEF Kept
<1>8. QED
  BY <1>5, <1>6, <1>7, OwnStep

LEMMA ResolveStep == ASSUME LoginInv, NEW l \in Logins, resolveCode(l) PROVE LoginInv'
<1>1. TypeOK /\ CodeInv(l) /\ JarInv(l)
  BY DEF LoginInv
<1>2. pc[l] = "resolve" /\ UNCHANGED <<auth, session, saved>>
  BY DEF resolveCode
<1>3. CASE Goto(l, "callback") /\ UNCHANGED otp
  <2>1. "callback" \in Pcs
    BY DEF Pcs
  <2>2. QED
    BY <1>2, <1>3, <2>1, QuietStep
<1>4. CASE Goto(l, "callback") /\ otp' = [otp EXCEPT ![l] = "used"]
  <2>1. /\ pc' \in [Logins -> Pcs] /\ pc'[l] = "callback" /\ outcome' = outcome
        /\ \A k \in Logins \ {l} : pc'[k] = pc[k]
    BY <1>1, <1>4, GotoStep DEF Pcs
  <2>2. DOMAIN otp' = Logins /\ \A k \in Logins \ {l} : otp'[k] = otp[k]
    BY <1>1, <1>4 DEF TypeOK
  <2>3. UNCHANGED <<pendingTOTP, jar, session, saved>>
    BY <1>2 DEF auth
  <2>4. TypeOK'
    BY <1>1, <2>1, <2>2, <2>3 DEF TypeOK
  <2>5. CodeInv(l)' /\ JarInv(l)'
    BY <1>1, <1>2, <2>1, <2>3 DEF CodeInv, JarInv
  <2>6. \A k \in Logins \ {l} : Kept(k)
    BY <2>1, <2>2, <2>3 DEF Kept
  <2>7. QED
    BY <2>4, <2>5, <2>6, OwnStep
<1>5. CASE End(l, "wrong code") /\ UNCHANGED otp
  <2>1. "wrong code" \in Causes
    BY DEF Causes
  <2>2. QED
    BY <1>2, <1>5, <2>1, QuietStep
<1>6. otp[l] # "used"
  BY <1>1, <1>2 DEF CodeInv
<1>7. QED
  BY <1>3, <1>4, <1>5, <1>6 DEF resolveCode

LEMMA ChallengeStep == ASSUME LoginInv, NEW l \in Logins, CallbackChallenge(l) PROVE LoginInv'
<1>1. TypeOK /\ CodeInv(l) /\ JarInv(l)
  BY DEF LoginInv
<1>2. /\ pc[l] = "callback" /\ pendingTOTP' = [pendingTOTP EXCEPT ![l] = totp[l] = Absent]
      /\ Goto(l, IF totp[l] = Absent THEN "totp" ELSE "verify")
      /\ UNCHANGED <<jar, otp, session, saved>>
  BY DEF CallbackChallenge
<1> DEFINE where == IF totp[l] = Absent THEN "totp" ELSE "verify"
<1>3. /\ pc' \in [Logins -> Pcs] /\ pc'[l] = where /\ outcome' = outcome
      /\ \A k \in Logins \ {l} : pc'[k] = pc[k]
  <2>1. where \in Pcs
    BY DEF Pcs
  <2> HIDE DEF where
  <2>2. Goto(l, where)
    BY <1>2 DEF where
  <2>3. QED
    BY <1>1, <2>1, <2>2, GotoStep
<1>4. /\ DOMAIN pendingTOTP' = Logins /\ pendingTOTP'[l] = (totp[l] = Absent)
      /\ \A k \in Logins \ {l} : pendingTOTP'[k] = pendingTOTP[k]
  BY <1>1, <1>2 DEF TypeOK
<1>5. TypeOK'
  BY <1>1, <1>2, <1>3, <1>4 DEF TypeOK
<1>6. CodeInv(l)' /\ JarInv(l)'
  BY <1>1, <1>2, <1>3, <1>4 DEF CodeInv, JarInv
<1>7. \A k \in Logins \ {l} : Kept(k)
  BY <1>2, <1>3, <1>4 DEF Kept
<1>8. QED
  BY <1>5, <1>6, <1>7, OwnStep

LEMMA CookieStep == ASSUME LoginInv, NEW l \in Logins, readCookie(l) PROVE LoginInv'
<1>1. TypeOK /\ CodeInv(l) /\ JarInv(l)
  BY DEF LoginInv
<1>2. pc[l] = "cookie" /\ UNCHANGED <<auth, otp, session>>
  BY DEF readCookie, server
<1>3. CASE get(jar[l]) = <<>>
  <2>1. session[l] = Absent
    BY <1>1, <1>3 DEF JarInv
  <2>2. End(l, "no session issued") /\ UNCHANGED saved
    BY <1>3, <2>1 DEF readCookie
  <2>3. "no session issued" \in Causes
    BY DEF Causes
  <2>4. QED
    BY <1>2, <2>2, <2>3, QuietStep
<1>4. CASE get(jar[l]) # <<>>
  <2>1. get(jar[l]) = session[l]
    BY <1>1, <1>4, GetNothing DEF JarInv
  <2>2. Goto(l, "save") /\ saved' = [saved EXCEPT ![l] = session[l]]
    BY <1>4, <2>1 DEF readCookie
  <2>3. /\ pc' \in [Logins -> Pcs] /\ pc'[l] = "save" /\ outcome' = outcome
        /\ \A k \in Logins \ {l} : pc'[k] = pc[k]
    BY <1>1, <2>2, GotoStep DEF Pcs
  <2>4. DOMAIN saved' = Logins /\ saved'[l] = session[l] /\ \A k \in Logins \ {l} : saved'[k] = saved[k]
    BY <1>1, <2>2 DEF TypeOK
  <2>5. UNCHANGED <<pendingTOTP, jar, otp, session>>
    BY <1>2 DEF auth
  <2>6. TypeOK'
    BY <1>1, <2>3, <2>4, <2>5 DEF TypeOK
  <2>7. CodeInv(l)' /\ JarInv(l)'
    BY <1>1, <2>3, <2>4, <2>5 DEF CodeInv, JarInv
  <2>8. \A k \in Logins \ {l} : Kept(k)
    BY <2>3, <2>4, <2>5 DEF Kept
  <2>9. QED
    BY <2>6, <2>7, <2>8, OwnStep
<1>5. QED
  BY <1>3, <1>4

\* The readers have no part in the logins.
LEMMA OthersStep ==
  ASSUME LoginInv, UNCHANGED <<pc, outcome, auth, otp, session, saved>>
  PROVE  LoginInv'
<1>1. UNCHANGED <<pc, outcome, pendingTOTP, jar, otp, session, saved>>
  BY DEF auth
<1>2. \A k : Kept(k)
  BY <1>1 DEF Kept
<1>3. TypeOK'
  BY <1>1 DEF LoginInv, TypeOK
<1>4. \A k \in Logins : CodeInv(k)' /\ JarInv(k)'
  BY <1>2, KeptInv DEF LoginInv
<1>5. QED
  BY <1>3, <1>4 DEF LoginInv

LEMMA LoginStepInv == ASSUME LoginInv, NEW l \in Logins, LoginStep(l) PROVE LoginInv'
<1>0. TypeOK /\ CodeInv(l) /\ JarInv(l)
  BY DEF LoginInv
<1>a. {"csrf", "signin", "resolve", "callback", "verify", "write", "get", "cookie"} \subseteq Pcs
  BY DEF Pcs
<1>1. CASE WarmUp(l)
  <2>1. pc[l] = "warm up" /\ Goto(l, "csrf") /\ UNCHANGED <<auth, otp, session, saved>>
    BY <1>1 DEF WarmUp, server
  <2>2. QED
    BY <1>a, <2>1, QuietStep
<1>2. CASE \E found \in BOOLEAN : fetchCSRF(l, found)
  <2>1. pc[l] = "csrf" /\ (Goto(l, "signin") \/ End(l, "no csrf token")) /\ UNCHANGED <<auth, otp, session, saved>>
    BY <1>2 DEF fetchCSRF, server
  <2>2. "no csrf token" \in Causes
    BY DEF Causes
  <2>3. QED
    BY <1>a, <2>1, <2>2, QuietStep
<1>3. CASE \E typed \in {Absent, "right", "wrong", "link"} : EnterCode(l, typed)
  <2>1. pc[l] = "code" /\ (Goto(l, "resolve") \/ End(l, "no code typed")) /\ UNCHANGED <<auth, otp, session, saved>>
    BY <1>3 DEF EnterCode, server
  <2>2. "no code typed" \in Causes
    BY DEF Causes
  <2>3. QED
    BY <1>a, <2>1, <2>2, QuietStep
<1>4. CASE \E typed \in {Absent, "right", "wrong", "malformed"} : EnterTOTP(l, typed)
  <2>1. pc[l] = "totp" /\ (Goto(l, "verify") \/ End(l, "no TOTP code typed")) /\ UNCHANGED <<auth, otp, session, saved>>
    <3>1. pc[l] = "totp" /\ pendingTOTP[l] /\ UNCHANGED <<auth, otp, session, saved>>
      BY <1>0, <1>4 DEF CodeInv, EnterTOTP, server
    <3>2. QED
      BY <1>4, <3>1 DEF EnterTOTP
  <2>2. "no TOTP code typed" \in Causes
    BY DEF Causes
  <2>3. QED
    BY <1>a, <2>1, <2>2, QuietStep
<1>5. CASE CallbackFails(l)
  <2>1. End(l, "callback refused") /\ UNCHANGED <<auth, otp, session, saved>>
    BY <1>5 DEF CallbackFails, server
  <2>2. "callback refused" \in Causes
    BY DEF Causes
  <2>3. QED
    BY <2>1, <2>2, QuietStep
<1>6. CASE NetworkFails(l) \/ Crash(l) \/ SaveFails(l)
  <2>1. End(l, "network") \/ End(l, "crash") \/ End(l, "disk")
    BY <1>6 DEF NetworkFails, Crash, SaveFails
  <2>2. UNCHANGED <<auth, otp, session, saved>>
    BY <1>6 DEF NetworkFails, Crash, SaveFails, server
  <2>3. {"network", "crash", "disk"} \subseteq Causes
    BY DEF Causes
  <2>4. QED
    BY <2>1, <2>2, <2>3, QuietStep
<1>7. CASE Open(l)
  <2>1. pc[l] = "save" /\ Goto(l, "write") /\ UNCHANGED <<auth, otp, session, saved>>
    BY <1>7 DEF Open, server
  <2>2. QED
    BY <1>a, <2>1, QuietStep
<1>8. CASE \E n \in 0..Size[l] : Write(l, n)
  <2>1. (End(l, "ok") \/ End(l, "disk")) /\ UNCHANGED <<auth, otp, session, saved>>
    BY <1>8 DEF Write, server
  <2>2. "disk" \in Causes
    BY DEF Causes
  <2>3. QED
    BY <2>1, <2>2, QuietStep
<1>9. CASE Expire(l)
  <2>1. UNCHANGED <<pc, outcome, auth, otp, session, saved>>
    BY <1>9 DEF Expire, server
  <2>2. QED
    BY <2>1, OthersStep
<1>10. CASE Signin(l)
  BY <1>10, SigninStep
<1>11. CASE resolveCode(l)
  BY <1>11, ResolveStep
<1>12. CASE CallbackChallenge(l)
  BY <1>12, ChallengeStep
<1>13. CASE readCookie(l)
  BY <1>13, CookieStep
<1>14. CASE CallbackPage(l) \/ CallbackRedirect(l) \/ Get(l)
  <2>1. /\ pc[l] \notin {"save", "write", "done"} /\ MayIssue(l) /\ UNCHANGED <<pendingTOTP, otp, saved>>
        /\ Goto(l, "cookie") \/ Goto(l, "get")
    BY <1>14 DEF CallbackPage, CallbackRedirect, Get
  <2>2. QED
    BY <2>1, IssuingStep
<1>15. CASE verifyTOTP(l)
  <2>1. pc[l] = "verify" /\ UNCHANGED <<pendingTOTP, otp, saved>>
    BY <1>15 DEF verifyTOTP
  <2>2. CASE (End(l, "malformed TOTP code") \/ End(l, "wrong TOTP code")) /\ UNCHANGED <<session, jar>>
    <3>1. {"malformed TOTP code", "wrong TOTP code"} \subseteq Causes
      BY DEF Causes
    <3>2. UNCHANGED <<auth, otp, session, saved>>
      BY <2>1, <2>2 DEF auth
    <3>3. QED
      BY <2>2, <3>1, <3>2, QuietStep
  <2>3. CASE MayIssue(l) /\ (Goto(l, "get") \/ Goto(l, "cookie"))
    BY <2>1, <2>3, IssuingStep
  <2>4. QED
    BY <1>15, <2>2, <2>3 DEF verifyTOTP
<1>16. QED
  BY <1>1, <1>2, <1>3, <1>4, <1>5, <1>6, <1>7, <1>8, <1>9, <1>10, <1>11, <1>12, <1>13, <1>14, <1>15 DEF LoginStep

LEMMA LoginNext == LoginInv /\ [Next]_vars => LoginInv'
<1> SUFFICES ASSUME LoginInv, [Next]_vars PROVE LoginInv'
  OBVIOUS
<1>1. CASE \E l \in Logins : LoginStep(l)
  BY <1>1, LoginStepInv
<1>2. CASE \E p \in Readers : ReadFile(p) \/ Read(p) \/ Load(p)
  <2>1. UNCHANGED <<pc, outcome, auth, otp, session, saved>>
    BY <1>2 DEF ReadFile, Read, Load, server
  <2>2. QED
    BY <2>1, OthersStep
<1>3. CASE UNCHANGED vars
  <2>1. UNCHANGED <<pc, outcome, auth, otp, session, saved>>
    BY <1>3 DEF vars, server
  <2>2. QED
    BY <2>1, OthersStep
<1>4. QED
  BY <1>1, <1>2, <1>3 DEF Next

LEMMA LoginInit == Init => LoginInv
<1> SUFFICES ASSUME Init PROVE LoginInv
  OBVIOUS
<1>1. TypeOK
  BY DEF Init, TypeOK, Pcs
<1>2. ASSUME NEW l \in Logins PROVE CodeInv(l) /\ JarInv(l)
  <2>1. /\ pc[l] = "warm up" /\ outcome[l] = Absent /\ jar[l] = <<>> /\ session[l] = Absent /\ saved[l] = Absent
    BY DEF Init
  <2>2. QED
    BY <2>1 DEF CodeInv, JarInv
<1>3. QED
  BY <1>1, <1>2 DEF LoginInv

\* A login never fails by its own fault: it does not spend its code twice, for
\* a TOTP challenge is resumed, and it finds every session that it was given
\* (CompleteLogin, followCallback, the jar's get).
THEOREM NoLoginFailsItself == Spec => []NoSelfInflictedFailure
<1>1. LoginInv => NoSelfInflictedFailure
  BY DEF LoginInv, CodeInv, NoSelfInflictedFailure
<1>2. QED
  BY LoginInit, LoginNext, <1>1, PTL DEF Spec

\* Whatever number of chunk cookies the server cuts a session into, and however
\* often it replaces it, what is saved is the last one, whole and in order
\* (SetCookies, get, CompleteLogin).
THEOREM SessionsIntact == Spec => []SavedSessionIntact
<1>1. LoginInv => SavedSessionIntact
  BY DEF LoginInv, JarInv, SavedSessionIntact
<1>2. QED
  BY LoginInit, LoginNext, <1>1, PTL DEF Spec

-----------------------------------------------------------------------------
(* The token file.                                                          *)

Cells == Logins \cup {old}

\* The file is the beginning of what l writes, or begins with all of it.
Starts(f, l) == \A i \in DOMAIN f : i <= Size[l] => f[i] = l

Begins(d, f) == Len(d) <= Len(f) /\ \A i \in 1..Len(d) : d[i] = f[i]

FileTypes ==
  /\ file = Absent \/ file \in Seq(Cells)
  /\ DOMAIN rpc = Readers /\ data \in [Readers -> Seq(Cells)]
  /\ opened \subseteq Logins

\* A login that saves alone finds the file empty; a login whose save was cut short
\* is over.
SaverInv ==
  /\ \A l \in Logins : Saving(l) => file \in Seq(Cells) /\ l \in opened /\ (opened = {l} => file = <<>>)
  /\ \A l \in opened : pc[l] \in {"write", "done"}
  /\ \A l \in Logins : outcome[l] = "disk" => pc[l] = "done"

\* The file is of one login, as far as that one writes, and a reader that met no
\* other save has the beginning of it.
ReaderInv ==
  /\ file \in Seq(Cells) /\ ~CutShort => \E l \in Cells : Starts(file, l)
  /\ \A p \in Readers : rpc[p] = "idle" => data[p] = <<>>
  /\ \A p \in Readers : rpc[p] = "more" =>
       file \in Seq(Cells) /\ (p \notin suspect => ~CutShort /\ Begins(data[p], file))

FileInv == FileTypes /\ SaverInv /\ ReaderInv

\* What begins with one login's save is refused, or is that save and nothing else.
LEMMA ParseOne ==
  ASSUME NEW d \in Seq(Cells), NEW l \in Cells, Starts(d, l), parse(d) # Absent
  PROVE  d = Whole(l)
<1>1. /\ d # <<>> /\ Size[d[Len(d)]] = Len(d)
      /\ \A i \in 1..(Len(d) - 1) : Size[d[i]] # i
  BY DEF parse
<1>2. Len(d) \in Nat \ {0} /\ DOMAIN d = 1..Len(d)
  BY <1>1
<1>3. Size[l] \in Nat \ {0}
  BY LoginAssumption DEF Cells
<1>4. \A i \in 1..Len(d) : i <= Size[l] => d[i] = l
  BY <1>2 DEF Starts
<1>5. Len(d) = Size[l]
  <2>1. CASE Len(d) <= Size[l]
    <3>1. d[Len(d)] = l
      BY <1>2, <1>3, <1>4, <2>1
    <3>2. QED
      BY <1>1, <3>1
  <2>2. CASE Len(d) > Size[l]
    <3>1. Size[l] \in 1..(Len(d) - 1) /\ Size[l] \in 1..Len(d)
      BY <1>2, <1>3, <2>2
    <3>2. d[Size[l]] = l
      BY <1>3, <1>4, <3>1
    <3>3. QED
      BY <1>1, <3>1, <3>2
  <2>3. QED
    BY <1>2, <1>3, <2>1, <2>2
<1>6. \A i \in 1..Size[l] : d[i] = l
  BY <1>3, <1>4, <1>5
<1>7. d = [i \in 1..Size[l] |-> d[i]]
  BY <1>2, <1>5
<1>8. QED
  BY <1>6, <1>7 DEF Whole

\* Reading on keeps what was read the beginning of the file.
LEMMA ReadOn ==
  ASSUME NEW a \in Seq(Cells), NEW f \in Seq(Cells), NEW n \in (Len(a) + 1)..Len(f), NEW t,
         t = SubSeq(f, Len(a) + 1, n)
  PROVE  a \o t \in Seq(Cells) /\ (Begins(a, f) => Begins(a \o t, f))
<1>1. t \in Seq(Cells)
  OBVIOUS
<1>2. Len(t) = n - Len(a) /\ \A i \in 1..Len(t) : t[i] = f[Len(a) + i]
  OBVIOUS
<1> DEFINE d == a \o t
<1>3. d \in Seq(Cells) /\ Len(d) = n
  <2>1. Len(a) \in Nat /\ n \in Nat /\ Len(a) < n
    OBVIOUS
  <2>2. Len(d) = Len(a) + Len(t)
    BY <1>1
  <2>3. d \in Seq(Cells)
    BY <1>1
  <2> HIDE DEF d
  <2>4. QED
    BY <1>2, <2>1, <2>2, <2>3
<1>4. \A i \in 1..n : d[i] = IF i <= Len(a) THEN a[i] ELSE t[i - Len(a)]
  BY <1>1, <1>2
<1> HIDE DEF d
<1>5. ASSUME Begins(a, f), NEW i \in 1..n PROVE d[i] = f[i]
  <2>1. CASE i <= Len(a)
    BY <1>4, <1>5, <2>1 DEF Begins
  <2>2. CASE i > Len(a)
    <3>1. i - Len(a) \in 1..Len(t) /\ Len(a) + (i - Len(a)) = i
      BY <1>2, <2>2
    <3>2. QED
      BY <1>2, <1>4, <2>2, <3>1
  <2>3. QED
    BY <2>1, <2>2
<1>6. Begins(a, f) => Begins(d, f)
  BY <1>3, <1>5 DEF Begins
<1>7. QED
  BY <1>3, <1>6 DEF d

\* What Write makes of the file.
LEMMA WriteFile ==
  ASSUME NEW l \in Logins, NEW n \in Nat, NEW f \in Seq(Cells), NEW g,
         g = [i \in 1..n |-> l] \o SubSeq(f, n + 1, Len(f))
  PROVE  g \in Seq(Cells) /\ (n = Size[l] \/ f = <<>> => Starts(g, l))
<1> DEFINE h == [i \in 1..n |-> l]
           t == SubSeq(f, n + 1, Len(f))
<1>1. h \in Seq(Cells) /\ Len(h) = n /\ \A i \in 1..n : h[i] = l
  BY DEF Cells
<1>2. t \in Seq(Cells) /\ (f = <<>> => t = <<>>)
  OBVIOUS
<1> HIDE DEF h, t
<1>3. g \in Seq(Cells) /\ DOMAIN g = 1..Len(g) /\ Len(g) = n + Len(t)
  BY <1>1, <1>2 DEF h, t
<1>4. \A i \in 1..Len(g) : i <= n => g[i] = l
  <2>1. g = h \o t
    BY DEF h, t
  <2>2. \A i \in 1..n : (h \o t)[i] = h[i]
    BY <1>1, <1>2
  <2>3. QED
    BY <1>1, <1>3, <2>1, <2>2
<1>5. CASE n = Size[l]
  BY <1>3, <1>4, <1>5 DEF Starts
<1>6. CASE f = <<>>
  <2>1. Len(g) = n
    BY <1>2, <1>3, <1>6
  <2>2. QED
    BY <1>3, <1>4, <2>1 DEF Starts
<1>7. QED
  BY <1>3, <1>5, <1>6

\* The steps of a login that do not touch the file.
Elsewhere(l) ==
  /\ pc[l] # "done" /\ pc'[l] \notin {"write"} /\ (pc[l] = "write" => pc'[l] = "done" /\ outcome'[l] = "crash")
  /\ outcome'[l] = outcome[l] \/ pc'[l] = "done"
  /\ \A k \in Logins \ {l} : pc'[k] = pc[k] /\ outcome'[k] = outcome[k]

LEMMA OtherSteps ==
  ASSUME TypeOK, NEW l \in Logins, LoginStep(l), ~Open(l), ~Expire(l), ~\E n \in 0..Size[l] : Write(l, n)
  PROVE  Elsewhere(l)
<1> USE DEF TypeOK
<1>1. ASSUME NEW where \in Pcs \ {"write"}, Goto(l, where), pc[l] \notin {"write", "done"} PROVE Elsewhere(l)
  BY <1>1 DEF Goto, Elsewhere
<1>2. ASSUME NEW why, End(l, why), pc[l] # "done", pc[l] = "write" => why = "crash" PROVE Elsewhere(l)
  BY <1>2 DEF End, Elsewhere
<1>3. {"csrf", "signin", "code", "resolve", "callback", "totp", "verify", "get", "cookie", "save"} \subseteq Pcs \ {"write"}
  BY DEF Pcs
<1> USE <1>3
<1>4. CASE WarmUp(l) \/ Signin(l) \/ CallbackPage(l) \/ CallbackRedirect(l) \/ Get(l)
  BY <1>1, <1>4 DEF WarmUp, Signin, CallbackPage, CallbackRedirect, Get
<1>5. CASE CallbackFails(l) \/ NetworkFails(l) \/ Crash(l) \/ SaveFails(l)
  BY <1>2, <1>5 DEF CallbackFails, NetworkFails, Crash, SaveFails
<1>6. CASE resolveCode(l)
  BY <1>1, <1>2, <1>6 DEF resolveCode
<1>7. CASE CallbackChallenge(l)
  BY <1>1, <1>7 DEF CallbackChallenge
<1>8. CASE verifyTOTP(l)
  BY <1>1, <1>2, <1>8 DEF verifyTOTP
<1>9. CASE readCookie(l)
  BY <1>1, <1>2, <1>9 DEF readCookie
<1>10. CASE \E b \in BOOLEAN : fetchCSRF(l, b)
  BY <1>1, <1>2, <1>10 DEF fetchCSRF
<1>11. CASE \E typed \in {Absent, "right", "wrong", "link"} : EnterCode(l, typed)
  BY <1>1, <1>2, <1>11 DEF EnterCode
<1>12. CASE \E typed \in {Absent, "right", "wrong", "malformed"} : EnterTOTP(l, typed)
  BY <1>1, <1>2, <1>12 DEF EnterTOTP
<1>13. QED
  BY <1>4, <1>5, <1>6, <1>7, <1>8, <1>9, <1>10, <1>11, <1>12 DEF LoginStep

\* They leave alone which saves were cut short, too.
LEMMA ElsewhereKeeps ==
  ASSUME FileInv, NEW l \in Logins, Elsewhere(l), UNCHANGED <<disk, reader>>
  PROVE  FileInv'
<1>1. UNCHANGED <<file, opened, rpc, data, suspect>>
  BY DEF disk, reader
<1>2. SaverInv'
  <2>1. \A k \in Logins : Saving(k)' => Saving(k)
    BY DEF Elsewhere, Saving
  <2>2. \A k \in opened : pc'[k] \in {"write", "done"}
    BY DEF Elsewhere, FileInv, SaverInv, FileTypes
  <2>3. \A k \in Logins : outcome'[k] = "disk" => pc'[k] = "done"
    BY DEF Elsewhere, FileInv, SaverInv
  <2>4. QED
    BY <1>1, <2>1, <2>2, <2>3 DEF FileInv, SaverInv
<1>3. CutShort' = CutShort
  <2>1. l \in opened => outcome[l] # "disk" /\ outcome'[l] # "disk"
    BY DEF Elsewhere, FileInv, SaverInv
  <2>2. \A k \in opened : (outcome'[k] = "disk") = (outcome[k] = "disk")
    BY <2>1 DEF Elsewhere, FileInv, FileTypes
  <2>3. QED
    BY <1>1, <2>2 DEF CutShort
<1>4. QED
  BY <1>1, <1>2, <1>3 DEF FileInv, FileTypes, ReaderInv

LEMMA OpenStep ==
  ASSUME TypeOK, FileInv, NEW l \in Logins, Open(l)
  PROVE  FileInv'
<1>1. /\ pc[l] = "save" /\ file' = <<>> /\ UNCHANGED <<outcome, rpc, data>>
      /\ opened' = {l} \cup (IF \E k \in Logins : Saving(k) THEN opened ELSE {})
      /\ suspect' = suspect \cup Reading
      /\ pc'[l] = "write" /\ \A k \in Logins \ {l} : pc'[k] = pc[k]
  BY DEF Open, Goto, TypeOK
<1>2. FileTypes'
  BY <1>1 DEF FileInv, FileTypes
<1>3. SaverInv'
  <2>1. \A k \in Logins : Saving(k)' => k \in opened'
    BY <1>1 DEF Saving, FileInv, SaverInv
  <2>2. \A k \in opened' : pc'[k] \in {"write", "done"}
    BY <1>1 DEF FileInv, SaverInv, FileTypes
  <2>3. \A k \in Logins : outcome'[k] = "disk" => pc'[k] = "done"
    BY <1>1 DEF FileInv, SaverInv
  <2>4. file' \in Seq(Cells)
    BY <1>1
  <2>5. QED
    BY <1>1, <2>1, <2>2, <2>3, <2>4 DEF SaverInv
<1>4. ReaderInv'
  <2>1. Starts(file', old) /\ old \in Cells /\ file' \in Seq(Cells)
    BY <1>1 DEF Starts, Cells
  <2>2. \A p \in Readers : rpc'[p] = "more" => p \in suspect'
    BY <1>1 DEF Reading
  <2>3. QED
    BY <1>1, <2>1, <2>2 DEF FileInv, ReaderInv
<1>5. QED
  BY <1>2, <1>3, <1>4 DEF FileInv

LEMMA WriteStep ==
  ASSUME TypeOK, FileInv, NEW l \in Logins, NEW n \in 0..Size[l], Write(l, n)
  PROVE  FileInv'
<1>1. /\ Saving(l) /\ file' = [i \in 1..n |-> l] \o SubSeq(file, n + 1, Len(file))
      /\ UNCHANGED <<rpc, data, opened>> /\ suspect' = suspect \cup Reading
      /\ pc'[l] = "done" /\ outcome'[l] = IF n = Size[l] THEN "ok" ELSE "disk"
      /\ \A k \in Logins \ {l} : pc'[k] = pc[k] /\ outcome'[k] = outcome[k]
  BY DEF Write, End, TypeOK
<1>2. file \in Seq(Cells) /\ l \in opened /\ (opened = {l} => file = <<>>)
  BY <1>1 DEF FileInv, SaverInv
<1>3. file' \in Seq(Cells) /\ (n = Size[l] \/ file = <<>> => Starts(file', l))
  <2>1. n \in Nat
    BY LoginAssumption
  <2>2. QED
    BY <1>1, <1>2, <2>1, WriteFile
<1>4. FileTypes'
  BY <1>1, <1>3 DEF FileInv, FileTypes
<1>5. SaverInv'
  <2>1. \A k \in Logins : Saving(k)' => k # l /\ k \in opened' /\ opened' # {k}
    BY <1>1, <1>2 DEF Saving, FileInv, SaverInv
  <2>2. \A k \in opened' : pc'[k] \in {"write", "done"}
    BY <1>1 DEF FileInv, SaverInv, FileTypes
  <2>3. \A k \in Logins : outcome'[k] = "disk" => pc'[k] = "done"
    BY <1>1 DEF FileInv, SaverInv
  <2>4. QED
    BY <1>3, <2>1, <2>2, <2>3 DEF SaverInv
<1>6. ReaderInv'
  <2>1. ~CutShort' => Starts(file', l)
    BY <1>1, <1>2, <1>3 DEF CutShort
  <2>2. \A p \in Readers : rpc'[p] = "more" => p \in suspect'
    BY <1>1 DEF Reading
  <2>3. l \in Cells
    BY DEF Cells
  <2>4. QED
    BY <1>1, <1>3, <2>1, <2>2, <2>3 DEF FileInv, ReaderInv
<1>7. QED
  BY <1>4, <1>5, <1>6 DEF FileInv

LEMMA ReaderStep ==
  ASSUME FileInv, NEW p \in Readers, ReadFile(p) \/ Read(p) \/ Load(p)
  PROVE  FileInv'
<1>1. UNCHANGED <<pc, outcome, file, opened>>
  BY DEF ReadFile, Read, Load, disk
<1>2. SaverInv' /\ CutShort' = CutShort
  BY <1>1 DEF FileInv, SaverInv, Saving, CutShort
<1>3. /\ file = Absent \/ file \in Seq(Cells)
      /\ DOMAIN rpc = Readers /\ data \in [Readers -> Seq(Cells)]
      /\ rpc[p] = "idle" => data[p] = <<>>
  BY DEF FileInv, FileTypes, ReaderInv
<1>4. CASE ReadFile(p)
  <2>1. /\ rpc[p] = "idle" /\ data' = data
        /\ rpc' = [rpc EXCEPT ![p] = IF file = Absent THEN "no token" ELSE "more"]
        /\ suspect' = IF CutShort THEN suspect \cup {p} ELSE suspect
    BY <1>4 DEF ReadFile
  <2>2. Begins(<<>>, file) \/ file = Absent
    BY <1>3 DEF Begins
  <2>3. QED
    BY <1>1, <1>2, <1>3, <2>1, <2>2 DEF FileInv, FileTypes, ReaderInv
<1>5. CASE Read(p)
  <2>1. PICK n \in (Len(data[p]) + 1)..Len(file) :
          data' = [data EXCEPT ![p] = data[p] \o SubSeq(file, Len(data[p]) + 1, n)]
    BY <1>5 DEF Read
  <2>2. rpc[p] = "more" /\ UNCHANGED <<rpc, suspect>>
    BY <1>5 DEF Read
  <2>3. file \in Seq(Cells) /\ data[p] \in Seq(Cells)
    BY <1>3, <2>2 DEF FileInv, ReaderInv
  <2> DEFINE d == data[p] \o SubSeq(file, Len(data[p]) + 1, n)
  <2>4. d \in Seq(Cells) /\ (Begins(data[p], file) => Begins(d, file))
    BY <2>1, <2>3, ReadOn
  <2> HIDE DEF d
  <2>5. data' = [data EXCEPT ![p] = d]
    BY <2>1 DEF d
  <2>6. QED
    BY <1>1, <1>2, <1>3, <2>2, <2>3, <2>4, <2>5 DEF FileInv, FileTypes, ReaderInv
<1>6. CASE Load(p)
  <2>1. rpc[p] = "more" /\ UNCHANGED <<data, suspect>>
    BY <1>6 DEF Load
  <2>2. PICK r \in {"parse error", "expired", "loaded"} : rpc' = [rpc EXCEPT ![p] = r]
    BY <1>6 DEF Load
  <2>3. QED
    BY <1>1, <1>2, <1>3, <2>1, <2>2 DEF FileInv, FileTypes, ReaderInv
<1>7. QED
  BY <1>4, <1>5, <1>6

LEMMA FileStep == TypeOK /\ FileInv /\ [Next]_vars => FileInv'
<1> SUFFICES ASSUME TypeOK, FileInv, [Next]_vars PROVE FileInv'
  OBVIOUS
<1>1. ASSUME NEW l \in Logins, LoginStep(l), ~Open(l), ~\E n \in 0..Size[l] : Write(l, n) PROVE FileInv'
  <2>1. UNCHANGED <<disk, reader>>
    BY <1>1 DEF LoginStep, WarmUp, Signin, resolveCode, CallbackPage, CallbackChallenge, CallbackRedirect,
                CallbackFails, verifyTOTP, Get, readCookie, NetworkFails, Crash, SaveFails, Expire, fetchCSRF,
                EnterCode, EnterTOTP
  <2>2. CASE Expire(l)
    <3>1. UNCHANGED <<pc, outcome>>
      BY <2>2 DEF Expire
    <3>2. QED
      BY <2>1, <3>1 DEF FileInv, FileTypes, SaverInv, ReaderInv, Saving, CutShort, disk, reader
  <2>3. CASE ~Expire(l)
    BY <1>1, <2>1, <2>3, OtherSteps, ElsewhereKeeps
  <2>4. QED
    BY <2>2, <2>3
<1>2. CASE UNCHANGED vars
  BY <1>2 DEF vars, FileInv, FileTypes, SaverInv, ReaderInv, Saving, CutShort, disk, reader
<1>3. QED
  BY <1>1, <1>2, OpenStep, WriteStep, ReaderStep DEF Next

\* A reader that met no other save has loaded one login's file.
LEMMA LoadStep == TypeOK /\ FileInv /\ LoadsOneToken /\ [Next]_vars => LoadsOneToken'
<1> SUFFICES ASSUME TypeOK, FileInv, LoadsOneToken, [Next]_vars PROVE LoadsOneToken'
  OBVIOUS
<1>1. ASSUME NEW p \in Readers, ReadFile(p) \/ Read(p) PROVE LoadsOneToken'
  <2>1. /\ \A q \in Readers \ {p} : rpc'[q] = rpc[q] /\ data'[q] = data[q]
        /\ rpc'[p] # "loaded" /\ suspect \subseteq suspect'
    BY <1>1 DEF ReadFile, Read, FileInv, FileTypes
  <2>2. QED
    BY <2>1 DEF LoadsOneToken
<1>2. ASSUME NEW p \in Readers, Load(p) PROVE LoadsOneToken'
  <2> DEFINE d == data[p]
             r == IF parse(d) = Absent THEN "parse error" ELSE IF parse(d) \in expired THEN "expired" ELSE "loaded"
  <2>1. /\ rpc[p] = "more" /\ Len(file) <= Len(d) /\ UNCHANGED <<data, suspect>>
        /\ rpc' = [rpc EXCEPT ![p] = r]
    BY <1>2 DEF Load
  <2>2. r = "loaded" => parse(d) # Absent
    OBVIOUS
  <2>3. d \in Seq(Cells) /\ file \in Seq(Cells)
    BY <2>1 DEF FileInv, FileTypes, ReaderInv
  <2>4. p \notin suspect => ~CutShort /\ Begins(d, file)
    BY <2>1 DEF FileInv, ReaderInv
  <2> HIDE DEF d, r
  <2>5. p \notin suspect /\ parse(d) # Absent => \E l \in Cells : d = Whole(l)
    <3>1. Begins(d, file) => d = file
      <4>1. Len(d) \in Nat /\ Len(file) \in Nat
        BY <2>3
      <4>2. Begins(d, file) => Len(d) = Len(file) /\ \A i \in 1..Len(d) : d[i] = file[i]
        BY <2>1, <4>1 DEF Begins
      <4>3. QED
        BY <2>3, <4>2
    <3>2. ~CutShort => \E l \in Cells : Starts(file, l)
      BY <2>3 DEF FileInv, ReaderInv
    <3>3. QED
      BY <2>3, <2>4, <3>1, <3>2, ParseOne
  <2>6. /\ \A q \in Readers \ {p} : rpc'[q] = rpc[q] /\ data'[q] = data[q]
        /\ rpc'[p] = r /\ data'[p] = d
    BY <2>1 DEF FileInv, FileTypes, d
  <2>7. QED
    BY <2>1, <2>2, <2>5, <2>6 DEF LoadsOneToken, Cells
<1>3. CASE \E l \in Logins : LoginStep(l)
  <2>1. UNCHANGED <<rpc, data>> /\ suspect \subseteq suspect'
    BY <1>3 DEF LoginStep, WarmUp, Signin, resolveCode, CallbackPage, CallbackChallenge, CallbackRedirect,
                CallbackFails, verifyTOTP, Get, readCookie, NetworkFails, Crash, SaveFails, Expire, fetchCSRF,
                EnterCode, EnterTOTP, Open, Write, reader
  <2>2. QED
    BY <2>1 DEF LoadsOneToken
<1>4. CASE UNCHANGED vars
  BY <1>4 DEF vars, reader, LoadsOneToken
<1>5. QED
  BY <1>1, <1>2, <1>3, <1>4 DEF Next

LEMMA FileInit == Init => FileInv /\ LoadsOneToken
<1> SUFFICES ASSUME Init PROVE FileInv /\ LoadsOneToken
  OBVIOUS
<1>1. Whole(old) \in Seq(Cells) /\ Starts(Whole(old), old)
  <2>1. Size[old] \in Nat
    BY LoginAssumption
  <2>2. QED
    BY <2>1 DEF Whole, Cells, Starts
<1>2. /\ file = Absent \/ file = Whole(old)
      /\ rpc = [p \in Readers |-> "idle"] /\ data = [p \in Readers |-> <<>>] /\ opened = {}
      /\ \A l \in Logins : pc[l] = "warm up" /\ outcome[l] = Absent
  BY DEF Init
<1>3. <<>> \in Seq(Cells)
  OBVIOUS
<1>4. FileTypes
  BY <1>1, <1>2, <1>3 DEF FileTypes
<1>5. SaverInv
  BY <1>2, LoginAssumption DEF SaverInv, Saving
<1>6. ReaderInv
  <2>1. file \in Seq(Cells) => \E l \in Cells : Starts(file, l)
    <3>1. CASE file = Whole(old)
      BY <1>1, <3>1 DEF Cells
    <3>2. CASE file = Absent
      BY <3>2, LoginAssumption DEF Cells
    <3>3. QED
      BY <1>2, <3>1, <3>2
  <2>2. QED
    BY <1>2, <2>1 DEF ReaderInv
<1>7. LoadsOneToken
  BY <1>2 DEF LoadsOneToken
<1>8. QED
  BY <1>4, <1>5, <1>6, <1>7 DEF FileInv

\* However many logins rewrite the file in place, crash or run out of disk, a
\* load that no save overlaps gives what one login wrote or fails, for tokens of
\* any sizes (Save, Load): the invariant is that the file is the beginning of one
\* login's, or begins with all of it, unless a full disk cut one of two
\* overlapping saves short.
THEOREM TokensWhole == Spec => []LoadsOneToken
<1>1. LoginInv => TypeOK
  BY DEF LoginInv
<1>2. QED
  BY LoginInit, LoginNext, FileInit, FileStep, LoadStep, <1>1, PTL DEF Spec
=============================================================================
