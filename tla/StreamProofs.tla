----------------------------- MODULE StreamProofs -----------------------------
(***************************************************************************)
(* Proofs about the answer stream: LineScanner, which cuts it into lines,  *)
(* and AnswerStream and AskWire, which make an answer of its frames.       *)
(*                                                                         *)
(* The scanner.  The buffer of scanLines is bounded for every cap, every   *)
(* read size and every body.  What makes the bound inductive is that the   *)
(* scanner only goes on with a buffer within the cap: the check comes      *)
(* after the append and before anything else.  The lines it hands over are *)
(* those of the body, whatever the reads, and a clean end has handed over  *)
(* all of them.  LinesOf reads a whole body at once and the scanner a      *)
(* piece at a time; ScanInv relates the two: what is in the buffer is what *)
(* follows a line end of the body (CutOff), and what was handed over are   *)
(* the lines up to there (Handed).  A read makes the body longer and moves *)
(* no line end before the cut; a split moves the cut to the next line end. *)
(*                                                                         *)
(* The answer.  First, on the recorded wire, for any answer in any chunks, *)
(* sent in any portions: the text is what was sent, and the deltas add up  *)
(* to it.  Then, for a server that sends any frames at all: the text is    *)
(* that of the last frame that settles it, and citations stay.             *)
(***************************************************************************)
EXTENDS AskWire, LineScanner, SequenceTheorems, FiniteSetTheorems, WellFoundedInduction, TLAPS

\* The scanner goes on only while the buffer is within the cap.
WithinCap == pc # "done" => Len(buf) <= maxSSELine

BufInv ==
  /\ buf \in Seq(Bytes)
  /\ WithinCap
  /\ BufferBounded

-----------------------------------------------------------------------------
\* bytes.IndexByte finds an index when there is one.
LEMMA MinOfNats ==
  ASSUME NEW S, S \subseteq Nat, S # {}
  PROVE  Min(S) \in S /\ \A y \in S : Min(S) <= y
<1>1. PICK x \in S : \A y \in S : ~ (<<y, x>> \in OpToRel(<, Nat))
  BY NatLessThanWellFounded, WFMin
<1>2. \A y \in S : x <= y
  <2> SUFFICES ASSUME NEW y \in S, ~(x <= y) PROVE FALSE
    OBVIOUS
  <2>1. y < x
    OBVIOUS
  <2>2. <<y, x>> \in {p \in Nat \X Nat : p[1] < p[2]}
    BY <2>1
  <2>3. OpToRel(<, Nat) = {p \in Nat \X Nat : p[1] < p[2]}
    BY Zenon DEF OpToRel
  <2> QED
    BY <1>1, <2>2, <2>3, Zenon
<1> QED
  BY <1>2 DEF Min

\* A chunk is a sequence of at most ChunkSize bytes.
LEMMA ChunkLength ==
  ASSUME NEW chunk \in Chunks
  PROVE  chunk \in Seq(Bytes) /\ Len(chunk) \in 0..ChunkSize
<1>1. PICK m \in 0..ChunkSize : chunk \in [1..m -> Bytes]
  BY DEF Chunks, SeqOf
<1>2. m \in Nat
  BY <1>1, ScanAssumption
<1> QED
  BY <1>1, <1>2

\* What is left behind a cut is a sequence of bytes that is not longer.
LEMMA CutShortens ==
  ASSUME NEW s \in Seq(Bytes), NEW i \in DOMAIN s
  PROVE  SubSeq(s, i + 1, Len(s)) \in Seq(Bytes) /\ Len(SubSeq(s, i + 1, Len(s))) <= Len(s)
<1>1. i \in 1..Len(s) /\ Len(s) \in Nat
  BY LenProperties
<1>2. \A j \in (i + 1)..Len(s) : s[j] \in Bytes
  BY <1>1, LenProperties
<1> QED
  BY <1>1, <1>2, SubSeqProperties

LEMMA InitBuf == ScanInit => BufInv
  BY ScanAssumption DEF ScanInit, BufInv, WithinCap, BufferBounded

LEMMA ReadBuf ==
  ASSUME BufInv, NEW chunk \in Chunks, NEW err, Read(chunk, err)
  PROVE  BufInv'
<1>1. chunk \in Seq(Bytes) /\ Len(chunk) \in 0..ChunkSize
  BY ChunkLength
<1>2. Len(buf) <= maxSSELine /\ buf \in Seq(Bytes)
  BY DEF BufInv, WithinCap, Read
<1>3. buf' \in Seq(Bytes) /\ Len(buf') = Len(buf) + Len(chunk)
  BY <1>1, <1>2, ConcatProperties DEF Read
<1>4. BufferBounded'
  BY <1>1, <1>2, <1>3, ScanAssumption, LenProperties DEF BufferBounded
<1>5. WithinCap'
  <2>1. CASE chunk # <<>> /\ Len(buf') > maxSSELine
    BY <2>1 DEF Read, Return, WithinCap
  <2>2. CASE chunk = <<>>
    <3>1. Len(buf') = Len(buf)
      BY <1>3, <2>2, <1>2, LenProperties
    <3> QED
      BY <3>1, <1>2 DEF WithinCap
  <2>3. CASE ~(Len(buf') > maxSSELine)
    BY <2>3, <1>3, ScanAssumption, LenProperties DEF WithinCap
  <2> QED
    BY <2>1, <2>2, <2>3
<1> QED
  BY <1>3, <1>4, <1>5 DEF BufInv

LEMMA SplitBuf ==
  ASSUME BufInv, Split
  PROVE  BufInv'
<1> DEFINE ends == {i \in DOMAIN buf : buf[i] = LF}
<1>1. buf \in Seq(Bytes) /\ Len(buf) \in Nat /\ DOMAIN buf = 1..Len(buf)
  BY LenProperties DEF BufInv
<1>2. Min(ends) \in ends
  <2>1. ends \subseteq Nat /\ ends # {}
    BY <1>1 DEF Split, Contains
  <2> QED
    BY <2>1, MinOfNats
<1>3. buf' = SubSeq(buf, Min(ends) + 1, Len(buf))
  BY DEF Split
<1>4. buf' \in Seq(Bytes) /\ Len(buf') <= Len(buf)
  BY <1>1, <1>2, <1>3, CutShortens
<1>5. Len(buf) <= maxSSELine
  BY DEF BufInv, WithinCap, Split
<1>6. Len(buf') \in Nat
  BY <1>4, LenProperties
<1> QED
  BY <1>1, <1>4, <1>5, <1>6, ScanAssumption DEF BufInv, WithinCap, BufferBounded

LEMMA NextBuf ==
  ASSUME BufInv, [ScanNext]_scanVars
  PROVE  BufInv'
<1>1. ASSUME NEW chunk \in Chunks, NEW err \in {"nil", "EOF", "read error"}, Read(chunk, err)
      PROVE  BufInv'
  BY <1>1, ReadBuf
<1>2. CASE Split
  BY <1>2, SplitBuf
<1>3. CASE AfterSplit
  BY <1>3 DEF AfterSplit, Return, BufInv, WithinCap, BufferBounded
<1>4. CASE AtEOF
  BY <1>4 DEF AtEOF, Return, BufInv, WithinCap, BufferBounded
<1>5. CASE UNCHANGED scanVars
  BY <1>5 DEF scanVars, BufInv, WithinCap, BufferBounded
<1> QED
  BY <1>1, <1>2, <1>3, <1>4, <1>5 DEF ScanNext

\* The buffer never grows beyond the cap and one read, whatever the server
\* sends and however the body is cut into reads (plain.go:365-370).
THEOREM BufferIsBounded == ScanSpec => []BufferBounded
<1>1. ScanInit => BufInv
  BY InitBuf
<1>2. BufInv /\ [ScanNext]_scanVars => BufInv'
  BY NextBuf
<1>3. BufInv => BufferBounded
  BY DEF BufInv
<1> QED
  BY <1>1, <1>2, <1>3, PTL DEF ScanSpec

-----------------------------------------------------------------------------
(* Where a line begins and ends.                                             *)

\* The greatest of some bounded numbers.
LEMMA MaxOfNats ==
  ASSUME NEW S, S \subseteq Nat, S # {}, NEW n \in Nat, \A x \in S : x <= n
  PROVE  Max(S) \in S /\ \A x \in S : x <= Max(S)
<1> DEFINE T == {k \in Nat : \A x \in S : x <= k}
           m == Min(T)
<1>1. m \in T /\ \A t \in T : m <= t
  BY MinOfNats
<1>2. m \in S
  <2> SUFFICES ASSUME m \notin S PROVE FALSE
    OBVIOUS
  <2>1. PICK x \in S : TRUE
    OBVIOUS
  <2>2. m \in Nat /\ \A y \in S : y <= m /\ y \in Nat
    BY <1>1
  <2> HIDE DEF m
  <2>3. \A y \in S : y <= m - 1
    BY <2>2
  <2>4. m - 1 \in Nat
    BY <2>1, <2>2, <2>3
  <2>5. m - 1 \in T
    BY <2>3, <2>4
  <2>6. QED
    BY <1>1, <2>2, <2>5
<1>3. \A y \in S : m >= y
  BY <1>1
<1> HIDE DEF m
<1>4. QED
  BY <1>2, <1>3 DEF Max

LEMMA MaxIs ==
  ASSUME NEW S, S \subseteq Nat, NEW m \in S, \A x \in S : x <= m
  PROVE  Max(S) = m
<1>1. \A x \in S : m >= x
  OBVIOUS
<1>2. \A y \in S : (\A x \in S : y >= x) => y = m
  OBVIOUS
<1>3. QED
  BY <1>1, <1>2 DEF Max

LEMMA MinIs ==
  ASSUME NEW S, S \subseteq Nat, NEW m \in S, \A x \in S : m <= x
  PROVE  Min(S) = m
<1>1. \A y \in S : (\A x \in S : y <= x) => y = m
  OBVIOUS
<1>2. QED
  BY <1>1 DEF Min

\* The bytes of a body closed by a line end.
Text == Bytes \cup {LF}

\* bytes.TrimRight drops only carriage returns.
LEMMA TrimLemma ==
  ASSUME NEW s \in Seq(Text)
  PROVE  /\ TrimCR(s) \in Seq(Text)
         /\ Blank(TrimCR(s)) <=> Blank(s)
<1> DEFINE S == {0} \cup {i \in DOMAIN s : s[i] # CR}
           m == Max(S)
<1>1. Len(s) \in Nat /\ DOMAIN s = 1..Len(s) /\ \A i \in 1..Len(s) : s[i] \in Text
  BY LenProperties, ElementOfSeq
<1>2. S \subseteq Nat /\ S # {} /\ \A x \in S : x <= Len(s)
  BY <1>1
<1>3. m \in S /\ \A x \in S : x <= m
  BY <1>1, <1>2, MaxOfNats
<1>4. TrimCR(s) = SubSeq(s, 1, m)
  BY DEF TrimCR
<1> HIDE DEF m
<1>5. m \in 0..Len(s) /\ \A i \in 1..Len(s) : i > m => s[i] = CR
  <2>1. m \in Nat /\ m <= Len(s)
    BY <1>2, <1>3
  <2>2. ASSUME NEW i \in 1..Len(s), i > m, s[i] # CR
        PROVE  FALSE
    <3>1. i \in S
      BY <1>1, <2>2
    <3>2. i <= m
      BY <1>3, <3>1
    <3>3. QED
      BY <2>1, <2>2, <3>2
  <2>3. QED
    BY <1>1, <2>1, <2>2
<1>6. \A i \in 1..m : s[i] \in Text
  BY <1>1, <1>5
<1>7. /\ SubSeq(s, 1, m) \in Seq(Text) /\ Len(SubSeq(s, 1, m)) = m
      /\ \A i \in 1..m : SubSeq(s, 1, m)[i] = s[i]
  <2>1. /\ SubSeq(s, 1, m) \in Seq(Text)
        /\ Len(SubSeq(s, 1, m)) = IF 1 <= m THEN m - 1 + 1 ELSE 0
        /\ \A i \in 1..(m - 1 + 1) : SubSeq(s, 1, m)[i] = s[1 + i - 1]
    BY <1>5, <1>6, SubSeqProperties
  <2>2. QED
    BY <1>5, <2>1
<1>8. DOMAIN SubSeq(s, 1, m) = 1..m
  BY <1>7, LenProperties
<1>9. Blank(SubSeq(s, 1, m)) <=> \A i \in 1..m : s[i] \in {Space, CR, LF}
  BY <1>7, <1>8 DEF Blank
<1>10. Blank(s) <=> \A i \in 1..Len(s) : s[i] \in {Space, CR, LF}
  BY <1>1 DEF Blank
<1>11. (\A i \in 1..m : s[i] \in {Space, CR, LF}) <=> (\A i \in 1..Len(s) : s[i] \in {Space, CR, LF})
  BY <1>1, <1>5
<1>12. QED
  BY <1>4, <1>7, <1>9, <1>10, <1>11

\* A part of a text, position by position.
LEMMA Part ==
  ASSUME NEW s \in Seq(Text), NEW a \in Nat \ {0}, NEW b \in Nat, b <= Len(s)
  PROVE  /\ SubSeq(s, a, b) \in Seq(Text)
         /\ Len(SubSeq(s, a, b)) = IF a <= b THEN b - a + 1 ELSE 0
         /\ \A i \in 1..(b - a + 1) : SubSeq(s, a, b)[i] = s[a + i - 1]
<1>1. Len(s) \in Nat /\ \A i \in 1..Len(s) : s[i] \in Text
  BY LenProperties, ElementOfSeq
<1>2. \A i \in a..b : s[i] \in Text
  BY <1>1
<1>3. QED
  BY <1>2, SubSeqProperties

\* Two texts that agree up to n have the same lines there.
LEMMA SameLines ==
  ASSUME NEW s \in Seq(Text), NEW t \in Seq(Text), NEW n \in Nat, n <= Len(s), n <= Len(t),
         \A i \in 1..n : s[i] = t[i], NEW k \in 1..n
  PROVE  LineAt(s, k) = LineAt(t, k) /\ (k \in Full(s) <=> k \in Full(t))
<1> DEFINE S == {0} \cup {j \in Ends(s) : j < k}
           U == {0} \cup {j \in Ends(t) : j < k}
           m == Max(S)
<1>1. /\ Len(s) \in Nat /\ DOMAIN s = 1..Len(s)
      /\ Len(t) \in Nat /\ DOMAIN t = 1..Len(t)
  BY LenProperties
<1>2. S = U
  BY <1>1 DEF Ends
<1>3. S \subseteq Nat /\ S # {} /\ \A x \in S : x <= k
  BY <1>1 DEF Ends
<1>4. m \in S
  <2>1. k \in Nat
    OBVIOUS
  <2> HIDE DEF S
  <2>2. QED
    BY <1>3, <2>1, MaxOfNats
<1>5. m \in Nat
  BY <1>3, <1>4
<1>6. LineAt(s, k) = TrimCR(SubSeq(s, 1 + m, k - 1)) /\ LineAt(t, k) = TrimCR(SubSeq(t, 1 + m, k - 1))
  BY <1>2 DEF LineAt
<1> HIDE DEF m
<1>7. SubSeq(s, 1 + m, k - 1) = SubSeq(t, 1 + m, k - 1)
  <2> DEFINE a == 1 + m
             b == k - 1
  <2>1. a \in Nat \ {0} /\ b \in Nat /\ b <= Len(s) /\ b <= Len(t) /\ b <= n
    BY <1>1, <1>5
  <2> HIDE DEF a, b
  <2>2. /\ SubSeq(s, a, b) \in Seq(Text) /\ Len(SubSeq(s, a, b)) = IF a <= b THEN b - a + 1 ELSE 0
        /\ \A i \in 1..(b - a + 1) : SubSeq(s, a, b)[i] = s[a + i - 1]
    BY <2>1, Part
  <2>3. /\ SubSeq(t, a, b) \in Seq(Text) /\ Len(SubSeq(t, a, b)) = IF a <= b THEN b - a + 1 ELSE 0
        /\ \A i \in 1..(b - a + 1) : SubSeq(t, a, b)[i] = t[a + i - 1]
    BY <2>1, Part
  <2>4. \A i \in 1..Len(SubSeq(s, a, b)) : SubSeq(s, a, b)[i] = SubSeq(t, a, b)[i]
    <3>1. ASSUME NEW i \in 1..Len(SubSeq(s, a, b))
          PROVE  i \in 1..(b - a + 1) /\ a + i - 1 \in 1..n
      BY <2>1, <2>2
    <3>2. QED
      BY <2>2, <2>3, <3>1
  <2>5. SubSeq(s, a, b) = SubSeq(t, a, b)
    BY <2>2, <2>3, <2>4, SeqEqual
  <2>6. QED
    BY <2>5 DEF a, b
<1>8. LineAt(s, k) = LineAt(t, k)
  BY <1>6, <1>7
<1>9. k \in Ends(s) <=> k \in Ends(t)
  BY <1>1 DEF Ends
<1>10. QED
  BY <1>8, <1>9 DEF Full

-----------------------------------------------------------------------------
(* Numbering the positions of a set.                                         *)

LEMMA NthPrefix ==
  ASSUME NEW G, G \subseteq Nat, IsFiniteSet(G), NEW F \in SUBSET G,
         \A f \in F, g \in G \ F : f < g, NEW k \in 1..Cardinality(F)
  PROVE  Nth(F, k) = Nth(G, k)
<1>1. IsFiniteSet(F) /\ Cardinality(F) \in Nat
  BY FS_Subset, FS_CardinalityType
<1>2. \A i \in F : {j \in G : j <= i} = {j \in F : j <= i}
  <2>1. \A i \in F, j \in G : j <= i => j \in F
    <3>1. ASSUME NEW i \in F, NEW j \in G \ F
          PROVE  ~(j <= i)
      <4>1. i < j /\ i \in Nat /\ j \in Nat
        OBVIOUS
      <4>2. QED
        BY <4>1
    <3>2. QED
      BY <3>1
  <2>2. QED
    BY <2>1
<1>3. ASSUME NEW g \in G \ F
      PROVE  Cardinality({j \in G : j <= g}) > Cardinality(F)
  <2>1. F \cup {g} \subseteq {j \in G : j <= g}
    OBVIOUS
  <2>2. IsFiniteSet({j \in G : j <= g}) /\ Cardinality({j \in G : j <= g}) \in Nat
    BY FS_Subset, FS_CardinalityType
  <2>3. Cardinality(F \cup {g}) = Cardinality(F) + 1
    BY <1>1, FS_AddElement
  <2>4. Cardinality(F \cup {g}) <= Cardinality({j \in G : j <= g})
    BY <2>1, <2>2, FS_Subset
  <2>5. QED
    BY <1>1, <2>2, <2>3, <2>4
<1>4. \A i : (i \in F /\ Cardinality({j \in F : j <= i}) = k)
               <=> (i \in G /\ Cardinality({j \in G : j <= i}) = k)
  <2>1. \A g \in G \ F : Cardinality({j \in G : j <= g}) # k
    <3>1. ASSUME NEW g \in G \ F
          PROVE  Cardinality({j \in G : j <= g}) # k
      <4>1. Cardinality({j \in G : j <= g}) > Cardinality(F)
        BY <1>3
      <4>2. QED
        BY <1>1, <4>1
    <3>2. QED
      BY <3>1
  <2>2. QED
    BY <1>2, <2>1
<1>5. QED
  BY <1>4 DEF Nth

LEMMA NthLast ==
  ASSUME NEW F, F \subseteq Nat, IsFiniteSet(F), NEW m \in Nat, \A f \in F : f < m
  PROVE  /\ Cardinality(F \cup {m}) = Cardinality(F) + 1
         /\ Nth(F \cup {m}, Cardinality(F) + 1) = m
<1> DEFINE G == F \cup {m}
           n == Cardinality(F)
<1>1. Cardinality(G) = n + 1 /\ n \in Nat
  BY FS_AddElement, FS_CardinalityType
<1>2. {j \in G : j <= m} = G
  <2>1. \A j \in G : j <= m
    OBVIOUS
  <2>2. QED
    BY <2>1
<1>3. ASSUME NEW i \in F
      PROVE  Cardinality({j \in G : j <= i}) <= n
  <2>1. {j \in G : j <= i} \subseteq F
    OBVIOUS
  <2>2. QED
    BY <2>1, FS_Subset
<1>4. ASSUME NEW i \in F
      PROVE  Cardinality({j \in G : j <= i}) # n + 1
  <2>1. {j \in G : j <= i} \in SUBSET F
    OBVIOUS
  <2>2. Cardinality({j \in G : j <= i}) \in Nat
    BY <2>1, FS_Subset, FS_CardinalityType
  <2>3. QED
    BY <1>1, <1>3, <2>2
<1>5. \A i \in G : Cardinality({j \in G : j <= i}) = n + 1 <=> i = m
  BY <1>1, <1>2, <1>4
<1>6. QED
  BY <1>1, <1>5 DEF Nth

\* Every number has its position: the least cardinality of a set that fails
\* leads to a smaller one, the set without its greatest element.
LEMMA NthIn ==
  ASSUME NEW b \in Nat, NEW F \in SUBSET (1..b), NEW k \in 1..Cardinality(F)
  PROVE  Nth(F, k) \in F
<1> DEFINE Fails(G, n) == G \subseteq 1..b /\ Cardinality(G) = n /\ \E j \in 1..n : Nth(G, j) \notin G
           Wrong == {n \in Nat : \E G \in SUBSET (1..b) : Fails(G, n)}
<1>1. \A G \in SUBSET (1..b) : IsFiniteSet(G) /\ Cardinality(G) \in Nat /\ G \subseteq Nat
  <2>1. IsFiniteSet(1..b)
    BY FS_Interval
  <2>2. \A G \in SUBSET (1..b) : IsFiniteSet(G)
    BY <2>1, FS_Subset
  <2>3. \A G \in SUBSET (1..b) : Cardinality(G) \in Nat
    BY <2>2, FS_CardinalityType
  <2>4. QED
    BY <2>2, <2>3
<1>2. Wrong = {}
  <2> SUFFICES ASSUME Wrong # {} PROVE FALSE
    OBVIOUS
  <2>1. PICK n \in Wrong : \A x \in Wrong : n <= x
    BY MinOfNats
  <2>2. PICK G \in SUBSET (1..b) : Fails(G, n)
    BY <2>1
  <2>3. PICK j \in 1..n : Nth(G, j) \notin G
    BY <2>2
  <2>4. n \in Nat /\ Cardinality(G) = n /\ G # {}
    BY <2>1, <2>2, <2>3, FS_EmptySet
  <2> DEFINE m == Max(G)
             H == G \ {m}
  <2>5. m \in G /\ \A x \in G : x <= m
    <3>1. G \subseteq Nat /\ \A x \in G : x <= b
      OBVIOUS
    <3>2. QED
      BY <2>4, <3>1, MaxOfNats
  <2> HIDE DEF m
  <2>6. /\ H \in SUBSET (1..b) /\ H \subseteq Nat /\ IsFiniteSet(H) /\ G = H \cup {m}
        /\ m \in Nat /\ \A x \in H : x < m
    BY <1>1, <2>5
  <2> HIDE DEF H
  <2>7. n = Cardinality(H) + 1 /\ Nth(G, n) = m /\ Cardinality(H) \in Nat
    BY <1>1, <2>4, <2>6, NthLast
  <2>8. j \in 1..Cardinality(H)
    BY <2>3, <2>5, <2>7
  <2>9. Nth(H, j) = Nth(G, j)
    <3>1. \A f \in H, g \in G \ H : f < g
      BY <2>6
    <3>2. H \in SUBSET G /\ IsFiniteSet(G) /\ G \subseteq Nat
      BY <1>1, <2>6
    <3>3. QED
      BY <2>8, <3>1, <3>2, NthPrefix
  <2>10. Nth(H, j) \notin H
    BY <2>3, <2>6, <2>9
  <2>11. Cardinality(H) \in Wrong
    BY <2>6, <2>7, <2>8, <2>10
  <2>12. QED
    BY <2>1, <2>4, <2>7, <2>11
<1>3. QED
  BY <1>1, <1>2

-----------------------------------------------------------------------------
(* The lines of a text that end at n or before.                              *)

FullTo(text, n) == {i \in Full(text) : i <= n}
LinesTo(text, n) == [k \in 1..Cardinality(FullTo(text, n)) |-> LineAt(text, Nth(FullTo(text, n), k))]

LEMMA FullFinite ==
  ASSUME NEW text \in Seq(Text), NEW n
  PROVE  /\ Full(text) \subseteq 1..Len(text) /\ Full(text) \subseteq Nat
         /\ FullTo(text, n) \subseteq Nat
         /\ IsFiniteSet(FullTo(text, n)) /\ Cardinality(FullTo(text, n)) \in Nat
<1>1. Len(text) \in Nat /\ DOMAIN text = 1..Len(text)
  BY LenProperties
<1>2. FullTo(text, n) \subseteq 1..Len(text) /\ Full(text) \subseteq 1..Len(text)
  BY <1>1 DEF FullTo, Full, Ends
<1>3. IsFiniteSet(1..Len(text))
  BY <1>1, FS_Interval
<1>4. QED
  BY <1>1, <1>2, <1>3, FS_Subset, FS_CardinalityType

LEMMA LinesToLen ==
  ASSUME NEW text \in Seq(Text), NEW n
  PROVE  /\ DOMAIN LinesTo(text, n) = 1..Cardinality(FullTo(text, n))
         /\ Len(LinesTo(text, n)) = Cardinality(FullTo(text, n))
         /\ \E S : LinesTo(text, n) \in Seq(S)
<1> DEFINE c == Cardinality(FullTo(text, n))
           f == LinesTo(text, n)
           S == {f[k] : k \in 1..c}
<1>1. c \in Nat
  BY FullFinite
<1>2. f \in [1..c -> S]
  BY DEF LinesTo
<1> HIDE DEF c, f, S
<1>3. f \in Seq(S) /\ Len(f) = c
  BY <1>1, <1>2
<1>4. QED
  BY <1>1, <1>2, <1>3 DEF c, f

LEMMA LinesOfAll ==
  ASSUME NEW text \in Seq(Text)
  PROVE  LinesOf(text) = LinesTo(text, Len(text))
<1>1. FullTo(text, Len(text)) = Full(text)
  <2>1. \A i \in Full(text) : i <= Len(text)
    BY FullFinite, LenProperties
  <2>2. QED
    BY <2>1 DEF FullTo
<1>2. QED
  BY <1>1 DEF LinesOf, LinesTo

LEMMA LinesSkip ==
  ASSUME NEW text \in Seq(Text), NEW n \in Nat, NEW m \in Nat, n <= m,
         \A i \in Full(text) : i <= m => i <= n
  PROVE  LinesTo(text, m) = LinesTo(text, n)
<1>1. FullTo(text, m) = FullTo(text, n)
  <2>1. Full(text) \subseteq Nat
    BY FullFinite
  <2>2. \A i \in Full(text) : i <= m <=> i <= n
    BY <2>1
  <2>3. QED
    BY <2>2 DEF FullTo
<1>2. QED
  BY <1>1 DEF LinesTo

LEMMA LinesSame ==
  ASSUME NEW s \in Seq(Text), NEW t \in Seq(Text), NEW n \in Nat, n <= Len(s), n <= Len(t),
         \A i \in 1..n : s[i] = t[i]
  PROVE  LinesTo(s, n) = LinesTo(t, n)
<1>1. \A k \in 1..n : LineAt(s, k) = LineAt(t, k) /\ (k \in Full(s) <=> k \in Full(t))
  BY SameLines
<1>2. Full(s) \subseteq 1..Len(s) /\ Full(t) \subseteq 1..Len(t)
  BY FullFinite
<1>3. FullTo(s, n) = FullTo(t, n)
  BY <1>1, <1>2 DEF FullTo
<1> DEFINE F == FullTo(s, n)
<1>4. F \subseteq 1..n
  BY <1>2 DEF FullTo
<1>5. \A k \in 1..Cardinality(F) : Nth(F, k) \in F
  BY <1>4, NthIn
<1> HIDE DEF F
<1>6. \A k \in 1..Cardinality(F) : LineAt(s, Nth(F, k)) = LineAt(t, Nth(F, k))
  BY <1>1, <1>4, <1>5
<1>7. QED
  BY <1>3, <1>6 DEF LinesTo, F

LEMMA LinesGrow ==
  ASSUME NEW text \in Seq(Text), NEW n \in Nat, NEW m \in Full(text), n < m,
         \A i \in Full(text) : i < m => i <= n
  PROVE  LinesTo(text, m) = Append(LinesTo(text, n), LineAt(text, m))
<1> DEFINE F == FullTo(text, n)
           G == FullTo(text, m)
           c == Cardinality(F)
           f == LinesTo(text, n)
           line == LineAt(text, m)
<1>1. F \subseteq Nat /\ IsFiniteSet(F) /\ c \in Nat /\ m \in Nat /\ Full(text) \subseteq Nat
  BY FullFinite
<1>2. G = F \cup {m} /\ \A x \in F : x < m
  BY <1>1 DEF FullTo
<1>3. f = [k \in 1..c |-> LineAt(text, Nth(F, k))]
  BY DEF LinesTo
<1>4. LinesTo(text, m) = [k \in 1..Cardinality(G) |-> LineAt(text, Nth(G, k))]
  BY DEF LinesTo
<1> HIDE DEF F, G, c, f
<1>5. Cardinality(G) = c + 1 /\ Nth(G, c + 1) = m
  BY <1>1, <1>2, NthLast DEF c
<1>6. \A k \in 1..c : Nth(G, k) = Nth(F, k)
  <2>1. G \subseteq Nat /\ IsFiniteSet(G) /\ F \in SUBSET G /\ \A x \in F, g \in G \ F : x < g
    BY <1>1, <1>2, FS_AddElement
  <2>2. QED
    BY <2>1, NthPrefix DEF c
<1> DEFINE S == {f[k] : k \in 1..c} \cup {line}
           g == LinesTo(text, m)
<1>7. f \in Seq(S) /\ Len(f) = c /\ line \in S
  <2>1. f \in [1..c -> S]
    BY <1>3
  <2> HIDE DEF S
  <2>2. f \in Seq(S) /\ Len(f) = c
    BY <1>1, <2>1
  <2>3. QED
    BY <2>2 DEF S
<1>8. \A k \in 1..(c + 1) : LineAt(text, Nth(G, k)) = IF k = c + 1 THEN line ELSE f[k]
  BY <1>1, <1>3, <1>5, <1>6
<1>9. g \in Seq(S) /\ Len(g) = c + 1 /\ \A k \in 1..(c + 1) : g[k] = IF k = c + 1 THEN line ELSE f[k]
  <2>1. g = [k \in 1..(c + 1) |-> LineAt(text, Nth(G, k))]
    BY <1>4, <1>5
  <2> HIDE DEF g, line
  <2>2. \A k \in 1..(c + 1) : g[k] = IF k = c + 1 THEN line ELSE f[k]
    BY <1>8, <2>1
  <2>3. g \in [1..(c + 1) -> S]
    BY <1>1, <1>7, <2>1, <2>2
  <2> HIDE DEF S
  <2>4. g \in Seq(S) /\ Len(g) = c + 1
    BY <1>1, <2>3
  <2>5. QED
    BY <2>2, <2>4
<1> HIDE DEF S, line, g
<1>10. /\ Append(f, line) \in Seq(S) /\ Len(Append(f, line)) = c + 1
       /\ \A k \in 1..(c + 1) : Append(f, line)[k] = IF k = c + 1 THEN line ELSE f[k]
  BY <1>1, <1>7, AppendProperties
<1>11. g = Append(f, line)
  BY <1>9, <1>10, SeqEqual
<1>12. QED
  BY <1>11 DEF f, g, line

LEMMA LinesPrefix ==
  ASSUME NEW text \in Seq(Text), NEW n \in Nat, NEW m \in Nat, n <= m
  PROVE  /\ Len(LinesTo(text, n)) <= Len(LinesTo(text, m))
         /\ LinesTo(text, n) = SubSeq(LinesTo(text, m), 1, Len(LinesTo(text, n)))
<1> DEFINE F == FullTo(text, n)
           G == FullTo(text, m)
           f == LinesTo(text, n)
           g == LinesTo(text, m)
<1>1. /\ G \subseteq Nat /\ IsFiniteSet(G) /\ Cardinality(G) \in Nat /\ Cardinality(F) \in Nat
      /\ Full(text) \subseteq Nat
  BY FullFinite
<1>2. F \in SUBSET G /\ \A x \in F, y \in G \ F : x < y
  BY <1>1 DEF FullTo
<1>3. /\ Len(f) = Cardinality(F) /\ Len(g) = Cardinality(G) /\ DOMAIN g = 1..Cardinality(G)
      /\ DOMAIN f = 1..Cardinality(F)
  BY LinesToLen
<1>4. f = [k \in 1..Cardinality(F) |-> LineAt(text, Nth(F, k))]
  BY DEF LinesTo
<1>5. g = [k \in 1..Cardinality(G) |-> LineAt(text, Nth(G, k))]
  BY DEF LinesTo
<1> HIDE DEF F, G, f, g
<1>6. Cardinality(F) <= Cardinality(G)
  BY <1>1, <1>2, FS_Subset
<1>7. \A k \in 1..Cardinality(F) : Nth(F, k) = Nth(G, k)
  BY <1>1, <1>2, NthPrefix
<1>8. \A k \in 1..Cardinality(F) : f[k] = g[k]
  BY <1>1, <1>4, <1>5, <1>6, <1>7
<1>9. SubSeq(g, 1, Cardinality(F)) = [k \in 1..Cardinality(F) |-> g[k]]
  <2>1. \A k \in 1..Cardinality(F) : 1 + k - 1 = k
    BY <1>1
  <2>2. SubSeq(g, 1, Cardinality(F)) = [k \in 1..(1 + Cardinality(F) - 1) |-> g[k + 1 - 1]]
    BY <1>1 DEF SubSeq
  <2>3. QED
    BY <1>1, <2>1, <2>2
<1>10. f = [k \in 1..Cardinality(F) |-> f[k]]
  BY <1>4
<1>11. QED
  BY <1>3, <1>6, <1>8, <1>9, <1>10 DEF f, g

-----------------------------------------------------------------------------
(* The scanner.  What it has cut off the body is cut bytes long and ends with *)
(* a line end, and the buffer is the rest of the body.  So the line it finds   *)
(* in the buffer is a line of the body, whatever reads brought its bytes.      *)

cut == Len(body) - Len(buf)
Closed == Append(body, LF)

CutOff ==
  /\ body \in Seq(Text) /\ buf \in Seq(Text) /\ Len(buf) <= Len(body)
  /\ \A i \in 1..Len(buf) : buf[i] = body[cut + i]
  /\ cut = 0 \/ body[cut] = LF

NoLF == \A i \in 1..Len(buf) : buf[i] # LF

Handed ==
  \/ lines = LinesTo(body, cut)
  \/ pc = "done" /\ lines = LinesOf(Closed)

\* What onLine said of the lines.
Taken(ls) == \A i \in 1..Len(ls) : onLine(ls[i]) = "nil"
TakenButLast(ls) == \A i \in 1..(Len(ls) - 1) : onLine(ls[i]) = "nil"

ScanInv ==
  /\ pc \in {"read", "split", "done"} /\ readErr \in {"nil", "EOF", "read error"}
  /\ lines \in Seq(Seq(Text))
  /\ CutOff
  /\ pc = "read" => NoLF
  /\ Handed
  /\ TakenButLast(lines)
  /\ pc # "done" => result = "none" /\ Taken(lines)
  /\ CleanEndIsComplete

\* Where the last line end lies decides where a line begins.
LEMMA LineAfter ==
  ASSUME NEW text \in Seq(Text), NEW c \in Nat, NEW m \in 1..Len(text), c < m,
         c = 0 \/ text[c] = LF, \A i \in (c + 1)..(m - 1) : text[i] # LF
  PROVE  LineAt(text, m) = TrimCR(SubSeq(text, c + 1, m - 1))
<1>1. Len(text) \in Nat /\ DOMAIN text = 1..Len(text)
  BY LenProperties
<1> DEFINE S == {0} \cup {j \in Ends(text) : j < m}
<1>2. S \subseteq Nat
  BY <1>1 DEF Ends
<1>3. c \in S
  <2>1. CASE c = 0
    BY <2>1
  <2>2. CASE c # 0
    <3>1. c \in 1..Len(text)
      BY <1>1, <2>2
    <3>2. QED
      BY <1>1, <2>2, <3>1 DEF Ends
  <2>3. QED
    BY <2>1, <2>2
<1>4. \A x \in S : x <= c
  <2>1. ASSUME NEW x \in S, x > c
        PROVE  FALSE
    <3>1. x \in Nat /\ x # 0 /\ text[x] = LF /\ x < m
      BY <1>2, <2>1 DEF Ends
    <3>2. x \in (c + 1)..(m - 1)
      BY <1>1, <2>1, <3>1
    <3>3. QED
      BY <3>1, <3>2
  <2>2. QED
    BY <1>2, <2>1
<1>5. Max(S) = c
  <2> HIDE DEF S
  <2>1. QED
    BY <1>2, <1>3, <1>4, MaxIs
<1>6. 1 + c = c + 1
  OBVIOUS
<1>7. QED
  BY <1>5, <1>6 DEF LineAt

\* A part of the body beyond the cut is a part of the buffer.
LEMMA BufferPart ==
  ASSUME CutOff, NEW text \in Seq(Text), NEW n \in 0..Len(buf), Len(text) >= Len(body),
         \A i \in 1..Len(body) : text[i] = body[i]
  PROVE  /\ cut \in Nat /\ cut + n <= Len(body)
         /\ SubSeq(text, cut + 1, cut + n) = SubSeq(buf, 1, n)
<1>1. /\ Len(body) \in Nat /\ Len(buf) \in Nat /\ Len(buf) <= Len(body) /\ Len(text) \in Nat
      /\ buf \in Seq(Text)
  BY LenProperties DEF CutOff
<1>2. cut \in Nat /\ cut + Len(buf) = Len(body)
  BY <1>1 DEF cut
<1>3. \A i \in 1..Len(buf) : buf[i] = body[cut + i]
  BY DEF CutOff
<1> HIDE DEF cut
<1>4. cut + n <= Len(body) /\ cut + n <= Len(text)
  BY <1>1, <1>2
<1> DEFINE a == SubSeq(text, cut + 1, cut + n)
           b == SubSeq(buf, 1, n)
<1>5. a \in Seq(Text) /\ Len(a) = n /\ \A i \in 1..n : a[i] = text[cut + i]
  <2>1. /\ a \in Seq(Text)
        /\ Len(a) = IF cut + 1 <= cut + n THEN (cut + n) - (cut + 1) + 1 ELSE 0
        /\ \A i \in 1..((cut + n) - (cut + 1) + 1) : a[i] = text[(cut + 1) + i - 1]
    <3>1. cut + 1 \in Nat \ {0} /\ cut + n \in Nat
      BY <1>2
    <3>2. QED
      BY <1>4, <3>1, Part
  <2> HIDE DEF a
  <2>2. (cut + n) - (cut + 1) + 1 = n /\ \A i \in 1..n : (cut + 1) + i - 1 = cut + i
    BY <1>2
  <2>3. n = 0 \/ cut + 1 <= cut + n
    BY <1>2
  <2>4. ~(n = 0 /\ cut + 1 <= cut + n)
    BY <1>2
  <2>5. QED
    BY <2>1, <2>2, <2>3, <2>4
<1>6. b \in Seq(Text) /\ Len(b) = n /\ \A i \in 1..n : b[i] = buf[i]
  <2>1. /\ b \in Seq(Text) /\ Len(b) = IF 1 <= n THEN n - 1 + 1 ELSE 0
        /\ \A i \in 1..(n - 1 + 1) : b[i] = buf[1 + i - 1]
    BY <1>1, Part
  <2> HIDE DEF b
  <2>2. n - 1 + 1 = n /\ \A i \in 1..n : 1 + i - 1 = i
    OBVIOUS
  <2>3. QED
    BY <2>1, <2>2
<1> HIDE DEF a, b
<1>7. \A i \in 1..n : cut + i \in 1..Len(body) /\ i \in 1..Len(buf)
  BY <1>1, <1>2
<1>8. \A i \in 1..n : a[i] = b[i]
  BY <1>3, <1>5, <1>6, <1>7
<1>9. a = b
  BY <1>5, <1>6, <1>8, SeqEqual
<1>10. QED
  BY <1>2, <1>4, <1>9 DEF a, b

\* One more line end: one more line, if it is not blank.
LEMMA OneMore ==
  ASSUME NEW text \in Seq(Text), NEW c \in Nat, NEW m \in 1..Len(text), c < m, text[m] = LF,
         c = 0 \/ text[c] = LF, \A i \in (c + 1)..(m - 1) : text[i] # LF,
         NEW line, line = TrimCR(SubSeq(text, c + 1, m - 1))
  PROVE  LinesTo(text, m) = IF Blank(line) THEN LinesTo(text, c) ELSE Append(LinesTo(text, c), line)
<1>1. LineAt(text, m) = line
  BY LineAfter
<1>2. Len(text) \in Nat /\ DOMAIN text = 1..Len(text) /\ m \in Nat /\ m \in Ends(text)
  BY LenProperties DEF Ends
<1>3. \A i \in Full(text) : i \in Nat /\ text[i] = LF
  BY <1>2 DEF Full, Ends
<1>4. ASSUME NEW i \in Full(text), i < m, ~(i <= c)
      PROVE  FALSE
  <2>1. i \in (c + 1)..(m - 1)
    BY <1>2, <1>3, <1>4
  <2>2. QED
    BY <1>3, <2>1
<1>5. CASE Blank(line)
  <2>1. m \notin Full(text)
    BY <1>1, <1>5 DEF Full
  <2>2. \A i \in Full(text) : i <= m => i <= c
    <3>1. \A i \in Full(text) : i # m
      BY <2>1
    <3>2. QED
      BY <1>2, <1>3, <1>4, <3>1
  <2>3. QED
    BY <1>2, <1>5, <2>2, LinesSkip
<1>6. CASE ~Blank(line)
  <2>1. m \in Full(text)
    BY <1>1, <1>2, <1>6 DEF Full
  <2>2. QED
    BY <1>1, <1>4, <1>6, <2>1, LinesGrow
<1>7. QED
  BY <1>5, <1>6

LEMMA ClosedBody ==
  ASSUME CutOff
  PROVE  /\ Closed \in Seq(Text) /\ Len(Closed) = Len(body) + 1 /\ Len(body) \in Nat
         /\ \A i \in 1..Len(body) : Closed[i] = body[i]
         /\ Closed[Len(body) + 1] = LF
<1>1. body \in Seq(Text) /\ LF \in Text
  BY DEF CutOff, Text
<1>2. QED
  BY <1>1, AppendProperties, LenProperties DEF Closed

\* The first line end of the buffer ends the next line of the body.
LEMMA NextLine ==
  ASSUME CutOff, NEW k \in 1..Len(buf), buf[k] = LF, \A i \in 1..(k - 1) : buf[i] # LF,
         NEW line, line = TrimCR(SubSeq(buf, 1, k - 1))
  PROVE  /\ cut \in Nat /\ cut + k \in 1..Len(body) /\ body[cut + k] = LF
         /\ LinesTo(body, cut + k) = IF Blank(line) THEN LinesTo(body, cut)
                                     ELSE Append(LinesTo(body, cut), line)
<1>1. Len(body) \in Nat /\ Len(buf) \in Nat /\ body \in Seq(Text)
  BY LenProperties DEF CutOff
<1>2. k - 1 \in 0..Len(buf) /\ k \in 0..Len(buf) /\ k \in Nat
  BY <1>1
<1>3. cut \in Nat /\ cut + k <= Len(body)
  BY <1>1, <1>2, BufferPart
<1>4. SubSeq(body, cut + 1, cut + (k - 1)) = SubSeq(buf, 1, k - 1)
  BY <1>1, <1>2, BufferPart
<1>5. /\ \A i \in 1..Len(buf) : buf[i] = body[cut + i]
      /\ cut = 0 \/ body[cut] = LF
  BY DEF CutOff
<1> DEFINE m == cut + k
<1>6. /\ m \in 1..Len(body) /\ cut < m /\ m - 1 = cut + (k - 1) /\ body[m] = LF
  BY <1>1, <1>2, <1>3, <1>5
<1>7. \A i \in (cut + 1)..(m - 1) : body[i] # LF
  <2>1. ASSUME NEW i \in (cut + 1)..(m - 1)
        PROVE  i - cut \in 1..(k - 1) /\ i - cut \in 1..Len(buf) /\ cut + (i - cut) = i
    BY <1>1, <1>2, <1>3
  <2>2. QED
    BY <1>5, <2>1
<1> HIDE DEF m
<1>8. LinesTo(body, m) = IF Blank(line) THEN LinesTo(body, cut) ELSE Append(LinesTo(body, cut), line)
  <2>1. SubSeq(body, cut + 1, m - 1) = SubSeq(buf, 1, k - 1)
    BY <1>4, <1>6
  <2>2. line = TrimCR(SubSeq(body, cut + 1, m - 1))
    BY <2>1
  <2>3. QED
    BY <1>1, <1>3, <1>5, <1>6, <1>7, <2>2, OneMore
<1>9. QED
  BY <1>3, <1>6, <1>8 DEF m

\* The rest of the body, when it holds no line end, is its last line.
LEMMA LastLine ==
  ASSUME CutOff, NoLF
  PROVE  /\ LinesOf(body) = LinesTo(body, cut)
         /\ LinesOf(Closed) = IF Blank(buf) THEN LinesTo(body, cut)
                              ELSE Append(LinesTo(body, cut), TrimCR(buf))
<1>1. /\ Len(body) \in Nat /\ Len(buf) \in Nat /\ body \in Seq(Text) /\ buf \in Seq(Text)
      /\ DOMAIN body = 1..Len(body)
  BY LenProperties DEF CutOff
<1>2. cut \in Nat /\ cut + Len(buf) = Len(body) /\ cut <= Len(body)
  BY <1>1, CutOff DEF cut, CutOff
<1>3. /\ \A i \in 1..Len(buf) : buf[i] = body[cut + i] /\ buf[i] # LF
      /\ cut = 0 \/ body[cut] = LF
  BY DEF CutOff, NoLF
<1>4. \A i \in (cut + 1)..Len(body) : body[i] # LF
  <2>1. ASSUME NEW i \in (cut + 1)..Len(body)
        PROVE  i - cut \in 1..Len(buf) /\ cut + (i - cut) = i
    BY <1>1, <1>2
  <2>2. QED
    BY <1>3, <2>1
<1>5. LinesOf(body) = LinesTo(body, cut)
  <2>1. ASSUME NEW i \in Full(body)
        PROVE  i <= cut
    <3>1. i \in 1..Len(body) /\ body[i] = LF
      BY <1>1 DEF Full, Ends
    <3>2. i \notin (cut + 1)..Len(body)
      BY <1>4, <3>1
    <3>3. QED
      BY <1>1, <1>2, <3>1, <3>2
  <2>2. QED
    BY <1>1, <1>2, <2>1, LinesSkip, LinesOfAll
<1>6. /\ Closed \in Seq(Text) /\ Len(Closed) = Len(body) + 1
      /\ \A i \in 1..Len(body) : Closed[i] = body[i]
      /\ Closed[Len(body) + 1] = LF
  BY ClosedBody
<1>7. LinesTo(Closed, cut) = LinesTo(body, cut)
  <2>1. cut <= Len(Closed) /\ \A i \in 1..cut : Closed[i] = body[i]
    BY <1>1, <1>2, <1>6
  <2>2. QED
    BY <1>1, <1>2, <1>6, <2>1, LinesSame
<1>8. SubSeq(Closed, cut + 1, Len(body)) = buf
  <2>1. Len(buf) \in 0..Len(buf) /\ Len(Closed) >= Len(body)
    BY <1>1, <1>6
  <2>2. SubSeq(Closed, cut + 1, cut + Len(buf)) = SubSeq(buf, 1, Len(buf))
    BY <1>6, <2>1, BufferPart
  <2>3. SubSeq(buf, 1, Len(buf)) = buf
    BY <1>1, SubSeqFull
  <2>4. QED
    BY <1>2, <2>2, <2>3
<1> DEFINE m == Len(body) + 1
<1>9. /\ m \in 1..Len(Closed) /\ cut < m /\ m - 1 = Len(body) /\ Closed[m] = LF
      /\ cut = 0 \/ Closed[cut] = LF
  BY <1>1, <1>2, <1>3, <1>6
<1>10. \A i \in (cut + 1)..(m - 1) : Closed[i] # LF
  BY <1>1, <1>2, <1>4, <1>6
<1>11. LinesOf(Closed) = LinesTo(Closed, m)
  BY <1>6, LinesOfAll
<1> HIDE DEF m
<1>12. LinesTo(Closed, m) = IF Blank(TrimCR(buf)) THEN LinesTo(Closed, cut)
                            ELSE Append(LinesTo(Closed, cut), TrimCR(buf))
  BY <1>2, <1>6, <1>8, <1>9, <1>10, OneMore
<1>13. Blank(TrimCR(buf)) <=> Blank(buf)
  BY <1>1, TrimLemma
<1>14. QED
  BY <1>5, <1>7, <1>11, <1>12, <1>13

-----------------------------------------------------------------------------
(* The steps.                                                                *)

LEMMA InitScan == ScanInit => ScanInv
<1> SUFFICES ASSUME ScanInit PROVE ScanInv
  OBVIOUS
<1>1. body = <<>> /\ buf = <<>> /\ lines = <<>> /\ Len(body) = 0 /\ cut = 0
  BY DEF ScanInit, cut
<1>2. CutOff
  BY <1>1 DEF CutOff
<1>3. lines = LinesTo(body, cut)
  <2>1. NoLF
    BY <1>1 DEF NoLF
  <2>2. Full(body) = {}
    BY <1>1 DEF Full, Ends
  <2>3. Cardinality(FullTo(body, cut)) = 0
    BY <2>2, FS_EmptySet DEF FullTo
  <2>4. LinesTo(body, cut) = <<>>
    BY <2>3 DEF LinesTo
  <2>5. QED
    BY <1>1, <2>4
<1>4. QED
  BY <1>1, <1>2, <1>3 DEF ScanInit, ScanInv, Handed, NoLF, Taken, TakenButLast, CleanEndIsComplete

\* c bytes of b were cut off, and u is left.
CutAt(b, u, c) ==
  /\ c + Len(u) = Len(b) /\ \A i \in 1..Len(u) : u[i] = b[c + i]
  /\ c = 0 \/ b[c] = LF

\* Bytes appended to a text and to the part of it that is left.
LEMMA Appended ==
  ASSUME NEW b \in Seq(Text), NEW u \in Seq(Text), NEW w \in Seq(Text), NEW c \in Nat,
         CutAt(b, u, c)
  PROVE  /\ b \o w \in Seq(Text) /\ u \o w \in Seq(Text) /\ CutAt(b \o w, u \o w, c)
         /\ LinesTo(b \o w, c) = LinesTo(b, c)
<1> DEFINE p == b \o w
           q == u \o w
           lb == Len(b)
           lu == Len(u)
           lw == Len(w)
<1>1. lb \in Nat /\ lu \in Nat /\ lw \in Nat
  BY LenProperties
<1>2. /\ p \in Seq(Text) /\ Len(p) = lb + lw
      /\ \A i \in 1..(lb + lw) : p[i] = IF i <= lb THEN b[i] ELSE w[i - lb]
  BY ConcatProperties
<1>3. /\ q \in Seq(Text) /\ Len(q) = lu + lw
      /\ \A i \in 1..(lu + lw) : q[i] = IF i <= lu THEN u[i] ELSE w[i - lu]
  BY ConcatProperties
<1>4. c + lu = lb /\ (\A i \in 1..lu : u[i] = b[c + i]) /\ (c = 0 \/ b[c] = LF)
  BY DEF CutAt
<1> HIDE DEF p, q, lb, lu, lw
<1>5. /\ c + (lu + lw) = lb + lw /\ c <= lb /\ c <= lb + lw
  BY <1>1, <1>4
<1>6. ASSUME NEW i \in 1..(lu + lw)
      PROVE  q[i] = p[c + i]
  <2>1. c + i \in 1..(lb + lw)
    BY <1>1, <1>4
  <2>2. CASE i <= lu
    <3>1. i \in 1..lu /\ c + i <= lb
      BY <1>1, <1>4, <2>2
    <3>2. QED
      BY <1>2, <1>3, <1>4, <2>1, <2>2, <3>1
  <2>3. CASE ~(i <= lu)
    <3>1. ~(c + i <= lb) /\ (c + i) - lb = i - lu
      BY <1>1, <1>4, <2>3
    <3>2. q[i] = w[i - lu]
      BY <1>3, <2>3
    <3>3. p[c + i] = w[(c + i) - lb]
      BY <1>2, <2>1, <3>1
    <3>4. QED
      BY <3>1, <3>2, <3>3
  <2>4. QED
    BY <2>2, <2>3
<1>7. ASSUME NEW i \in 1..c
      PROVE  p[i] = b[i]
  <2>1. i \in 1..(lb + lw) /\ i <= lb
    BY <1>1, <1>4
  <2>2. QED
    BY <1>2, <2>1
<1>8. c = 0 \/ p[c] = LF
  <2>1. c = 0 \/ c \in 1..c
    OBVIOUS
  <2>2. QED
    BY <1>4, <1>7, <2>1
<1>9. LinesTo(p, c) = LinesTo(b, c)
  <2>1. c <= Len(b) /\ c <= Len(p)
    BY <1>2, <1>5 DEF lb
  <2>2. QED
    BY <1>2, <1>7, <2>1, LinesSame
<1>10. CutAt(p, q, c)
  BY <1>2, <1>3, <1>5, <1>6, <1>8 DEF CutAt
<1>11. QED
  BY <1>2, <1>3, <1>9, <1>10 DEF p, q

LEMMA ChunkText ==
  ASSUME NEW chunk \in Chunks
  PROVE  chunk \in Seq(Text)
<1>1. chunk \in Seq(Bytes)
  BY ChunkLength
<1>2. Len(chunk) \in Nat /\ chunk \in [1..Len(chunk) -> Bytes]
  BY <1>1, LenProperties
<1>3. chunk \in [1..Len(chunk) -> Text]
  BY <1>2 DEF Text
<1>4. QED
  BY <1>2, <1>3

\* The cut is the length of what was cut off.
LEMMA CutLength ==
  ASSUME CutOff
  PROVE  cut \in Nat /\ CutAt(body, buf, cut)
<1>1. Len(body) \in Nat /\ Len(buf) \in Nat /\ Len(buf) <= Len(body)
  BY LenProperties DEF CutOff
<1>2. cut \in Nat /\ cut + Len(buf) = Len(body)
  BY <1>1 DEF cut
<1>3. QED
  BY <1>2 DEF CutOff, CutAt

\* And the other way round, after a step.
LEMMA LengthCutNext ==
  ASSUME NEW c \in Nat, body' \in Seq(Text), buf' \in Seq(Text), CutAt(body', buf', c)
  PROVE  cut' = c /\ CutOff'
<1>1. Len(body') \in Nat /\ Len(buf') \in Nat /\ c + Len(buf') = Len(body')
  BY LenProperties DEF CutAt
<1>2. cut' = c /\ Len(buf') <= Len(body')
  BY <1>1 DEF cut
<1>3. \A i \in 1..Len(buf') : buf'[i] = body'[c + i]
  BY DEF CutAt
<1>4. c = 0 \/ body'[c] = LF
  BY DEF CutAt
<1>5. QED
  BY <1>2, <1>3, <1>4 DEF CutOff

LEMMA MoreBytes ==
  ASSUME CutOff, NEW chunk \in Seq(Text)
  PROVE  /\ body \o chunk \in Seq(Text) /\ buf \o chunk \in Seq(Text)
         /\ CutAt(body \o chunk, buf \o chunk, cut)
         /\ LinesTo(body \o chunk, cut) = LinesTo(body, cut)
<1>1. body \in Seq(Text) /\ buf \in Seq(Text)
  BY DEF CutOff
<1>2. cut \in Nat /\ CutAt(body, buf, cut)
  BY CutLength
<1>3. QED
  BY <1>1, <1>2, Appended

LEMMA ReadScan ==
  ASSUME ScanInv, NEW chunk \in Chunks, NEW err \in {"nil", "EOF", "read error"}, Read(chunk, err)
  PROVE  ScanInv'
<1>1. chunk \in Seq(Text)
  BY ChunkText
<1>2. /\ body' = body \o chunk /\ buf' = buf \o chunk /\ readErr' = err /\ lines' = lines
      /\ pc = "read" /\ CutOff /\ lines = LinesTo(body, cut)
  BY DEF Read, ScanInv, Handed
<1>4. cut \in Nat
  BY <1>2, CutLength
<1>5. /\ body' \in Seq(Text) /\ buf' \in Seq(Text) /\ CutAt(body', buf', cut)
      /\ LinesTo(body', cut) = LinesTo(body, cut)
  <2>1. body' = body \o chunk /\ buf' = buf \o chunk
    BY <1>2
  <2>2. /\ body \o chunk \in Seq(Text) /\ buf \o chunk \in Seq(Text)
        /\ CutAt(body \o chunk, buf \o chunk, cut)
        /\ LinesTo(body \o chunk, cut) = LinesTo(body, cut)
    BY <1>1, <1>2, MoreBytes
  <2>3. QED
    BY <2>1, <2>2
<1>6. cut' = cut /\ CutOff'
  BY <1>4, <1>5, LengthCutNext
<1>8. LinesTo(body', cut') = LinesTo(body, cut)
  BY <1>5, <1>6
<1>9. CutOff'
  BY <1>6
<1>10. pc' \in {"split", "done"} /\ (pc' # "done" => result' = result) /\ result' # "nil"
  BY <1>2 DEF Read, Return, ScanInv
<1>11. /\ lines \in Seq(Seq(Text)) /\ result = "none"
       /\ TakenButLast(lines)
       /\ Taken(lines)
  BY <1>2 DEF ScanInv
<1>12. QED
  BY <1>2, <1>8, <1>9, <1>10, <1>11 DEF ScanInv, Handed, CleanEndIsComplete

\* What the callback makes of a line, and the lines with it.
LEMMA OneLine ==
  ASSUME NEW ls \in Seq(Seq(Text)), NEW line \in Seq(Text), NEW a, a = Append(ls, line),
         Taken(ls)
  PROVE  /\ a \in Seq(Seq(Text)) /\ a # <<>> /\ Last(a) = line /\ TakenButLast(a)
         /\ onLine(line) = "nil" => Taken(a)
         /\ onLine(line) \in {"nil", "stop", "callback error"}
<1>1. /\ a \in Seq(Seq(Text)) /\ a # <<>> /\ Len(a) = Len(ls) + 1 /\ Len(ls) \in Nat
      /\ \A i \in 1..Len(ls) : a[i] = ls[i]
      /\ a[Len(ls) + 1] = line
  BY AppendProperties, LenProperties
<1>2. \A i \in 1..(Len(a) - 1) : i \in 1..Len(ls)
  BY <1>1
<1>3. \A i \in 1..Len(a) : i \in 1..Len(ls) \/ i = Len(ls) + 1
  BY <1>1
<1>4. Last(a) = line
  BY <1>1 DEF Last
<1>5. onLine(line) \in {"nil", "stop", "callback error"}
  BY DEF onLine
<1>6. TakenButLast(a)
  BY <1>1, <1>2 DEF Taken, TakenButLast
<1>7. onLine(line) = "nil" => Taken(a)
  BY <1>1, <1>3 DEF Taken
<1>8. QED
  BY <1>1, <1>4, <1>5, <1>6, <1>7

LEMMA SplitScan ==
  ASSUME ScanInv, Split
  PROVE  ScanInv'
<1> DEFINE ends == {i \in DOMAIN buf : buf[i] = LF}
           k == Min(ends)
           line == TrimCR(SubSeq(buf, 1, k - 1))
<1>1. /\ CutOff /\ pc = "split" /\ lines = LinesTo(body, cut) /\ body' = body /\ readErr' = readErr
      /\ lines \in Seq(Seq(Text)) /\ result = "none"
      /\ Taken(lines)
  BY DEF Split, ScanInv, Handed
<1>2. /\ buf \in Seq(Text) /\ Len(buf) \in Nat /\ DOMAIN buf = 1..Len(buf) /\ Len(body) \in Nat
      /\ body \in Seq(Text)
  BY <1>1, LenProperties DEF CutOff
<1>3. k \in ends /\ \A i \in ends : k <= i
  <2>1. ends \subseteq Nat /\ ends # {}
    BY <1>2 DEF Split, Contains
  <2>2. QED
    BY <2>1, MinOfNats
<1>4. /\ buf' = SubSeq(buf, k + 1, Len(buf))
      /\ \/ Blank(line) /\ UNCHANGED <<lines, pc, result>>
         \/ /\ ~Blank(line) /\ lines' = Append(lines, line)
            /\ IF onLine(line) = "nil" THEN UNCHANGED <<pc, result>> ELSE Return(onLine(line))
  BY DEF Split
<1> HIDE DEF k, line
<1>5. k \in 1..Len(buf) /\ buf[k] = LF /\ k \in Nat
  BY <1>2, <1>3
<1>6. \A i \in 1..(k - 1) : buf[i] # LF
  <2>1. ASSUME NEW i \in 1..(k - 1), buf[i] = LF
        PROVE  FALSE
    <3>1. i \in ends /\ ~(k <= i)
      BY <1>2, <1>5, <2>1
    <3>2. QED
      BY <1>3, <3>1
  <2>2. QED
    BY <2>1
<1>7. /\ cut \in Nat /\ cut + k \in 1..Len(body) /\ body[cut + k] = LF
      /\ LinesTo(body, cut + k) = IF Blank(line) THEN LinesTo(body, cut)
                                  ELSE Append(LinesTo(body, cut), line)
  BY <1>1, <1>5, <1>6, NextLine DEF line
<1>8. /\ buf' \in Seq(Text)
      /\ Len(buf') = IF k + 1 <= Len(buf) THEN Len(buf) - (k + 1) + 1 ELSE 0
      /\ \A i \in 1..(Len(buf) - (k + 1) + 1) : buf'[i] = buf[(k + 1) + i - 1]
  <2>1. k + 1 \in Nat \ {0} /\ Len(buf) <= Len(buf)
    BY <1>2, <1>5
  <2>2. QED
    BY <1>2, <1>4, <2>1, Part
<1>9. Len(buf') = Len(buf) - k /\ \A i \in 1..Len(buf') : buf'[i] = buf[k + i]
  <2>1. Len(buf') = Len(buf) - k
    <3>1. Len(buf') = IF k + 1 <= Len(buf) THEN Len(buf) - (k + 1) + 1 ELSE 0
      BY <1>8
    <3>2. CASE k + 1 <= Len(buf)
      <4>1. Len(buf') = Len(buf) - (k + 1) + 1
        BY <3>1, <3>2
      <4>2. Len(buf) - (k + 1) + 1 = Len(buf) - k
        BY <1>2, <1>5
      <4>3. QED
        BY <4>1, <4>2
    <3>3. CASE ~(k + 1 <= Len(buf))
      <4>1. Len(buf) \in Nat /\ k \in Nat /\ k <= Len(buf)
        BY <1>2, <1>5
      <4>2. Len(buf) - k = 0
        BY <3>3, <4>1
      <4>3. QED
        BY <3>1, <3>3, <4>2
    <3>4. QED
      BY <3>2, <3>3
  <2>2. \A i \in 1..Len(buf') : i \in 1..(Len(buf) - (k + 1) + 1) /\ (k + 1) + i - 1 = k + i
    BY <1>2, <1>5, <2>1
  <2>3. QED
    BY <1>8, <2>1, <2>2
<1>10. cut' = cut + k
  BY <1>1, <1>2, <1>5, <1>9 DEF cut
<1>11. CutOff'
  <2>1. /\ \A i \in 1..Len(buf) : buf[i] = body[cut + i]
        /\ Len(buf) <= Len(body)
    BY <1>1 DEF CutOff
  <2>2. ASSUME NEW i \in 1..Len(buf')
        PROVE  buf'[i] = body'[cut' + i]
    <3>1. k + i \in 1..Len(buf) /\ cut + (k + i) = (cut + k) + i
      BY <1>2, <1>5, <1>7, <1>9
    <3>2. QED
      BY <1>1, <1>9, <1>10, <2>1, <3>1
  <2>3. Len(buf') <= Len(body')
    BY <1>1, <1>2, <1>5, <1>9, <2>1
  <2>4. QED
    BY <1>1, <1>2, <1>7, <1>8, <1>10, <2>2, <2>3 DEF CutOff
<1>12. line \in Seq(Text)
  <2>1. SubSeq(buf, 1, k - 1) \in Seq(Text)
    BY <1>2, <1>5, Part
  <2>2. QED
    BY <2>1, TrimLemma DEF line
<1>13. lines' = LinesTo(body', cut')
  BY <1>1, <1>4, <1>7, <1>10
<1>14. CASE Blank(line)
  BY <1>1, <1>4, <1>11, <1>13, <1>14 DEF ScanInv, Handed, CleanEndIsComplete
<1>15. CASE ~Blank(line)
  <2>1. lines' = Append(lines, line)
    BY <1>4, <1>15
  <2>2. /\ lines' \in Seq(Seq(Text)) /\ lines' # <<>> /\ Last(lines') = line
        /\ TakenButLast(lines')
        /\ onLine(line) = "nil" => Taken(lines')
        /\ onLine(line) \in {"nil", "stop", "callback error"}
    <3>1. lines \in Seq(Seq(Text)) /\ Taken(lines)
      BY <1>1
    <3> HIDE DEF line
    <3>2. QED
      BY <1>12, <2>1, <3>1, OneLine
  <2>3. CASE onLine(line) = "nil"
    <3>1. pc' = pc /\ result' = result
      BY <1>4, <1>15, <2>3
    <3>2. QED
      BY <1>1, <1>11, <1>13, <2>2, <2>3, <3>1 DEF ScanInv, Handed, CleanEndIsComplete
  <2>4. CASE onLine(line) # "nil"
    <3>1. pc' = "done" /\ (result' = "nil" => onLine(line) = "stop")
      BY <1>4, <1>15, <2>2, <2>4 DEF Return
    <3>2. QED
      BY <1>1, <1>11, <1>13, <2>2, <2>4, <3>1 DEF ScanInv, Handed, CleanEndIsComplete
  <2>5. QED
    BY <2>3, <2>4
<1>16. QED
  BY <1>14, <1>15

LEMMA AfterScan ==
  ASSUME ScanInv, AfterSplit
  PROVE  ScanInv'
<1> USE DEF AfterSplit
<1>1. NoLF
  BY LenProperties DEF ScanInv, CutOff, NoLF, Contains
<1>2. cut' = cut /\ CutOff' /\ NoLF'
  BY <1>1 DEF ScanInv, CutOff, NoLF, cut
<1>3. result' # "nil" /\ pc' \in {"read", "done"} /\ (pc' # "done" => result' = result)
  BY DEF Return, ScanInv
<1>4. QED
  BY <1>2, <1>3 DEF ScanInv, Handed, CleanEndIsComplete

LEMMA EndScan ==
  ASSUME ScanInv, AtEOF
  PROVE  ScanInv'
<1>1. /\ CutOff /\ pc = "split" /\ lines = LinesTo(body, cut) /\ lines \in Seq(Seq(Text))
      /\ Taken(lines)
      /\ body' = body /\ buf' = buf /\ readErr' = readErr /\ readErr = "EOF"
      /\ buf \in Seq(Text) /\ ~Contains(buf, LF)
  BY DEF AtEOF, ScanInv, Handed, CutOff
<1>2. NoLF
  BY <1>1, LenProperties DEF NoLF, Contains
<1>3. LinesOf(Closed) = IF Blank(buf) THEN lines ELSE Append(lines, TrimCR(buf))
  BY <1>1, <1>2, LastLine
<1>4. cut' = cut /\ CutOff' /\ Closed' = Closed
  BY <1>1 DEF CutOff, cut, Closed
<1>5. TrimCR(buf) \in Seq(Text)
  BY <1>1, TrimLemma
<1>6. CASE Blank(buf)
  <2>1. lines' = lines /\ pc' = "done" /\ result' = "nil"
    BY <1>6 DEF AtEOF, Return
  <2>2. lines' = LinesOf(Closed)'
    BY <1>1, <1>3, <1>4, <1>6, <2>1
  <2>3. CleanEndIsComplete'
    BY <1>1, <2>2 DEF CleanEndIsComplete, Closed
  <2>4. TakenButLast(lines)
    BY DEF ScanInv
  <2>5. QED
    BY <1>1, <1>4, <2>1, <2>2, <2>3, <2>4 DEF ScanInv, Handed
<1>7. CASE ~Blank(buf)
  <2>1. lines' = Append(lines, TrimCR(buf)) /\ pc' = "done"
    BY <1>7 DEF AtEOF, Return
  <2>2. lines' = LinesOf(Closed)'
    BY <1>1, <1>3, <1>4, <1>7, <2>1
  <2>3. CleanEndIsComplete'
    BY <1>1, <2>2 DEF CleanEndIsComplete, Closed
  <2>4. lines' \in Seq(Seq(Text)) /\ TakenButLast(lines')
    <3>1. lines \in Seq(Seq(Text)) /\ Taken(lines)
      BY <1>1
    <3>2. QED
      BY <1>5, <2>1, <3>1, OneLine
  <2>5. QED
    BY <1>1, <1>4, <2>1, <2>2, <2>3, <2>4 DEF ScanInv, Handed
<1>8. QED
  BY <1>6, <1>7

LEMMA NextScan ==
  ASSUME ScanInv, [ScanNext]_scanVars
  PROVE  ScanInv'
<1>1. CASE UNCHANGED scanVars
  <2>1. cut' = cut /\ CutOff' = CutOff /\ NoLF' = NoLF /\ LinesTo(body, cut)' = LinesTo(body, cut)
        /\ LinesOf(Closed)' = LinesOf(Closed)
    BY <1>1 DEF scanVars, CutOff, NoLF, cut, Closed
  <2>2. CleanEndIsComplete' = CleanEndIsComplete
    BY <1>1 DEF scanVars, CleanEndIsComplete
  <2>3. QED
    BY <1>1, <2>1, <2>2 DEF scanVars, ScanInv, Handed
<1>2. QED
  BY <1>1, ReadScan, SplitScan, AfterScan, EndScan DEF ScanNext

\* Every line but the last was accepted, and the lines are the first of the body.
LEMMA FirstLines == ScanInv => CutAnywhere
<1> SUFFICES ASSUME ScanInv PROVE CutAnywhere
  OBVIOUS
<1> DEFINE all == LinesOf(Closed)
<1>1. /\ CutOff /\ Handed /\ (pc = "read" => NoLF)
      /\ TakenButLast(lines)
  BY DEF ScanInv
<1>2. /\ Closed \in Seq(Text) /\ Len(Closed) = Len(body) + 1 /\ Len(body) \in Nat
      /\ \A i \in 1..Len(body) : Closed[i] = body[i]
  BY <1>1, ClosedBody
<1>3. all = LinesTo(Closed, Len(Closed))
  BY <1>2, LinesOfAll
<1>4. Len(lines) <= Len(all) /\ lines = SubSeq(all, 1, Len(lines))
  <2>1. CASE lines = LinesTo(body, cut)
    <3>1. /\ cut \in Nat /\ cut <= Len(body) /\ cut <= Len(Closed) /\ Len(Closed) \in Nat
          /\ body \in Seq(Text)
      BY <1>1, <1>2, LenProperties DEF CutOff, cut
    <3>2. \A i \in 1..cut : Closed[i] = body[i]
      BY <1>2, <3>1
    <3>3. LinesTo(Closed, cut) = LinesTo(body, cut)
      BY <1>2, <3>1, <3>2, LinesSame
    <3>4. QED
      BY <1>2, <1>3, <2>1, <3>1, <3>3, LinesPrefix
  <2>2. CASE lines = all
    <3>1. PICK S : all \in Seq(S)
      BY <1>2, <1>3, LinesToLen
    <3> HIDE DEF all
    <3>2. SubSeq(all, 1, Len(all)) = all /\ Len(all) \in Nat
      BY <3>1, SubSeqFull, LenProperties
    <3>3. QED
      BY <2>2, <3>2
  <2>3. QED
    BY <1>1, <2>1, <2>2 DEF Handed
<1>5. pc = "read" => lines = LinesOf(body)
  BY <1>1, LastLine DEF Handed
<1>6. QED
  BY <1>1, <1>4, <1>5 DEF CutAnywhere, Closed, TakenButLast

THEOREM ScanInvariant == ScanSpec => []ScanInv
BY InitScan, NextScan, PTL DEF ScanSpec

\* The lines handed over are the first lines of the body, however it was cut
\* into reads (plain.go:371-384).
THEOREM CutsDoNotMatter == ScanSpec => []CutAnywhere
BY ScanInvariant, FirstLines, PTL

\* A scan that ends without an error has handed over every line, or stopped
\* where the callback asked it to (plain.go:386-396).
THEOREM NothingLeftOut == ScanSpec => []CleanEndIsComplete
<1>1. ScanInv => CleanEndIsComplete
  BY DEF ScanInv
<1>2. QED
  BY <1>1, ScanInvariant, PTL

-----------------------------------------------------------------------------
(* Folds over a list.  The library builds a fold by recursion over the sets of *)
(* indices; that this recursion has a solution, and so a fold takes one item   *)
(* after the other, is proved here for the three folds that are used.          *)

Join(all, x) == all \o x
Cite(all, i, results) == IF results[i] = Absent THEN all ELSE Append(all, [index |-> i, url |-> results[i]])

Merge(which, all, x, extra) ==
  CASE which = "block"    -> absorbBlock(all, x, extra)
    [] which = "concat"   -> Join(all, x)
    [] which = "citation" -> Cite(all, x, extra)

Solves(f, which, base, seq, extra, n) ==
  f = [s \in SUBSET (1..n) |->
         IF s = {} THEN base
         ELSE LET x == CHOOSE m \in s : \A k \in s : m >= k
              IN  Merge(which, f[s \ {x}], seq[x], extra)]

LEMMA SmallestOf ==
  ASSUME NEW S, S \subseteq Nat, S # {}
  PROVE  \E m \in S : \A k \in S : m <= k
<1>1. PICK x \in S : \A y \in S : ~ (<<y, x>> \in OpToRel(<, Nat))
  BY NatLessThanWellFounded, WFMin
<1>2. ASSUME NEW y \in S, ~(x <= y)
      PROVE  FALSE
  <2>1. y < x
    BY <1>2
  <2>2. <<y, x>> \in {p \in Nat \X Nat : p[1] < p[2]}
    BY <2>1
  <2>3. OpToRel(<, Nat) = {p \in Nat \X Nat : p[1] < p[2]}
    BY Zenon DEF OpToRel
  <2>4. QED
    BY <1>1, <2>2, <2>3, Zenon
<1>3. QED
  BY <1>2

LEMMA GreatestOf ==
  ASSUME NEW n \in Nat, NEW S, S \subseteq 1..n, S # {}
  PROVE  \E m \in S : \A k \in S : m >= k
<1> DEFINE T == {b \in Nat : \A k \in S : b >= k}
<1>1. n \in T
  OBVIOUS
<1>2. PICK m \in T : \A b \in T : m <= b
  BY <1>1, SmallestOf
<1> SUFFICES ASSUME m \notin S PROVE FALSE
  BY <1>2
<1>3. m \in Nat /\ \A k \in S : k \in Nat /\ m >= k /\ m # k
  BY <1>2
<1>4. PICK k \in S : TRUE
  OBVIOUS
<1>5. m - 1 \in Nat /\ \A j \in S : m - 1 >= j
  BY <1>3, <1>4
<1>6. m - 1 \in T
  BY <1>5
<1>7. QED
  BY <1>2, <1>3, <1>6

LEMMA OneMoreIndex ==
  ASSUME NEW which, NEW base, NEW seq, NEW extra, NEW n \in Nat, NEW f, Solves(f, which, base, seq, extra, n)
  PROVE  \E g : Solves(g, which, base, seq, extra, n + 1)
<1> DEFINE S == SUBSET (1..n)
           T == SUBSET (1..(n + 1))
           top(s) == CHOOSE m \in s : \A k \in s : m >= k
           g == [s \in T |-> IF s \in S THEN f[s] ELSE Merge(which, f[s \ {n + 1}], seq[n + 1], extra)]
<1>1. f = [s \in S |-> IF s = {} THEN base ELSE Merge(which, f[s \ {top(s)}], seq[top(s)], extra)]
  BY DEF Solves
<1>2. \A s \in S : f[s] = IF s = {} THEN base ELSE Merge(which, f[s \ {top(s)}], seq[top(s)], extra)
  BY <1>1
<1>3. \A s \in T : g[s] = IF s \in S THEN f[s] ELSE Merge(which, f[s \ {n + 1}], seq[n + 1], extra)
  OBVIOUS
<1>4. g = [s \in T |-> g[s]]
  OBVIOUS
<1> HIDE DEF g
<1>5. ASSUME NEW s \in T
      PROVE  g[s] = IF s = {} THEN base ELSE Merge(which, g[s \ {top(s)}], seq[top(s)], extra)
  <2>1. CASE s \in S
    <3>1. CASE s = {}
      BY <1>2, <1>3, <2>1, <3>1
    <3>2. CASE s # {}
      <4>1. top(s) \in s
        BY <2>1, <3>2, GreatestOf
      <4>2. s \ {top(s)} \in S /\ s \ {top(s)} \in T
        BY <2>1
      <4> HIDE DEF top
      <4>3. QED
        BY <1>2, <1>3, <2>1, <3>2, <4>2
    <3>3. QED
      BY <3>1, <3>2
  <2>2. CASE s \notin S
    <3>1. n + 1 \in s /\ s # {} /\ \A k \in s : n + 1 >= k
      BY <2>2
    <3>2. \A m \in s : (\A k \in s : m >= k) => m = n + 1
      BY <3>1
    <3>3. top(s) = n + 1
      BY <3>1, <3>2
    <3>4. s \ {n + 1} \in S /\ s \ {n + 1} \in T
      <4>1. \A k \in s \ {n + 1} : k \in 1..n
        OBVIOUS
      <4>2. QED
        BY <4>1
    <3>5. g[s] = Merge(which, f[s \ {n + 1}], seq[n + 1], extra) /\ g[s \ {n + 1}] = f[s \ {n + 1}]
      BY <1>3, <2>2, <3>4
    <3> HIDE DEF top
    <3>6. QED
      BY <3>1, <3>3, <3>5
  <2>3. QED
    BY <2>1, <2>2
<1>6. g = [s \in T |-> IF s = {} THEN base ELSE Merge(which, g[s \ {top(s)}], seq[top(s)], extra)]
  BY <1>4, <1>5
<1>7. Solves(g, which, base, seq, extra, n + 1)
  BY <1>6 DEF Solves
<1>8. QED
  BY <1>7

LEMMA HasSolution ==
  ASSUME NEW which, NEW base, NEW seq, NEW extra, NEW n \in Nat
  PROVE  \E f : Solves(f, which, base, seq, extra, n)
<1> DEFINE Solved(m) == \E f : Solves(f, which, base, seq, extra, m)
           Without == {m \in Nat : ~Solved(m)}
<1>1. Solved(0)
  <2> DEFINE f == [s \in SUBSET (1..0) |-> base]
  <2>1. \A s \in SUBSET (1..0) : s = {}
    OBVIOUS
  <2>2. Solves(f, which, base, seq, extra, 0)
    BY <2>1 DEF Solves
  <2>3. QED
    BY <2>2
<1>2. \A m \in Nat : Solved(m) => Solved(m + 1)
  BY OneMoreIndex
<1>3. Without = {}
  <2> SUFFICES ASSUME Without # {} PROVE FALSE
    OBVIOUS
  <2>1. PICK m \in Without : \A k \in Without : m <= k
    BY SmallestOf
  <2> HIDE DEF Solved
  <2>2. m \in Nat /\ m # 0
    BY <1>1, <2>1
  <2>3. m - 1 \in Nat /\ m - 1 \notin Without /\ (m - 1) + 1 = m
    BY <2>1, <2>2
  <2>4. Solved(m - 1)
    BY <2>3
  <2>5. Solved(m)
    BY <1>2, <2>3, <2>4
  <2>6. QED
    BY <2>1, <2>5
<1>4. QED
  BY <1>3

\* The value of the fold after k items.
FoldTo(which, base, seq, extra, k) ==
  (CHOOSE f : Solves(f, which, base, seq, extra, Len(seq)))[1..k]

FoldRule(which, base, seq, extra) ==
  /\ FoldTo(which, base, seq, extra, 0) = base
  /\ \A k \in 1..Len(seq) : FoldTo(which, base, seq, extra, k)
                              = Merge(which, FoldTo(which, base, seq, extra, k - 1), seq[k], extra)

LEMMA FoldSteps ==
  ASSUME NEW which, NEW base, NEW seq, NEW extra, Len(seq) \in Nat
  PROVE  FoldRule(which, base, seq, extra)
<1> DEFINE n == Len(seq)
           f == CHOOSE g : Solves(g, which, base, seq, extra, n)
           top(s) == CHOOSE m \in s : \A k \in s : m >= k
<1>1. Solves(f, which, base, seq, extra, n)
  BY HasSolution
<1> HIDE DEF f
<1>2. \A s \in SUBSET (1..n) : f[s] = IF s = {} THEN base
                                      ELSE Merge(which, f[s \ {top(s)}], seq[top(s)], extra)
  BY <1>1 DEF Solves
<1>3. f[1..0] = base
  <2>1. 1..0 = {} /\ {} \in SUBSET (1..n)
    OBVIOUS
  <2>2. f[{}] = base
    BY <1>2, <2>1
  <2>3. QED
    BY <2>1, <2>2
<1>4. ASSUME NEW k \in 1..n
      PROVE  f[1..k] = Merge(which, f[1..(k - 1)], seq[k], extra)
  <2>1. 1..k \in SUBSET (1..n) /\ 1..k # {} /\ k \in 1..k /\ \A j \in 1..k : k >= j
    OBVIOUS
  <2>2. \A m \in 1..k : (\A j \in 1..k : m >= j) => m = k
    BY <2>1
  <2>3. top(1..k) = k
    BY <2>1, <2>2
  <2>4. (1..k) \ {k} = 1..(k - 1)
    OBVIOUS
  <2> HIDE DEF top
  <2>5. QED
    BY <1>2, <2>1, <2>3, <2>4
<1>5. QED
  BY <1>3, <1>4 DEF FoldRule, FoldTo, f

LEMMA BlocksFold ==
  ASSUME NEW c, NEW blocks, NEW streaming, DOMAIN blocks = 1..Len(blocks)
  PROVE  absorbBlocks(c, blocks, streaming) = FoldTo("block", c, blocks, streaming, Len(blocks))
<1> DEFINE n == Len(blocks)
           Folds(f) == f = [s \in SUBSET (1..n) |->
                              IF s = {} THEN c
                              ELSE LET x == CHOOSE m \in s : \A k \in s : m >= k
                                   IN  absorbBlock(f[s \ {x}], blocks[x], streaming)]
<1>1. absorbBlocks(c, blocks, streaming) = (CHOOSE f : Folds(f))[1..n]
  BY DEF absorbBlocks, FoldLeft, MapThenFoldSet, Max
<1>2. \A all, x : Merge("block", all, x, streaming) = absorbBlock(all, x, streaming)
  BY DEF Merge
<1>3. \A f : Folds(f) <=> Solves(f, "block", c, blocks, streaming, n)
  BY <1>2 DEF Solves
<1> HIDE DEF Folds
<1>4. QED
  BY <1>1, <1>3 DEF FoldTo

LEMMA ConcatFold ==
  ASSUME NEW seqs, DOMAIN seqs = 1..Len(seqs)
  PROVE  Concat(seqs) = FoldTo("concat", <<>>, seqs, 0, Len(seqs))
<1> DEFINE n == Len(seqs)
           Folds(f) == f = [s \in SUBSET (1..n) |->
                              IF s = {} THEN <<>>
                              ELSE LET x == CHOOSE m \in s : \A k \in s : m >= k
                                   IN  Join(f[s \ {x}], seqs[x])]
<1>1. Concat(seqs) = (CHOOSE f : Folds(f))[1..n]
  BY DEF Concat, FoldLeft, MapThenFoldSet, Max, Join
<1>2. \A all, x : Merge("concat", all, x, 0) = Join(all, x)
  BY DEF Merge
<1>3. \A f : Folds(f) <=> Solves(f, "concat", <<>>, seqs, 0, n)
  BY <1>2 DEF Solves
<1> HIDE DEF Folds
<1>4. QED
  BY <1>1, <1>3 DEF FoldTo

LEMMA CitationsFold ==
  ASSUME NEW results, Len(results) \in Nat, DOMAIN results = 1..Len(results)
  PROVE  citationsOf(results)
           = FoldTo("citation", <<>>, [i \in 1..Len(results) |-> i], results, Len(results))
<1> DEFINE n == Len(results)
           index == [i \in 1..n |-> i]
           Folds(f) == f = [s \in SUBSET (1..n) |->
                              IF s = {} THEN <<>>
                              ELSE LET x == CHOOSE m \in s : \A k \in s : m >= k
                                   IN  Cite(f[s \ {x}], index[x], results)]
<1>1. citationsOf(results) = (CHOOSE f : Folds(f))[1..n]
  BY DEF citationsOf, FoldLeftDomain, FoldLeft, MapThenFoldSet, Max, Cite
<1>2. \A all, x : Merge("citation", all, x, results) = Cite(all, x, results)
  BY DEF Merge
<1>3. Len(index) = n
  OBVIOUS
<1> HIDE DEF index
<1>4. \A f : Folds(f) <=> Solves(f, "citation", <<>>, index, results, n)
  BY <1>2 DEF Solves
<1> HIDE DEF Folds
<1>5. QED
  BY <1>1, <1>3, <1>4 DEF FoldTo, index

-----------------------------------------------------------------------------
(* What a frame of the recorded server does to the content.                 *)

Fields == {"title", "answer", "chunks", "citations", "deltas"}

\* A frame of one block is that block.
LEMMA OneBlock ==
  ASSUME NEW c, NEW b, NEW streaming
  PROVE  absorbBlocks(c, <<b>>, streaming) = absorbBlock(c, b, streaming)
<1> DEFINE f(k) == FoldTo("block", c, <<b>>, streaming, k)
<1>1. Len(<<b>>) = 1 /\ DOMAIN <<b>> = 1..Len(<<b>>) /\ <<b>>[1] = b
  OBVIOUS
<1>2. FoldRule("block", c, <<b>>, streaming)
  BY <1>1, FoldSteps
<1>3. f(0) = c /\ f(1) = Merge("block", f(0), b, streaming)
  <2>1. 1 \in 1..Len(<<b>>) /\ 1 - 1 = 0
    BY <1>1
  <2>2. f(1) = Merge("block", f(1 - 1), <<b>>[1], streaming)
    BY <1>2, <2>1 DEF FoldRule
  <2>3. QED
    BY <1>1, <1>2, <2>1, <2>2 DEF FoldRule
<1>4. absorbBlocks(c, <<b>>, streaming) = f(1)
  BY <1>1, BlocksFold
<1> HIDE DEF f
<1>5. QED
  BY <1>3, <1>4 DEF Merge

\* Answer data without results adds its chunks and settles the answer.
LEMMA AbsorbData ==
  ASSUME NEW c, DOMAIN c = Fields, NEW d, d.results = Absent
  PROVE  LET n == absorbAnswerData(c, d)
             chunks == IF d.chunks = Absent THEN c.chunks ELSE c.chunks \o d.chunks
         IN  /\ DOMAIN n = Fields /\ n.chunks = chunks /\ n.deltas = c.deltas
             /\ n.answer = IF d.chunks # Absent /\ d.answer = Absent /\ chunks # <<>>
                           THEN FlattenSeq(chunks) ELSE Latest(d.answer, c.answer)
<1>1. absorbResults(c, d.results) = c
  BY DEF absorbResults
<1>2. QED
  BY <1>1 DEF absorbAnswerData, Fields

\* Data in either wrapping; only blocks forward their chunks.
LEMMA AbsorbWrapped ==
  ASSUME NEW c, DOMAIN c = Fields, NEW d, d # Absent, d.results = Absent,
         NEW shape \in {"blocks", "text"}, NEW streaming \in BOOLEAN
  PROVE  LET n == absorbBody(c, Wrap(shape, d), streaming)
             chunks == IF d.chunks = Absent THEN c.chunks ELSE c.chunks \o d.chunks
         IN  /\ DOMAIN n = Fields /\ n.chunks = chunks
             /\ n.deltas = IF shape = "blocks" /\ streaming /\ d.progress = "IN_PROGRESS" /\ d.chunks # Absent
                           THEN c.deltas \o d.chunks ELSE c.deltas
             /\ n.answer = IF d.chunks # Absent /\ d.answer = Absent /\ chunks # <<>>
                           THEN FlattenSeq(chunks) ELSE Latest(d.answer, c.answer)
<1>1. CASE shape = "text"
  <2>1. absorbBody(c, Wrap(shape, d), streaming) = absorbAnswerData(c, d)
    BY <1>1 DEF absorbBody, Wrap
  <2>2. QED
    BY <1>1, <2>1, AbsorbData
<1>2. CASE shape = "blocks"
  <2> DEFINE b == [usage |-> "ask_text", data |-> d]
             e == emitChunkDeltas(c, d, streaming)
  <2>1. absorbBody(c, Wrap(shape, d), streaming) = absorbBlocks(c, <<b>>, streaming)
    BY <1>2 DEF absorbBody, Wrap
  <2>2. b.data = d /\ b.usage = "ask_text"
    OBVIOUS
  <2>3. /\ DOMAIN e = Fields /\ e.chunks = c.chunks /\ e.answer = c.answer
        /\ e.deltas = IF streaming /\ d.progress = "IN_PROGRESS" /\ d.chunks # Absent
                      THEN c.deltas \o d.chunks ELSE c.deltas
    BY DEF emitChunkDeltas, Fields
  <2> HIDE DEF b, e
  <2>4. absorbBlock(c, b, streaming) = absorbAnswerData(e, d)
    BY <2>2 DEF absorbBlock, e
  <2>5. absorbBody(c, Wrap(shape, d), streaming) = absorbAnswerData(e, d)
    BY <2>1, <2>4, OneBlock
  <2>6. LET n == absorbAnswerData(e, d)
            chunks == IF d.chunks = Absent THEN e.chunks ELSE e.chunks \o d.chunks
        IN  /\ DOMAIN n = Fields /\ n.chunks = chunks /\ n.deltas = e.deltas
            /\ n.answer = IF d.chunks # Absent /\ d.answer = Absent /\ chunks # <<>>
                          THEN FlattenSeq(chunks) ELSE Latest(d.answer, e.answer)
    BY <2>3, AbsorbData
  <2>7. QED
    BY <1>2, <2>3, <2>5, <2>6
<1>3. QED
  BY <1>1, <1>2

\* A frame of data, not the final one, received.
LEMMA ReceiveData ==
  ASSUME NEW d, d # Absent, d.results = Absent, NEW shape \in {"blocks", "text"},
         Receive(Bare(Wrap(shape, d))), DOMAIN st.content = Fields
  PROVE  LET c == st.content
             n == st'.content
             chunks == IF d.chunks = Absent THEN c.chunks ELSE c.chunks \o d.chunks
         IN  /\ DOMAIN n = Fields /\ n.chunks = chunks
             /\ n.deltas = IF shape = "blocks" /\ Streaming /\ d.progress = "IN_PROGRESS" /\ d.chunks # Absent
                           THEN c.deltas \o d.chunks ELSE c.deltas
             /\ n.answer = IF d.chunks # Absent /\ d.answer = Absent /\ chunks # <<>>
                           THEN FlattenSeq(chunks) ELSE Latest(d.answer, c.answer)
<1> DEFINE f == Bare(Wrap(shape, d))
           t == [st.content EXCEPT !.title = Latest(f.title, @)]
<1>1. f.rateLimited = FALSE /\ f.final = FALSE /\ f.body = Wrap(shape, d)
  BY DEF Bare
<1>2. DOMAIN t = Fields /\ t.chunks = st.content.chunks /\ t.answer = st.content.answer /\ t.deltas = st.content.deltas
  BY DEF Fields
<1>3. st' = processData(st, f, Streaming)
  BY DEF Receive
<1> HIDE DEF f
<1>4. st'.content = absorbBody(t, Wrap(shape, d), Streaming)
  BY <1>1, <1>3 DEF processData
<1> HIDE DEF t
<1>5. Streaming \in BOOLEAN
  BY StreamAssumption
<1> DEFINE chunks == IF d.chunks = Absent THEN t.chunks ELSE t.chunks \o d.chunks
           n == absorbBody(t, Wrap(shape, d), Streaming)
<1>6. /\ DOMAIN n = Fields /\ n.chunks = chunks
      /\ n.deltas = IF shape = "blocks" /\ Streaming /\ d.progress = "IN_PROGRESS" /\ d.chunks # Absent
                    THEN t.deltas \o d.chunks ELSE t.deltas
      /\ n.answer = IF d.chunks # Absent /\ d.answer = Absent /\ chunks # <<>>
                    THEN FlattenSeq(chunks) ELSE Latest(d.answer, t.answer)
  BY <1>2, <1>5, AbsorbWrapped
<1>7. QED
  BY <1>2, <1>4, <1>6

\* The final frame, whatever it carries, is not read.
LEMMA ReceiveFinal ==
  ASSUME NEW f, f.final = TRUE, f.rateLimited = FALSE, Receive(f), DOMAIN st.content = Fields
  PROVE  /\ DOMAIN st'.content = Fields /\ st'.content.chunks = st.content.chunks
         /\ st'.content.answer = st.content.answer /\ st'.content.deltas = st.content.deltas
<1> DEFINE t == [st.content EXCEPT !.title = Latest(f.title, @)]
<1>1. DOMAIN t = Fields /\ t.chunks = st.content.chunks /\ t.answer = st.content.answer /\ t.deltas = st.content.deltas
  BY DEF Fields
<1>2. st' = processData(st, f, Streaming)
  BY DEF Receive
<1>3. st'.content = t
  BY <1>2 DEF processData
<1>4. QED
  BY <1>1, <1>3

-----------------------------------------------------------------------------
(* The invariant.                                                           *)

Prefix(k) == SubSeq(Truth, 1, k)

\* The text is what was sent, the chunks are those of the frames in progress,
\* and they were all forwarded when every frame is wrapped in blocks.
WireInv ==
  /\ recorded \in BOOLEAN /\ sentDone \in BOOLEAN /\ sentChunks \in 0..Len(Truth)
  /\ sentDone /\ ~EarlyDone => sentChunks = Len(Truth)
  /\ recorded => /\ DOMAIN st.content = Fields
                 /\ st.content.answer = SentText
                 /\ ~sentDone => st.content.chunks = Prefix(sentChunks)
                 /\ Streaming /\ Shapes = {"blocks"} => st.content.deltas = Prefix(sentChunks)

\* The facts about the answer that the steps need.
LEMMA TruthFacts ==
  /\ Len(Truth) \in Nat /\ Prefix(Len(Truth)) = Truth /\ Prefix(0) = <<>>
  /\ Truth # Absent /\ FlattenSeq(Truth) # Absent
  /\ AnswerData("DONE", Truth, FlattenSeq(Truth)) # Absent
  /\ \A k \in 0..Len(Truth) : /\ FlattenSeq(Prefix(k)) # Absent
                              /\ AnswerData("IN_PROGRESS", Absent, FlattenSeq(Prefix(k))) # Absent
<1> DEFINE n == Len(Truth)
           C == {Truth[i] : i \in DOMAIN Truth}
<1>1. Truth \in Seq(C)
  BY AbsentAssumption
<1> HIDE DEF C
<1>2. n \in Nat /\ SubSeq(Truth, 1, n) = Truth /\ SubSeq(Truth, 1, 0) = <<>>
  BY <1>1
<1> HIDE DEF n
<1>3. \A j \in 0..n : /\ SubSeq(Truth, 1, j) # Absent /\ FlattenSeq(SubSeq(Truth, 1, j)) # Absent
                      /\ AnswerData("IN_PROGRESS", Absent, FlattenSeq(SubSeq(Truth, 1, j))) # Absent
                      /\ AnswerData("DONE", SubSeq(Truth, 1, j), FlattenSeq(SubSeq(Truth, 1, j))) # Absent
  <2>1. 1 \in 1..(n + 1)
    BY <1>2
  <2>2. QED
    BY <2>1, AbsentAssumption DEF n
<1>4. n \in 0..n
  BY <1>2
<1>5. QED
  BY <1>2, <1>3, <1>4 DEF Prefix, n

\* The next portion of chunks continues those before it.
LEMMA NextPortion ==
  ASSUME NEW s \in 0..Len(Truth), NEW k \in 1..(Len(Truth) - s)
  PROVE  LET portion == SubSeq(Truth, s + 1, s + k)
         IN  /\ Prefix(s) \o portion = Prefix(s + k) /\ Prefix(s + k) # <<>> /\ s + k \in 0..Len(Truth)
             /\ portion # Absent /\ AnswerData("IN_PROGRESS", portion, Absent) # Absent
<1> DEFINE n == Len(Truth)
           C == {Truth[i] : i \in DOMAIN Truth}
           portion == SubSeq(Truth, s + 1, s + k)
<1>1. Truth \in Seq(C)
  BY AbsentAssumption
<1> HIDE DEF C
<1>2. n \in Nat
  BY <1>1
<1> HIDE DEF n
<1>3. s \in Nat /\ k \in Nat /\ s + 1 \in 1..(n + 1) /\ s + k \in 0..n /\ s + k \in s..n /\ k >= 1
  BY <1>2 DEF n
<1>4. Prefix(s) \o portion = Prefix(s + k)
  <2>1. 1 \in 1..(n + 1) /\ s \in (1 - 1)..n
    BY <1>2, <1>3 DEF n
  <2>2. \A m \in 1..(n + 1) : \A a \in (m - 1)..n : \A b \in a..n :
          SubSeq(Truth, m, a) \o SubSeq(Truth, a + 1, b) = SubSeq(Truth, m, b)
    BY <1>1, ConcatAdjacentSubSeq DEF n
  <2>3. QED
    BY <1>3, <2>1, <2>2 DEF Prefix
<1>5. Len(Prefix(s + k)) = s + k
  BY <1>1, <1>3 DEF Prefix, n
<1>6. Prefix(s + k) # <<>>
  BY <1>3, <1>5
<1>7. portion # Absent /\ AnswerData("IN_PROGRESS", portion, Absent) # Absent
  BY <1>3, AbsentAssumption DEF n
<1>8. QED
  BY <1>3, <1>4, <1>6, <1>7 DEF n

-----------------------------------------------------------------------------
(* The steps.  A DONE frame that comes early and is not read loses chunks:  *)
(* DoneRead excludes that.                                                  *)

DoneRead == ~EarlyDone \/ ~DoneIsLast

\* A server that is not the recorded one stays so.
LEMMA Unrecorded ==
  ASSUME WireInv, ~recorded, recorded' = recorded, sentDone' = sentDone, sentChunks' = sentChunks
  PROVE  WireInv'
BY DEF WireInv

LEMMA ProgressStep == ASSUME WireInv, SendProgress PROVE WireInv'
<1>1. PICK shape \in Shapes, k \in 1..(Len(Truth) - sentChunks) :
        /\ recorded /\ ~sentDone
        /\ Receive(Bare(Wrap(shape, AnswerData("IN_PROGRESS", SubSeq(Truth, sentChunks + 1, sentChunks + k), Absent))))
        /\ sentChunks' = sentChunks + k
        /\ recorded' = recorded /\ sentDone' = sentDone
  BY DEF SendProgress
<1> DEFINE portion == SubSeq(Truth, sentChunks + 1, sentChunks + k)
           d == AnswerData("IN_PROGRESS", portion, Absent)
<1>2. sentChunks \in 0..Len(Truth)
  BY DEF WireInv
<1>3. /\ Prefix(sentChunks) \o portion = Prefix(sentChunks + k) /\ Prefix(sentChunks + k) # <<>>
      /\ sentChunks + k \in 0..Len(Truth) /\ portion # Absent /\ d # Absent
  BY <1>2, NextPortion
<1>4. /\ DOMAIN st.content = Fields /\ st.content.chunks = Prefix(sentChunks)
      /\ (Streaming /\ Shapes = {"blocks"} => st.content.deltas = Prefix(sentChunks))
  BY <1>1 DEF WireInv
<1> HIDE DEF portion
<1>5. d.results = Absent /\ d.chunks = portion /\ d.answer = Absent /\ d.progress = "IN_PROGRESS"
  BY DEF AnswerData
<1>6. Receive(Bare(Wrap(shape, d))) /\ shape \in {"blocks", "text"}
  BY <1>1, WireAssumption DEF portion
<1> HIDE DEF d
<1>7. LET c == st.content
          n == st'.content
          chunks == IF d.chunks = Absent THEN c.chunks ELSE c.chunks \o d.chunks
      IN  /\ DOMAIN n = Fields /\ n.chunks = chunks
          /\ n.deltas = IF shape = "blocks" /\ Streaming /\ d.progress = "IN_PROGRESS" /\ d.chunks # Absent
                        THEN c.deltas \o d.chunks ELSE c.deltas
          /\ n.answer = IF d.chunks # Absent /\ d.answer = Absent /\ chunks # <<>>
                        THEN FlattenSeq(chunks) ELSE Latest(d.answer, c.answer)
  BY <1>3, <1>4, <1>5, <1>6, ReceiveData
<1>8. /\ DOMAIN st'.content = Fields /\ st'.content.chunks = Prefix(sentChunks + k)
      /\ st'.content.answer = FlattenSeq(Prefix(sentChunks + k))
      /\ (Streaming /\ Shapes = {"blocks"} => st'.content.deltas = Prefix(sentChunks + k))
  BY <1>1, <1>3, <1>4, <1>5, <1>7
<1>9. SentText' = FlattenSeq(Prefix(sentChunks + k))
  BY <1>1 DEF SentText, Prefix
<1>10. recorded \in BOOLEAN /\ sentDone \in BOOLEAN
  BY DEF WireInv
<1>11. QED
  BY <1>1, <1>3, <1>8, <1>9, <1>10 DEF WireInv

LEMMA PartialStep == ASSUME WireInv, SendPartialAnswer PROVE WireInv'
<1> DEFINE text == FlattenSeq(Prefix(sentChunks))
           d == AnswerData("IN_PROGRESS", Absent, text)
<1>1. PICK shape \in Shapes : recorded /\ ~sentDone /\ Receive(Bare(Wrap(shape, d))) /\ UNCHANGED sent
  BY DEF SendPartialAnswer, Prefix
<1>2. sentChunks \in 0..Len(Truth)
  BY DEF WireInv
<1>3. text # Absent /\ d # Absent
  BY <1>2, TruthFacts
<1>4. /\ DOMAIN st.content = Fields /\ st.content.chunks = Prefix(sentChunks)
      /\ (Streaming /\ Shapes = {"blocks"} => st.content.deltas = Prefix(sentChunks))
  BY <1>1 DEF WireInv
<1> HIDE DEF text
<1>5. d.results = Absent /\ d.chunks = Absent /\ d.answer = text
  BY DEF AnswerData
<1>6. Receive(Bare(Wrap(shape, d))) /\ shape \in {"blocks", "text"}
  BY <1>1, WireAssumption
<1> HIDE DEF d
<1>7. LET c == st.content
          n == st'.content
          chunks == IF d.chunks = Absent THEN c.chunks ELSE c.chunks \o d.chunks
      IN  /\ DOMAIN n = Fields /\ n.chunks = chunks
          /\ n.deltas = IF shape = "blocks" /\ Streaming /\ d.progress = "IN_PROGRESS" /\ d.chunks # Absent
                        THEN c.deltas \o d.chunks ELSE c.deltas
          /\ n.answer = IF d.chunks # Absent /\ d.answer = Absent /\ chunks # <<>>
                        THEN FlattenSeq(chunks) ELSE Latest(d.answer, c.answer)
  BY <1>3, <1>4, <1>5, <1>6, ReceiveData
<1>8. /\ DOMAIN st'.content = Fields /\ st'.content.chunks = Prefix(sentChunks) /\ st'.content.answer = text
      /\ (Streaming /\ Shapes = {"blocks"} => st'.content.deltas = Prefix(sentChunks))
  BY <1>3, <1>4, <1>5, <1>7 DEF Latest
<1>9. recorded' = recorded /\ sentChunks' = sentChunks /\ sentDone' = sentDone
  BY <1>1 DEF sent
<1>10. SentText' = text
  BY <1>1, <1>9 DEF SentText, Prefix, text
<1>11. recorded \in BOOLEAN /\ sentDone \in BOOLEAN
  BY DEF WireInv
<1>12. QED
  BY <1>1, <1>2, <1>8, <1>9, <1>10, <1>11 DEF WireInv

LEMMA NotFinal == ASSUME NEW told PROVE [Bare(told) EXCEPT !.final = FALSE] = Bare(told)
<1> DEFINE f == Bare(told)
<1>1. f.final = FALSE /\ f = [x \in DOMAIN f |-> f[x]]
  BY DEF Bare
<1> HIDE DEF f
<1>2. [f EXCEPT !.final = FALSE] = f
  BY <1>1
<1>3. QED
  BY <1>2 DEF f

LEMMA DoneStep == ASSUME DoneRead, WireInv, SendDone PROVE WireInv'
<1> DEFINE text == FlattenSeq(Truth)
           d == AnswerData("DONE", Truth, text)
<1>1. PICK shape \in Shapes :
        /\ recorded /\ ~sentDone /\ (EarlyDone \/ sentChunks = Len(Truth))
        /\ Receive([Bare(Wrap(shape, d)) EXCEPT !.final = DoneIsLast])
        /\ sentDone' = TRUE /\ recorded' = recorded /\ sentChunks' = sentChunks
  BY DEF SendDone
<1>2. Truth # Absent /\ text # Absent /\ d # Absent /\ Prefix(Len(Truth)) = Truth
  BY TruthFacts
<1>3. /\ DOMAIN st.content = Fields /\ st.content.answer = SentText
      /\ (Streaming /\ Shapes = {"blocks"} => st.content.deltas = Prefix(sentChunks))
      /\ sentChunks \in 0..Len(Truth) /\ recorded \in BOOLEAN
  BY <1>1 DEF WireInv
<1>4. SentText' = text
  BY <1>1 DEF SentText
<1> HIDE DEF text
<1>5. d.results = Absent /\ d.chunks = Truth /\ d.answer = text /\ d.progress = "DONE"
  BY DEF AnswerData
<1> HIDE DEF d
<1>6. /\ DOMAIN st'.content = Fields /\ st'.content.answer = text
      /\ (Streaming /\ Shapes = {"blocks"} => st'.content.deltas = Prefix(sentChunks))
  <2>1. CASE DoneIsLast
    <3> DEFINE f == [Bare(Wrap(shape, d)) EXCEPT !.final = DoneIsLast]
    <3>1. f.final = TRUE /\ f.rateLimited = FALSE
      BY <2>1, WireAssumption DEF Bare
    <3>2. Receive(f)
      BY <1>1
    <3> HIDE DEF f
    <3>3. /\ DOMAIN st'.content = Fields /\ st'.content.answer = st.content.answer
          /\ st'.content.deltas = st.content.deltas
      BY <1>3, <3>1, <3>2, ReceiveFinal
    <3>4. st.content.answer = text
      <4>1. sentChunks = Len(Truth)
        BY <1>1, <2>1 DEF DoneRead
      <4>2. SentText = FlattenSeq(Prefix(Len(Truth)))
        BY <1>1, <4>1 DEF SentText, Prefix
      <4>3. QED
        BY <1>2, <1>3, <4>2 DEF text
    <3>5. QED
      BY <1>3, <3>3, <3>4
  <2>2. CASE ~DoneIsLast
    <3>1. [Bare(Wrap(shape, d)) EXCEPT !.final = DoneIsLast] = Bare(Wrap(shape, d))
      <4>1. DoneIsLast = FALSE
        BY <2>2, WireAssumption
      <4>2. QED
        BY <4>1, NotFinal
    <3>2. Receive(Bare(Wrap(shape, d))) /\ shape \in {"blocks", "text"}
      BY <1>1, <3>1, WireAssumption
    <3>3. LET c == st.content
              n == st'.content
              chunks == IF d.chunks = Absent THEN c.chunks ELSE c.chunks \o d.chunks
          IN  /\ DOMAIN n = Fields /\ n.chunks = chunks
              /\ n.deltas = IF shape = "blocks" /\ Streaming /\ d.progress = "IN_PROGRESS" /\ d.chunks # Absent
                            THEN c.deltas \o d.chunks ELSE c.deltas
              /\ n.answer = IF d.chunks # Absent /\ d.answer = Absent /\ chunks # <<>>
                            THEN FlattenSeq(chunks) ELSE Latest(d.answer, c.answer)
      BY <1>2, <1>3, <1>5, <3>2, ReceiveData
    <3>4. QED
      BY <1>2, <1>3, <1>5, <3>3 DEF Latest
  <2>3. QED
    BY <2>1, <2>2
<1>7. sentDone' \in BOOLEAN /\ (sentDone' /\ ~EarlyDone => sentChunks' = Len(Truth))
  BY <1>1
<1>8. QED
  BY <1>1, <1>3, <1>4, <1>6, <1>7 DEF WireInv

LEMMA FinalStep == ASSUME WireInv, SendFinal PROVE WireInv'
<1> DEFINE f == [Bare([kind |-> "other"]) EXCEPT !.final = TRUE]
<1>1. sentDone /\ Receive(f) /\ recorded' = recorded /\ sentChunks' = sentChunks /\ sentDone' = sentDone
  BY DEF SendFinal, sent
<1>2. f.final = TRUE /\ f.rateLimited = FALSE
  BY DEF Bare
<1> HIDE DEF f
<1>3. CASE ~recorded
  BY <1>1, <1>3, Unrecorded
<1>4. CASE recorded
  <2>1. DOMAIN st.content = Fields
    BY <1>4 DEF WireInv
  <2>2. /\ DOMAIN st'.content = Fields /\ st'.content.chunks = st.content.chunks
        /\ st'.content.answer = st.content.answer /\ st'.content.deltas = st.content.deltas
    BY <1>1, <1>2, <2>1, ReceiveFinal
  <2>3. SentText' = SentText
    BY <1>1 DEF SentText
  <2>4. QED
    BY <1>1, <1>4, <2>2, <2>3 DEF WireInv
<1>5. QED
  BY <1>3, <1>4

LEMMA WireStep == ASSUME DoneRead PROVE WireInv /\ [WireNext]_wireVars => WireInv'
<1> SUFFICES ASSUME WireInv, [WireNext]_wireVars PROVE WireInv'
  OBVIOUS
<1>1. CASE SendAny
  <2>1. ~recorded /\ recorded' = recorded /\ sentChunks' = sentChunks /\ sentDone' = sentDone
    BY <1>1 DEF SendAny, sent
  <2>2. QED
    BY <2>1, Unrecorded
<1>2. CASE SendProgress
  BY <1>2, ProgressStep
<1>3. CASE SendPartialAnswer
  BY <1>3, PartialStep
<1>4. CASE SendDone
  BY <1>4, DoneStep
<1>5. CASE SendFinal
  BY <1>5, FinalStep
<1>6. CASE Close \/ UNCHANGED wireVars
  <2>1. st' = st /\ recorded' = recorded /\ sentChunks' = sentChunks /\ sentDone' = sentDone
    BY <1>6 DEF Close, EndOfStream, ReadError, wireVars, vars, sent
  <2>2. SentText' = SentText
    BY <2>1 DEF SentText
  <2>3. QED
    BY <2>1, <2>2 DEF WireInv
<1>7. QED
  BY <1>1, <1>2, <1>3, <1>4, <1>5, <1>6 DEF WireNext

LEMMA WireStart == WireInit => WireInv
<1> SUFFICES ASSUME WireInit PROVE WireInv
  OBVIOUS
<1>1. /\ recorded \in BOOLEAN /\ sentChunks = 0 /\ sentDone = FALSE /\ st.content = EmptyContent
  BY DEF WireInit, Init
<1>2. Len(Truth) \in Nat /\ Prefix(0) = <<>>
  BY TruthFacts
<1>3. 0 \in 0..Len(Truth)
  BY <1>2
<1>4. /\ DOMAIN EmptyContent = Fields /\ EmptyContent.answer = <<>> /\ EmptyContent.chunks = <<>>
      /\ EmptyContent.deltas = <<>>
  BY DEF EmptyContent, Fields
<1>5. SentText = <<>>
  <2>1. SentText = FlattenSeq(Prefix(0))
    BY <1>1 DEF SentText, Prefix
  <2>2. FlattenSeq(<<>>) = <<>>
    BY DEF FlattenSeq
  <2>3. QED
    BY <1>2, <2>1, <2>2
<1>6. QED
  BY <1>1, <1>2, <1>3, <1>4, <1>5 DEF WireInv

-----------------------------------------------------------------------------
\* On the recorded wire the text is what the server has sent of the answer,
\* for any answer cut into any chunks: DONE repeats nothing and no stale text
\* comes back (absorbAnswerData).
THEOREM TextUpToDate == ASSUME DoneRead PROVE WireSpec => []AnswerUpToDate
<1>1. WireInv => AnswerUpToDate
  BY DEF WireInv, AnswerUpToDate
<1>2. QED
  BY WireStart, WireStep, <1>1, PTL DEF WireSpec

\* When the text comes in blocks and DONE after all of its chunks, what
\* AskStream forwarded adds up to the Answer (emitChunkDeltas).
THEOREM DeltasAddUp ==
  ASSUME Streaming, Shapes = {"blocks"}, ~EarlyDone
  PROVE  WireSpec => []DeltasReproduceAnswer
<1>1. DoneRead
  BY DEF DoneRead
<1>2. ASSUME WireInv PROVE DeltasReproduceAnswer
  <2>1. SUFFICES ASSUME recorded PROVE FlattenSeq(st.content.deltas) = st.content.answer
    BY DEF DeltasReproduceAnswer
  <2>2. st.content.answer = SentText /\ st.content.deltas = Prefix(sentChunks)
    BY <1>2, <2>1 DEF WireInv
  <2>3. CASE sentDone
    <3>1. sentChunks = Len(Truth) /\ SentText = FlattenSeq(Truth)
      BY <1>2, <2>3 DEF WireInv, SentText
    <3>2. QED
      BY <2>2, <3>1, TruthFacts
  <2>4. CASE ~sentDone
    BY <2>2, <2>4 DEF SentText, Prefix
  <2>5. QED
    BY <2>3, <2>4
<1>3. QED
  BY WireStart, WireStep, <1>1, <1>2, PTL DEF WireSpec

-----------------------------------------------------------------------------
(* Lists, whatever their items are.                                            *)

LEMMA CountUp ==
  ASSUME NEW n \in Nat, NEW T, 0 \in T, \A k \in 1..n : k - 1 \in T => k \in T
  PROVE  \A k \in 0..n : k \in T
<1> DEFINE Out == {k \in 0..n : k \notin T}
<1> SUFFICES ASSUME Out # {} PROVE FALSE
  OBVIOUS
<1>1. PICK m \in Out : \A k \in Out : m <= k
  <2>1. Out \subseteq Nat
    OBVIOUS
  <2>2. QED
    BY <2>1, SmallestOf
<1>2. m \in 1..n /\ m - 1 \in 0..n
  BY <1>1
<1>3. m - 1 \notin Out
  BY <1>1, <1>2
<1>4. QED
  BY <1>1, <1>2, <1>3

Items(s) == {s[i] : i \in 1..Len(s)}

LEMMA ListIs ==
  ASSUME NEW s, IsList(s), NEW S, Items(s) \subseteq S
  PROVE  s \in Seq(S) /\ DOMAIN s = 1..Len(s) /\ Len(s) \in Nat
<1>1. Len(s) \in Nat /\ s = [i \in 1..Len(s) |-> s[i]]
  BY DEF IsList
<1>2. \A i \in 1..Len(s) : s[i] \in S
  BY DEF Items
<1> DEFINE n == Len(s)
<1> HIDE DEF n
<1>3. n \in Nat /\ s = [i \in 1..n |-> s[i]] /\ \A i \in 1..n : s[i] \in S
  BY <1>1, <1>2 DEF n
<1>4. s \in [1..n -> S]
  BY <1>3
<1>5. s \in Seq(S) /\ DOMAIN s = 1..n
  BY <1>3, <1>4
<1>6. QED
  BY <1>1, <1>5 DEF n

LEMMA SeqIsList ==
  ASSUME NEW S, NEW s \in Seq(S)
  PROVE  IsList(s)
BY LenProperties DEF IsList

LEMMA ListEqual ==
  ASSUME NEW s, IsList(s), NEW t, IsList(t), Len(s) = Len(t), \A i \in 1..Len(s) : s[i] = t[i]
  PROVE  s = t
<1>1. s = [i \in 1..Len(s) |-> s[i]] /\ t = [i \in 1..Len(s) |-> t[i]]
  BY DEF IsList
<1>2. QED
  BY <1>1

LEMMA EmptyList == IsList(<<>>) /\ Len(<<>>) = 0
BY DEF IsList

LEMMA OneItem ==
  ASSUME NEW x
  PROVE  IsList(<<x>>) /\ Len(<<x>>) = 1 /\ <<x>>[1] = x
<1>1. <<x>> \in Seq({x}) /\ Len(<<x>>) = 1 /\ <<x>>[1] = x
  OBVIOUS
<1>2. QED
  BY <1>1, SeqIsList

LEMMA ListAppend ==
  ASSUME NEW s, IsList(s), NEW x
  PROVE  /\ IsList(Append(s, x)) /\ Len(Append(s, x)) = Len(s) + 1
         /\ \A i \in 1..Len(s) : Append(s, x)[i] = s[i]
         /\ Append(s, x)[Len(s) + 1] = x
<1> DEFINE S == Items(s) \cup {x}
<1>1. s \in Seq(S) /\ x \in S
  BY ListIs
<1> HIDE DEF S
<1>2. /\ Append(s, x) \in Seq(S) /\ Len(Append(s, x)) = Len(s) + 1
      /\ \A i \in 1..Len(s) : Append(s, x)[i] = s[i]
      /\ Append(s, x)[Len(s) + 1] = x
  BY <1>1, AppendProperties
<1>3. IsList(Append(s, x))
  BY <1>2, SeqIsList
<1>4. QED
  BY <1>2, <1>3

LEMMA ListJoin ==
  ASSUME NEW s, IsList(s), NEW t, IsList(t), NEW j, j = s \o t
  PROVE  /\ IsList(j) /\ Len(j) = Len(s) + Len(t)
         /\ \A i \in 1..Len(s) : j[i] = s[i]
         /\ \A i \in 1..Len(t) : j[Len(s) + i] = t[i]
<1> DEFINE S == Items(s) \cup Items(t)
           n == Len(s)
           m == Len(t)
<1>1. s \in Seq(S) /\ t \in Seq(S) /\ n \in Nat /\ m \in Nat
  BY ListIs
<1> HIDE DEF S
<1>2. /\ s \o t \in Seq(S) /\ Len(s \o t) = n + m
      /\ \A i \in 1..(n + m) : (s \o t)[i] = IF i <= n THEN s[i] ELSE t[i - n]
  BY <1>1, ConcatProperties
<1>3. IsList(j)
  BY <1>2, SeqIsList
<1>4. Len(j) = n + m /\ \A i \in 1..(n + m) : j[i] = IF i <= n THEN s[i] ELSE t[i - n]
  BY <1>2
<1>5. n \in Nat /\ m \in Nat
  BY <1>1
<1> HIDE DEF n, m
<1>6. ASSUME NEW i \in 1..n
      PROVE  j[i] = s[i]
  <2>1. i \in 1..(n + m) /\ i <= n
    BY <1>5
  <2>2. QED
    BY <1>4, <2>1
<1>7. ASSUME NEW i \in 1..m
      PROVE  j[n + i] = t[i]
  <2>1. n + i \in 1..(n + m) /\ ~(n + i <= n) /\ (n + i) - n = i
    BY <1>5
  <2>2. QED
    BY <1>4, <2>1
<1>8. QED
  BY <1>3, <1>4, <1>6, <1>7 DEF n, m

LEMMA JoinEmpty ==
  ASSUME NEW s, IsList(s)
  PROVE  s \o <<>> = s /\ <<>> \o s = s
<1>1. s \in Seq(Items(s))
  BY ListIs
<1>2. QED
  BY <1>1, ConcatEmptySeq

LEMMA JoinOne ==
  ASSUME NEW s, IsList(s), NEW x
  PROVE  s \o <<x>> = Append(s, x)
<1>1. s \in Seq(Items(s) \cup {x}) /\ x \in Items(s) \cup {x}
  BY ListIs
<1> DEFINE S == Items(s) \cup {x}
<1> HIDE DEF S
<1>2. s \in Seq(S) /\ x \in S
  BY <1>1 DEF S
<1>3. QED
  BY <1>2

LEMMA JoinThree ==
  ASSUME NEW s, IsList(s), NEW t, IsList(t), NEW u, IsList(u)
  PROVE  (s \o t) \o u = s \o (t \o u)
<1> DEFINE S == Items(s) \cup Items(t) \cup Items(u)
<1>1. s \in Seq(S) /\ t \in Seq(S) /\ u \in Seq(S)
  BY ListIs
<1> HIDE DEF S
<1>2. QED
  BY <1>1, ConcatAssociative

-----------------------------------------------------------------------------
(* Lists put together.                                                         *)

\* Lists that agree up to n items fold to the same up to there.
LEMMA FoldSame ==
  ASSUME NEW which, NEW base, NEW extra, NEW s, Len(s) \in Nat, NEW t, Len(t) \in Nat,
         NEW n \in Nat, n <= Len(s), n <= Len(t), \A i \in 1..n : s[i] = t[i]
  PROVE  FoldTo(which, base, s, extra, n) = FoldTo(which, base, t, extra, n)
<1> DEFINE f(k) == FoldTo(which, base, s, extra, k)
           g(k) == FoldTo(which, base, t, extra, k)
           T == {k \in 0..n : f(k) = g(k)}
<1>0. FoldRule(which, base, s, extra) /\ FoldRule(which, base, t, extra)
  BY FoldSteps
<1>1. f(0) = base /\ g(0) = base
  BY <1>0 DEF FoldRule
<1>2. \A k \in 1..n : k \in 1..Len(s) /\ k \in 1..Len(t)
  OBVIOUS
<1>3. \A k \in 1..n : f(k) = Merge(which, f(k - 1), s[k], extra) /\ g(k) = Merge(which, g(k - 1), t[k], extra)
  BY <1>0, <1>2 DEF FoldRule
<1> HIDE DEF f, g
<1>4. \A k \in 1..n : f(k - 1) = g(k - 1) => f(k) = g(k)
  BY <1>3
<1>5. 0 \in T /\ \A k \in 1..n : k - 1 \in T => k \in T
  BY <1>1, <1>4
<1>6. n \in T
  <2>1. \A k \in 0..n : k \in T
    BY <1>5, CountUp
  <2>2. QED
    BY <2>1
<1>7. QED
  BY <1>6 DEF f, g

Lists(seqs) == IsList(seqs) /\ \A i \in 1..Len(seqs) : IsList(seqs[i])

LEMMA ConcatNone == Concat(<<>>) = <<>>
<1>1. Len(<<>>) = 0 /\ Len(<<>>) \in Nat /\ DOMAIN <<>> = 1..Len(<<>>)
  OBVIOUS
<1>2. FoldRule("concat", <<>>, <<>>, 0)
  BY <1>1, FoldSteps
<1>3. FoldTo("concat", <<>>, <<>>, 0, 0) = <<>>
  BY <1>2 DEF FoldRule
<1>4. QED
  BY <1>1, <1>3, ConcatFold

LEMMA ConcatIsList ==
  ASSUME NEW seqs, Lists(seqs)
  PROVE  IsList(Concat(seqs))
<1> DEFINE n == Len(seqs)
           f(k) == FoldTo("concat", <<>>, seqs, 0, k)
           T == {k \in 0..n : IsList(f(k))}
<1>1. n \in Nat /\ DOMAIN seqs = 1..n /\ \A i \in 1..n : IsList(seqs[i])
  BY ListIs DEF Lists
<1>2. f(0) = <<>> /\ \A k \in 1..n : f(k) = Merge("concat", f(k - 1), seqs[k], 0)
  <2>1. FoldRule("concat", <<>>, seqs, 0)
    BY <1>1, FoldSteps
  <2>2. QED
    BY <2>1 DEF FoldRule
<1>3. Concat(seqs) = f(n)
  BY <1>1, ConcatFold
<1> HIDE DEF f, n
<1>4. \A k \in 1..n : f(k) = f(k - 1) \o seqs[k]
  BY <1>2 DEF Merge, Join
<1>5. IsList(f(0))
  BY <1>2, EmptyList
<1>6. \A k \in 1..n : IsList(f(k - 1)) => IsList(f(k))
  BY <1>1, <1>4, ListJoin
<1>7. 0 \in T /\ \A k \in 1..n : k - 1 \in T => k \in T
  BY <1>1, <1>5, <1>6
<1>8. \A k \in 0..n : k \in T
  BY <1>1, <1>7, CountUp
<1>9. n \in T
  BY <1>1, <1>8
<1>10. QED
  BY <1>3, <1>9

LEMMA ConcatAppend ==
  ASSUME NEW seqs, Lists(seqs), NEW s
  PROVE  Concat(Append(seqs, s)) = Concat(seqs) \o s
<1> DEFINE n == Len(seqs)
           more == Append(seqs, s)
           f(k) == FoldTo("concat", <<>>, seqs, 0, k)
           g(k) == FoldTo("concat", <<>>, more, 0, k)
<1>1. n \in Nat /\ DOMAIN seqs = 1..n
  BY ListIs DEF Lists
<1>2. /\ IsList(more) /\ Len(more) = n + 1 /\ more[n + 1] = s
      /\ \A i \in 1..n : more[i] = seqs[i]
  BY ListAppend DEF Lists
<1> HIDE DEF more
<1>3. DOMAIN more = 1..(n + 1)
  BY <1>2, ListIs
<1>4. Concat(seqs) = f(n)
  BY <1>1, ConcatFold
<1>5. Concat(more) = g(n + 1)
  BY <1>2, <1>3, ConcatFold
<1>6. g(n + 1) = Merge("concat", g(n), s, 0)
  <2>1. Len(more) \in Nat /\ n + 1 \in 1..Len(more) /\ (n + 1) - 1 = n
    BY <1>1, <1>2
  <2>2. FoldRule("concat", <<>>, more, 0)
    BY <2>1, FoldSteps
  <2>3. g(n + 1) = Merge("concat", g((n + 1) - 1), more[n + 1], 0)
    BY <2>1, <2>2 DEF FoldRule
  <2>4. QED
    BY <1>2, <2>1, <2>3
<1>7. g(n) = f(n)
  <2>1. Len(more) \in Nat /\ n <= Len(more) /\ n <= Len(seqs)
    BY <1>1, <1>2
  <2>2. QED
    BY <1>1, <1>2, <2>1, FoldSame
<1> HIDE DEF f, g, n
<1>8. QED
  BY <1>4, <1>5, <1>6, <1>7 DEF Merge, Join, more

-----------------------------------------------------------------------------
(* The answer data of a stream.                                                *)

DataList(D) == IsList(D) /\ \A i \in 1..Len(D) : DataTyped(D[i])

ChunkLists(D, k) == [i \in 1..k |-> ChunksOf(D[i])]

LEMMA ChunkListsTyped ==
  ASSUME NEW D, DataList(D), NEW k \in 0..Len(D)
  PROVE  Lists(ChunkLists(D, k)) /\ Len(ChunkLists(D, k)) = k
<1>1. Len(D) \in Nat
  BY DEF DataList, IsList
<1>2. \A i \in 1..k : i \in 1..Len(D)
  BY <1>1
<1>3. \A i \in 1..k : IsList(ChunksOf(D[i]))
  BY <1>2, EmptyList DEF DataList, DataTyped, ChunksOf
<1> DEFINE c == ChunkLists(D, k)
<1>4. k \in Nat /\ c = [i \in 1..k |-> ChunksOf(D[i])]
  BY <1>1 DEF ChunkLists
<1> HIDE DEF c
<1>5. Len(c) = k /\ c = [i \in 1..k |-> c[i]]
  BY <1>4
<1>6. IsList(c)
  BY <1>4, <1>5 DEF IsList
<1>7. QED
  BY <1>3, <1>4, <1>5, <1>6 DEF Lists, c

LEMMA ChunksGrow ==
  ASSUME NEW D, DataList(D), NEW d, DataTyped(d), NEW E, E = Append(D, d)
  PROVE  /\ \A k \in 0..Len(D) : ChunksUpTo(E, k) = ChunksUpTo(D, k)
         /\ ChunksUpTo(E, Len(D) + 1) = ChunksUpTo(D, Len(D)) \o ChunksOf(d)
         /\ IsList(ChunksUpTo(D, Len(D)))
<1> DEFINE n == Len(D)
<1>1. /\ n \in Nat /\ \A i \in 1..n : E[i] = D[i]
      /\ E[n + 1] = d
  BY ListAppend DEF DataList, IsList
<1>2. ASSUME NEW k \in 0..n
      PROVE  ChunkLists(E, k) = ChunkLists(D, k)
  <2>1. \A i \in 1..k : E[i] = D[i]
    BY <1>1
  <2>2. QED
    BY <2>1 DEF ChunkLists
<1>3. Lists(ChunkLists(D, n)) /\ Len(ChunkLists(D, n)) = n
  BY <1>1, ChunkListsTyped
<1>4. ChunkLists(E, n + 1) = Append(ChunkLists(D, n), ChunksOf(d))
  <2> DEFINE a == ChunkLists(E, n + 1)
             b == Append(ChunkLists(D, n), ChunksOf(d))
  <2>1. IsList(b) /\ Len(b) = n + 1 /\ b[n + 1] = ChunksOf(d) /\ \A i \in 1..n : b[i] = ChunkLists(D, n)[i]
    BY <1>3, ListAppend DEF Lists
  <2>2. \A i \in 1..n : b[i] = ChunksOf(E[i])
    BY <1>1, <2>1 DEF ChunkLists
  <2>3. a = [i \in 1..(n + 1) |-> ChunksOf(E[i])]
    BY DEF ChunkLists
  <2> HIDE DEF a, b, n
  <2>4. b = [i \in 1..(n + 1) |-> b[i]]
    BY <2>1 DEF IsList
  <2>5. \A i \in 1..(n + 1) : b[i] = ChunksOf(E[i])
    <3>1. \A i \in 1..(n + 1) : i \in 1..n \/ i = n + 1
      BY <1>1
    <3>2. QED
      BY <1>1, <2>1, <2>2, <3>1
  <2>6. a = b
    BY <2>3, <2>4, <2>5
  <2>7. QED
    BY <2>6 DEF a, b
<1>5. \A k : ChunksUpTo(E, k) = Concat(ChunkLists(E, k)) /\ ChunksUpTo(D, k) = Concat(ChunkLists(D, k))
  BY DEF ChunksUpTo, ChunkLists
<1> HIDE DEF n
<1>6. ChunksUpTo(E, n + 1) = Concat(ChunkLists(D, n)) \o ChunksOf(d)
  BY <1>3, <1>4, <1>5, ConcatAppend
<1>7. IsList(Concat(ChunkLists(D, n)))
  BY <1>3, ConcatIsList
<1>8. QED
  BY <1>2, <1>5, <1>6, <1>7 DEF n

\* The last datum settles the answer, or leaves it as it was.
LEMMA AnswerGrows ==
  ASSUME NEW D, DataList(D), NEW d, DataTyped(d), NEW E, E = Append(D, d)
  PROVE  ReferenceAnswer(E) = IF Settles(E, Len(D) + 1)
                              THEN IF d.answer # Absent THEN d.answer
                                   ELSE FlattenSeq(ChunksUpTo(E, Len(D) + 1))
                              ELSE ReferenceAnswer(D)
<1> DEFINE n == Len(D)
           K(F) == {k \in DOMAIN F : Settles(F, k)}
           last(S) == CHOOSE m \in S : \A j \in S : j <= m
<1>1. /\ n \in Nat /\ \A i \in 1..n : E[i] = D[i]
      /\ E[n + 1] = d /\ DOMAIN D = 1..n /\ DOMAIN E = 1..(n + 1)
  <2>1. IsList(D) /\ IsList(E) /\ Len(E) = n + 1 /\ E[n + 1] = d /\ \A i \in 1..n : E[i] = D[i]
    BY ListAppend DEF DataList
  <2>2. QED
    BY <2>1, ListIs
<1>2. \A k \in 1..n : ChunksUpTo(E, k) = ChunksUpTo(D, k)
  <2>1. \A k \in 0..n : ChunksUpTo(E, k) = ChunksUpTo(D, k)
    BY ChunksGrow
  <2>2. \A k \in 1..n : k \in 0..n
    BY <1>1
  <2>3. QED
    BY <2>1, <2>2
<1>3. \A k \in 1..n : Settles(E, k) <=> Settles(D, k)
  BY <1>1, <1>2 DEF Settles
<1>4. \A F : ReferenceAnswer(F) = IF K(F) = {} THEN <<>>
                                  ELSE IF F[last(K(F))].answer # Absent THEN F[last(K(F))].answer
                                  ELSE FlattenSeq(ChunksUpTo(F, last(K(F))))
  BY DEF ReferenceAnswer
<1>5. CASE Settles(E, n + 1)
  <2>1. n + 1 \in K(E) /\ \A j \in K(E) : j <= n + 1
    BY <1>1, <1>5
  <2>2. \A m \in K(E) : (\A j \in K(E) : j <= m) => m = n + 1
    BY <1>1, <2>1
  <2>3. last(K(E)) = n + 1
    BY <2>1, <2>2
  <2>4. K(E) # {}
    BY <2>1
  <2> HIDE DEF K, last, n
  <2>5. ReferenceAnswer(E) = IF E[n + 1].answer # Absent THEN E[n + 1].answer ELSE FlattenSeq(ChunksUpTo(E, n + 1))
    BY <1>4, <2>3, <2>4
  <2>6. QED
    BY <1>1, <1>5, <2>5 DEF n
<1>6. CASE ~Settles(E, n + 1)
  <2>1. K(E) = K(D)
    <3>1. \A k : k \in 1..(n + 1) <=> k \in 1..n \/ k = n + 1
      BY <1>1
    <3>2. \A k : k \in K(E) <=> k \in K(D)
      BY <1>1, <1>3, <1>6, <3>1
    <3>3. QED
      BY <3>2
  <2>2. CASE K(D) = {}
    <3>1. K(E) = {}
      BY <2>1, <2>2
    <3> HIDE DEF K, last
    <3>2. ReferenceAnswer(E) = <<>> /\ ReferenceAnswer(D) = <<>>
      BY <1>4, <2>2, <3>1
    <3>3. QED
      BY <1>6, <3>2
  <2>3. CASE K(D) # {}
    <3>1. last(K(D)) \in 1..n
      <4>1. K(D) \subseteq 1..n
        BY <1>1
      <4>2. PICK m \in K(D) : \A j \in K(D) : m >= j
        BY <1>1, <2>3, <4>1, GreatestOf
      <4>3. \A j \in K(D) : j <= m
        BY <1>1, <4>1, <4>2
      <4>4. last(K(D)) \in K(D)
        BY <4>3
      <4>5. QED
        BY <4>1, <4>4
    <3>2. E[last(K(D))] = D[last(K(D))] /\ ChunksUpTo(E, last(K(D))) = ChunksUpTo(D, last(K(D)))
      BY <1>1, <1>2, <3>1
    <3> HIDE DEF K, last
    <3>3. ReferenceAnswer(E) = ReferenceAnswer(D)
      BY <1>4, <2>1, <3>2
    <3>4. QED
      BY <1>6, <3>3
  <2>4. QED
    BY <2>2, <2>3
<1>7. QED
  BY <1>5, <1>6

-----------------------------------------------------------------------------
(* The citations of a list of results.                                         *)

Ordered(cs) == \A i, j \in DOMAIN cs : i < j => cs[i].index < cs[j].index

Numbered(cs, k) == IsList(cs) /\ Ordered(cs) /\ \A i \in 1..Len(cs) : cs[i].index \in 1..k

LEMMA NextCitation ==
  ASSUME NEW k \in Nat \ {0}, NEW cs, Numbered(cs, k - 1), NEW results
  PROVE  Numbered(Cite(cs, k, results), k)
<1>1. /\ IsList(cs) /\ Len(cs) \in Nat /\ DOMAIN cs = 1..Len(cs)
      /\ \A i, j \in 1..Len(cs) : i < j => cs[i].index < cs[j].index
      /\ \A i \in 1..Len(cs) : cs[i].index \in 1..(k - 1)
  BY ListIs DEF Numbered, Ordered
<1>2. \A x : x \in 1..(k - 1) => x \in 1..k /\ x < k
  OBVIOUS
<1>3. CASE results[k] = Absent
  BY <1>1, <1>2, <1>3 DEF Cite, Numbered, Ordered
<1>4. CASE results[k] # Absent
  <2> DEFINE n == Len(cs)
             x == [index |-> k, url |-> results[k]]
             more == Append(cs, x)
  <2>1. /\ IsList(more) /\ Len(more) = n + 1 /\ more[n + 1] = x
        /\ \A i \in 1..n : more[i] = cs[i]
    BY <1>1, ListAppend
  <2>2. Cite(cs, k, results) = more
    BY <1>4 DEF Cite
  <2>3. x.index = k
    OBVIOUS
  <2> HIDE DEF more, x
  <2>4. DOMAIN more = 1..(n + 1)
    BY <2>1, ListIs
  <2>5. n \in Nat
    BY <1>1
  <2> HIDE DEF n
  <2>6. \A i \in 1..(n + 1) : i \in 1..n \/ i = n + 1
    BY <2>5
  <2>7. \A i \in 1..n : more[i].index \in 1..k /\ more[i].index < k
    BY <1>1, <1>2, <2>1 DEF n
  <2>8. more[n + 1].index = k /\ k \in 1..k
    BY <2>1, <2>3
  <2>9. \A i \in 1..(n + 1) : more[i].index \in 1..k
    BY <2>6, <2>7, <2>8
  <2>10. ASSUME NEW i \in 1..(n + 1), NEW j \in 1..(n + 1), i < j
         PROVE  more[i].index < more[j].index
    <3>1. i \in 1..n
      BY <2>5, <2>10
    <3>2. CASE j \in 1..n
      <4>1. cs[i].index < cs[j].index
        BY <1>1, <2>10, <3>1, <3>2 DEF n
      <4>2. more[i] = cs[i] /\ more[j] = cs[j]
        BY <2>1, <3>1, <3>2
      <4>3. QED
        BY <4>1, <4>2
    <3>3. CASE j = n + 1
      BY <2>7, <2>8, <3>1, <3>3
    <3>4. QED
      BY <2>6, <3>2, <3>3
  <2>11. Ordered(more)
    BY <2>4, <2>10 DEF Ordered
  <2>12. QED
    BY <2>1, <2>2, <2>9, <2>11 DEF Numbered
<1>5. QED
  BY <1>3, <1>4

\* The numbers of the citations grow, also over items that were skipped.
LEMMA CitationsOrdered ==
  ASSUME NEW results, IsList(results)
  PROVE  Ordered(citationsOf(results))
<1> DEFINE n == Len(results)
           index == [i \in 1..n |-> i]
           f(k) == FoldTo("citation", <<>>, index, results, k)
           T == {k \in 0..n : Numbered(f(k), k)}
<1>1. n \in Nat /\ DOMAIN results = 1..n
  BY ListIs
<1>2. Len(index) = n /\ \A k \in 1..n : index[k] = k
  BY <1>1
<1>3. citationsOf(results) = f(n)
  BY <1>1, CitationsFold
<1> HIDE DEF index
<1>4. FoldRule("citation", <<>>, index, results)
  BY <1>1, <1>2, FoldSteps
<1>5. f(0) = <<>> /\ \A k \in 1..n : f(k) = Merge("citation", f(k - 1), k, results)
  BY <1>2, <1>4 DEF FoldRule
<1> HIDE DEF f, n
<1>6. \A k \in 1..n : f(k) = Cite(f(k - 1), k, results)
  BY <1>5 DEF Merge
<1>7. Numbered(f(0), 0)
  BY <1>5, EmptyList DEF Numbered, Ordered
<1>8. \A k \in 1..n : Numbered(f(k - 1), k - 1) => Numbered(f(k), k)
  BY <1>1, <1>6, NextCitation
<1>9. 0 \in T /\ \A k \in 1..n : k - 1 \in T => k \in T
  BY <1>1, <1>7, <1>8
<1>10. \A k \in 0..n : k \in T
  BY <1>1, <1>9, CountUp
<1>11. n \in T
  BY <1>1, <1>10
<1>12. QED
  BY <1>3, <1>11 DEF Numbered

-----------------------------------------------------------------------------
(* One frame folded into the content.                                          *)

\* Content c is what the data D make of it; its citations are in order, and some
\* when there have been some.
Folded(c, D, cited) ==
  /\ DOMAIN c = Fields
  /\ c.chunks = ChunksUpTo(D, Len(D))
  /\ c.answer = ReferenceAnswer(D)
  /\ Ordered(c.citations)
  /\ cited => c.citations # <<>>

LEMMA AbsorbResults ==
  ASSUME NEW c, DOMAIN c = Fields, Ordered(c.citations), NEW results, results = Absent \/ IsList(results)
  PROVE  LET n == absorbResults(c, results)
         IN  /\ DOMAIN n = Fields /\ n.chunks = c.chunks /\ n.answer = c.answer
             /\ Ordered(n.citations) /\ (c.citations # <<>> => n.citations # <<>>)
<1>1. CASE results = Absent \/ citationsOf(results) = <<>>
  BY <1>1 DEF absorbResults
<1>2. CASE ~(results = Absent \/ citationsOf(results) = <<>>)
  <2> DEFINE cs == citationsOf(results)
             n == [c EXCEPT !.citations = cs]
  <2>1. absorbResults(c, results) = n
    BY <1>2 DEF absorbResults
  <2>2. Ordered(cs) /\ cs # <<>>
    BY <1>2, CitationsOrdered
  <2> HIDE DEF cs
  <2>3. DOMAIN n = Fields /\ n.chunks = c.chunks /\ n.answer = c.answer /\ n.citations = cs
    BY DEF Fields
  <2>4. QED
    BY <2>1, <2>2, <2>3
<1>3. QED
  BY <1>1, <1>2

LEMMA FoldResults ==
  ASSUME NEW c, NEW D, NEW cited, Folded(c, D, cited), NEW results, results = Absent \/ IsList(results)
  PROVE  Folded(absorbResults(c, results), D, cited)
<1> DEFINE n == absorbResults(c, results)
<1>1. DOMAIN c = Fields /\ Ordered(c.citations)
  BY DEF Folded
<1>2. /\ DOMAIN n = Fields /\ n.chunks = c.chunks /\ n.answer = c.answer
      /\ Ordered(n.citations) /\ (c.citations # <<>> => n.citations # <<>>)
  BY <1>1, AbsorbResults
<1> HIDE DEF n
<1>3. QED
  BY <1>2 DEF Folded, n

\* A change to the title or to the deltas leaves the rest alone.
LEMMA FoldOther ==
  ASSUME NEW c, NEW D, NEW cited, Folded(c, D, cited), NEW x
  PROVE  Folded([c EXCEPT !.title = x], D, cited) /\ Folded([c EXCEPT !.deltas = x], D, cited)
<1>1. DOMAIN c = Fields
  BY DEF Folded
<1>2. LET n == [c EXCEPT !.title = x]
      IN  DOMAIN n = Fields /\ n.chunks = c.chunks /\ n.answer = c.answer /\ n.citations = c.citations
  BY <1>1 DEF Fields
<1>3. LET n == [c EXCEPT !.deltas = x]
      IN  DOMAIN n = Fields /\ n.chunks = c.chunks /\ n.answer = c.answer /\ n.citations = c.citations
  BY <1>1 DEF Fields
<1>4. QED
  BY <1>2, <1>3 DEF Folded

LEMMA FoldData ==
  ASSUME NEW c, NEW D, DataList(D), NEW cited, Folded(c, D, cited), NEW d, DataTyped(d),
         NEW E, E = Append(D, d)
  PROVE  DataList(E) /\ Folded(absorbAnswerData(c, d), E, cited)
<1> DEFINE n == Len(D)
           r == absorbResults(c, d.results)
           chunks == IF d.chunks = Absent THEN c.chunks ELSE c.chunks \o d.chunks
           joined == d.chunks # Absent /\ d.answer = Absent /\ chunks # <<>>
           a == absorbAnswerData(c, d)
           next == IF joined THEN FlattenSeq(chunks) ELSE Latest(d.answer, c.answer)
<1>1. IsList(E) /\ Len(E) = n + 1 /\ n \in Nat /\ E[n + 1] = d /\ \A i \in 1..n : E[i] = D[i]
  BY ListAppend DEF DataList, IsList
<1>2. DataList(E)
  <2>1. \A i \in 1..(n + 1) : i \in 1..n \/ i = n + 1
    BY <1>1
  <2>2. \A i \in 1..n : DataTyped(D[i])
    BY DEF DataList
  <2>3. \A i \in 1..(n + 1) : DataTyped(E[i])
    BY <1>1, <2>1, <2>2
  <2>4. QED
    BY <1>1, <2>3 DEF DataList
<1>3. Folded(r, D, cited)
  BY FoldResults DEF DataTyped
<1>4. c.chunks = ChunksUpTo(D, n) /\ c.answer = ReferenceAnswer(D)
  BY DEF Folded
<1>5. /\ ChunksUpTo(E, n + 1) = ChunksUpTo(D, n) \o ChunksOf(d)
      /\ IsList(ChunksUpTo(D, n))
  BY ChunksGrow
<1>6. chunks = ChunksUpTo(E, n + 1)
  <2>1. CASE d.chunks = Absent
    <3>1. ChunksUpTo(E, n + 1) = ChunksUpTo(D, n) \o <<>>
      BY <1>5, <2>1 DEF ChunksOf
    <3>2. QED
      BY <1>4, <1>5, <2>1, <3>1, JoinEmpty
  <2>2. CASE d.chunks # Absent
    BY <1>4, <1>5, <2>2 DEF ChunksOf
  <2>3. QED
    BY <2>1, <2>2
<1>7. Settles(E, n + 1) <=> d.answer # Absent \/ (d.chunks # Absent /\ chunks # <<>>)
  <2>1. Settles(E, n + 1) <=> d.answer # Absent \/ (d.chunks # Absent /\ ChunksUpTo(E, n + 1) # <<>>)
    BY <1>1 DEF Settles
  <2> HIDE DEF chunks
  <2>2. QED
    BY <1>6, <2>1
<1>8. ReferenceAnswer(E) = IF Settles(E, n + 1)
                           THEN IF d.answer # Absent THEN d.answer ELSE FlattenSeq(chunks)
                           ELSE ReferenceAnswer(D)
  BY <1>6, AnswerGrows
<1>9. /\ DOMAIN a = Fields /\ a.chunks = chunks /\ a.answer = next /\ a.citations = r.citations
  <2>1. DOMAIN r = Fields
    BY <1>3 DEF Folded
  <2>2. a = [r EXCEPT !.chunks = chunks, !.answer = next, !.title = Latest(d.title, c.title)]
    BY DEF absorbAnswerData
  <2> HIDE DEF a, r, chunks, next
  <2>3. QED
    BY <2>1, <2>2 DEF Fields
<1>10. next = ReferenceAnswer(E)
  <2> HIDE DEF chunks, n
  <2>1. CASE d.answer # Absent
    <3>1. next = d.answer
      BY <2>1 DEF Latest
    <3> HIDE DEF next, joined
    <3>2. Settles(E, n + 1)
      BY <1>7, <2>1
    <3>3. ReferenceAnswer(E) = d.answer
      BY <1>8, <2>1, <3>2
    <3>4. QED
      BY <3>1, <3>3
  <2>2. CASE d.answer = Absent /\ joined
    BY <1>7, <1>8, <2>2
  <2>3. CASE d.answer = Absent /\ ~joined
    BY <1>4, <1>7, <1>8, <2>3 DEF Latest
  <2>4. QED
    BY <2>1, <2>2, <2>3
<1> HIDE DEF a, r, chunks, next, n
<1>11. Folded(a, E, cited)
  BY <1>1, <1>3, <1>6, <1>9, <1>10 DEF Folded
<1>12. QED
  BY <1>2, <1>11 DEF a

\* What a body brings is D more data.
BlockTyped(b) == b.data = Absent \/ DataTyped(b.data)

LEMMA FoldBlock ==
  ASSUME NEW c, NEW D, DataList(D), NEW cited, Folded(c, D, cited), NEW b, BlockTyped(b), NEW streaming,
         NEW E, E = D \o DataOfBlock(b)
  PROVE  DataList(E) /\ Folded(absorbBlock(c, b, streaming), E, cited)
<1>0. IsList(D)
  BY DEF DataList
<1>1. CASE b.usage = "ask_text" /\ b.data # Absent
  <2> DEFINE e == emitChunkDeltas(c, b.data, streaming)
  <2>1. Folded(e, D, cited)
    BY FoldOther DEF emitChunkDeltas
  <2>2. E = Append(D, b.data)
    BY <1>0, <1>1, JoinOne DEF DataOfBlock
  <2>3. DataTyped(b.data)
    BY <1>1 DEF BlockTyped
  <2>4. absorbBlock(c, b, streaming) = absorbAnswerData(e, b.data)
    BY <1>1 DEF absorbBlock
  <2> HIDE DEF e
  <2>5. QED
    BY <2>1, <2>2, <2>3, <2>4, FoldData
<1>2. CASE ~(b.usage = "ask_text" /\ b.data # Absent)
  <2>1. E = D
    BY <1>0, <1>2, JoinEmpty DEF DataOfBlock
  <2>2. CASE b.data # Absent /\ b.usage = "web_results"
    <3>1. b.data.results = Absent \/ IsList(b.data.results)
      BY <2>2 DEF BlockTyped, DataTyped
    <3>2. absorbBlock(c, b, streaming) = absorbResults(c, b.data.results)
      BY <2>2 DEF absorbBlock
    <3>3. QED
      BY <2>1, <3>1, <3>2, FoldResults
  <2>3. CASE ~(b.data # Absent /\ b.usage = "web_results")
    <3>1. absorbBlock(c, b, streaming) = c
      BY <1>2, <2>3 DEF absorbBlock
    <3>2. QED
      BY <2>1, <3>1
  <2>4. QED
    BY <2>2, <2>3
<1>3. QED
  BY <1>1, <1>2

Contributions(blocks) == [i \in DOMAIN blocks |-> DataOfBlock(blocks[i])]

LEMMA ContributionLists ==
  ASSUME NEW blocks, IsList(blocks)
  PROVE  /\ Lists(Contributions(blocks)) /\ Len(Contributions(blocks)) = Len(blocks)
         /\ \A i \in 1..Len(blocks) : Contributions(blocks)[i] = DataOfBlock(blocks[i])
<1> DEFINE n == Len(blocks)
           s == Contributions(blocks)
<1>1. n \in Nat /\ DOMAIN blocks = 1..n
  BY ListIs
<1>2. s = [i \in 1..n |-> DataOfBlock(blocks[i])]
  BY <1>1 DEF Contributions
<1>3. \A i \in 1..n : IsList(DataOfBlock(blocks[i]))
  BY EmptyList, OneItem DEF DataOfBlock
<1> HIDE DEF s, n
<1>4. Len(s) = n /\ \A i \in 1..n : s[i] = DataOfBlock(blocks[i])
  BY <1>1, <1>2
<1>5. s = [i \in 1..n |-> s[i]]
  BY <1>2, <1>4
<1>6. IsList(s)
  BY <1>1, <1>4, <1>5 DEF IsList
<1>7. QED
  BY <1>3, <1>4, <1>6 DEF Lists, n, s

LEMMA FoldBlocks ==
  ASSUME NEW c, NEW D, DataList(D), NEW cited, Folded(c, D, cited),
         NEW blocks, IsList(blocks), \A i \in 1..Len(blocks) : BlockTyped(blocks[i]), NEW streaming,
         NEW E, E = D \o Concat(Contributions(blocks))
  PROVE  DataList(E) /\ Folded(absorbBlocks(c, blocks, streaming), E, cited)
<1> DEFINE n == Len(blocks)
           s == Contributions(blocks)
           f(k) == FoldTo("block", c, blocks, streaming, k)
           g(k) == FoldTo("concat", <<>>, s, 0, k)
           Done(k) == IsList(g(k)) /\ DataList(D \o g(k)) /\ Folded(f(k), D \o g(k), cited)
           T == {k \in 0..n : Done(k)}
<1>1. n \in Nat /\ DOMAIN blocks = 1..n
  BY ListIs
<1>2. Lists(s) /\ Len(s) = n /\ \A i \in 1..n : s[i] = DataOfBlock(blocks[i])
  BY ContributionLists
<1> HIDE DEF s
<1>3. DOMAIN s = 1..n /\ \A i \in 1..n : IsList(DataOfBlock(blocks[i]))
  BY <1>2, ListIs DEF Lists
<1>4. f(0) = c /\ \A k \in 1..n : f(k) = Merge("block", f(k - 1), blocks[k], streaming)
  <2>1. FoldRule("block", c, blocks, streaming)
    BY <1>1, FoldSteps
  <2>2. QED
    BY <2>1 DEF FoldRule
<1>5. g(0) = <<>> /\ \A k \in 1..n : g(k) = Merge("concat", g(k - 1), s[k], 0)
  <2>1. FoldRule("concat", <<>>, s, 0)
    BY <1>1, <1>2, FoldSteps
  <2>2. QED
    BY <1>2, <2>1 DEF FoldRule
<1>6. absorbBlocks(c, blocks, streaming) = f(n)
  BY <1>1, BlocksFold
<1>7. Concat(s) = g(n)
  BY <1>1, <1>2, <1>3, ConcatFold
<1> HIDE DEF f, g, n
<1>8. ASSUME NEW k \in 1..n
      PROVE  f(k) = absorbBlock(f(k - 1), blocks[k], streaming) /\ g(k) = g(k - 1) \o DataOfBlock(blocks[k])
  <2>1. Merge("block", f(k - 1), blocks[k], streaming) = absorbBlock(f(k - 1), blocks[k], streaming)
    BY DEF Merge
  <2>2. Merge("concat", g(k - 1), s[k], 0) = g(k - 1) \o s[k]
    BY DEF Merge, Join
  <2>3. QED
    BY <1>2, <1>4, <1>5, <2>1, <2>2
<1>9. Done(0)
  <2>1. IsList(D)
    BY DEF DataList
  <2>2. D \o <<>> = D
    BY <2>1, JoinEmpty
  <2>3. QED
    BY <1>4, <1>5, <2>2, EmptyList
<1>10. ASSUME NEW k \in 1..n, Done(k - 1)
       PROVE  Done(k)
  <2> DEFINE b == blocks[k]
             u == DataOfBlock(b)
             h == g(k - 1)
             F == D \o h
  <2>1. IsList(D) /\ IsList(h) /\ IsList(u)
    BY <1>3, <1>10 DEF DataList
  <2>2. g(k) = h \o u /\ IsList(g(k))
    BY <1>8, <2>1, ListJoin
  <2>3. D \o g(k) = F \o u
    <3> HIDE DEF h, u
    <3>1. (D \o h) \o u = D \o (h \o u)
      BY <2>1, JoinThree
    <3>2. QED
      BY <2>2, <3>1
  <2>4. BlockTyped(b)
    BY DEF n
  <2>5. DataList(F) /\ Folded(f(k - 1), F, cited)
    BY <1>10
  <2>6. f(k) = absorbBlock(f(k - 1), b, streaming)
    BY <1>8
  <2> HIDE DEF F, b
  <2>7. DataList(D \o g(k)) /\ Folded(absorbBlock(f(k - 1), b, streaming), D \o g(k), cited)
    BY <2>3, <2>4, <2>5, FoldBlock
  <2>8. QED
    BY <2>2, <2>6, <2>7
<1> HIDE DEF Done
<1>11. 0 \in T /\ \A k \in 1..n : k - 1 \in T => k \in T
  BY <1>1, <1>9, <1>10
<1>12. \A k \in 0..n : k \in T
  BY <1>1, <1>11, CountUp
<1>13. Done(n)
  BY <1>1, <1>12
<1>14. QED
  BY <1>6, <1>7, <1>13 DEF Done, s

StepsTyped(steps) ==
  /\ IsList(steps)
  /\ \A i \in 1..Len(steps) : /\ BlockTyped(steps[i])
                              /\ steps[i].type \in {"RESEARCH_CLARIFYING_QUESTIONS", "FINAL", "other"}

LEMMA FoldStepList ==
  ASSUME NEW c, NEW D, DataList(D), NEW cited, Folded(c, D, cited), NEW steps, StepsTyped(steps),
         NEW E, E = D \o DataOfSteps(steps)
  PROVE  DataList(E) /\ Folded(absorbSteps(c, steps), E, cited)
<1> DEFINE ends == {i \in DOMAIN steps : steps[i].type # "other"}
           I == {i \in 1..Len(steps) : steps[i].type \in {"RESEARCH_CLARIFYING_QUESTIONS", "FINAL"}}
           m == CHOOSE x \in ends : \A y \in ends : x =< y
           first == steps[m]
           counts == ends # {} /\ first.type = "FINAL" /\ first.data # Absent
<1>1. DOMAIN steps = 1..Len(steps) /\ Len(steps) \in Nat
  BY ListIs DEF StepsTyped
<1>2. I = ends
  BY <1>1 DEF StepsTyped
<1>3. endingStep(steps) = IF I # {} THEN CHOOSE x \in I : \A y \in I : x =< y ELSE 0
  BY DEF endingStep, SelectInSeq, Min
<1>4. DataOfSteps(steps) = IF counts THEN <<first.data>> ELSE <<>>
  BY DEF DataOfSteps, Min
<1> HIDE DEF I
<1>5. endingStep(steps) = IF ends # {} THEN m ELSE 0
  BY <1>2, <1>3
<1>6. ends # {} => m \in 1..Len(steps)
  <2> SUFFICES ASSUME ends # {} PROVE m \in 1..Len(steps)
    OBVIOUS
  <2>1. ends \subseteq Nat /\ ends \subseteq 1..Len(steps)
    BY <1>1
  <2>2. \E x \in ends : \A y \in ends : x =< y
    BY <2>1, SmallestOf
  <2>3. m \in ends
    BY <2>2
  <2>4. QED
    BY <2>1, <2>3
<1> HIDE DEF ends, m
<1>7. absorbSteps(c, steps) = IF counts THEN absorbAnswerData(c, first.data) ELSE c
  <2>1. CASE ends = {}
    BY <1>5, <2>1 DEF absorbSteps
  <2>2. CASE ends # {}
    <3>1. endingStep(steps) = m /\ m # 0
      BY <1>1, <1>5, <1>6, <2>2
    <3>2. QED
      BY <2>2, <3>1 DEF absorbSteps
  <2>3. QED
    BY <2>1, <2>2
<1>8. IsList(D)
  BY DEF DataList
<1>9. CASE counts
  <2>1. E = Append(D, first.data)
    BY <1>4, <1>8, <1>9, JoinOne
  <2>2. DataTyped(first.data)
    BY <1>6, <1>9 DEF StepsTyped, BlockTyped
  <2>3. QED
    BY <1>7, <1>9, <2>1, <2>2, FoldData
<1>10. CASE ~counts
  <2>1. E = D
    BY <1>4, <1>8, <1>10, JoinEmpty
  <2>2. QED
    BY <1>7, <1>10, <2>1
<1>11. QED
  BY <1>9, <1>10

\* The data of a frame as it is decoded are a list.
LEMMA FrameData ==
  ASSUME NEW f, FrameTyped(f)
  PROVE  IsList(DataOf(f))
<1>1. CASE f.rateLimited \/ f.final
  BY <1>1, EmptyList DEF DataOf
<1>2. CASE ~(f.rateLimited \/ f.final) /\ f.body.kind = "object"
  <2>1. DataOf(f) = <<f.body.data>>
    BY <1>2 DEF DataOf
  <2>2. QED
    BY <2>1, OneItem
<1>3. CASE ~(f.rateLimited \/ f.final) /\ f.body.kind = "blocks"
  <2>1. DataOf(f) = Concat(Contributions(f.body.blocks))
    BY <1>3 DEF DataOf, Contributions
  <2>2. IsList(f.body.blocks)
    BY <1>3 DEF FrameTyped, ItemsTyped
  <2>3. QED
    BY <2>1, <2>2, ContributionLists, ConcatIsList
<1>4. CASE ~(f.rateLimited \/ f.final) /\ f.body.kind = "steps"
  <2>1. DataOf(f) = DataOfSteps(f.body.steps)
    BY <1>4 DEF DataOf
  <2>2. QED
    BY <2>1, EmptyList, OneItem DEF DataOfSteps
<1>5. CASE ~(f.rateLimited \/ f.final) /\ f.body.kind = "other"
  BY <1>5, EmptyList DEF DataOf
<1>6. QED
  BY <1>1, <1>2, <1>3, <1>4, <1>5 DEF FrameTyped

LEMMA FoldBody ==
  ASSUME NEW c, NEW D, DataList(D), NEW cited, Folded(c, D, cited), NEW f, FrameTyped(f),
         ~f.rateLimited, ~f.final, NEW streaming, NEW E, E = D \o DataOf(f)
  PROVE  DataList(E) /\ Folded(absorbBody(c, f.body, streaming), E, cited)
<1>0. IsList(D)
  BY DEF DataList
<1>1. CASE f.body.kind = "object"
  <2>1. DataOf(f) = <<f.body.data>> /\ DataTyped(f.body.data)
    BY <1>1 DEF DataOf, FrameTyped
  <2>2. E = Append(D, f.body.data)
    BY <1>0, <2>1, JoinOne
  <2>3. absorbBody(c, f.body, streaming) = absorbAnswerData(c, f.body.data)
    BY <1>1 DEF absorbBody
  <2>4. QED
    BY <2>1, <2>2, <2>3, FoldData
<1>2. CASE f.body.kind = "blocks"
  <2> DEFINE blocks == f.body.blocks
  <2>1. DataOf(f) = Concat(Contributions(blocks))
    BY <1>2 DEF DataOf, Contributions
  <2>2. IsList(blocks) /\ \A i \in DOMAIN blocks : blocks[i].data = Absent \/ DataTyped(blocks[i].data)
    BY <1>2 DEF FrameTyped, ItemsTyped
  <2>3. absorbBody(c, f.body, streaming) = absorbBlocks(c, blocks, streaming)
    BY <1>2 DEF absorbBody
  <2> HIDE DEF blocks
  <2>4. DOMAIN blocks = 1..Len(blocks)
    BY <2>2, ListIs
  <2>5. \A i \in 1..Len(blocks) : BlockTyped(blocks[i])
    BY <2>2, <2>4 DEF BlockTyped
  <2>6. QED
    BY <2>1, <2>2, <2>3, <2>5, FoldBlocks
<1>3. CASE f.body.kind = "steps"
  <2> DEFINE steps == f.body.steps
  <2>1. DataOf(f) = DataOfSteps(steps)
    BY <1>3 DEF DataOf
  <2>2. /\ IsList(steps) /\ \A i \in DOMAIN steps : steps[i].data = Absent \/ DataTyped(steps[i].data)
        /\ \A i \in DOMAIN steps : steps[i].type \in {"RESEARCH_CLARIFYING_QUESTIONS", "FINAL", "other"}
    BY <1>3 DEF FrameTyped, ItemsTyped
  <2>3. absorbBody(c, f.body, streaming) = absorbSteps(c, steps)
    BY <1>3 DEF absorbBody
  <2> HIDE DEF steps
  <2>4. DOMAIN steps = 1..Len(steps)
    BY <2>2, ListIs
  <2>5. StepsTyped(steps)
    BY <2>2, <2>4 DEF StepsTyped, BlockTyped
  <2>6. QED
    BY <2>1, <2>3, <2>5, FoldStepList
<1>4. CASE f.body.kind = "other"
  <2>1. DataOf(f) = <<>>
    BY <1>4 DEF DataOf
  <2>2. E = D
    BY <1>0, <2>1, JoinEmpty
  <2>3. absorbBody(c, f.body, streaming) = c
    BY <1>4 DEF absorbBody
  <2>4. QED
    BY <2>2, <2>3
<1>5. QED
  BY <1>1, <1>2, <1>3, <1>4 DEF FrameTyped

LEMMA FoldFrame ==
  ASSUME NEW s, NEW D, DataList(D), NEW cited, Folded(s.content, D, cited), NEW f, FrameTyped(f),
         NEW streaming, NEW E, E = D \o DataOf(f)
  PROVE  DataList(E) /\ Folded(processData(s, f, streaming).content, E, cited)
<1> DEFINE t == [s.content EXCEPT !.title = Latest(f.title, @)]
<1>0. IsList(D)
  BY DEF DataList
<1>1. Folded(t, D, cited)
  <2> DEFINE c == s.content
             x == Latest(f.title, c.title)
  <2>1. t = [c EXCEPT !.title = x]
    OBVIOUS
  <2> HIDE DEF c, x, t
  <2>2. Folded(c, D, cited)
    BY DEF c
  <2>3. QED
    BY <2>1, <2>2, FoldOther
<1>2. CASE f.rateLimited \/ f.final
  <2>1. DataOf(f) = <<>>
    BY <1>2 DEF DataOf
  <2>2. E = D
    BY <1>0, <2>1, JoinEmpty
  <2>3. processData(s, f, streaming).content = IF f.rateLimited THEN s.content ELSE t
    BY <1>2 DEF processData
  <2> HIDE DEF t
  <2>4. QED
    BY <1>1, <2>2, <2>3
<1>3. CASE ~(f.rateLimited \/ f.final)
  <2>1. processData(s, f, streaming).content = absorbBody(t, f.body, streaming)
    BY <1>3 DEF processData
  <2> HIDE DEF t
  <2>2. DataList(E) /\ Folded(absorbBody(t, f.body, streaming), E, cited)
    BY <1>1, <1>3, FoldBody
  <2>3. QED
    BY <2>1, <2>2
<1>4. QED
  BY <1>2, <1>3

-----------------------------------------------------------------------------
(* The stream, whatever frames the server sends.                               *)

Received(h) == [i \in DOMAIN h |-> DataOf(h[i])]

StreamInv ==
  /\ IsList(hist) /\ Lists(Received(hist))
  /\ DataList(AllData)
  /\ Folded(st.content, AllData, FALSE)

\* What a step does to the citations.
CitationsKept ==
  /\ st.content.citations # <<>> => st'.content.citations # <<>>
  /\ Ordered(st'.content.citations)

LEMMA MoreReceived ==
  ASSUME NEW h, IsList(h), Lists(Received(h)), NEW f, FrameTyped(f), NEW g, g = Append(h, f)
  PROVE  /\ IsList(g) /\ Lists(Received(g))
         /\ Concat(Received(g)) = Concat(Received(h)) \o DataOf(f)
<1> DEFINE n == Len(h)
           r == Received(h)
           a == Append(r, DataOf(f))
           b == Received(g)
<1>1. /\ n \in Nat /\ DOMAIN h = 1..n
      /\ IsList(g) /\ Len(g) = n + 1 /\ g[n + 1] = f /\ \A i \in 1..n : g[i] = h[i]
  BY ListIs, ListAppend
<1>2. DOMAIN g = 1..(n + 1)
  BY <1>1, ListIs
<1>3. r = [i \in 1..n |-> DataOf(h[i])] /\ b = [i \in 1..(n + 1) |-> DataOf(g[i])]
  BY <1>1, <1>2 DEF Received
<1> HIDE DEF n, r, b
<1>4. Len(r) = n /\ \A i \in 1..n : r[i] = DataOf(h[i])
  BY <1>1, <1>3
<1>5. Lists(r)
  BY DEF r
<1>6. /\ IsList(a) /\ Len(a) = n + 1 /\ a[n + 1] = DataOf(f)
      /\ \A i \in 1..n : a[i] = r[i]
  BY <1>4, <1>5, ListAppend DEF Lists
<1> HIDE DEF a
<1>7. \A i \in 1..(n + 1) : i \in 1..n \/ i = n + 1
  BY <1>1
<1>8. \A i \in 1..(n + 1) : a[i] = DataOf(g[i])
  BY <1>1, <1>4, <1>6, <1>7
<1>9. a = b
  <2>1. a = [i \in 1..(n + 1) |-> a[i]]
    BY <1>6 DEF IsList
  <2>2. QED
    BY <1>3, <1>8, <2>1
<1>10. IsList(DataOf(f))
  BY FrameData
<1>11. \A i \in 1..(n + 1) : IsList(a[i])
  BY <1>4, <1>5, <1>6, <1>7, <1>10 DEF Lists
<1>12. Lists(a)
  BY <1>6, <1>11 DEF Lists
<1>13. Concat(a) = Concat(r) \o DataOf(f)
  BY <1>5, ConcatAppend DEF a
<1>14. QED
  BY <1>1, <1>9, <1>12, <1>13 DEF r, b

LEMMA ReceiveStep ==
  ASSUME StreamInv, NEW f, FrameTyped(f), Receive(f)
  PROVE  StreamInv' /\ CitationsKept
<1> DEFINE cited == st.content.citations # <<>>
<1>1. hist' = Append(hist, f) /\ st' = processData(st, f, Streaming)
  BY DEF Receive
<1>2. IsList(hist) /\ Lists(Received(hist)) /\ DataList(AllData) /\ Folded(st.content, AllData, cited)
  BY DEF StreamInv, Folded
<1>3. AllData = Concat(Received(hist)) /\ AllData' = Concat(Received(hist'))
  BY DEF AllData, Received
<1>4. /\ IsList(hist') /\ Lists(Received(hist'))
      /\ AllData' = AllData \o DataOf(f)
  BY <1>1, <1>2, <1>3, MoreReceived
<1> HIDE DEF cited
<1>5. DataList(AllData') /\ Folded(processData(st, f, Streaming).content, AllData', cited)
  BY <1>2, <1>4, FoldFrame
<1>6. Folded(st'.content, AllData', cited)
  BY <1>1, <1>5
<1>7. Folded(st'.content, AllData', FALSE)
  BY <1>6 DEF Folded
<1>8. CitationsKept
  BY <1>6 DEF Folded, CitationsKept, cited
<1>9. StreamInv'
  BY <1>4, <1>5, <1>7 DEF StreamInv
<1>10. QED
  BY <1>8, <1>9

LEMMA StreamStill ==
  ASSUME StreamInv, hist' = hist, st' = st
  PROVE  StreamInv' /\ CitationsKept
<1>1. AllData' = AllData
  BY DEF AllData
<1>2. QED
  BY <1>1 DEF StreamInv, CitationsKept, Folded

LEMMA StreamStart == Init => StreamInv
<1> SUFFICES ASSUME Init PROVE StreamInv
  OBVIOUS
<1>1. hist = <<>> /\ st.content = EmptyContent
  BY DEF Init
<1>2. IsList(hist) /\ Len(hist) = 0 /\ DOMAIN hist = {}
  BY <1>1, EmptyList
<1>3. Received(hist) = <<>>
  BY <1>2 DEF Received
<1>4. Lists(Received(hist))
  BY <1>3, EmptyList DEF Lists
<1>5. AllData = <<>>
  <2>1. AllData = Concat(Received(hist))
    BY DEF AllData, Received
  <2>2. QED
    BY <1>3, <2>1, ConcatNone
<1>6. DataList(AllData)
  BY <1>5, EmptyList DEF DataList
<1>7. Folded(EmptyContent, <<>>, FALSE)
  <2>1. ChunksUpTo(<<>>, 0) = <<>>
    <3>1. [i \in 1..0 |-> ChunksOf(<<>>[i])] = <<>>
      OBVIOUS
    <3>2. QED
      BY <3>1, ConcatNone DEF ChunksUpTo
  <2>2. ReferenceAnswer(<<>>) = <<>>
    BY DEF ReferenceAnswer
  <2>3. /\ DOMAIN EmptyContent = Fields /\ EmptyContent.answer = <<>> /\ EmptyContent.chunks = <<>>
        /\ EmptyContent.citations = <<>>
    BY DEF EmptyContent, Fields
  <2>4. QED
    BY <2>1, <2>2, <2>3, EmptyList DEF Folded, Ordered
<1>8. QED
  BY <1>1, <1>2, <1>4, <1>5, <1>6, <1>7 DEF StreamInv

\* The frames of the recorded server are frames, whatever Frames are.
LEMMA RecordedFrame ==
  ASSUME NEW shape \in {"blocks", "text"}, NEW d, DataTyped(d), NEW last \in BOOLEAN
  PROVE  FrameTyped(Bare(Wrap(shape, d))) /\ FrameTyped([Bare(Wrap(shape, d)) EXCEPT !.final = last])
<1> DEFINE b == [usage |-> "ask_text", data |-> d]
           told == Wrap(shape, d)
           f == Bare(told)
           g == [f EXCEPT !.final = last]
<1>1. f.body = told /\ g.body = told
  BY DEF Bare
<1>2. CASE shape = "text"
  <2>1. told.kind = "object" /\ told.data = d
    BY <1>2 DEF Wrap
  <2> HIDE DEF f, g, told
  <2>2. FrameTyped(f) /\ FrameTyped(g)
    BY <1>1, <2>1 DEF FrameTyped
  <2>3. QED
    BY <2>2 DEF f, g, told
<1>3. CASE shape = "blocks"
  <2>1. told.kind = "blocks" /\ told.blocks = <<b>>
    BY <1>3 DEF Wrap
  <2>2. b.data = d
    OBVIOUS
  <2> HIDE DEF f, g, told, b
  <2>3. IsList(<<b>>) /\ \A i \in DOMAIN <<b>> : <<b>>[i] = b
    BY OneItem
  <2>4. ItemsTyped(<<b>>)
    BY <2>2, <2>3 DEF ItemsTyped
  <2>5. FrameTyped(f) /\ FrameTyped(g)
    BY <1>1, <2>1, <2>4 DEF FrameTyped
  <2>6. QED
    BY <2>5 DEF f, g, told
<1>4. QED
  BY <1>2, <1>3

LEMMA PortionIsList ==
  ASSUME NEW i \in 1..(Len(Truth) + 1), NEW j \in 0..Len(Truth)
  PROVE  IsList(SubSeq(Truth, i, j)) /\ IsList(Truth)
<1> DEFINE C == {Truth[k] : k \in DOMAIN Truth}
<1>1. Truth \in Seq(C)
  BY AbsentAssumption
<1> HIDE DEF C
<1>2. i \in Int /\ j \in Int /\ \A k \in i..j : Truth[k] \in C
  BY <1>1
<1>3. SubSeq(Truth, i, j) \in Seq(C)
  BY <1>2, SubSeqProperties
<1>4. QED
  BY <1>1, <1>3, SeqIsList

\* No more of the answer is sent than there is, whether or not DONE is read.
SentInv == sentChunks \in 0..Len(Truth)

LEMMA SentStep == SentInv /\ [WireNext]_wireVars => SentInv'
<1> SUFFICES ASSUME SentInv, [WireNext]_wireVars PROVE SentInv'
  OBVIOUS
<1>1. Len(Truth) \in Nat
  BY TruthFacts
<1>2. CASE SendProgress
  <2>1. PICK k \in 1..(Len(Truth) - sentChunks) : sentChunks' = sentChunks + k
    BY <1>2 DEF SendProgress
  <2>2. QED
    BY <1>1, <2>1 DEF SentInv
<1>3. CASE ~SendProgress
  <2>1. sentChunks' = sentChunks
    BY <1>3 DEF WireNext, SendAny, SendPartialAnswer, SendDone, SendFinal, Close, sent, wireVars
  <2>2. QED
    BY <2>1 DEF SentInv
<1>4. QED
  BY <1>2, <1>3

\* Every step of the wire receives a frame or leaves the content alone.
LEMMA WireReceives ==
  ASSUME SentInv, WireNext
  PROVE  (\E f : FrameTyped(f) /\ Receive(f)) \/ (hist' = hist /\ st' = st)
<1>0. sentChunks \in 0..Len(Truth) /\ Len(Truth) \in Nat /\ DoneIsLast \in BOOLEAN
  BY WireAssumption, TruthFacts DEF SentInv
<1>1. CASE SendAny
  BY <1>1, FrameAssumption DEF SendAny
<1>2. CASE SendProgress
  <2>1. PICK shape \in Shapes, k \in 1..(Len(Truth) - sentChunks) :
          Receive(Bare(Wrap(shape, AnswerData("IN_PROGRESS", SubSeq(Truth, sentChunks + 1, sentChunks + k), Absent))))
    BY <1>2 DEF SendProgress
  <2> DEFINE portion == SubSeq(Truth, sentChunks + 1, sentChunks + k)
  <2>2. sentChunks + 1 \in 1..(Len(Truth) + 1) /\ sentChunks + k \in 0..Len(Truth)
    BY <1>0
  <2>3. IsList(portion)
    BY <2>2, PortionIsList
  <2> HIDE DEF portion
  <2>4. DataTyped(AnswerData("IN_PROGRESS", portion, Absent))
    BY <2>3 DEF DataTyped, AnswerData
  <2>5. FrameTyped(Bare(Wrap(shape, AnswerData("IN_PROGRESS", portion, Absent))))
    BY <2>4, WireAssumption, RecordedFrame
  <2>6. QED
    BY <2>1, <2>5 DEF portion
<1>3. CASE SendPartialAnswer
  <2> DEFINE d == AnswerData("IN_PROGRESS", Absent, FlattenSeq(SubSeq(Truth, 1, sentChunks)))
  <2>1. PICK shape \in Shapes : Receive(Bare(Wrap(shape, d)))
    BY <1>3 DEF SendPartialAnswer
  <2>2. DataTyped(d)
    BY DEF DataTyped, AnswerData
  <2> HIDE DEF d
  <2>3. FrameTyped(Bare(Wrap(shape, d)))
    BY <2>2, WireAssumption, RecordedFrame
  <2>4. QED
    BY <2>1, <2>3
<1>4. CASE SendDone
  <2> DEFINE d == AnswerData("DONE", Truth, FlattenSeq(Truth))
  <2>1. PICK shape \in Shapes : Receive([Bare(Wrap(shape, d)) EXCEPT !.final = DoneIsLast])
    BY <1>4 DEF SendDone
  <2>2. 1 \in 1..(Len(Truth) + 1) /\ 0 \in 0..Len(Truth)
    BY <1>0
  <2>3. IsList(Truth)
    BY <2>2, PortionIsList
  <2>4. DataTyped(d)
    BY <2>3 DEF DataTyped, AnswerData
  <2> HIDE DEF d
  <2>5. FrameTyped([Bare(Wrap(shape, d)) EXCEPT !.final = DoneIsLast])
    BY <1>0, <2>4, WireAssumption, RecordedFrame
  <2>6. QED
    BY <2>1, <2>5
<1>5. CASE SendFinal
  <2> DEFINE f == [Bare([kind |-> "other"]) EXCEPT !.final = TRUE]
  <2>1. Receive(f)
    BY <1>5 DEF SendFinal
  <2>2. FrameTyped(f)
    BY DEF FrameTyped, Bare
  <2> HIDE DEF f
  <2>3. QED
    BY <2>1, <2>2
<1>6. CASE Close
  BY <1>6 DEF Close, EndOfStream, ReadError
<1>7. QED
  BY <1>1, <1>2, <1>3, <1>4, <1>5, <1>6 DEF WireNext

LEMMA StreamStep ==
  SentInv /\ StreamInv /\ [WireNext]_wireVars => StreamInv' /\ CitationsKept
<1> SUFFICES ASSUME SentInv, StreamInv, [WireNext]_wireVars PROVE StreamInv' /\ CitationsKept
  OBVIOUS
<1>1. (\E f : FrameTyped(f) /\ Receive(f)) \/ (hist' = hist /\ st' = st)
  <2>1. CASE WireNext
    BY <2>1, WireReceives
  <2>2. CASE UNCHANGED wireVars
    BY <2>2 DEF wireVars, vars
  <2>3. QED
    BY <2>1, <2>2
<1>2. CASE \E f : FrameTyped(f) /\ Receive(f)
  <2>1. PICK f : FrameTyped(f) /\ Receive(f)
    BY <1>2
  <2>2. QED
    BY <2>1, ReceiveStep
<1>3. CASE hist' = hist /\ st' = st
  BY <1>3, StreamStill
<1>4. QED
  BY <1>1, <1>2, <1>3

LEMMA SentStart == WireInit => SentInv /\ StreamInv
<1> SUFFICES ASSUME WireInit PROVE SentInv /\ StreamInv
  OBVIOUS
<1>1. SentInv
  BY TruthFacts DEF WireInit, SentInv
<1>2. QED
  BY <1>1, StreamStart DEF WireInit

\* Whatever frames the server sends, in whatever order, the text is that of the
\* last frame that settles it: a full answer as it stands, or every chunk so far
\* joined (absorbAnswerData).
THEOREM LatestAnswer == WireSpec => []AnswerIsLatest
<1>1. ASSUME StreamInv PROVE AnswerIsLatest
  BY <1>1 DEF StreamInv, Folded, AnswerIsLatest
<1>2. QED
  BY SentStart, SentStep, StreamStep, <1>1, PTL DEF WireSpec

\* Citations are replaced and never dropped, and their numbers grow, whatever
\* results the server sends and however many of them are malformed
\* (absorbWebResults).
THEOREM CitationsRemain == WireSpec => CitationsStay
<1> DEFINE Kept == /\ st.content.citations # <<>> => st'.content.citations # <<>>
                   /\ \A i, j \in DOMAIN st'.content.citations :
                        i < j => st'.content.citations[i].index < st'.content.citations[j].index
<1>1. SentInv /\ StreamInv /\ [WireNext]_wireVars => [Kept]_vars
  <2>1. CitationsKept => Kept
    BY DEF CitationsKept, Ordered
  <2> HIDE DEF Kept
  <2>2. QED
    BY <2>1, StreamStep
<1>2. QED
  BY SentStart, SentStep, StreamStep, <1>1, PTL DEF WireSpec, CitationsStay
=============================================================================
