---------------------------- MODULE H2CodecProofs -----------------------------
(***************************************************************************)
(* Proofs about the write scheduling of H2Codec: for any streams, windows, *)
(* urgencies and answers, the frames of a stream go out in the order they  *)
(* were asked for, and no stream is passed over.                           *)
(*                                                                         *)
(* The inductive invariant CodecInv says of a server that every open       *)
(* stream of a scheduler with turns is once on the ring of its class and   *)
(* on no other (Linked); that a stream served while another one could send *)
(* is behind it on their ring (Behind); and that the pieces asked for are  *)
(* those written followed by those queued (InOrder).  The rings are what   *)
(* makes turns fair: a queue that is served goes to the end of the line,   *)
(* so who was passed over is before it, and Pop takes the first one ready. *)
(*                                                                         *)
(* The proof goes up in this order: lists and lists of lists; rings; the   *)
(* rings of a scheduler under link, unlink and a turn; frames and their    *)
(* pieces, also those cut by a window; what Pop returns; what each         *)
(* operation of a scheduler keeps; the invariant, of a writing end v and a *)
(* history g; and the steps.                                               *)
(***************************************************************************)
EXTENDS H2Codec, SequenceTheorems, WellFoundedInduction, TLAPS

-----------------------------------------------------------------------------
(* Lists.                                                                   *)

IsList(s) == Len(s) \in Nat /\ s = [i \in 1..Len(s) |-> s[i]]

\* A nonempty set of naturals has a least element.
LEMMA LeastNat ==
  ASSUME NEW T \in SUBSET Nat, T # {}
  PROVE  \E x \in T : \A y \in T : x <= y
<1>1. PICK x \in T : \A y \in T : ~(<<y, x>> \in OpToRel(<, Nat))
  BY WFMin, NatLessThanWellFounded
<1>2. \A y \in Nat : y < x => <<y, x>> \in OpToRel(<, Nat)
  BY DEF OpToRel
<1>3. \A y \in T : ~(y < x)
  BY <1>1, <1>2
<1>4. QED
  BY <1>3

\* f is the function FlattenSeq builds, up to n.
Flattens(f, seqs, n) ==
  f = [i \in 1..n |-> IF i = 1 THEN seqs[i] ELSE f[i - 1] \o seqs[i]]

\* The library joins a list of lists by recursion; that has one solution,
LEMMA FlattensUnique ==
  ASSUME NEW seqs, NEW more, NEW f, NEW g, NEW n \in Nat, NEW m \in Nat,
         Flattens(f, seqs, n), Flattens(g, more, m), n <= m, \A i \in 1..n : seqs[i] = more[i]
  PROVE  \A i \in 1..n : f[i] = g[i]
<1> DEFINE Bad == {i \in 1..n : f[i] # g[i]}
<1>1. SUFFICES ASSUME Bad # {} PROVE FALSE
  OBVIOUS
<1>2. PICK i \in Bad : \A j \in Bad : i <= j
  <2>1. Bad \in SUBSET Nat
    OBVIOUS
  <2> HIDE DEF Bad
  <2>2. QED
    BY <1>1, <2>1, LeastNat
<1>3. i \in 1..n /\ i \in 1..m
  BY <1>2
<1>4. /\ f[i] = IF i = 1 THEN seqs[i] ELSE f[i - 1] \o seqs[i]
      /\ g[i] = IF i = 1 THEN more[i] ELSE g[i - 1] \o more[i]
  BY <1>3 DEF Flattens
<1>5. CASE i = 1
  BY <1>2, <1>3, <1>4, <1>5
<1>6. CASE i # 1
  <2>1. i - 1 \in 1..n /\ i - 1 \notin Bad
    <3> HIDE DEF Bad
    <3>1. QED
      BY <1>2, <1>3, <1>6
  <2>2. f[i - 1] = g[i - 1]
    BY <2>1
  <2>3. QED
    BY <1>2, <1>3, <1>4, <1>6, <2>2
<1>7. QED
  BY <1>5, <1>6

\* One element more, if there was a function for the others.
LEMMA FlattensMore ==
  ASSUME NEW n \in Nat, NEW seqs, NEW f, Flattens(f, seqs, n)
  PROVE  \E g : Flattens(g, seqs, n + 1)
<1> DEFINE last == IF n = 0 THEN seqs[1] ELSE f[n] \o seqs[n + 1]
           g == [i \in 1..(n + 1) |-> IF i = n + 1 THEN last ELSE f[i]]
<1>1. ASSUME NEW i \in 1..(n + 1) PROVE g[i] = IF i = 1 THEN seqs[i] ELSE g[i - 1] \o seqs[i]
  <2>1. CASE i = n + 1
    <3>1. g[i] = last
      BY <2>1
    <3>2. CASE n = 0
      BY <2>1, <3>1, <3>2
    <3>3. CASE n # 0
      <4>1. g[i - 1] = f[n] /\ i # 1
        BY <2>1, <3>3
      <4>2. QED
        BY <2>1, <3>1, <3>3, <4>1
    <3>4. QED
      BY <3>2, <3>3
  <2>2. CASE i # n + 1
    <3>1. i \in 1..n /\ g[i] = f[i] /\ (i # 1 => g[i - 1] = f[i - 1])
      BY <2>2
    <3>2. f[i] = IF i = 1 THEN seqs[i] ELSE f[i - 1] \o seqs[i]
      BY <3>1 DEF Flattens
    <3>3. QED
      BY <3>1, <3>2
  <2>3. QED
    BY <2>1, <2>2
<1>2. g = [i \in 1..(n + 1) |-> g[i]]
  OBVIOUS
<1> HIDE DEF g
<1>3. Flattens(g, seqs, n + 1)
  BY <1>1, <1>2 DEF Flattens
<1>4. QED
  BY <1>3

\* and so there is one for every list of lists.
LEMMA FlattensExists ==
  ASSUME NEW seqs, NEW n \in Nat
  PROVE  \E f : Flattens(f, seqs, n)
<1> DEFINE Bad == {k \in Nat : ~\E f : Flattens(f, seqs, k)}
<1>1. SUFFICES ASSUME Bad # {} PROVE FALSE
  OBVIOUS
<1>2. PICK k \in Bad : \A j \in Bad : k <= j
  <2>1. Bad \in SUBSET Nat
    OBVIOUS
  <2> HIDE DEF Bad
  <2>2. QED
    BY <1>1, <2>1, LeastNat
<1>3. k \in Nat
  OBVIOUS
<1>4. k # 0
  <2>1. Flattens([i \in 1..0 |-> <<>>], seqs, 0)
    BY DEF Flattens
  <2>2. QED
    BY <2>1
<1>5. k - 1 \in Nat /\ k - 1 \notin Bad
  <2> HIDE DEF Bad
  <2>1. QED
    BY <1>2, <1>3, <1>4
<1>6. \E f : Flattens(f, seqs, k - 1)
  BY <1>5
<1>7. \E f : Flattens(f, seqs, (k - 1) + 1)
  BY <1>5, <1>6, FlattensMore
<1>8. (k - 1) + 1 = k
  BY <1>3
<1>9. QED
  BY <1>7, <1>8

\* FlattenSeq is that solution, at its last list.
LEMMA FlattenDef ==
  ASSUME NEW seqs, NEW n \in Nat \ {0}, n = Len(seqs)
  PROVE  \E f : Flattens(f, seqs, n) /\ FlattenSeq(seqs) = f[n]
<1> DEFINE f == CHOOSE g : Flattens(g, seqs, n)
<1>1. \E g : Flattens(g, seqs, n)
  BY FlattensExists
<1>2. Flattens(f, seqs, n)
  BY <1>1
<1>3. FlattenSeq(seqs) = f[n]
  BY DEF FlattenSeq, Flattens
<1> HIDE DEF f
<1>4. QED
  BY <1>2, <1>3

\* One more list is joined at the end.
LEMMA FlattenLast ==
  ASSUME NEW seqs, NEW more, NEW n \in Nat \ {0}, NEW m \in Nat \ {0},
         n = Len(seqs), m = Len(more), m = n + 1, \A i \in 1..n : seqs[i] = more[i]
  PROVE  FlattenSeq(more) = FlattenSeq(seqs) \o more[m]
<1>1. PICK f : Flattens(f, seqs, n) /\ FlattenSeq(seqs) = f[n]
  BY FlattenDef
<1>2. PICK g : Flattens(g, more, m) /\ FlattenSeq(more) = g[m]
  BY FlattenDef
<1>3. \A i \in 1..n : f[i] = g[i]
  <2>1. n <= m /\ n \in Nat /\ m \in Nat
    OBVIOUS
  <2>2. QED
    BY <1>1, <1>2, <2>1, FlattensUnique
<1>4. f[n] = g[n] /\ m - 1 = n /\ m # 1 /\ m \in 1..m
  BY <1>3
<1>5. g[m] = IF m = 1 THEN more[m] ELSE g[m - 1] \o more[m]
  BY <1>2, <1>4 DEF Flattens
<1>6. QED
  BY <1>1, <1>2, <1>4, <1>5

\* Counting up from 0 reaches every number up to n.
LEMMA CountUp ==
  ASSUME NEW n \in Nat, NEW T, 0 \in T, \A k \in 1..n : k - 1 \in T => k \in T
  PROVE  \A k \in 0..n : k \in T
<1> DEFINE Out == {k \in 0..n : k \notin T}
<1>0. SUFFICES ASSUME Out # {} PROVE FALSE
  OBVIOUS
<1>1. PICK m \in Out : \A k \in Out : m <= k
  <2>1. Out \in SUBSET Nat
    OBVIOUS
  <2> HIDE DEF Out
  <2>2. QED
    BY <1>0, <2>1, LeastNat
<1>2. m \in 1..n /\ m - 1 \in 0..n
  BY <1>1
<1>3. m - 1 \notin Out
  BY <1>1, <1>2
<1>4. QED
  BY <1>1, <1>2, <1>3

Items(s) == {s[i] : i \in 1..Len(s)}

\* A list is a sequence of its own items.
LEMMA ListIs ==
  ASSUME NEW s, IsList(s), NEW S, Items(s) \subseteq S
  PROVE  s \in Seq(S) /\ DOMAIN s = 1..Len(s) /\ Len(s) \in Nat
<1>1. Len(s) \in Nat /\ s = [i \in 1..Len(s) |-> s[i]]
  BY DEF IsList
<1>2. \A i \in 1..Len(s) : s[i] \in S
  BY DEF Items
<1> DEFINE n == Len(s)
<1> HIDE DEF n
<1>3. n \in Nat /\ s = [i \in 1..n |-> s[i]] /\ \A i \in 1..n : s[i] \in S
  BY <1>1, <1>2 DEF n
<1>4. s \in [1..n -> S]
  BY <1>3
<1>5. s \in Seq(S) /\ DOMAIN s = 1..n
  BY <1>3, <1>4
<1>6. QED
  BY <1>1, <1>5 DEF n

\* A sequence is a list.
LEMMA SeqIsList ==
  ASSUME NEW S, NEW s \in Seq(S)
  PROVE  IsList(s)
BY LenProperties DEF IsList

\* Lists with the same items are the same.
LEMMA ListEqual ==
  ASSUME NEW s, IsList(s), NEW t, IsList(t), Len(s) = Len(t), \A i \in 1..Len(s) : s[i] = t[i]
  PROVE  s = t
<1>1. s = [i \in 1..Len(s) |-> s[i]] /\ t = [i \in 1..Len(s) |-> t[i]]
  BY DEF IsList
<1>2. QED
  BY <1>1

\* The empty list.
LEMMA EmptyList == IsList(<<>>) /\ Len(<<>>) = 0
BY DEF IsList

\* A list of one item.
LEMMA OneItem ==
  ASSUME NEW x
  PROVE  IsList(<<x>>) /\ Len(<<x>>) = 1 /\ <<x>>[1] = x
<1>1. <<x>> \in Seq({x}) /\ Len(<<x>>) = 1 /\ <<x>>[1] = x
  OBVIOUS
<1>2. QED
  BY <1>1, SeqIsList

\* What Append returns.
LEMMA ListAppend ==
  ASSUME NEW s, IsList(s), NEW x
  PROVE  /\ IsList(Append(s, x)) /\ Len(Append(s, x)) = Len(s) + 1
         /\ \A i \in 1..Len(s) : Append(s, x)[i] = s[i]
         /\ Append(s, x)[Len(s) + 1] = x
<1> DEFINE S == Items(s) \cup {x}
<1>1. s \in Seq(S) /\ x \in S
  BY ListIs
<1> HIDE DEF S
<1>2. /\ Append(s, x) \in Seq(S) /\ Len(Append(s, x)) = Len(s) + 1
      /\ \A i \in 1..Len(s) : Append(s, x)[i] = s[i]
      /\ Append(s, x)[Len(s) + 1] = x
  BY <1>1, AppendProperties
<1>3. IsList(Append(s, x))
  BY <1>2, SeqIsList
<1>4. QED
  BY <1>2, <1>3

Joins(j, s, t) == j = s \o t

\* What joining two lists returns.
LEMMA ListJoin ==
  ASSUME NEW s, IsList(s), NEW t, IsList(t), NEW j, Joins(j, s, t)
  PROVE  /\ IsList(j) /\ Len(j) = Len(s) + Len(t)
         /\ \A i \in 1..Len(s) : j[i] = s[i]
         /\ \A i \in 1..Len(t) : j[Len(s) + i] = t[i]
<1> DEFINE S == Items(s) \cup Items(t)
           n == Len(s)
           m == Len(t)
<1>1. s \in Seq(S) /\ t \in Seq(S) /\ n \in Nat /\ m \in Nat
  BY ListIs
<1> HIDE DEF S
<1>2. /\ s \o t \in Seq(S) /\ Len(s \o t) = n + m
      /\ \A i \in 1..(n + m) : (s \o t)[i] = IF i <= n THEN s[i] ELSE t[i - n]
  BY <1>1, ConcatProperties
<1>3. IsList(j)
  BY <1>2, SeqIsList DEF Joins
<1>4. Len(j) = n + m /\ \A i \in 1..(n + m) : j[i] = IF i <= n THEN s[i] ELSE t[i - n]
  BY <1>2 DEF Joins
<1>5. n \in Nat /\ m \in Nat
  BY <1>1
<1> HIDE DEF n, m
<1>6. ASSUME NEW i \in 1..n
      PROVE  j[i] = s[i]
  <2>1. i \in 1..(n + m) /\ i <= n
    BY <1>5
  <2>2. QED
    BY <1>4, <2>1
<1>7. ASSUME NEW i \in 1..m
      PROVE  j[n + i] = t[i]
  <2>1. n + i \in 1..(n + m) /\ ~(n + i <= n) /\ (n + i) - n = i
    BY <1>5
  <2>2. QED
    BY <1>4, <2>1
<1>8. QED
  BY <1>3, <1>4, <1>6, <1>7 DEF n, m

\* Joining nothing changes nothing.
LEMMA JoinEmpty ==
  ASSUME NEW s, IsList(s)
  PROVE  s \o <<>> = s /\ <<>> \o s = s
<1>1. s \in Seq(Items(s))
  BY ListIs
<1>2. QED
  BY <1>1, ConcatEmptySeq

\* Joining one item is appending it.
LEMMA JoinOne ==
  ASSUME NEW s, IsList(s), NEW x
  PROVE  s \o <<x>> = Append(s, x)
<1>1. s \in Seq(Items(s) \cup {x}) /\ x \in Items(s) \cup {x}
  BY ListIs
<1> DEFINE S == Items(s) \cup {x}
<1> HIDE DEF S
<1>2. s \in Seq(S) /\ x \in S
  BY <1>1 DEF S
<1>3. QED
  BY <1>2

\* Three lists may be joined in either order.
LEMMA JoinThree ==
  ASSUME NEW s, IsList(s), NEW t, IsList(t), NEW u, IsList(u)
  PROVE  (s \o t) \o u = s \o (t \o u)
<1> DEFINE S == Items(s) \cup Items(t) \cup Items(u)
<1>1. s \in Seq(S) /\ t \in Seq(S) /\ u \in Seq(S)
  BY ListIs
<1> HIDE DEF S
<1>2. QED
  BY <1>1, ConcatAssociative

\* What Tail and Head return.
LEMMA ListTail ==
  ASSUME NEW s, IsList(s), s # <<>>
  PROVE  /\ IsList(Tail(s)) /\ Len(s) \in Nat \ {0} /\ Len(Tail(s)) = Len(s) - 1
         /\ \A i \in 1..(Len(s) - 1) : Tail(s)[i] = s[i + 1]
         /\ Head(s) = s[1]
<1> DEFINE S == Items(s)
<1>1. s \in Seq(S)
  BY ListIs
<1> HIDE DEF S
<1>2. Tail(s) \in Seq(S)
  BY <1>1
<1>3. IsList(Tail(s))
  BY <1>2, SeqIsList
<1>4. QED
  BY <1>1, <1>3

\* A list with its first item replaced.
Put(j, x, s) == j = <<x>> \o Tail(s)

\* What putting an item in the place of the first one returns.
LEMMA ListPut ==
  ASSUME NEW s, IsList(s), s # <<>>, NEW x, NEW j, Put(j, x, s)
  PROVE  /\ IsList(j) /\ Len(j) = Len(s) /\ j[1] = x
         /\ \A i \in 2..Len(s) : j[i] = s[i]
<1> DEFINE S == Items(s) \cup {x}
<1>1. s \in Seq(S) /\ x \in S
  BY ListIs
<1> HIDE DEF S
<1>2. <<x>> \in Seq(S) /\ Tail(s) \in Seq(S) /\ Len(<<x>>) = 1 /\ Len(Tail(s)) = Len(s) - 1 /\ Len(s) \in Nat \ {0}
      /\ \A i \in 1..(Len(s) - 1) : Tail(s)[i] = s[i + 1]
  BY <1>1
<1>3. /\ j \in Seq(S) /\ Len(j) = 1 + (Len(s) - 1)
      /\ \A i \in 1..(1 + (Len(s) - 1)) : j[i] = IF i <= 1 THEN <<x>>[i] ELSE Tail(s)[i - 1]
  BY <1>2, ConcatProperties DEF Put
<1>4. IsList(j)
  BY <1>3, SeqIsList
<1>5. \A i \in 2..Len(s) : i - 1 \in 1..(Len(s) - 1) /\ (i - 1) + 1 = i /\ i \in 1..(1 + (Len(s) - 1)) /\ ~(i <= 1)
  BY <1>2
<1>6. \A i \in 2..Len(s) : j[i] = s[i]
  BY <1>2, <1>3, <1>5
<1>7. j[1] = x
  <2>1. 1 \in 1..(1 + (Len(s) - 1))
    BY <1>2
  <2>2. QED
    BY <1>3, <2>1
<1>8. QED
  BY <1>2, <1>3, <1>4, <1>6, <1>7

\* A list cut after its first n items.
Cut(s, n, a, b) == a = SubSeq(s, 1, n) /\ b = SubSeq(s, n + 1, Len(s))

\* What the two parts of a list are.
LEMMA ListCut ==
  ASSUME NEW s, IsList(s), NEW n \in Nat, n <= Len(s), NEW a, NEW b, Cut(s, n, a, b)
  PROVE  /\ IsList(a) /\ Len(a) = n /\ \A i \in 1..n : a[i] = s[i]
         /\ IsList(b) /\ Len(b) = Len(s) - n /\ \A i \in 1..(Len(s) - n) : b[i] = s[n + i]
<1> DEFINE S == Items(s)
<1>1. s \in Seq(S)
  BY ListIs
<1> HIDE DEF S
<1>2. a \in Seq(S) /\ Len(a) = n /\ \A i \in 1..n : a[i] = s[i]
  BY <1>1 DEF Cut
<1>3. b \in Seq(S) /\ Len(b) = Len(s) - n /\ \A i \in 1..(Len(s) - n) : b[i] = s[n + i]
  BY <1>1 DEF Cut
<1>4. IsList(a) /\ IsList(b)
  BY <1>2, <1>3, SeqIsList
<1>5. QED
  BY <1>2, <1>3, <1>4

\* A list with the items of two others is those joined.
LEMMA ListJoins ==
  ASSUME NEW s, IsList(s), NEW a, IsList(a), NEW b, IsList(b), NEW n, n = Len(a), NEW l, l = Len(b),
         Len(s) = n + l, \A i \in 1..n : s[i] = a[i], \A i \in 1..l : s[n + i] = b[i]
  PROVE  Joins(s, a, b)
<1>1. PICK j : j = a \o b
  OBVIOUS
<1>2. IsList(j) /\ Len(j) = n + l /\ (\A i \in 1..n : j[i] = a[i]) /\ (\A i \in 1..l : j[n + i] = b[i])
  <2>1. Joins(j, a, b)
    BY <1>1 DEF Joins
  <2>2. QED
    BY <2>1, ListJoin
<1>3. n \in Nat /\ l \in Nat
  BY DEF IsList
<1>4. ASSUME NEW i \in 1..Len(s) PROVE s[i] = j[i]
  <2>1. CASE i <= n
    <3>1. i \in 1..n
      BY <2>1
    <3>2. QED
      BY <1>2, <3>1
  <2>2. CASE ~(i <= n)
    <3>1. i - n \in 1..l /\ n + (i - n) = i
      BY <1>3, <2>2
    <3>2. PICK k \in 1..l : n + k = i
      BY <3>1
    <3>3. QED
      BY <1>2, <3>2
  <2>3. QED
    BY <2>1, <2>2
<1>5. s = j
  BY <1>2, <1>4, ListEqual
<1>6. QED
  BY <1>1, <1>5 DEF Joins

-----------------------------------------------------------------------------
(* Lists of lists, put together.                                            *)

Upto(L, n) == [i \in 1..n |-> L[i]]

\* The first n of some lists.
LEMMA UptoFacts ==
  ASSUME NEW L, NEW n \in Nat
  PROVE  /\ IsList(Upto(L, n)) /\ Len(Upto(L, n)) = n
         /\ \A i \in 1..n : Upto(L, n)[i] = L[i]
BY DEF Upto, IsList

\* Joining one list more, the first one included.
LEMMA FlattenMore ==
  ASSUME NEW n \in Nat, NEW seqs, Len(seqs) = n, NEW more, Len(more) = n + 1,
         \A i \in 1..n : seqs[i] = more[i], n = 0 => seqs = <<>>, IsList(more[n + 1])
  PROVE  FlattenSeq(more) = FlattenSeq(seqs) \o more[n + 1]
<1>1. CASE n # 0
  <2>1. PICK m \in Nat \ {0} : m = n + 1 /\ m = Len(more)
    OBVIOUS
  <2>2. n \in Nat \ {0} /\ n = Len(seqs)
    BY <1>1
  <2>3. FlattenSeq(more) = FlattenSeq(seqs) \o more[m]
    BY <2>1, <2>2, FlattenLast
  <2>4. QED
    BY <2>1, <2>3
<1>2. CASE n = 0
  <2>1. FlattenSeq(seqs) = <<>>
    BY <1>2 DEF FlattenSeq
  <2>2. Len(more) = 1 /\ IsList(more[1])
    BY <1>2
  <2>3. PICK f : Flattens(f, more, 1) /\ FlattenSeq(more) = f[1]
    <3>1. \A k \in Nat \ {0} : k = Len(more) => \E f : Flattens(f, more, k) /\ FlattenSeq(more) = f[k]
      BY FlattenDef
    <3>2. QED
      BY <2>2, <3>1
  <2>4. f[1] = more[1]
    BY <2>3 DEF Flattens
  <2>5. <<>> \o more[1] = more[1]
    BY <2>2, JoinEmpty
  <2>6. QED
    BY <1>2, <2>1, <2>3, <2>4, <2>5
<1>3. QED
  BY <1>1, <1>2

Lists(L, n) == \A i \in 1..n : IsList(L[i])

\* The same of the first n lists.
LEMMA UptoMore ==
  ASSUME NEW L, NEW n \in Nat, NEW m, m = n + 1, IsList(L[m])
  PROVE  FlattenSeq(Upto(L, m)) = FlattenSeq(Upto(L, n)) \o L[m]
<1>1. m \in Nat /\ m \in 1..m /\ 1..n \subseteq 1..m
  OBVIOUS
<1>2. Len(Upto(L, n)) = n /\ \A i \in 1..n : Upto(L, n)[i] = L[i]
  BY UptoFacts
<1>3. Len(Upto(L, m)) = m /\ \A i \in 1..m : Upto(L, m)[i] = L[i]
  BY <1>1, UptoFacts
<1>4. n = 0 => Upto(L, n) = <<>>
  BY DEF Upto
<1> DEFINE s == Upto(L, n)
           t == Upto(L, m)
<1> HIDE DEF s, t
<1>5. /\ Len(s) = n /\ Len(t) = m /\ \A i \in 1..n : s[i] = t[i]
      /\ t[m] = L[m] /\ (n = 0 => s = <<>>)
  BY <1>1, <1>2, <1>3, <1>4 DEF s, t
<1>6. FlattenSeq(t) = FlattenSeq(s) \o t[n + 1]
  <2>1. Len(t) = n + 1 /\ IsList(t[n + 1])
    BY <1>5
  <2>2. QED
    BY <1>5, <2>1, FlattenMore
<1>7. QED
  BY <1>5, <1>6 DEF s, t

\* Lists joined are a list.
LEMMA FlattenIsList ==
  ASSUME NEW L, NEW n \in Nat, Lists(L, n)
  PROVE  IsList(FlattenSeq(Upto(L, n)))
<1> DEFINE T == {k \in 0..n : IsList(FlattenSeq(Upto(L, k)))}
<1>1. 0 \in T
  <2>1. Upto(L, 0) = <<>> /\ FlattenSeq(<<>>) = <<>>
    BY DEF Upto, FlattenSeq
  <2>2. QED
    BY <2>1, EmptyList
<1>2. ASSUME NEW k \in 1..n, k - 1 \in T PROVE k \in T
  <2>1. PICK j \in Nat : j = k - 1 /\ k = j + 1
    OBVIOUS
  <2>2. IsList(L[k]) /\ IsList(FlattenSeq(Upto(L, j)))
    BY <1>2, <2>1 DEF Lists
  <2>3. FlattenSeq(Upto(L, k)) = FlattenSeq(Upto(L, j)) \o L[k]
    BY <2>1, <2>2, UptoMore
  <2>4. IsList(FlattenSeq(Upto(L, k)))
    <3>1. Joins(FlattenSeq(Upto(L, k)), FlattenSeq(Upto(L, j)), L[k])
      BY <2>3 DEF Joins
    <3>2. QED
      BY <2>2, <3>1, ListJoin
  <2>5. QED
    BY <2>1, <2>4
<1> HIDE DEF T
<1>3. \A k \in 0..n : k \in T
  BY <1>1, <1>2, CountUp
<1>4. n \in T
  BY <1>3
<1>5. QED
  BY <1>4 DEF T

\* What is put together from a list of lists begins with its first one.
LEMMA FlattenFirst ==
  ASSUME NEW L, NEW n \in Nat, NEW m, m = n + 1, Lists(L, m)
  PROVE  FlattenSeq(Upto(L, m)) = L[1] \o FlattenSeq(Upto([i \in 1..n |-> L[i + 1]], n))
<1> DEFINE M == [i \in 1..n |-> L[i + 1]]
           T == {k \in 0..n : FlattenSeq(Upto(L, k + 1)) = L[1] \o FlattenSeq(Upto(M, k))}
<1>1. 0 \in T
  <2>1. Upto(L, 0) = <<>> /\ Upto(M, 0) = <<>> /\ FlattenSeq(<<>>) = <<>>
    BY DEF Upto, FlattenSeq
  <2>2. IsList(L[1])
    BY DEF Lists
  <2>3. FlattenSeq(Upto(L, 1)) = FlattenSeq(Upto(L, 0)) \o L[1]
    <3>1. 0 \in Nat /\ 1 = 0 + 1
      OBVIOUS
    <3>2. QED
      BY <2>2, <3>1, UptoMore
  <2>4. <<>> \o L[1] = L[1] /\ L[1] \o <<>> = L[1]
    BY <2>2, JoinEmpty
  <2> HIDE DEF M
  <2>5. FlattenSeq(Upto(L, 1)) = L[1] \o FlattenSeq(Upto(M, 0))
    BY <2>1, <2>3, <2>4
  <2>6. 0 + 1 = 1 /\ 0 \in 0..n
    OBVIOUS
  <2>7. QED
    BY <2>5, <2>6
<1>2. ASSUME NEW k \in 1..n, k - 1 \in T PROVE k \in T
  <2>1. PICK j \in Nat : j = k - 1 /\ k = j + 1
    OBVIOUS
  <2>2. PICK l \in Nat : l = k + 1
    OBVIOUS
  <2>3. IsList(L[l]) /\ IsList(L[1]) /\ M[k] = L[l] /\ Lists(M, j)
    BY <2>1, <2>2 DEF Lists
  <2>4. FlattenSeq(Upto(L, k)) = L[1] \o FlattenSeq(Upto(M, j))
    BY <1>2, <2>1
  <2> HIDE DEF M
  <2>5. k \in Nat
    OBVIOUS
  <2>6. FlattenSeq(Upto(L, l)) = FlattenSeq(Upto(L, k)) \o L[l]
    BY <2>2, <2>3, <2>5, UptoMore
  <2>7. FlattenSeq(Upto(M, k)) = FlattenSeq(Upto(M, j)) \o M[k]
    BY <2>1, <2>3, UptoMore
  <2>8. IsList(FlattenSeq(Upto(M, j)))
    BY <2>3, FlattenIsList
  <2>9. PICK u : u = FlattenSeq(Upto(M, j))
    OBVIOUS
  <2>10. PICK x : x = L[1]
    OBVIOUS
  <2>11. PICK y : y = L[l]
    OBVIOUS
  <2>12. IsList(u) /\ IsList(x) /\ IsList(y)
    BY <2>3, <2>8, <2>9, <2>10, <2>11
  <2>13. (x \o u) \o y = x \o (u \o y)
    BY <2>12, JoinThree
  <2>14. FlattenSeq(Upto(L, l)) = (x \o u) \o y /\ FlattenSeq(Upto(M, k)) = u \o y
    BY <2>3, <2>4, <2>6, <2>7, <2>9, <2>10, <2>11
  <2>15. FlattenSeq(Upto(L, k + 1)) = L[1] \o FlattenSeq(Upto(M, k))
    BY <2>2, <2>10, <2>13, <2>14
  <2>16. QED
    BY <2>15
<1> HIDE DEF T
<1>3. \A k \in 0..n : k \in T
  BY <1>1, <1>2, CountUp
<1>4. n \in T
  BY <1>3
<1>5. QED
  BY <1>4 DEF T

-----------------------------------------------------------------------------
(* Rings, as sequences.                                                     *)

Before(q, i, j) == \E a, b \in 1..Len(q) : a < b /\ q[a] = i /\ q[b] = j
On(q, i) == \E a \in 1..Len(q) : q[a] = i
Distinct(q) == \A a, b \in 1..Len(q) : q[a] = q[b] => a = b

Appended(e, q, x) == e = Append(q, x)

\* What link does to a ring: the new stream comes last.
LEMMA RingAppend ==
  ASSUME NEW S, NEW q \in Seq(S), NEW x \in S, ~On(q, x), Distinct(q), NEW e, Appended(e, q, x)
  PROVE  /\ e \in Seq(S) /\ Distinct(e) /\ On(e, x)
         /\ \A i \in S : On(e, i) <=> On(q, i) \/ i = x
         /\ \A i, j \in S : Before(q, i, j) => Before(e, i, j)
         /\ \A i \in S : On(q, i) => Before(e, i, x)
<1>1. e \in Seq(S) /\ Len(e) = Len(q) + 1 /\ Len(q) \in Nat /\ e[Len(q) + 1] = x /\ \A a \in 1..Len(q) : e[a] = q[a]
  BY DEF Appended
<1>2. \A a \in 1..Len(e) : a \in 1..Len(q) \/ a = Len(q) + 1
  BY <1>1
<1>3. \A a \in 1..Len(q) : a \in 1..Len(e) /\ a < Len(q) + 1
  BY <1>1
<1>4. Len(q) + 1 \in 1..Len(e)
  BY <1>1
<1>5. Distinct(e)
  BY <1>1, <1>2, <1>3 DEF Distinct, On
<1>6. On(e, x) /\ \A i \in S : On(e, i) <=> On(q, i) \/ i = x
  BY <1>1, <1>2, <1>3, <1>4 DEF On
<1>7. \A i, j \in S : Before(q, i, j) => Before(e, i, j)
  BY <1>1, <1>3 DEF Before
<1>8. \A i \in S : On(q, i) => Before(e, i, x)
  BY <1>1, <1>3, <1>4 DEF Before, On
<1>9. QED
  BY <1>1, <1>5, <1>6, <1>7, <1>8

\* RemoveFirst cuts a ring at the stream it removes.
LEMMA RemoveFirstDef ==
  ASSUME NEW S, NEW q \in Seq(S), NEW x \in S, On(q, x), Distinct(q)
  PROVE  \E m \in 1..Len(q) : q[m] = x /\ RemoveFirst(q, x) = SubSeq(q, 1, m - 1) \o SubSeq(q, m + 1, Len(q))
<1>1. PICK m \in 1..Len(q) : q[m] = x
  BY DEF On
<1> DEFINE I == {i \in 1..Len(q) : q[i] = x}
<1>2. I = {m}
  BY <1>1 DEF Distinct
<1>3. Min(I) = m
  BY <1>1, <1>2 DEF Min
<1>4. SelectInSeq(q, LAMBDA v : v = x) = m
  BY <1>2, <1>3 DEF SelectInSeq
<1>5. RemoveFirst(q, x) = RemoveAt(q, m)
  BY <1>1, <1>2, <1>3 DEF RemoveFirst, SelectInSeq
<1>6. QED
  BY <1>1, <1>5 DEF RemoveAt

\* What unlink does to a ring: the others keep their order.
LEMMA RingRemove ==
  ASSUME NEW S, NEW q \in Seq(S), NEW x \in S, On(q, x), Distinct(q), NEW e, e = RemoveFirst(q, x)
  PROVE  /\ e \in Seq(S) /\ Distinct(e)
         /\ \A i \in S : On(e, i) <=> On(q, i) /\ i # x
         /\ \A i, j \in S \ {x} : Before(q, i, j) => Before(e, i, j)
<1>1. PICK m \in 1..Len(q) : q[m] = x /\ e = SubSeq(q, 1, m - 1) \o SubSeq(q, m + 1, Len(q))
  BY RemoveFirstDef
<1>2. \A a \in 1..Len(q) : q[a] = x => a = m
  BY <1>1 DEF Distinct
<1> DEFINE n == Len(q)
<1>3. n \in Nat /\ m \in 1..n
  BY <1>1
<1>4. /\ SubSeq(q, 1, m - 1) \in Seq(S) /\ Len(SubSeq(q, 1, m - 1)) = m - 1
      /\ SubSeq(q, m + 1, n) \in Seq(S) /\ Len(SubSeq(q, m + 1, n)) = n - m
      /\ \A a \in 1..(m - 1) : SubSeq(q, 1, m - 1)[a] = q[a]
      /\ \A a \in 1..(n - m) : SubSeq(q, m + 1, n)[a] = q[a + m]
  BY <1>3
<1>5. e \in Seq(S) /\ Len(e) = n - 1 /\ \A a \in 1..(n - 1) : e[a] = IF a < m THEN q[a] ELSE q[a + 1]
  <2> DEFINE s == SubSeq(q, 1, m - 1)
             t == SubSeq(q, m + 1, n)
  <2> HIDE DEF s, t, n
  <2>1. /\ s \in Seq(S) /\ t \in Seq(S) /\ Len(s) = m - 1 /\ Len(t) = n - m
        /\ (\A a \in 1..(m - 1) : s[a] = q[a]) /\ (\A a \in 1..(n - m) : t[a] = q[a + m])
    BY <1>4 DEF s, t, n
  <2>2. e = s \o t
    BY <1>1 DEF s, t, n
  <2>3. /\ e \in Seq(S) /\ Len(e) = (m - 1) + (n - m)
        /\ \A a \in 1..((m - 1) + (n - m)) : e[a] = IF a <= m - 1 THEN s[a] ELSE t[a - (m - 1)]
    BY <2>1, <2>2, ConcatProperties
  <2>4. (m - 1) + (n - m) = n - 1
    BY <1>3
  <2>5. ASSUME NEW a \in 1..(n - 1) PROVE e[a] = IF a < m THEN q[a] ELSE q[a + 1]
    <3>1. CASE a < m
      <4>1. a <= m - 1 /\ a \in 1..(m - 1)
        BY <1>3, <3>1
      <4>2. QED
        BY <2>1, <2>3, <2>4, <3>1, <4>1
    <3>2. CASE ~(a < m)
      <4>1. ~(a <= m - 1) /\ a - (m - 1) \in 1..(n - m) /\ (a - (m - 1)) + m = a + 1
        BY <1>3, <3>2
      <4>2. QED
        BY <2>1, <2>3, <2>4, <3>2, <4>1
    <3>3. QED
      BY <3>1, <3>2
  <2>6. QED
    BY <2>3, <2>4, <2>5
<1> HIDE DEF n
<1>6. \A a \in 1..(n - 1) : a \in 1..n /\ a + 1 \in 1..n
  BY <1>3
<1>7. Distinct(e)
  <2>1. SUFFICES ASSUME NEW a \in 1..(n - 1), NEW b \in 1..(n - 1), e[a] = e[b] PROVE a = b
    BY <1>5 DEF Distinct
  <2>2. \A u, v \in 1..n : q[u] = q[v] => u = v
    BY DEF Distinct, n
  <2>3. PICK u \in 1..n : u = (IF a < m THEN a ELSE a + 1) /\ e[a] = q[u]
    BY <1>5, <1>6
  <2>4. PICK v \in 1..n : v = (IF b < m THEN b ELSE b + 1) /\ e[b] = q[v]
    BY <1>5, <1>6
  <2>5. u = v
    BY <2>1, <2>2, <2>3, <2>4
  <2>6. QED
    BY <1>3, <2>3, <2>4, <2>5
<1> DEFINE to(a) == IF a < m THEN a ELSE a - 1
<1>8. ASSUME NEW a \in 1..n, a # m PROVE to(a) \in 1..(n - 1) /\ e[to(a)] = q[a]
  <2>1. CASE a < m
    <3>1. a \in 1..(n - 1)
      BY <1>3, <2>1
    <3>2. QED
      BY <1>5, <2>1, <3>1
  <2>2. CASE ~(a < m)
    <3>1. a - 1 \in 1..(n - 1) /\ ~(a - 1 < m) /\ (a - 1) + 1 = a
      BY <1>3, <1>8, <2>2
    <3>2. QED
      BY <1>5, <2>2, <3>1
  <2>3. QED
    BY <2>1, <2>2
<1>9. \A a, b \in 1..n : a < b /\ a # m /\ b # m => to(a) < to(b)
  BY <1>3
<1> HIDE DEF to
<1>10. ASSUME NEW i \in S PROVE On(e, i) <=> On(q, i) /\ i # x
  <2>1. ASSUME On(q, i), i # x PROVE On(e, i)
    <3>1. PICK a \in 1..n : q[a] = i
      BY <2>1 DEF On, n
    <3>2. a # m
      BY <1>1, <2>1, <3>1
    <3>3. QED
      BY <1>5, <1>8, <3>1, <3>2 DEF On
  <2>2. ASSUME On(e, i) PROVE On(q, i) /\ i # x
    <3>1. PICK a \in 1..(n - 1) : e[a] = i
      BY <1>5, <2>2 DEF On
    <3>2. \E b \in 1..n : b # m /\ q[b] = i
      BY <1>3, <1>5, <1>6, <3>1
    <3>3. QED
      BY <1>2, <3>2 DEF On, n
  <2>3. QED
    BY <2>1, <2>2
<1>11. ASSUME NEW i \in S \ {x}, NEW j \in S \ {x}, Before(q, i, j) PROVE Before(e, i, j)
  <2>1. PICK a, b \in 1..n : a < b /\ q[a] = i /\ q[b] = j
    BY <1>11 DEF Before, n
  <2>2. a # m /\ b # m
    BY <1>1, <2>1
  <2>3. QED
    BY <1>5, <1>8, <1>9, <2>1, <2>2 DEF Before
<1>12. QED
  BY <1>5, <1>7, <1>10, <1>11

\* A ring with the k-th queue at its head.
LEMMA RingFrom ==
  ASSUME NEW S, NEW q \in Seq(S), NEW k \in 1..Len(q), NEW e, e = from(q, k)
  PROVE  /\ e \in Seq(S) /\ Len(e) = Len(q)
         /\ \A a \in 1..Len(q) : IF k <= a THEN e[a - k + 1] = q[a] ELSE e[a + (Len(q) - k + 1)] = q[a]
<1> DEFINE n == Len(q)
           s == SubSeq(q, k, n)
           t == SubSeq(q, 1, k - 1)
           l == n - k + 1
<1>1. n \in Nat /\ k \in 1..n /\ l \in 1..n /\ l + (k - 1) = n
  OBVIOUS
<1>2. /\ s \in Seq(S) /\ Len(s) = l /\ \A a \in 1..l : s[a] = q[k + a - 1]
      /\ t \in Seq(S) /\ Len(t) = k - 1 /\ \A a \in 1..(k - 1) : t[a] = q[a]
  BY <1>1
<1>3. e = s \o t
  BY DEF from
<1> HIDE DEF s, t, n
<1>4. /\ e \in Seq(S) /\ Len(e) = l + (k - 1)
      /\ \A a \in 1..(l + (k - 1)) : e[a] = IF a <= l THEN s[a] ELSE t[a - l]
  <2>1. PICK p : p = k - 1
    OBVIOUS
  <2>2. PICK o : o = l
    OBVIOUS
  <2>3. s \in Seq(S) /\ Len(s) = o /\ t \in Seq(S) /\ Len(t) = p
    BY <1>2, <2>1, <2>2
  <2>4. /\ e \in Seq(S) /\ Len(e) = o + p
        /\ \A a \in 1..(o + p) : e[a] = IF a <= o THEN s[a] ELSE t[a - o]
    BY <1>3, <2>3, ConcatProperties
  <2>5. QED
    BY <2>1, <2>2, <2>4
<1>5. ASSUME NEW a \in 1..n, k <= a PROVE e[a - k + 1] = q[a]
  <2>1. a - k + 1 \in 1..l /\ a - k + 1 \in 1..n /\ a - k + 1 <= l /\ k + (a - k + 1) - 1 = a
    BY <1>1, <1>5
  <2>2. e[a - k + 1] = s[a - k + 1]
    BY <1>1, <1>4, <2>1
  <2>3. QED
    BY <1>2, <2>1, <2>2
<1>6. ASSUME NEW a \in 1..n, ~(k <= a) PROVE e[a + l] = q[a]
  <2>1. a \in 1..(k - 1) /\ a + l \in 1..n /\ ~(a + l <= l) /\ (a + l) - l = a
    BY <1>1, <1>6
  <2>2. e[a + l] = t[a]
    BY <1>1, <1>4, <2>1
  <2>3. QED
    BY <1>2, <2>1, <2>2
<1>7. QED
  BY <1>1, <1>4, <1>5, <1>6 DEF n

\* The place a queue moves to.
moved(n, k, a) == IF k <= a THEN a - k + 1 ELSE a + (n - k + 1)

\* Where the a-th queue of a ring stands once the ring begins at its k-th.
LEMMA MovedFacts ==
  ASSUME NEW n \in Nat, NEW k \in 1..n
  PROVE  /\ \A a \in 1..n : moved(n, k, a) \in 1..n
         /\ \A b \in 1..n : \E a \in 1..n : moved(n, k, a) = b
         /\ \A a, b \in 1..n : moved(n, k, a) = moved(n, k, b) => a = b
         /\ \A a, b \in 1..n : k <= a /\ a < b => moved(n, k, a) < moved(n, k, b)
         /\ \A a, b \in 1..n : k <= a /\ b < k => moved(n, k, a) < moved(n, k, b)
<1>1. ASSUME NEW b \in 1..n PROVE \E a \in 1..n : moved(n, k, a) = b
  <2>1. CASE b <= n - k + 1
    <3>1. b + k - 1 \in 1..n /\ k <= b + k - 1 /\ (b + k - 1) - k + 1 = b
      BY <2>1
    <3>2. QED
      BY <3>1 DEF moved
  <2>2. CASE ~(b <= n - k + 1)
    <3>1. b - (n - k + 1) \in 1..n /\ ~(k <= b - (n - k + 1)) /\ (b - (n - k + 1)) + (n - k + 1) = b
      BY <2>2
    <3>2. QED
      BY <3>1 DEF moved
  <2>3. QED
    BY <2>1, <2>2
<1>2. QED
  BY <1>1 DEF moved

\* The same ring, begun elsewhere.
LEMMA RingMoved ==
  ASSUME NEW S, NEW q \in Seq(S), NEW k \in 1..Len(q), NEW e, e = from(q, k)
  PROVE  /\ e \in Seq(S) /\ Len(e) = Len(q) /\ (Distinct(q) => Distinct(e))
         /\ \A i \in S : On(e, i) <=> On(q, i)
         /\ \A a \in 1..Len(q) : e[moved(Len(q), k, a)] = q[a]
<1> DEFINE n == Len(q)
<1>1. n \in Nat /\ k \in 1..n
  OBVIOUS
<1>2. e \in Seq(S) /\ Len(e) = n /\ \A a \in 1..n : e[moved(n, k, a)] = q[a]
  BY RingFrom DEF moved
<1> HIDE DEF n
<1>3. /\ \A a \in 1..n : moved(n, k, a) \in 1..n
      /\ \A b \in 1..n : \E a \in 1..n : moved(n, k, a) = b
      /\ \A a, b \in 1..n : moved(n, k, a) = moved(n, k, b) => a = b
  BY <1>1, MovedFacts
<1>4. ASSUME Distinct(q) PROVE Distinct(e)
  <2>1. SUFFICES ASSUME NEW u \in 1..n, NEW v \in 1..n, e[u] = e[v] PROVE u = v
    BY <1>2 DEF Distinct
  <2>2. PICK a \in 1..n : moved(n, k, a) = u
    BY <1>3
  <2>3. PICK b \in 1..n : moved(n, k, b) = v
    BY <1>3
  <2>4. q[a] = q[b]
    BY <1>2, <2>1, <2>2, <2>3
  <2>5. a = b
    BY <1>4, <2>4 DEF Distinct, n
  <2>6. QED
    BY <2>2, <2>3, <2>5
<1>5. ASSUME NEW i \in S PROVE On(e, i) <=> On(q, i)
  <2>1. ASSUME On(q, i) PROVE On(e, i)
    BY <1>2, <1>3, <2>1 DEF On, n
  <2>2. ASSUME On(e, i) PROVE On(q, i)
    <3>1. PICK u \in 1..n : e[u] = i
      BY <1>2, <2>2 DEF On
    <3>2. PICK a \in 1..n : moved(n, k, a) = u
      BY <1>3
    <3>3. q[a] = i
      BY <1>2, <3>1, <3>2
    <3>4. QED
      BY <3>3 DEF On, n
  <2>3. QED
    BY <2>1, <2>2
<1>6. QED
  BY <1>2, <1>4, <1>5 DEF n

\* Serving the k-th queue of a ring in turn: the queues behind it stay in their
\* order, and all of them come before it now.
LEMMA RingTurn ==
  ASSUME NEW S, NEW q \in Seq(S), NEW k \in 1..Len(q), NEW e, e = after(q, k)
  PROVE  /\ e \in Seq(S) /\ (Distinct(q) => Distinct(e))
         /\ \A i \in S : On(e, i) <=> On(q, i)
         /\ \A a, b \in 1..Len(q) : k < a /\ a < b => Before(e, q[a], q[b])
         /\ \A a \in 1..Len(q) : k < a => Before(e, q[a], q[k])
<1> DEFINE n == Len(q)
<1>1. n \in Nat /\ k \in 1..n
  OBVIOUS
<1>2. PICK m \in 1..n : e = from(q, m) /\ m = IF k = n THEN 1 ELSE k + 1
  <2>1. (k % n) + 1 = IF k = n THEN 1 ELSE k + 1
    BY <1>1
  <2>2. (k % n) + 1 \in 1..n
    BY <1>1, <2>1
  <2>3. QED
    BY <2>1, <2>2 DEF after
<1>3. /\ e \in Seq(S) /\ Len(e) = n /\ (Distinct(q) => Distinct(e))
      /\ \A i \in S : On(e, i) <=> On(q, i)
      /\ \A a \in 1..n : e[moved(n, m, a)] = q[a]
  BY <1>2, RingMoved
<1> HIDE DEF n
<1>4. /\ \A a \in 1..n : moved(n, m, a) \in 1..n
      /\ \A a, b \in 1..n : m <= a /\ a < b => moved(n, m, a) < moved(n, m, b)
      /\ \A a, b \in 1..n : m <= a /\ b < m => moved(n, m, a) < moved(n, m, b)
  BY <1>1, MovedFacts
<1>5. ASSUME NEW a \in 1..n, NEW b \in 1..n, k < a, a < b PROVE Before(e, q[a], q[b])
  <2>1. m <= a
    BY <1>1, <1>2, <1>5
  <2>2. QED
    BY <1>3, <1>4, <1>5, <2>1 DEF Before
<1>6. ASSUME NEW a \in 1..n, k < a PROVE Before(e, q[a], q[k])
  <2>1. m <= a /\ k < m
    BY <1>1, <1>2, <1>6
  <2>2. QED
    BY <1>1, <1>3, <1>4, <2>1 DEF Before
<1>7. QED
  BY <1>3, <1>5, <1>6 DEF n

-----------------------------------------------------------------------------
(* The rings of a scheduler.                                                *)

Fields == {"kind", "control", "queue", "class", "ring", "prioritizeIncremental", "priorityUpdateBuf", "panic"}

Linked(ws, D) ==
  /\ ws.ring \in [Classes -> Seq(Streams)]
  /\ DOMAIN ws.class = D /\ \A id \in D : ws.class[id] \in Classes
  /\ ws.kind = "roundrobin" => \A id \in D : ws.class[id] = Turn
  /\ \A c \in Classes :
       /\ Distinct(ws.ring[c])
       /\ \A id \in Streams : On(ws.ring[c], id) <=> id \in D /\ ws.class[id] = c

Behind(ws, D, passed) ==
  \A i, j \in D : j \in passed[i] /\ ws.class[i] = ws.class[j] /\ ws.class[i][2] = 1
                    => Before(ws.ring[ws.class[i]], i, j)

Linking(ws, l, id, c) == l = link(ws, id, c)
Unlinking(ws, l, id) == l = unlink(ws, id)

\* Only the rings change.
Relinked(ws, l) ==
  /\ DOMAIN l = Fields /\ l.kind = ws.kind /\ l.control = ws.control /\ l.queue = ws.queue
  /\ l.priorityUpdateBuf = ws.priorityUpdateBuf /\ l.panic = ws.panic

\* link changes nothing but classes and rings,
LEMMA LinkFields ==
  ASSUME NEW ws, DOMAIN ws = Fields, NEW id, NEW c, NEW l, Linking(ws, l, id, c)
  PROVE  Relinked(ws, l)
BY DEF Linking, link, Fields, Relinked

\* and neither does unlink.
LEMMA UnlinkFields ==
  ASSUME NEW ws, DOMAIN ws = Fields, NEW id, NEW l, Unlinking(ws, l, id)
  PROVE  Relinked(ws, l)
BY DEF Unlinking, unlink, Fields, Relinked

\* A stream that is linked is on the ring of its class, behind all others.
LEMMA LinkLinked ==
  ASSUME NEW D, D \subseteq Streams, NEW ws, DOMAIN ws = Fields, Linked(ws, D), NEW passed, Behind(ws, D, passed),
         NEW id \in Streams \ D, NEW c \in Classes, ws.kind = "roundrobin" => c = Turn, passed[id] = {},
         NEW l, Linking(ws, l, id, c)
  PROVE  Linked(l, D \cup {id}) /\ Behind(l, D \cup {id}, passed)
<1> DEFINE q == ws.ring[c]
           e == Append(q, id)
           E == D \cup {id}
<1>1. /\ l.kind = ws.kind /\ l.class = [i \in E |-> IF i = id THEN c ELSE ws.class[i]]
      /\ l.ring = [ws.ring EXCEPT ![c] = e]
  <2>1. l.kind = ws.kind /\ l.class = with(ws.class, id, c) /\ l.ring = [ws.ring EXCEPT ![c] = Append(@, id)]
    BY DEF Linking, link, Fields
  <2>2. DOMAIN ws.class = D
    BY DEF Linked
  <2>3. with(ws.class, id, c) = [i \in E |-> IF i = id THEN c ELSE ws.class[i]]
    BY <2>2 DEF with
  <2>4. QED
    BY <2>1, <2>3
<1>2. q \in Seq(Streams) /\ id \in Streams /\ ~On(q, id) /\ Distinct(q)
  BY DEF Linked
<1> HIDE DEF e, q, E
<1>3. /\ e \in Seq(Streams) /\ Distinct(e) /\ On(e, id)
      /\ \A i \in Streams : On(e, i) <=> On(q, i) \/ i = id
      /\ \A i, j \in Streams : Before(q, i, j) => Before(e, i, j)
      /\ \A i \in Streams : On(q, i) => Before(e, i, id)
  <2>1. /\ q \in Seq(Streams) /\ id \in Streams /\ ~On(q, id) /\ Distinct(q) /\ Appended(e, q, id)
    BY <1>2 DEF e, Appended
  <2>2. QED
    BY <2>1, RingAppend
<1>4. l.ring \in [Classes -> Seq(Streams)] /\ l.ring[c] = e /\ \A d \in Classes \ {c} : l.ring[d] = ws.ring[d]
  BY <1>1, <1>3 DEF Linked
<1>5. DOMAIN l.class = E /\ l.class[id] = c /\ \A i \in D : l.class[i] = ws.class[i]
  BY <1>1 DEF E
<1>6. Linked(l, E)
  <2>1. \A i \in E : l.class[i] \in Classes
    BY <1>5 DEF Linked, E
  <2>2. l.kind = "roundrobin" => \A i \in E : l.class[i] = Turn
    BY <1>1, <1>5 DEF Linked, E
  <2>3. ASSUME NEW d \in Classes
        PROVE  Distinct(l.ring[d]) /\ \A i \in Streams : On(l.ring[d], i) <=> i \in E /\ l.class[i] = d
    <3>1. CASE d = c
      BY <1>3, <1>4, <1>5, <3>1 DEF Linked, E, q
    <3>2. CASE d # c
      BY <1>4, <1>5, <3>2 DEF Linked, E
    <3>3. QED
      BY <3>1, <3>2
  <2>4. QED
    BY <1>4, <1>5, <2>1, <2>2, <2>3 DEF Linked
<1>7. Behind(l, E, passed)
  <2>1. SUFFICES ASSUME NEW i \in E, NEW j \in E, j \in passed[i], l.class[i] = l.class[j], l.class[i][2] = 1
                 PROVE  Before(l.ring[l.class[i]], i, j)
    BY DEF Behind
  <2>2. i # id /\ i \in D /\ l.class[i] = ws.class[i] /\ ws.class[i] \in Classes
    BY <1>5, <2>1 DEF E, Linked
  <2>3. CASE j = id
    <3>1. l.class[i] = c /\ On(q, i)
      BY <1>5, <2>1, <2>2, <2>3 DEF Linked, q
    <3>2. QED
      BY <1>3, <1>4, <2>2, <2>3, <3>1
  <2>4. CASE j # id
    <3>1. j \in D /\ Before(ws.ring[ws.class[i]], i, j)
      BY <1>5, <2>1, <2>2, <2>4 DEF Behind, E
    <3>2. CASE ws.class[i] = c
      BY <1>3, <1>4, <2>2, <3>1, <3>2 DEF q
    <3>3. CASE ws.class[i] # c
      BY <1>4, <2>2, <3>1, <3>3
    <3>4. QED
      BY <3>2, <3>3
  <2>5. QED
    BY <2>3, <2>4
<1>8. QED
  BY <1>6, <1>7 DEF E

\* A stream that is unlinked is on no ring, and the others are where they were.
LEMMA UnlinkLinked ==
  ASSUME NEW D, D \subseteq Streams, NEW ws, DOMAIN ws = Fields, Linked(ws, D), NEW passed, Behind(ws, D, passed),
         NEW id \in D, NEW l, Unlinking(ws, l, id)
  PROVE  Linked(l, D \ {id}) /\ Behind(l, D \ {id}, passed)
<1> DEFINE c == ws.class[id]
           q == ws.ring[c]
           e == RemoveFirst(q, id)
           E == D \ {id}
<1>1. /\ l.kind = ws.kind /\ l.class = [i \in E |-> ws.class[i]]
      /\ l.ring = [ws.ring EXCEPT ![c] = e]
  <2>1. l.kind = ws.kind /\ l.class = without(ws.class, id) /\ l.ring = [ws.ring EXCEPT ![ws.class[id]] = RemoveFirst(@, id)]
    BY DEF Unlinking, unlink, Fields
  <2>2. DOMAIN ws.class = D
    BY DEF Linked
  <2>3. without(ws.class, id) = [i \in E |-> ws.class[i]]
    BY <2>2 DEF without
  <2>4. QED
    BY <2>1, <2>3
<1>2. c \in Classes /\ q \in Seq(Streams) /\ id \in Streams /\ On(q, id) /\ Distinct(q)
  BY DEF Linked
<1> HIDE DEF e, q, E, c
<1>3. /\ e \in Seq(Streams) /\ Distinct(e)
      /\ \A i \in Streams : On(e, i) <=> On(q, i) /\ i # id
      /\ \A i, j \in Streams \ {id} : Before(q, i, j) => Before(e, i, j)
  <2>1. e = RemoveFirst(q, id)
    BY DEF e
  <2>2. QED
    BY <1>2, <2>1, RingRemove
<1>4. l.ring \in [Classes -> Seq(Streams)] /\ l.ring[c] = e /\ \A d \in Classes \ {c} : l.ring[d] = ws.ring[d]
  BY <1>1, <1>2, <1>3 DEF Linked
<1>5. DOMAIN l.class = E /\ E \subseteq D /\ id \notin E /\ \A i \in E : l.class[i] = ws.class[i]
  BY <1>1 DEF E
<1>6. Linked(l, E)
  <2>1. \A i \in E : l.class[i] \in Classes
    BY <1>5 DEF Linked
  <2>2. l.kind = "roundrobin" => \A i \in E : l.class[i] = Turn
    BY <1>1, <1>5 DEF Linked
  <2>3. ASSUME NEW d \in Classes
        PROVE  Distinct(l.ring[d]) /\ \A i \in Streams : On(l.ring[d], i) <=> i \in E /\ l.class[i] = d
    <3>1. CASE d = c
      BY <1>3, <1>4, <1>5, <3>1 DEF Linked, E, q
    <3>2. CASE d # c
      BY <1>4, <1>5, <3>2 DEF Linked, E, c
    <3>3. QED
      BY <3>1, <3>2
  <2>4. QED
    BY <1>4, <1>5, <2>1, <2>2, <2>3 DEF Linked
<1>7. Behind(l, E, passed)
  <2>1. SUFFICES ASSUME NEW i \in E, NEW j \in E, j \in passed[i], l.class[i] = l.class[j], l.class[i][2] = 1
                 PROVE  Before(l.ring[l.class[i]], i, j)
    BY DEF Behind
  <2>2. /\ i \in Streams \ {id} /\ j \in Streams \ {id} /\ l.class[i] = ws.class[i] /\ ws.class[i] \in Classes
        /\ Before(ws.ring[ws.class[i]], i, j)
    BY <1>5, <2>1 DEF Linked, Behind
  <2>3. CASE ws.class[i] = c
    BY <1>3, <1>4, <2>2, <2>3 DEF q
  <2>4. CASE ws.class[i] # c
    BY <1>4, <2>2, <2>4
  <2>5. QED
    BY <2>3, <2>4
<1>8. QED
  BY <1>6, <1>7 DEF E

Turned(e, q, k, c) == e = IF c[2] = 1 THEN after(q, k) ELSE from(q, k)

\* What serving does to a ring: in a class with turns the served one is last.
LEMMA RingServed ==
  ASSUME NEW S, NEW q \in Seq(S), Distinct(q), NEW k \in 1..Len(q), NEW c, NEW e, Turned(e, q, k, c)
  PROVE  /\ e \in Seq(S) /\ Distinct(e) /\ \A i \in S : On(e, i) <=> On(q, i)
         /\ c[2] = 1 => /\ \A a, b \in 1..Len(q) : k < a /\ a < b => Before(e, q[a], q[b])
                        /\ \A a \in 1..Len(q) : k < a => Before(e, q[a], q[k])
<1>1. CASE c[2] = 1
  <2>1. e = after(q, k)
    BY <1>1 DEF Turned
  <2>2. QED
    BY <2>1, RingTurn
<1>2. CASE c[2] # 1
  <2>1. e = from(q, k)
    BY <1>2 DEF Turned
  <2>2. QED
    BY <1>2, <2>1, RingMoved
<1>3. QED
  BY <1>1, <1>2

\* What serving the k-th queue of a class leaves: W are the streams that could
\* have been served.
Turns(ws, ws2, id, W) ==
  LET c == ws.class[id]
      q == ws.ring[c]
  IN  /\ ws2.kind = ws.kind /\ ws2.class = ws.class
      /\ \E k \in 1..Len(q) :
           /\ q[k] = id /\ \A a \in 1..Len(q) : q[a] \in W => k <= a
           /\ \E e : Turned(e, q, k, c) /\ ws2.ring = [ws.ring EXCEPT ![c] = e]

\* The streams passed over then.
Passes(passed, id, W, passed2) ==
  \A i \in Streams : passed2[i] = IF i = id \/ i \notin W THEN {} ELSE passed[i] \cup {id}

\* None of those is passed over by the same stream again.
Fair(ws, D, passed, id, W) ==
  \A i \in D \cap W : i # id /\ ws.class[i] = ws.class[id] /\ ws.class[i][2] = 1 => id \notin passed[i]

\* Serving keeps the rings, puts the served one behind those it passed over and
\* passes over none of them again.
LEMMA Served ==
  ASSUME NEW D, D \subseteq Streams, NEW ws, Linked(ws, D), NEW passed, Behind(ws, D, passed),
         NEW id \in D, NEW W, NEW ws2, Turns(ws, ws2, id, W), NEW passed2, Passes(passed, id, W, passed2)
  PROVE  Linked(ws2, D) /\ Behind(ws2, D, passed2) /\ Fair(ws, D, passed, id, W)
<1>1. PICK c : c = ws.class[id]
  OBVIOUS
<1>2. PICK q : q = ws.ring[c]
  OBVIOUS
<1>3. PICK k, e : /\ k \in 1..Len(q) /\ q[k] = id /\ \A a \in 1..Len(q) : q[a] \in W => k <= a
                  /\ Turned(e, q, k, c) /\ ws2.ring = [ws.ring EXCEPT ![c] = e]
  BY <1>1, <1>2 DEF Turns
<1>4. ws2.kind = ws.kind /\ ws2.class = ws.class
  BY DEF Turns
<1>5. c \in Classes /\ q \in Seq(Streams) /\ Distinct(q) /\ ws.ring \in [Classes -> Seq(Streams)]
      /\ \A i \in Streams : On(q, i) <=> i \in D /\ ws.class[i] = c
  BY <1>1, <1>2 DEF Linked
<1>6. /\ e \in Seq(Streams) /\ Distinct(e) /\ \A i \in Streams : On(e, i) <=> On(q, i)
      /\ c[2] = 1 => /\ \A a, b \in 1..Len(q) : k < a /\ a < b => Before(e, q[a], q[b])
                     /\ \A a \in 1..Len(q) : k < a => Before(e, q[a], q[k])
  <2>1. q \in Seq(Streams) /\ Distinct(q)
    BY <1>5
  <2>2. QED
    BY <1>3, <2>1, RingServed, SMTT(40)
<1>7. ws2.ring \in [Classes -> Seq(Streams)] /\ ws2.ring[c] = e /\ \A d \in Classes \ {c} : ws2.ring[d] = ws.ring[d]
  BY <1>2, <1>3, <1>5, <1>6
<1>8. Linked(ws2, D)
  <2>1. ASSUME NEW d \in Classes
        PROVE  Distinct(ws2.ring[d]) /\ \A i \in Streams : On(ws2.ring[d], i) <=> i \in D /\ ws2.class[i] = d
    <3>1. CASE d = c
      BY <1>4, <1>5, <1>6, <1>7, <3>1
    <3>2. CASE d # c
      BY <1>4, <1>7, <3>2 DEF Linked
    <3>3. QED
      BY <3>1, <3>2
  <2>2. QED
    BY <1>4, <1>7, <2>1 DEF Linked
\* A stream that could have been served is behind the one that was.
<1>9. ASSUME NEW i \in D, i \in W, i # id, ws.class[i] = c
      PROVE  \E a \in 1..Len(q) : k < a /\ q[a] = i
  <2>1. PICK a \in 1..Len(q) : q[a] = i
    BY <1>5, <1>9 DEF On
  <2>2. k <= a /\ a # k
    BY <1>3, <1>9, <2>1
  <2>3. k < a
    BY <1>3, <1>5, <2>2
  <2>4. QED
    BY <2>1, <2>3
<1>10. \A i, j \in D : Before(q, i, j) => \A a, b \in 1..Len(q) : q[a] = i /\ q[b] = j => a < b
  BY <1>5 DEF Before, Distinct
<1>11. Behind(ws2, D, passed2)
  <2>1. SUFFICES ASSUME NEW i \in D, NEW j \in D, j \in passed2[i], ws.class[i] = ws.class[j], ws.class[i][2] = 1
                 PROVE  Before(ws2.ring[ws.class[i]], i, j)
    BY <1>4 DEF Behind
  <2>2. i # id /\ i \in W /\ (j \in passed[i] \/ j = id) /\ ws.class[i] \in Classes
    <3>1. i \in Streams /\ passed2[i] = IF i = id \/ i \notin W THEN {} ELSE passed[i] \cup {id}
      BY DEF Passes
    <3>2. QED
      BY <2>1, <3>1 DEF Linked
  <2>3. CASE ws.class[i] # c
    <3>1. j # id
      BY <1>1, <2>1, <2>3
    <3>2. Before(ws.ring[ws.class[i]], i, j)
      BY <2>1, <2>2, <3>1 DEF Behind
    <3>3. QED
      BY <1>7, <2>2, <2>3, <3>2
  <2>4. CASE ws.class[i] = c
    <3>1. PICK a \in 1..Len(q) : k < a /\ q[a] = i
      BY <1>9, <2>2, <2>4
    <3>2. CASE j = id
      BY <1>3, <1>6, <1>7, <2>1, <2>4, <3>1, <3>2
    <3>3. CASE j # id
      <4>1. Before(q, i, j)
        BY <1>2, <2>1, <2>2, <2>4, <3>3 DEF Behind
      <4>2. PICK b \in 1..Len(q) : q[b] = j
        BY <4>1 DEF Before
      <4>3. a < b
        BY <1>10, <3>1, <4>1, <4>2
      <4>4. QED
        BY <1>6, <1>7, <2>1, <2>4, <3>1, <4>2, <4>3
    <3>4. QED
      BY <3>2, <3>3
  <2>5. QED
    BY <2>3, <2>4
<1>12. ASSUME NEW i \in D, i \in W, i # id, ws.class[i] = c, c[2] = 1 PROVE id \notin passed[i]
  <2>1. SUFFICES ASSUME id \in passed[i] PROVE FALSE
    OBVIOUS
  <2>2. Before(q, i, id)
    BY <1>1, <1>2, <1>12, <2>1 DEF Behind
  <2>3. PICK a \in 1..Len(q) : k < a /\ q[a] = i
    BY <1>9, <1>12
  <2>4. a < k
    BY <1>3, <1>10, <2>2, <2>3
  <2>5. k \in 1..Len(q) /\ a \in 1..Len(q) /\ Len(q) \in Nat
    BY <1>3, <1>5, <2>3
  <2>6. QED
    BY <2>3, <2>4, <2>5
<1>13. QED
  BY <1>1, <1>8, <1>11, <1>12 DEF Fair

-----------------------------------------------------------------------------
(* What Pop takes.                                                          *)

\* The k-th queue of the ring is the first that can be served.
First(ws, allowed, q, k) ==
  /\ k \in 1..Len(q) /\ ready(ws, allowed, q[k])
  /\ \A a \in 1..Len(q) : ready(ws, allowed, q[a]) => k <= a

\* What Min returns.
LEMMA LeastIs ==
  ASSUME NEW T \in SUBSET Nat, T # {}
  PROVE  Min(T) \in T /\ \A y \in T : Min(T) <= y
<1>1. \E x \in T : \A y \in T : x <= y
  BY LeastNat
<1>2. QED
  BY <1>1 DEF Min

\* The index popRing looks for is that of the first queue that can send.
LEMMA FirstReady ==
  ASSUME NEW ws, NEW allowed, NEW q, Len(q) \in Nat,
         NEW k, k = SelectInSeq(q, LAMBDA id : ready(ws, allowed, id))
  PROVE  /\ k = 0 => \A a \in 1..Len(q) : ~ready(ws, allowed, q[a])
         /\ k # 0 => First(ws, allowed, q, k)
<1> DEFINE I == {i \in 1..Len(q) : ready(ws, allowed, q[i])}
<1>1. k = IF I # {} THEN Min(I) ELSE 0
  BY DEF SelectInSeq
<1>2. I \in SUBSET Nat /\ \A i \in 1..Len(q) : i \in I <=> ready(ws, allowed, q[i])
  OBVIOUS
<1>3. I \subseteq 1..Len(q)
  OBVIOUS
<1> HIDE DEF I
<1>4. CASE I = {}
  BY <1>1, <1>2, <1>4
<1>5. CASE I # {}
  <2>1. k \in I /\ \A y \in I : k <= y
    <3>1. Min(I) \in I /\ \A y \in I : Min(I) <= y
      BY <1>2, <1>5, LeastIs
    <3>2. k = Min(I)
      BY <1>1, <1>5
    <3>3. QED
      BY <3>1, <3>2
  <2>2. k # 0
    BY <1>3, <2>1
  <2>3. QED
    BY <1>2, <1>3, <2>1, <2>2 DEF First
<1>6. QED
  BY <1>4, <1>5

\* popRing returns nothing if no queue of the ring can send, else the first frame
\* of the first one that can.
LEMMA PopRingIs ==
  ASSUME NEW ws, NEW allowed, NEW c, Len(ws.ring[c]) \in Nat
  PROVE  /\ popRing(ws, allowed, c) = {} <=> \A a \in 1..Len(ws.ring[c]) : ~ready(ws, allowed, ws.ring[c][a])
         /\ \A p \in popRing(ws, allowed, c) :
              \E k : /\ First(ws, allowed, ws.ring[c], k)
                     /\ p = [consume(ws, allowed, ws.ring[c][k])
                               EXCEPT !.ws.ring[c] = IF c[2] = 1 THEN after(@, k) ELSE from(@, k)]
<1>1. PICK k : k = SelectInSeq(ws.ring[c], LAMBDA id : ready(ws, allowed, id))
  OBVIOUS
<1>2. /\ k = 0 => \A a \in 1..Len(ws.ring[c]) : ~ready(ws, allowed, ws.ring[c][a])
      /\ k # 0 => First(ws, allowed, ws.ring[c], k)
  BY <1>1, FirstReady
<1>3. popRing(ws, allowed, c) =
        IF k = 0 THEN {}
        ELSE {[consume(ws, allowed, ws.ring[c][k]) EXCEPT !.ws.ring[c] = IF c[2] = 1 THEN after(@, k) ELSE from(@, k)]}
  BY <1>1 DEF popRing
<1>4. QED
  BY <1>2, <1>3 DEF First

-----------------------------------------------------------------------------
(* Frames in pieces.                                                        *)

\* What is queued: frames of no stream, and frames of a stream.
ControlFrame(c) == {"id", "ctl", "data"} \subseteq DOMAIN c /\ c.ctl = TRUE /\ c.data = <<>>

StreamFrame(c, id) ==
  /\ {"op", "id", "ctl", "data", "end"} \subseteq DOMAIN c
  /\ c.op \in {"BLOCK", "DATA"} /\ c.id = id /\ c.ctl = FALSE /\ IsList(c.data)
  /\ c.op = "BLOCK" => c.data = <<>>

Frames(q, id) == IsList(q) /\ \A k \in 1..Len(q) : StreamFrame(q[k], id)

octetsOf(d) == [b \in DOMAIN d |-> [octet |-> d[b]]]
mark(c) == IF c.end THEN <<[end |-> TRUE]>> ELSE <<>>

\* END_STREAM is a piece of its own,
LEMMA MarkIsList ==
  ASSUME NEW c
  PROVE  IsList(mark(c))
BY OneItem, EmptyList DEF mark

\* and so is every octet.
LEMMA OctetsAreList ==
  ASSUME NEW d, IsList(d)
  PROVE  IsList(octetsOf(d)) /\ Len(octetsOf(d)) = Len(d) /\ \A i \in 1..Len(d) : octetsOf(d)[i] = [octet |-> d[i]]
<1>1. DOMAIN d = 1..Len(d) /\ Len(d) \in Nat
  BY DEF IsList
<1>2. octetsOf(d) = [b \in 1..Len(d) |-> [octet |-> d[b]]]
  BY <1>1 DEF octetsOf
<1>3. QED
  BY <1>1, <1>2 DEF IsList

\* What a frame is in pieces.
LEMMA PieceIs ==
  ASSUME NEW id, NEW c, StreamFrame(c, id)
  PROVE  /\ c.op = "BLOCK" => piece(c) = <<[fields |-> c.fields]>> \o mark(c)
         /\ c.op # "BLOCK" => piece(c) = octetsOf(c.data) \o mark(c)
         /\ IsList(piece(c))
<1>1. /\ c.op = "BLOCK" => piece(c) = <<[fields |-> c.fields]>> \o mark(c)
      /\ c.op # "BLOCK" => piece(c) = octetsOf(c.data) \o mark(c)
  BY DEF piece, octetsOf, mark
<1>2. IsList(mark(c))
  BY MarkIsList
<1>3. CASE c.op = "BLOCK"
  <2>1. PICK f : f = <<[fields |-> c.fields]>>
    OBVIOUS
  <2>2. IsList(f) /\ piece(c) = f \o mark(c)
    BY <1>1, <1>3, <2>1, OneItem
  <2>3. Joins(piece(c), f, mark(c))
    BY <2>2 DEF Joins
  <2>4. QED
    BY <1>1, <1>2, <2>2, <2>3, ListJoin
<1>4. CASE c.op # "BLOCK"
  <2>1. IsList(octetsOf(c.data)) /\ piece(c) = octetsOf(c.data) \o mark(c)
    BY <1>1, <1>4, OctetsAreList DEF StreamFrame
  <2>2. Joins(piece(c), octetsOf(c.data), mark(c))
    BY <2>1 DEF Joins
  <2>3. QED
    BY <1>1, <1>2, <2>1, <2>2, ListJoin
<1>5. QED
  BY <1>3, <1>4

\* The pieces of each frame.
Each(q) == [k \in 1..Len(q) |-> piece(q[k])]

\* What a queue is in pieces.
LEMMA PiecesAre ==
  ASSUME NEW id, NEW q, Frames(q, id)
  PROVE  /\ Len(q) \in Nat /\ pieces(q) = FlattenSeq(Upto(Each(q), Len(q))) /\ Lists(Each(q), Len(q))
         /\ IsList(pieces(q))
<1>1. DOMAIN q = 1..Len(q) /\ Len(q) \in Nat
  BY DEF Frames, IsList
<1>2. pieces(q) = FlattenSeq(Upto(Each(q), Len(q)))
  <2>1. [k \in DOMAIN q |-> piece(q[k])] = Upto(Each(q), Len(q))
    BY <1>1 DEF Upto, Each
  <2>2. QED
    BY <2>1 DEF pieces
<1>3. Lists(Each(q), Len(q))
  <2>1. ASSUME NEW i \in 1..Len(q) PROVE IsList(Each(q)[i])
    <3>1. Each(q)[i] = piece(q[i]) /\ StreamFrame(q[i], id)
      BY DEF Each, Frames
    <3>2. QED
      BY <3>1, PieceIs
  <2>2. QED
    BY <2>1 DEF Lists
<1>4. IsList(pieces(q))
  BY <1>1, <1>2, <1>3, FlattenIsList
<1>5. QED
  BY <1>1, <1>2, <1>3, <1>4

\* An empty queue.
LEMMA NoPieces == pieces(<<>>) = <<>> /\ \A id : Frames(<<>>, id)
<1>1. pieces(<<>>) = <<>>
  BY DEF pieces, FlattenSeq
<1>2. \A id : Frames(<<>>, id)
  BY EmptyList DEF Frames
<1>3. QED
  BY <1>1, <1>2

\* A frame asked for comes after what was asked for before.
LEMMA PiecesAppend ==
  ASSUME NEW id, NEW q, Frames(q, id), NEW c, StreamFrame(c, id), NEW e, Appended(e, q, c)
  PROVE  Frames(e, id) /\ pieces(e) = pieces(q) \o piece(c)
<1>1. PICK n \in Nat : n = Len(q)
  BY PiecesAre
<1>2. PICK m \in Nat : m = n + 1
  OBVIOUS
<1>3. IsList(e) /\ Len(e) = m /\ (\A i \in 1..n : e[i] = q[i]) /\ e[m] = c
  <2>1. IsList(q) /\ e = Append(q, c)
    BY DEF Frames, Appended
  <2>2. QED
    BY <1>1, <1>2, <2>1, ListAppend
<1>4. \A i \in 1..m : i \in 1..n \/ i = m
  BY <1>2
<1>5. Frames(e, id)
  BY <1>1, <1>3, <1>4 DEF Frames
<1>6. Upto(Each(e), n) = Upto(Each(q), n) /\ Each(e)[m] = piece(c)
  BY <1>1, <1>2, <1>3 DEF Upto, Each
<1>7. FlattenSeq(Upto(Each(e), m)) = FlattenSeq(Upto(Each(e), n)) \o Each(e)[m]
  <2>1. IsList(Each(e)[m])
    BY <1>6, PieceIs
  <2>2. QED
    BY <1>2, <2>1, UptoMore
<1>8. pieces(e) = FlattenSeq(Upto(Each(e), m)) /\ pieces(q) = FlattenSeq(Upto(Each(q), n))
  BY <1>1, <1>3, <1>5, PiecesAre
<1>9. QED
  BY <1>5, <1>6, <1>7, <1>8

\* The first frame of a queue, and the rest of it.
LEMMA PiecesFirst ==
  ASSUME NEW id, NEW q, Frames(q, id), q # <<>>, NEW t, t = Tail(q)
  PROVE  Frames(t, id) /\ StreamFrame(q[1], id) /\ Head(q) = q[1] /\ pieces(q) = piece(q[1]) \o pieces(t)
<1>1. IsList(t) /\ Len(q) \in Nat \ {0} /\ Len(t) = Len(q) - 1 /\ Head(q) = q[1]
      /\ \A i \in 1..(Len(q) - 1) : t[i] = q[i + 1]
  BY ListTail DEF Frames
<1>2. PICK n \in Nat : n = Len(q) - 1
  <2>1. Len(q) \in Nat \ {0}
    BY <1>1
  <2>2. QED
    BY <2>1
<1>3. PICK m \in Nat : m = n + 1
  OBVIOUS
<1>4. Len(q) = m /\ Len(t) = n /\ \A i \in 1..n : t[i] = q[i + 1] /\ i + 1 \in 1..m
  <2>1. Len(q) = m /\ Len(t) = n /\ n = Len(q) - 1
    BY <1>1, <1>2, <1>3
  <2>2. \A i \in 1..n : t[i] = q[i + 1]
    BY <1>1, <1>2
  <2>3. \A i \in 1..n : i + 1 \in 1..m
    BY <1>3
  <2>4. QED
    BY <2>1, <2>2, <2>3
<1>5. Frames(t, id) /\ StreamFrame(q[1], id)
  BY <1>1, <1>3, <1>4 DEF Frames
<1>6. pieces(q) = FlattenSeq(Upto(Each(q), m)) /\ Lists(Each(q), m) /\ pieces(t) = FlattenSeq(Upto(Each(t), n))
  BY <1>4, <1>5, PiecesAre
<1>7. FlattenSeq(Upto(Each(q), m)) = Each(q)[1] \o FlattenSeq(Upto([i \in 1..n |-> Each(q)[i + 1]], n))
  BY <1>3, <1>6, FlattenFirst
<1>8. Each(q)[1] = piece(q[1]) /\ [i \in 1..n |-> Each(q)[i + 1]] = Each(t)
  BY <1>3, <1>4 DEF Each
<1>9. QED
  BY <1>1, <1>5, <1>6, <1>7, <1>8

\* A queue whose first frame was written in part.
LEMMA PiecesPut ==
  ASSUME NEW id, NEW q, Frames(q, id), q # <<>>, NEW c, StreamFrame(c, id), NEW e, e = <<c>> \o Tail(q)
  PROVE  Frames(e, id) /\ pieces(e) = piece(c) \o pieces(Tail(q))
<1>1. PICK t : t = Tail(q)
  OBVIOUS
<1>2. /\ IsList(t) /\ Len(q) \in Nat \ {0} /\ Len(t) = Len(q) - 1
      /\ \A i \in 1..(Len(q) - 1) : t[i] = q[i + 1]
  BY <1>1, ListTail DEF Frames
<1>3. IsList(e) /\ Len(e) = Len(q) /\ e[1] = c /\ \A i \in 2..Len(q) : e[i] = q[i]
  <2>1. IsList(q) /\ Put(e, c, q)
    BY DEF Frames, Put
  <2>2. QED
    BY <2>1, ListPut
<1>4. Frames(e, id)
  <2>1. \A i \in 1..Len(q) : i = 1 \/ i \in 2..Len(q)
    BY <1>2
  <2>2. QED
    BY <1>3, <2>1 DEF Frames
<1>5. e # <<>>
  BY <1>2, <1>3, EmptyList
<1>6. PICK u : u = Tail(e)
  OBVIOUS
<1>7. IsList(u) /\ Len(u) = Len(e) - 1 /\ \A i \in 1..(Len(e) - 1) : u[i] = e[i + 1]
  BY <1>3, <1>5, <1>6, ListTail
<1>8. u = t
  <2>1. Len(u) = Len(t)
    BY <1>2, <1>3, <1>7
  <2>2. ASSUME NEW i \in 1..Len(u) PROVE u[i] = t[i]
    <3>1. i \in 1..(Len(q) - 1) /\ i \in 1..(Len(e) - 1) /\ i + 1 \in 2..Len(q)
      BY <1>2, <1>3, <1>7
    <3>2. QED
      BY <1>2, <1>3, <1>7, <3>1
  <2>3. QED
    BY <1>2, <1>7, <2>1, <2>2, ListEqual
<1>9. pieces(e) = piece(e[1]) \o pieces(u)
  BY <1>4, <1>5, <1>6, PiecesFirst
<1>10. QED
  BY <1>1, <1>3, <1>4, <1>8, <1>9

\* Cutting a DATA frame.
CutFrame(c, n, part, left) == part = partOf(c, n) /\ left = [c EXCEPT !.data = SubSeq(@, n + 1, Len(@))]

\* A frame that is cut is, in pieces, its two parts: END_STREAM stays with the
\* second one (writesched.go:103).
LEMMA PieceCut ==
  ASSUME NEW id, NEW c, StreamFrame(c, id), NEW n \in Nat, n < Len(c.data),
         NEW part, NEW left, CutFrame(c, n, part, left)
  PROVE  /\ StreamFrame(part, id) /\ StreamFrame(left, id) /\ Len(part.data) = n
         /\ piece(c) = piece(part) \o piece(left)
<1>1. PICK d : d = c.data
  OBVIOUS
<1>2. PICK k : k = Len(d)
  OBVIOUS
<1>3. IsList(d) /\ k \in Nat /\ n <= k /\ n < k
  BY <1>1, <1>2 DEF StreamFrame, IsList
<1>5. PICK l : l = k - n
  OBVIOUS
<1>6. PICK a : a = SubSeq(d, 1, n)
  OBVIOUS
<1>7. PICK b : b = SubSeq(d, n + 1, k)
  OBVIOUS
<1>8. /\ IsList(a) /\ Len(a) = n /\ \A i \in 1..n : a[i] = d[i]
      /\ IsList(b) /\ Len(b) = l /\ \A i \in 1..l : b[i] = d[n + i]
  <2>1. IsList(d) /\ n <= Len(d) /\ Cut(d, n, a, b)
    BY <1>2, <1>3, <1>6, <1>7 DEF Cut
  <2>2. Len(d) - n = l
    BY <1>2, <1>5
  <2>3. QED
    BY <2>1, <2>2, ListCut
<1>9. c.op = "DATA" /\ c.op # "BLOCK"
  BY <1>1, <1>2, <1>3, EmptyList DEF StreamFrame
<1>10. /\ part.op = c.op /\ part.id = c.id /\ part.ctl = c.ctl /\ part.data = a /\ part.end = FALSE
       /\ left.op = c.op /\ left.id = c.id /\ left.ctl = c.ctl /\ left.data = b /\ left.end = c.end
       /\ DOMAIN part = DOMAIN c /\ DOMAIN left = DOMAIN c
  BY <1>1, <1>2, <1>6, <1>7 DEF CutFrame, partOf, StreamFrame
<1>11. StreamFrame(part, id) /\ StreamFrame(left, id)
  BY <1>8, <1>9, <1>10 DEF StreamFrame
<1>12. PICK A : A = octetsOf(a)
  OBVIOUS
<1>13. PICK B : B = octetsOf(b)
  OBVIOUS
<1>14. PICK E : E = mark(c)
  OBVIOUS
<1>15. /\ IsList(A) /\ Len(A) = n /\ \A i \in 1..n : A[i] = [octet |-> a[i]]
       /\ IsList(B) /\ Len(B) = l /\ \A i \in 1..l : B[i] = [octet |-> b[i]]
       /\ IsList(octetsOf(d)) /\ Len(octetsOf(d)) = k /\ \A i \in 1..k : octetsOf(d)[i] = [octet |-> d[i]]
       /\ IsList(E)
  BY <1>2, <1>3, <1>8, <1>12, <1>13, <1>14, OctetsAreList, MarkIsList
<1>16. octetsOf(d) = A \o B
  <2>1. PICK D : D = octetsOf(d)
    OBVIOUS
  <2>2. IsList(D) /\ Len(D) = n + l /\ n \in Nat /\ l \in Nat /\ k = n + l
    <3>1. l \in Nat /\ k = n + l
      BY <1>3, <1>5
    <3>2. IsList(D) /\ Len(D) = k
      BY <1>15, <2>1
    <3>3. QED
      BY <3>1, <3>2
  <2>3. \A i \in 1..n : i \in 1..k
    BY <2>2
  <2>4. \A i \in 1..l : n + i \in 1..k
    BY <2>2
  <2>5. \A i \in 1..n : D[i] = A[i]
    BY <1>8, <1>15, <2>1, <2>3
  <2>6. \A i \in 1..l : D[n + i] = B[i]
    BY <1>8, <1>15, <2>1, <2>4
  <2>7. D = A \o B
    <3>1. IsList(A) /\ IsList(B) /\ n = Len(A) /\ l = Len(B)
      BY <1>15
    <3>2. Joins(D, A, B)
      BY <2>2, <2>5, <2>6, <3>1, ListJoins
    <3>3. QED
      BY <3>2 DEF Joins
  <2>8. QED
    BY <2>1, <2>7
<1>17. piece(part) = A
  <2>1. piece(part) = A \o <<>>
    <3>1. mark(part) = <<>>
      BY <1>10 DEF mark
    <3>2. QED
      BY <1>9, <1>10, <1>11, <1>12, <3>1, PieceIs
  <2>2. QED
    BY <1>15, <2>1, JoinEmpty
<1>18. piece(left) = B \o E /\ piece(c) = octetsOf(d) \o E
  <2>1. mark(left) = E
    BY <1>10, <1>14 DEF mark
  <2>2. QED
    BY <1>1, <1>9, <1>10, <1>11, <1>13, <1>14, <2>1, PieceIs
<1>19. (A \o B) \o E = A \o (B \o E)
  <2>1. IsList(A) /\ IsList(B) /\ IsList(E)
    BY <1>15
  <2>2. QED
    BY <2>1, JoinThree
<1>20. QED
  BY <1>8, <1>10, <1>11, <1>16, <1>17, <1>18, <1>19

Queues(ws) ==
  /\ DOMAIN ws = Fields
  /\ IsList(ws.control) /\ \A k \in 1..Len(ws.control) : ControlFrame(ws.control[k])
  /\ DOMAIN ws.queue \subseteq Streams
  /\ \A id \in DOMAIN ws.queue : Frames(ws.queue[id], id)
  /\ DOMAIN ws.priorityUpdateBuf = {"id", "prio"} /\ ws.priorityUpdateBuf.prio \in Classes

Ringed(kind) == kind \in {"roundrobin", "rfc9218"}

Scheduler(ws, D, passed) ==
  /\ Queues(ws) /\ ws.panic = FALSE
  /\ IF Ringed(ws.kind) THEN DOMAIN ws.queue = D /\ Linked(ws, D) /\ Behind(ws, D, passed)
     ELSE DOMAIN ws.queue \subseteq D

-----------------------------------------------------------------------------
(* What Pop returns.                                                        *)

\* A frame of the stream, and the scheduler without it.
Takes(ws, allowed, id, p) ==
  /\ id \in DOMAIN ws.queue /\ ready(ws, allowed, id)
  /\ StreamFrame(p.wr, id) /\ Len(p.wr.data) <= allowed[id]
  /\ DOMAIN p.ws = Fields /\ p.ws.kind = ws.kind /\ p.ws.control = ws.control /\ p.ws.class = ws.class
  /\ p.ws.priorityUpdateBuf = ws.priorityUpdateBuf /\ p.ws.panic = ws.panic
  /\ \E later : /\ Frames(later, id) /\ pieces(ws.queue[id]) = piece(p.wr) \o pieces(later)
               /\ \/ p.ws.queue = [ws.queue EXCEPT ![id] = later]
                  \/ ws.kind = "random" /\ later = <<>> /\ p.ws.queue = without(ws.queue, id)

InTurn(ws, allowed, id, p) ==
  LET c == ws.class[id]
  IN  \E k : /\ First(ws, allowed, ws.ring[c], k) /\ ws.ring[c][k] = id
             /\ \E e : Turned(e, ws.ring[c], k, c) /\ p.ws.ring = [ws.ring EXCEPT ![c] = e]

\* The smaller one of two numbers.
LEMMA MinTwo ==
  ASSUME NEW a \in Nat, NEW b \in Nat
  PROVE  Min({a, b}) \in {a, b} /\ Min({a, b}) <= a /\ Min({a, b}) <= b
<1>1. PICK T : T = {a, b}
  OBVIOUS
<1>2. T \in SUBSET Nat /\ T # {} /\ a \in T /\ b \in T
  BY <1>1
<1>3. Min(T) \in T /\ \A y \in T : Min(T) <= y
  BY <1>2, LeastIs
<1>4. QED
  BY <1>1, <1>2, <1>3

\* The first frame of the queue, or as much of it as is allowed, and the later.
Gives(ws, allowed, id, p) ==
  /\ p = [wr |-> p.wr, ws |-> p.ws]
  /\ StreamFrame(p.wr, id) /\ Len(p.wr.data) <= allowed[id]
  /\ \E later : /\ Frames(later, id) /\ pieces(ws.queue[id]) = piece(p.wr) \o pieces(later)
               /\ p.ws = [ws EXCEPT !.queue[id] = later]

Consumed(p, ws, allowed, id) == p = consume(ws, allowed, id)

\* consume gives the first pieces of a queue and leaves the others, in order,
\* whether it takes a frame or cuts it.
LEMMA ConsumeIs ==
  ASSUME NEW ws, DOMAIN ws = Fields, NEW id \in DOMAIN ws.queue, Frames(ws.queue[id], id), NEW allowed,
         allowed[id] \in Nat, ready(ws, allowed, id), NEW p, Consumed(p, ws, allowed, id)
  PROVE  Gives(ws, allowed, id, p)
<1>1. PICK q : q = ws.queue[id]
  OBVIOUS
<1>2. PICK t : t = Tail(q)
  OBVIOUS
<1>3. PICK c : c = Head(q)
  OBVIOUS
<1>4. PICK n : n = Min({Len(c.data), allowed[id]})
  OBVIOUS
<1>5. PICK left : left = [c EXCEPT !.data = SubSeq(@, n + 1, Len(@))]
  OBVIOUS
<1>6. PICK later : later = IF Len(c.data) <= n THEN t ELSE <<left>> \o t
  OBVIOUS
<1>7. p = [wr |-> IF Len(c.data) <= n THEN c ELSE partOf(c, n), ws |-> [ws EXCEPT !.queue[id] = later]]
  BY <1>1, <1>2, <1>3, <1>4, <1>5, <1>6 DEF Consumed, consume
<1>8. q # <<>>
  BY <1>1 DEF ready
<1>9. Frames(t, id) /\ StreamFrame(c, id) /\ pieces(q) = piece(c) \o pieces(t)
  <2>1. Frames(q, id)
    BY <1>1
  <2>2. QED
    BY <1>2, <1>3, <1>8, <2>1, PiecesFirst
<1>10. Len(c.data) \in Nat
  BY <1>9 DEF StreamFrame, IsList
<1>11. n \in Nat /\ n <= Len(c.data) /\ n <= allowed[id]
  <2>1. PICK a \in Nat : a = Len(c.data)
    BY <1>10
  <2>2. PICK b \in Nat : b = allowed[id]
    OBVIOUS
  <2>3. n = Min({a, b})
    BY <1>4, <2>1, <2>2
  <2>4. QED
    BY <2>1, <2>2, <2>3, MinTwo
<1>12. CASE Len(c.data) <= n
  <2>1. later = t /\ p.wr = c /\ p.ws = [ws EXCEPT !.queue[id] = later] /\ p = [wr |-> p.wr, ws |-> p.ws]
    BY <1>6, <1>7, <1>12
  <2>2. Len(p.wr.data) <= allowed[id]
    BY <1>10, <1>11, <1>12, <2>1
  <2>3. QED
    BY <1>1, <1>9, <2>1, <2>2 DEF Gives
<1>13. CASE ~(Len(c.data) <= n)
  <2>1. PICK part : part = partOf(c, n)
    OBVIOUS
  <2>2. later = <<left>> \o t /\ p.wr = part /\ p.ws = [ws EXCEPT !.queue[id] = later] /\ p = [wr |-> p.wr, ws |-> p.ws]
    BY <1>6, <1>7, <1>13, <2>1
  <2>3. n < Len(c.data)
    BY <1>10, <1>11, <1>13
  <2>4. /\ StreamFrame(part, id) /\ StreamFrame(left, id) /\ Len(part.data) = n
        /\ piece(c) = piece(part) \o piece(left)
    <3>1. CutFrame(c, n, part, left)
      BY <1>5, <2>1 DEF CutFrame
    <3>2. QED
      BY <1>9, <1>11, <2>3, <3>1, PieceCut
  <2>5. Frames(later, id) /\ pieces(later) = piece(left) \o pieces(t)
    <3>1. Frames(q, id) /\ later = <<left>> \o Tail(q)
      BY <1>1, <1>2, <2>2
    <3>2. QED
      BY <1>2, <1>8, <2>4, <3>1, PiecesPut
  <2>6. pieces(q) = piece(part) \o pieces(later)
    <3>1. IsList(piece(part)) /\ IsList(piece(left)) /\ IsList(pieces(t))
      BY <1>9, <2>4, PieceIs, PiecesAre
    <3>2. (piece(part) \o piece(left)) \o pieces(t) = piece(part) \o (piece(left) \o pieces(t))
      BY <3>1, JoinThree
    <3>3. QED
      BY <1>9, <2>4, <2>5, <3>2
  <2>7. QED
    BY <1>1, <1>11, <2>2, <2>4, <2>5, <2>6 DEF Gives
<1>14. QED
  BY <1>12, <1>13

\* What changing one queue leaves of the scheduler.
LEMMA PutQueue ==
  ASSUME NEW ws, DOMAIN ws = Fields, NEW id, NEW later, NEW l, l = [ws EXCEPT !.queue[id] = later]
  PROVE  /\ DOMAIN l = Fields /\ l.kind = ws.kind /\ l.control = ws.control /\ l.class = ws.class
         /\ l.ring = ws.ring /\ l.priorityUpdateBuf = ws.priorityUpdateBuf /\ l.panic = ws.panic
         /\ l.queue = [ws.queue EXCEPT ![id] = later]
BY DEF Fields

\* What popRing gives.
LEMMA RingPops ==
  ASSUME NEW ws, Queues(ws), Linked(ws, DOMAIN ws.queue), NEW allowed, \A id \in Streams : allowed[id] \in Nat,
         NEW c \in Classes, NEW p \in popRing(ws, allowed, c)
  PROVE  \E id : Takes(ws, allowed, id, p) /\ ws.class[id] = c /\ InTurn(ws, allowed, id, p)
<1>1. PICK q : q = ws.ring[c]
  OBVIOUS
<1>2. q \in Seq(Streams) /\ Len(q) \in Nat
  BY <1>1 DEF Linked
<1>3. PICK k : /\ First(ws, allowed, q, k)
               /\ p = [consume(ws, allowed, q[k]) EXCEPT !.ws.ring[c] = IF c[2] = 1 THEN after(@, k) ELSE from(@, k)]
  <2>1. Len(ws.ring[c]) \in Nat
    BY <1>1, <1>2
  <2>2. QED
    BY <1>1, <2>1, PopRingIs
<1>4. PICK id : id = q[k]
  OBVIOUS
<1>5. id \in DOMAIN ws.queue /\ id \in Streams /\ ws.class[id] = c /\ ready(ws, allowed, id)
  <2>1. k \in 1..Len(q) /\ ready(ws, allowed, q[k]) /\ q[k] \in Streams
    BY <1>2, <1>3 DEF First
  <2>2. On(q, id)
    BY <1>4, <2>1 DEF On
  <2>3. QED
    BY <1>1, <1>4, <2>1, <2>2 DEF Linked
<1>6. PICK u : u = consume(ws, allowed, id)
  OBVIOUS
<1>7. DOMAIN ws = Fields /\ Frames(ws.queue[id], id) /\ allowed[id] \in Nat
  BY <1>5 DEF Queues
<1>8. /\ u = [wr |-> u.wr, ws |-> u.ws] /\ StreamFrame(u.wr, id) /\ Len(u.wr.data) <= allowed[id]
      /\ \E later : /\ Frames(later, id) /\ pieces(ws.queue[id]) = piece(u.wr) \o pieces(later)
                   /\ u.ws = [ws EXCEPT !.queue[id] = later]
  <2>1. Consumed(u, ws, allowed, id)
    BY <1>6 DEF Consumed
  <2>2. Gives(ws, allowed, id, u)
    BY <1>5, <1>7, <2>1, ConsumeIs
  <2>3. QED
    BY <2>2 DEF Gives
<1>9. PICK later : /\ Frames(later, id) /\ pieces(ws.queue[id]) = piece(u.wr) \o pieces(later)
                  /\ u.ws = [ws EXCEPT !.queue[id] = later]
  BY <1>8
<1>10. /\ DOMAIN u.ws = Fields /\ u.ws.kind = ws.kind /\ u.ws.control = ws.control /\ u.ws.class = ws.class
       /\ u.ws.ring = ws.ring /\ u.ws.priorityUpdateBuf = ws.priorityUpdateBuf /\ u.ws.panic = ws.panic
       /\ u.ws.queue = [ws.queue EXCEPT ![id] = later]
  BY <1>7, <1>9, PutQueue
<1>11. PICK e : e = IF c[2] = 1 THEN after(q, k) ELSE from(q, k)
  OBVIOUS
<1>12. p = [wr |-> u.wr, ws |-> [u.ws EXCEPT !.ring = [ws.ring EXCEPT ![c] = e]]]
  <2>1. PICK x, y : u = [wr |-> x, ws |-> y] /\ x = u.wr /\ y = u.ws
    BY <1>8
  <2>2. p = [u EXCEPT !.ws.ring[c] = IF c[2] = 1 THEN after(@, k) ELSE from(@, k)]
    BY <1>3, <1>4, <1>6
  <2>3. y.ring[c] = q
    BY <1>1, <1>10, <2>1
  <2>4. p = [wr |-> x, ws |-> [y EXCEPT !.ring[c] = e]]
    BY <1>11, <2>1, <2>2, <2>3
  <2>5. [y EXCEPT !.ring[c] = e] = [y EXCEPT !.ring = [ws.ring EXCEPT ![c] = e]]
    BY <1>10, <2>1
  <2>6. QED
    BY <2>1, <2>4, <2>5
<1>13. PICK v : v = [u.ws EXCEPT !.ring = [ws.ring EXCEPT ![c] = e]]
  OBVIOUS
<1>14. /\ DOMAIN v = Fields /\ v.kind = ws.kind /\ v.control = ws.control /\ v.class = ws.class
       /\ v.ring = [ws.ring EXCEPT ![c] = e] /\ v.priorityUpdateBuf = ws.priorityUpdateBuf /\ v.panic = ws.panic
       /\ v.queue = [ws.queue EXCEPT ![id] = later]
  BY <1>10, <1>13 DEF Fields
<1>15. p.wr = u.wr /\ p.ws = v
  BY <1>12, <1>13
<1>16. Takes(ws, allowed, id, p)
  BY <1>5, <1>8, <1>9, <1>14, <1>15 DEF Takes
<1>17. InTurn(ws, allowed, id, p)
  BY <1>1, <1>3, <1>4, <1>5, <1>11, <1>14, <1>15 DEF InTurn, Turned
<1>18. QED
  BY <1>5, <1>16, <1>17

\* What the random scheduler gives.
LEMMA RandomPops ==
  ASSUME NEW ws, Queues(ws), ws.kind = "random", NEW allowed, \A id \in Streams : allowed[id] \in Nat,
         NEW p \in popRandom(ws, allowed)
  PROVE  \E id : Takes(ws, allowed, id, p)
<1>1. PICK id \in DOMAIN ws.queue :
        /\ ready(ws, allowed, id)
        /\ p = [consume(ws, allowed, id) EXCEPT !.ws.queue = IF @[id] = <<>> THEN without(@, id) ELSE @]
  BY DEF popRandom
<1>2. PICK u : u = consume(ws, allowed, id)
  OBVIOUS
<1>3. DOMAIN ws = Fields /\ Frames(ws.queue[id], id) /\ allowed[id] \in Nat
  BY DEF Queues
<1>4. Gives(ws, allowed, id, u)
  <2>1. Consumed(u, ws, allowed, id)
    BY <1>2 DEF Consumed
  <2>2. QED
    BY <1>1, <1>3, <2>1, ConsumeIs
<1>5. PICK later : /\ Frames(later, id) /\ pieces(ws.queue[id]) = piece(u.wr) \o pieces(later)
                  /\ u.ws = [ws EXCEPT !.queue[id] = later]
  BY <1>4 DEF Gives
<1>6. u = [wr |-> u.wr, ws |-> u.ws] /\ StreamFrame(u.wr, id) /\ Len(u.wr.data) <= allowed[id]
  BY <1>4 DEF Gives
<1>7. /\ DOMAIN u.ws = Fields /\ u.ws.kind = ws.kind /\ u.ws.control = ws.control /\ u.ws.class = ws.class
      /\ u.ws.ring = ws.ring /\ u.ws.priorityUpdateBuf = ws.priorityUpdateBuf /\ u.ws.panic = ws.panic
      /\ u.ws.queue = [ws.queue EXCEPT ![id] = later]
  BY <1>3, <1>5, PutQueue
<1>8. PICK m : m = IF later = <<>> THEN without(ws.queue, id) ELSE [ws.queue EXCEPT ![id] = later]
  OBVIOUS
<1>9. p = [wr |-> u.wr, ws |-> [u.ws EXCEPT !.queue = m]]
  <2>1. PICK x, y : u = [wr |-> x, ws |-> y] /\ x = u.wr /\ y = u.ws
    BY <1>6
  <2>2. p = [u EXCEPT !.ws.queue = IF @[id] = <<>> THEN without(@, id) ELSE @]
    BY <1>1, <1>2
  <2>3. p = [wr |-> x, ws |-> [y EXCEPT !.queue = IF @[id] = <<>> THEN without(@, id) ELSE @]]
    BY <2>1, <2>2
  <2>4. y.queue[id] = later
    BY <1>7, <2>1
  <2>5. without(y.queue, id) = without(ws.queue, id)
    BY <1>7, <2>1 DEF without
  <2>6. (IF y.queue[id] = <<>> THEN without(y.queue, id) ELSE y.queue) = m
    BY <1>7, <1>8, <2>1, <2>4, <2>5
  <2>7. QED
    BY <2>1, <2>3, <2>6
<1>10. PICK v : v = [u.ws EXCEPT !.queue = m]
  OBVIOUS
<1>11. /\ DOMAIN v = Fields /\ v.kind = ws.kind /\ v.control = ws.control /\ v.class = ws.class
       /\ v.priorityUpdateBuf = ws.priorityUpdateBuf /\ v.panic = ws.panic /\ v.queue = m
  BY <1>7, <1>10 DEF Fields
<1>12. p.wr = u.wr /\ p.ws = v
  BY <1>9, <1>10
<1>13. \/ p.ws.queue = [ws.queue EXCEPT ![id] = later]
       \/ ws.kind = "random" /\ later = <<>> /\ p.ws.queue = without(ws.queue, id)
  <2>1. CASE later = <<>>
    BY <1>8, <1>11, <1>12, <2>1
  <2>2. CASE later # <<>>
    BY <1>8, <1>11, <1>12, <2>2
  <2>3. QED
    BY <2>1, <2>2
<1>14. /\ DOMAIN p.ws = Fields /\ p.ws.kind = ws.kind /\ p.ws.control = ws.control /\ p.ws.class = ws.class
       /\ p.ws.priorityUpdateBuf = ws.priorityUpdateBuf /\ p.ws.panic = ws.panic
  BY <1>11, <1>12
<1>15. \E x : /\ Frames(x, id) /\ pieces(ws.queue[id]) = piece(p.wr) \o pieces(x)
              /\ \/ p.ws.queue = [ws.queue EXCEPT ![id] = x]
                 \/ ws.kind = "random" /\ x = <<>> /\ p.ws.queue = without(ws.queue, id)
  BY <1>5, <1>12, <1>13
<1>16. QED
  BY <1>1, <1>6, <1>12, <1>14, <1>15 DEF Takes

\* The class chosen is at least as urgent as any with something to send.
LEMMA MostUrgent ==
  ASSUME NEW ws0, DOMAIN ws0 = Fields, NEW allowed, NEW p \in popRFC9218(ws0, allowed),
         NEW ws, ws = [ws0 EXCEPT !.prioritizeIncremental = ~@]
  PROVE  \E c \in Classes : /\ p \in popRing(ws, allowed, c)
                            /\ \A d \in Classes : popRing(ws, allowed, d) # {} => c[1] <= d[1]
<1> DEFINE rank(c) == 2 * c[1] + (IF ws.prioritizeIncremental THEN 1 - c[2] ELSE c[2])
           some == {c \in Classes : popRing(ws, allowed, c) # {}}
<1>1. /\ some # {}
      /\ p \in popRing(ws, allowed, CHOOSE c \in some : \A d \in some : rank(c) <= rank(d))
  BY DEF popRFC9218
<1>2. \A c \in Classes : c[1] \in Nat /\ c[2] \in {0, 1} /\ rank(c) \in Nat /\ 2 * c[1] <= rank(c) /\ rank(c) <= 2 * c[1] + 1
  BY UrgencyAssumption DEF Classes
<1>3. some \subseteq Classes
  OBVIOUS
<1>4. \A d \in Classes : popRing(ws, allowed, d) # {} => d \in some
  OBVIOUS
<1> HIDE DEF rank, some
<1>5. \E c \in some : \A d \in some : rank(c) <= rank(d)
  <2>1. PICK T : T = {rank(c) : c \in some}
    OBVIOUS
  <2>2. T \in SUBSET Nat /\ T # {}
    BY <1>1, <1>2, <1>3, <2>1
  <2>3. PICK x \in T : \A y \in T : x <= y
    BY <2>2, LeastNat
  <2>4. PICK c \in some : x = rank(c)
    BY <2>1, <2>3
  <2>5. \A d \in some : rank(d) \in T
    BY <2>1
  <2>6. QED
    BY <2>3, <2>4, <2>5
<1>6. PICK c : c = CHOOSE x \in some : \A d \in some : rank(x) <= rank(d)
  OBVIOUS
<1>7. c \in some /\ \A d \in some : rank(c) <= rank(d)
  BY <1>5, <1>6
<1>8. ASSUME NEW d \in some PROVE c[1] <= d[1]
  <2>1. rank(c) <= rank(d) /\ c \in Classes /\ d \in Classes
    BY <1>3, <1>7
  <2>2. PICK a, b, x, y : a = c[1] /\ b = d[1] /\ x = rank(c) /\ y = rank(d)
    OBVIOUS
  <2>3. a \in Nat /\ b \in Nat /\ x \in Nat /\ y \in Nat /\ 2 * a <= x /\ y <= 2 * b + 1 /\ x <= y
    BY <1>2, <2>1, <2>2
  <2>4. a <= b
    BY <2>3
  <2>5. QED
    BY <2>2, <2>4
<1>9. p \in popRing(ws, allowed, c) /\ c \in Classes
  BY <1>1, <1>3, <1>6, <1>7
<1>10. QED
  BY <1>4, <1>8, <1>9

\* What the RFC 9218 scheduler gives: in turn, and nothing more urgent waits.
LEMMA UrgentPops ==
  ASSUME NEW ws, Queues(ws), Linked(ws, DOMAIN ws.queue), NEW allowed, \A id \in Streams : allowed[id] \in Nat,
         NEW p \in popRFC9218(ws, allowed)
  PROVE  \E id : /\ Takes(ws, allowed, id, p) /\ InTurn(ws, allowed, id, p)
                 /\ \A i \in DOMAIN ws.queue : ready(ws, allowed, i) => ws.class[id][1] <= ws.class[i][1]
<1>1. PICK u : u = [ws EXCEPT !.prioritizeIncremental = ~@]
  OBVIOUS
<1>2. /\ DOMAIN u = Fields /\ u.kind = ws.kind /\ u.control = ws.control /\ u.class = ws.class /\ u.ring = ws.ring
      /\ u.priorityUpdateBuf = ws.priorityUpdateBuf /\ u.panic = ws.panic /\ u.queue = ws.queue
  BY <1>1 DEF Queues, Fields
<1>3. PICK c \in Classes : /\ p \in popRing(u, allowed, c)
                           /\ \A d \in Classes : popRing(u, allowed, d) # {} => c[1] <= d[1]
  BY <1>1, MostUrgent DEF Queues
<1>4. Queues(u)
  BY <1>2 DEF Queues
<1>5. Linked(u, DOMAIN u.queue)
  BY <1>2 DEF Linked
<1>6. PICK id : Takes(u, allowed, id, p) /\ u.class[id] = c /\ InTurn(u, allowed, id, p)
  BY <1>3, <1>4, <1>5, RingPops
<1>7. \A i : ready(u, allowed, i) <=> ready(ws, allowed, i)
  BY <1>2 DEF ready
<1>8. Takes(ws, allowed, id, p)
  BY <1>2, <1>6, <1>7 DEF Takes
<1>9. InTurn(ws, allowed, id, p)
  <2>1. \A q, k : First(u, allowed, q, k) <=> First(ws, allowed, q, k)
    BY <1>7 DEF First
  <2>2. QED
    BY <1>2, <1>6, <2>1 DEF InTurn
<1>10. ASSUME NEW i \in DOMAIN ws.queue, ready(ws, allowed, i) PROVE c[1] <= ws.class[i][1]
  <2>1. PICK d \in Classes : d = ws.class[i]
    BY DEF Linked
  <2>2. i \in Streams /\ On(ws.ring[d], i) /\ Len(u.ring[d]) \in Nat
    BY <1>2, <2>1 DEF Linked, Queues
  <2>3. PICK a \in 1..Len(u.ring[d]) : u.ring[d][a] = i
    BY <1>2, <2>2 DEF On
  <2>4. ready(u, allowed, u.ring[d][a])
    BY <1>7, <1>10, <2>3
  <2>5. popRing(u, allowed, d) # {}
    BY <2>2, <2>4, PopRingIs
  <2>6. QED
    BY <1>3, <2>1, <2>5
<1>11. QED
  BY <1>2, <1>6, <1>8, <1>9, <1>10

\* What Pop returns: the first control frame, or the first frame of a stream.
Controls(ws, p) == ws.control # <<>> /\ p = [wr |-> Head(ws.control), ws |-> [ws EXCEPT !.control = Tail(@)]]

Serves(ws, allowed, id, p) ==
  /\ Takes(ws, allowed, id, p)
  /\ Ringed(ws.kind) => InTurn(ws, allowed, id, p)
  /\ ws.kind = "rfc9218" => \A i \in DOMAIN ws.queue : ready(ws, allowed, i) => ws.class[id][1] <= ws.class[i][1]

\* What Pop gives, whatever the scheduler.
LEMMA PopIs ==
  ASSUME NEW ws, Queues(ws), ws.kind \in {"roundrobin", "random", "rfc9218"},
         Ringed(ws.kind) => Linked(ws, DOMAIN ws.queue), NEW allowed, \A id \in Streams : allowed[id] \in Nat,
         NEW p \in Pop(ws, allowed)
  PROVE  Controls(ws, p) \/ \E id : Serves(ws, allowed, id, p)
<1>1. CASE ws.control # <<>>
  BY <1>1 DEF Pop, popControl, Controls
<1>2. CASE ws.control = <<>> /\ ws.kind = "random"
  <2>1. p \in popRandom(ws, allowed)
    BY <1>2 DEF Pop
  <2>2. QED
    BY <1>2, <2>1, RandomPops DEF Serves, Ringed
<1>3. CASE ws.control = <<>> /\ ws.kind = "roundrobin"
  <2>1. p \in popRing(ws, allowed, Turn)
    BY <1>3 DEF Pop
  <2>2. Turn \in Classes /\ Linked(ws, DOMAIN ws.queue)
    <3>1. Min(Urgencies) \in Urgencies
      BY UrgencyAssumption, LeastIs
    <3>2. QED
      BY <1>3, <3>1 DEF Turn, Classes, Ringed
  <2>3. QED
    BY <1>3, <2>1, <2>2, RingPops DEF Serves
<1>4. CASE ws.control = <<>> /\ ws.kind = "rfc9218"
  <2>1. p \in popRFC9218(ws, allowed)
    BY <1>4 DEF Pop
  <2>2. Linked(ws, DOMAIN ws.queue)
    BY <1>4 DEF Ringed
  <2>3. QED
    BY <2>1, <2>2, UrgentPops DEF Serves
<1>5. QED
  BY <1>1, <1>2, <1>3, <1>4

-----------------------------------------------------------------------------
(* The operations of a scheduler.                                           *)

Servers == {"roundrobin", "random", "rfc9218"}

\* What a stream has queued.
hold(ws, id) == IF id \in DOMAIN ws.queue THEN pieces(ws.queue[id]) ELSE <<>>

\* What is queued of a stream is a list.
LEMMA HoldIsList ==
  ASSUME NEW ws, Queues(ws), NEW id
  PROVE  IsList(hold(ws, id))
<1>1. CASE id \in DOMAIN ws.queue
  <2>1. Frames(ws.queue[id], id)
    BY <1>1 DEF Queues
  <2>2. QED
    BY <1>1, <2>1, PiecesAre DEF hold
<1>2. CASE id \notin DOMAIN ws.queue
  BY <1>2, EmptyList DEF hold
<1>3. QED
  BY <1>1, <1>2

\* The rings do not see what only changes the queues.
Alike(ws, l) ==
  /\ DOMAIN l = Fields /\ l.kind = ws.kind /\ l.class = ws.class /\ l.ring = ws.ring
  /\ l.priorityUpdateBuf = ws.priorityUpdateBuf /\ l.panic = ws.panic

\* The rings stay as they are.
LEMMA AlikeLinked ==
  ASSUME NEW ws, NEW l, Alike(ws, l), NEW D, Linked(ws, D), NEW passed, Behind(ws, D, passed)
  PROVE  Linked(l, D) /\ Behind(l, D, passed)
<1>1. l.kind = ws.kind /\ l.class = ws.class /\ l.ring = ws.ring
  BY DEF Alike
<1>2. Linked(l, D)
  BY <1>1 DEF Linked
<1>3. Behind(l, D, passed)
  BY <1>1 DEF Behind
<1>4. QED
  BY <1>2, <1>3

\* A frame is put at the end of a stream's queue.
Queued(ws, l, id, wr) ==
  /\ Alike(ws, l) /\ l.control = ws.control
  /\ \E q, e : /\ q = IF id \in DOMAIN ws.queue THEN ws.queue[id] ELSE <<>>
               /\ Appended(e, q, wr) /\ l.queue = with(ws.queue, id, e)

\* What the streams have queued then.
Adds(ws, l, id, wr) ==
  /\ hold(l, id) = hold(ws, id) \o piece(wr)
  /\ \A i \in Streams \ {id} : hold(l, i) = hold(ws, i)

\* What is queued of the other streams stays.
LEMMA QueueFrame ==
  ASSUME NEW ws, Queues(ws), NEW id \in Streams, NEW wr, StreamFrame(wr, id), NEW l, Queued(ws, l, id, wr)
  PROVE  Queues(l) /\ DOMAIN l.queue = DOMAIN ws.queue \cup {id} /\ Adds(ws, l, id, wr)
<1>1. PICK q, e : /\ q = IF id \in DOMAIN ws.queue THEN ws.queue[id] ELSE <<>>
                  /\ Appended(e, q, wr) /\ l.queue = with(ws.queue, id, e)
  BY DEF Queued
<1>2. Frames(q, id) /\ pieces(q) = hold(ws, id)
  <2>1. CASE id \in DOMAIN ws.queue
    BY <1>1, <2>1 DEF Queues, hold
  <2>2. CASE id \notin DOMAIN ws.queue
    BY <1>1, <2>2, NoPieces DEF hold
  <2>3. QED
    BY <2>1, <2>2
<1>3. Frames(e, id) /\ pieces(e) = pieces(q) \o piece(wr)
  <2>1. Frames(q, id) /\ Appended(e, q, wr)
    BY <1>1, <1>2
  <2>2. QED
    BY <2>1, PiecesAppend
<1>4. /\ DOMAIN l.queue = DOMAIN ws.queue \cup {id} /\ l.queue[id] = e
      /\ \A i \in DOMAIN ws.queue : i # id => l.queue[i] = ws.queue[i]
  BY <1>1 DEF with
<1>5. Queues(l)
  <2>1. \A i \in DOMAIN l.queue : Frames(l.queue[i], i)
    BY <1>3, <1>4 DEF Queues
  <2>2. DOMAIN l.queue \subseteq Streams
    BY <1>4 DEF Queues
  <2>3. QED
    BY <2>1, <2>2 DEF Queues, Alike, Queued
<1>6. hold(l, id) = hold(ws, id) \o piece(wr)
  BY <1>2, <1>3, <1>4 DEF hold
<1>7. \A i \in Streams \ {id} : hold(l, i) = hold(ws, i)
  BY <1>4 DEF hold
<1>8. QED
  BY <1>4, <1>5, <1>6, <1>7 DEF Adds

\* Push of a frame of an open stream.
LEMMA PushStream ==
  ASSUME NEW ws, NEW D, D \subseteq Streams, NEW passed, Scheduler(ws, D, passed), ws.kind \in Servers,
         NEW id \in D, NEW wr, StreamFrame(wr, id), NEW l, l = Push(ws, wr)
  PROVE  Scheduler(l, D, passed) /\ l.kind = ws.kind /\ Adds(ws, l, id, wr)
<1>1. wr.ctl = FALSE /\ wr.id = id /\ DOMAIN ws = Fields /\ id \in Streams /\ Queues(ws)
  BY DEF StreamFrame, Scheduler, Queues
<1>2. PICK q : q = IF id \in DOMAIN ws.queue THEN ws.queue[id] ELSE <<>>
  OBVIOUS
<1>3. PICK e : e = Append(q, wr)
  OBVIOUS
<1>4. l = [ws EXCEPT !.queue = with(ws.queue, id, e)]
  <2>1. CASE ws.kind = "random"
    BY <1>1, <1>2, <1>3, <2>1 DEF Push, pushRandom, isOpen
  <2>2. CASE Ringed(ws.kind)
    <3>1. id \in DOMAIN ws.queue /\ ws.kind # "random"
      BY <2>2 DEF Scheduler, Ringed
    <3>2. l = [ws EXCEPT !.queue[id] = e]
      BY <1>1, <1>2, <1>3, <3>1 DEF Push, pushRing, isOpen
    <3>3. [ws.queue EXCEPT ![id] = e] = with(ws.queue, id, e)
      BY <3>1 DEF with
    <3>4. QED
      BY <3>2, <3>3
  <2>3. QED
    BY <2>1, <2>2 DEF Servers, Ringed
<1>5. Alike(ws, l) /\ l.control = ws.control /\ l.queue = with(ws.queue, id, e)
  BY <1>1, <1>4 DEF Alike, Fields
<1>6. Queues(l) /\ DOMAIN l.queue = DOMAIN ws.queue \cup {id} /\ Adds(ws, l, id, wr)
  <2>1. Queued(ws, l, id, wr)
    BY <1>2, <1>3, <1>5 DEF Queued, Appended
  <2>2. QED
    BY <1>1, <2>1, QueueFrame
<1>7. l.kind = ws.kind /\ l.panic = FALSE
  BY <1>5 DEF Alike, Scheduler
<1>8. CASE Ringed(ws.kind)
  <2>1. DOMAIN ws.queue = D /\ Linked(ws, D) /\ Behind(ws, D, passed)
    BY <1>8 DEF Scheduler
  <2>2. Linked(l, D) /\ Behind(l, D, passed)
    BY <1>5, <2>1, AlikeLinked
  <2>3. DOMAIN l.queue = D
    BY <1>6, <2>1
  <2>4. QED
    BY <1>6, <1>7, <1>8, <2>2, <2>3 DEF Scheduler
<1>9. CASE ~Ringed(ws.kind)
  BY <1>6, <1>7, <1>9 DEF Scheduler
<1>10. QED
  BY <1>8, <1>9

\* A frame of no stream is queued, or taken from the queue.
LEMMA ControlChanged ==
  ASSUME NEW ws, NEW D, NEW passed, Scheduler(ws, D, passed), NEW q,
         IsList(q), \A k \in 1..Len(q) : ControlFrame(q[k]), NEW l, l = [ws EXCEPT !.control = q]
  PROVE  /\ Scheduler(l, D, passed) /\ l.kind = ws.kind
         /\ \A i \in Streams : hold(l, i) = hold(ws, i)
<1>1. DOMAIN ws = Fields /\ Queues(ws)
  BY DEF Scheduler, Queues
<1>2. Alike(ws, l) /\ l.control = q /\ l.queue = ws.queue
  BY <1>1 DEF Alike, Fields
<1>3. Queues(l)
  BY <1>1, <1>2 DEF Queues, Alike
<1>4. \A i \in Streams : hold(l, i) = hold(ws, i)
  BY <1>2 DEF hold
<1>5. l.kind = ws.kind /\ l.panic = FALSE
  BY <1>2 DEF Alike, Scheduler
<1>6. CASE Ringed(ws.kind)
  <2>1. DOMAIN ws.queue = D /\ Linked(ws, D) /\ Behind(ws, D, passed)
    BY <1>6 DEF Scheduler
  <2>2. Linked(l, D) /\ Behind(l, D, passed)
    BY <1>2, <2>1, AlikeLinked
  <2>3. QED
    BY <1>2, <1>3, <1>4, <1>5, <1>6, <2>1, <2>2 DEF Scheduler
<1>7. CASE ~Ringed(ws.kind)
  BY <1>2, <1>3, <1>4, <1>5, <1>7 DEF Scheduler
<1>8. QED
  BY <1>6, <1>7

\* Push of a frame of no stream.
LEMMA PushControl ==
  ASSUME NEW ws, NEW D, NEW passed, Scheduler(ws, D, passed), NEW wr, ControlFrame(wr), NEW l, l = Push(ws, wr)
  PROVE  /\ Scheduler(l, D, passed) /\ l.kind = ws.kind
         /\ \A i \in Streams : hold(l, i) = hold(ws, i)
<1>1. PICK q : q = Append(ws.control, wr)
  OBVIOUS
<1>2. l = [ws EXCEPT !.control = q]
  BY <1>1 DEF Push, ControlFrame
<1>3. IsList(ws.control) /\ \A k \in 1..Len(ws.control) : ControlFrame(ws.control[k])
  BY DEF Scheduler, Queues
<1>4. /\ IsList(q) /\ Len(q) = Len(ws.control) + 1 /\ q[Len(ws.control) + 1] = wr
      /\ \A k \in 1..Len(ws.control) : q[k] = ws.control[k]
  BY <1>1, <1>3, ListAppend
<1>5. \A k \in 1..Len(q) : ControlFrame(q[k])
  <2>1. Len(ws.control) \in Nat
    BY <1>3 DEF IsList
  <2>2. \A k \in 1..Len(q) : k \in 1..Len(ws.control) \/ k = Len(ws.control) + 1
    BY <1>4, <2>1
  <2>3. QED
    BY <1>3, <1>4, <2>2
<1>6. QED
  BY <1>2, <1>4, <1>5, ControlChanged

\* Pop of a frame of no stream.
LEMMA PopControl ==
  ASSUME NEW ws, NEW D, NEW passed, Scheduler(ws, D, passed), NEW p, Controls(ws, p)
  PROVE  /\ Scheduler(p.ws, D, passed) /\ p.ws.kind = ws.kind /\ ControlFrame(p.wr)
         /\ \A i \in Streams : hold(p.ws, i) = hold(ws, i)
<1>1. PICK q : q = Tail(ws.control)
  OBVIOUS
<1>2. ws.control # <<>> /\ p.wr = Head(ws.control) /\ p.ws = [ws EXCEPT !.control = q]
  BY <1>1 DEF Controls
<1>3. IsList(ws.control) /\ \A k \in 1..Len(ws.control) : ControlFrame(ws.control[k])
  BY DEF Scheduler, Queues
<1>4. /\ IsList(q) /\ Len(ws.control) \in Nat \ {0} /\ Len(q) = Len(ws.control) - 1
      /\ \A k \in 1..(Len(ws.control) - 1) : q[k] = ws.control[k + 1]
      /\ Head(ws.control) = ws.control[1]
  BY <1>1, <1>2, <1>3, ListTail
<1>5. \A k \in 1..Len(q) : ControlFrame(q[k])
  <2>1. \A k \in 1..Len(q) : k \in 1..(Len(ws.control) - 1) /\ k + 1 \in 1..Len(ws.control)
    BY <1>4
  <2>2. QED
    BY <1>3, <1>4, <2>1
<1>6. ControlFrame(p.wr)
  BY <1>2, <1>3, <1>4
<1>7. QED
  BY <1>2, <1>4, <1>5, <1>6, ControlChanged

SameRings(ws, l) == l.kind = ws.kind /\ l.class = ws.class /\ l.ring = ws.ring

\* What keeps the rings and forgets some who were passed over keeps their order.
LEMMA RingsKept ==
  ASSUME NEW ws, NEW l, SameRings(ws, l), NEW D, Linked(ws, D), NEW passed, Behind(ws, D, passed),
         D \subseteq Streams, NEW less, \A i \in Streams : less[i] \subseteq passed[i]
  PROVE  Linked(l, D) /\ Behind(l, D, less)
<1>1. l.kind = ws.kind /\ l.class = ws.class /\ l.ring = ws.ring
  BY DEF SameRings
<1>2. Linked(l, D)
  BY <1>1 DEF Linked
<1>3. Behind(l, D, less)
  BY <1>1 DEF Behind
<1>4. QED
  BY <1>2, <1>3

\* What an operation keeps: what the streams have queued.
Holds(ws, l) == l.kind = ws.kind /\ \A i \in Streams : hold(l, i) = hold(ws, i)

\* A stream that opens has nothing queued and is behind all others.
LEMMA OpenKeeps ==
  ASSUME NEW ws, NEW D, D \subseteq Streams, NEW passed, Scheduler(ws, D, passed), ws.kind \in Servers,
         NEW id \in Streams \ D, NEW prio \in Classes, passed[id] = {}, NEW l, l = OpenStream(ws, id, prio)
  PROVE  Scheduler(l, D \cup {id}, passed) /\ Holds(ws, l)
<1>1. CASE ws.kind = "random"
  <2>1. l = ws
    BY <1>1 DEF OpenStream, openRandom
  <2>2. ~Ringed(ws.kind)
    BY <1>1 DEF Ringed
  <2>3. QED
    BY <2>1, <2>2 DEF Scheduler, Holds
<1>2. CASE Ringed(ws.kind)
  <2>1. /\ DOMAIN ws = Fields /\ Queues(ws) /\ DOMAIN ws.queue = D /\ Linked(ws, D) /\ Behind(ws, D, passed)
        /\ id \notin DOMAIN ws.queue /\ ws.panic = FALSE
    BY <1>2 DEF Scheduler, Queues
  <2>2. Turn \in Classes
    <3>1. Min(Urgencies) \in Urgencies
      BY UrgencyAssumption, LeastIs
    <3>2. QED
      BY <3>1 DEF Turn, Classes
  <2>3. \E u, c : /\ c \in Classes /\ (ws.kind = "roundrobin" => c = Turn) /\ l = link(u, id, c)
                  /\ DOMAIN u = Fields /\ SameRings(ws, u) /\ u.control = ws.control /\ u.panic = ws.panic
                  /\ DOMAIN u.priorityUpdateBuf = {"id", "prio"} /\ u.priorityUpdateBuf.prio \in Classes
                  /\ u.queue = with(ws.queue, id, <<>>)
    <3>1. CASE ws.kind = "roundrobin"
      <4>1. PICK u : u = [ws EXCEPT !.queue = with(@, id, <<>>)]
        OBVIOUS
      <4>2. l = link(u, id, Turn)
        BY <2>1, <3>1, <4>1 DEF OpenStream, openRoundRobin, isOpen
      <4>3. /\ DOMAIN u = Fields /\ SameRings(ws, u) /\ u.control = ws.control /\ u.panic = ws.panic
            /\ DOMAIN u.priorityUpdateBuf = {"id", "prio"} /\ u.priorityUpdateBuf.prio \in Classes
            /\ u.queue = with(ws.queue, id, <<>>)
        BY <2>1, <4>1 DEF Fields, SameRings, Queues
      <4>4. QED
        BY <2>2, <4>2, <4>3
    <3>2. CASE ws.kind = "rfc9218"
      <4>1. PICK early \in BOOLEAN : early = (ws.priorityUpdateBuf.id = id)
        OBVIOUS
      <4>2. PICK c : c = IF early THEN ws.priorityUpdateBuf.prio ELSE prio
        OBVIOUS
      <4>3. PICK u : u = [ws EXCEPT !.queue = with(@, id, <<>>), !.priorityUpdateBuf.id = IF early THEN 0 ELSE @]
        OBVIOUS
      <4>4. l = link(u, id, c)
        BY <2>1, <3>2, <4>1, <4>2, <4>3 DEF OpenStream, openRFC9218, isOpen
      <4>5. c \in Classes
        BY <2>1, <4>2 DEF Queues
      <4>6. /\ DOMAIN u = Fields /\ SameRings(ws, u) /\ u.control = ws.control /\ u.panic = ws.panic
            /\ u.queue = with(ws.queue, id, <<>>)
        BY <2>1, <4>3 DEF Fields, SameRings
      <4>7. DOMAIN u.priorityUpdateBuf = {"id", "prio"} /\ u.priorityUpdateBuf.prio \in Classes
        BY <2>1, <4>3 DEF Fields, Queues
      <4>8. QED
        BY <3>2, <4>4, <4>5, <4>6, <4>7
    <3>3. QED
      BY <1>2, <3>1, <3>2 DEF Ringed
  <2>4. PICK u, c : /\ c \in Classes /\ (ws.kind = "roundrobin" => c = Turn) /\ l = link(u, id, c)
                    /\ DOMAIN u = Fields /\ SameRings(ws, u) /\ u.control = ws.control /\ u.panic = ws.panic
                    /\ DOMAIN u.priorityUpdateBuf = {"id", "prio"} /\ u.priorityUpdateBuf.prio \in Classes
                    /\ u.queue = with(ws.queue, id, <<>>)
    BY <2>3
  <2>5. Linked(u, D) /\ Behind(u, D, passed)
    BY <2>1, <2>4, RingsKept
  <2>6. Linked(l, D \cup {id}) /\ Behind(l, D \cup {id}, passed)
    <3>1. u.kind = "roundrobin" => c = Turn
      BY <2>4 DEF SameRings
    <3>2. DOMAIN u = Fields /\ Linking(u, l, id, c) /\ c \in Classes
      BY <2>4 DEF Linking
    <3>3. QED
      BY <2>5, <3>1, <3>2, LinkLinked
  <2>7. /\ DOMAIN l = Fields /\ l.kind = ws.kind /\ l.control = ws.control /\ l.panic = FALSE
        /\ l.priorityUpdateBuf = u.priorityUpdateBuf /\ l.queue = with(ws.queue, id, <<>>)
    <3>1. DOMAIN u = Fields /\ Linking(u, l, id, c)
      BY <2>4 DEF Linking
    <3>2. Relinked(u, l)
      BY <3>1, LinkFields
    <3>3. QED
      BY <2>1, <2>4, <3>2 DEF SameRings, Relinked
  <2>8. /\ DOMAIN l.queue = D \cup {id} /\ l.queue[id] = <<>>
        /\ \A i \in D : l.queue[i] = ws.queue[i]
    BY <2>1, <2>7 DEF with
  <2>9. Queues(l)
    <3>1. \A i \in DOMAIN l.queue : Frames(l.queue[i], i)
      BY <2>1, <2>8, NoPieces DEF Queues
    <3>2. DOMAIN l.queue \subseteq Streams
      BY <2>8
    <3>3. IsList(l.control) /\ \A k \in 1..Len(l.control) : ControlFrame(l.control[k])
      BY <2>1, <2>7 DEF Queues
    <3>4. QED
      BY <2>4, <2>7, <3>1, <3>2, <3>3 DEF Queues
  <2>10. Holds(ws, l)
    BY <2>1, <2>7, <2>8, NoPieces DEF Holds, hold
  <2>11. Ringed(l.kind)
    BY <1>2, <2>7
  <2>12. QED
    BY <2>6, <2>7, <2>8, <2>9, <2>10, <2>11 DEF Scheduler
<1>3. QED
  BY <1>1, <1>2 DEF Servers, Ringed

Closing(ws, D, passed, id, l) ==
  D \subseteq Streams /\ Scheduler(ws, D, passed) /\ ws.kind \in Servers /\ id \in D /\ l = CloseStream(ws, id)

Closed(ws, D, passed, id, l) ==
  /\ Scheduler(l, D \ {id}, passed) /\ l.kind = ws.kind
  /\ \A i \in Streams \ {id} : hold(l, i) = hold(ws, i)

\* A closed stream leaves with what it has queued.
LEMMA CloseKeeps ==
  ASSUME NEW ws, NEW D, NEW passed, NEW id, NEW l, Closing(ws, D, passed, id, l)
  PROVE  Closed(ws, D, passed, id, l)
<1>0. D \subseteq Streams /\ Scheduler(ws, D, passed) /\ ws.kind \in Servers /\ id \in D /\ l = CloseStream(ws, id)
  BY DEF Closing
<1>1. DOMAIN ws = Fields /\ Queues(ws) /\ ws.panic = FALSE
  BY <1>0 DEF Scheduler, Queues
<1>2. CASE id \notin DOMAIN ws.queue
  <2>1. ~Ringed(ws.kind) /\ l = ws
    BY <1>0, <1>2 DEF Scheduler, CloseStream, isOpen
  <2>2. QED
    BY <1>0, <1>2, <2>1 DEF Scheduler, Closed
<1>3. CASE id \in DOMAIN ws.queue
  <2>1. PICK u : u = [ws EXCEPT !.queue = without(@, id)]
    OBVIOUS
  <2>2. /\ DOMAIN u = Fields /\ SameRings(ws, u) /\ u.control = ws.control /\ u.panic = FALSE
        /\ u.priorityUpdateBuf = ws.priorityUpdateBuf /\ u.queue = without(ws.queue, id)
    BY <1>1, <2>1 DEF Fields, SameRings
  <2>3. DOMAIN u.queue = DOMAIN ws.queue \ {id} /\ \A i \in DOMAIN u.queue : u.queue[i] = ws.queue[i]
    BY <2>2 DEF without
  <2>4. Queues(u)
    BY <1>1, <2>2, <2>3 DEF Queues
  <2>5. \A i \in Streams \ {id} : hold(u, i) = hold(ws, i)
    BY <2>3 DEF hold
  <2>6. CASE ws.kind = "random"
    <3>1. l = u
      BY <1>0, <1>3, <2>1, <2>6 DEF CloseStream, isOpen, closeRandom
    <3>2. ~Ringed(ws.kind) /\ ~Ringed(u.kind) /\ u.kind = ws.kind
      BY <2>2, <2>6 DEF Ringed, SameRings
    <3>3. DOMAIN u.queue \subseteq D \ {id}
      BY <1>0, <2>3, <3>2 DEF Scheduler
    <3>4. QED
      BY <2>2, <2>4, <2>5, <3>1, <3>2, <3>3 DEF Scheduler, Closed
  <2>7. CASE Ringed(ws.kind)
    <3>1. ws.kind # "random" /\ DOMAIN ws.queue = D /\ Linked(ws, D) /\ Behind(ws, D, passed)
      BY <1>0, <2>7 DEF Scheduler, Ringed
    <3>2. l = unlink(u, id)
      BY <1>0, <1>3, <2>1, <3>1 DEF CloseStream, isOpen, closeRing
    <3>3. Linked(u, D) /\ Behind(u, D, passed)
      BY <1>0, <2>2, <3>1, RingsKept
    <3>4. Linked(l, D \ {id}) /\ Behind(l, D \ {id}, passed)
      <4>1. DOMAIN u = Fields /\ Unlinking(u, l, id)
        BY <2>2, <3>2 DEF Unlinking
      <4>2. QED
        BY <1>0, <3>3, <4>1, UnlinkLinked
    <3>5. /\ DOMAIN l = Fields /\ l.kind = u.kind /\ l.control = u.control /\ l.queue = u.queue
          /\ l.priorityUpdateBuf = u.priorityUpdateBuf /\ l.panic = u.panic
      <4>1. DOMAIN u = Fields /\ Unlinking(u, l, id)
        BY <2>2, <3>2 DEF Unlinking
      <4>2. Relinked(u, l)
        BY <4>1, UnlinkFields
      <4>3. QED
        BY <4>2 DEF Relinked
    <3>6. Queues(l)
      BY <2>4, <3>5 DEF Queues
    <3>7. l.kind = ws.kind /\ Ringed(l.kind) /\ DOMAIN l.queue = D \ {id} /\ l.panic = FALSE
      BY <2>2, <2>3, <2>7, <3>1, <3>5 DEF SameRings
    <3>8. \A i \in Streams \ {id} : hold(l, i) = hold(ws, i)
      BY <2>5, <3>5 DEF hold
    <3>9. QED
      BY <3>4, <3>6, <3>7, <3>8 DEF Scheduler, Closed
  <2>8. QED
    BY <1>0, <2>6, <2>7 DEF Servers, Ringed
<1>4. QED
  BY <1>2, <1>3

\* A stream that changes its class is behind all others of its new one; who passed
\* it over before is forgotten.
LEMMA AdjustKeeps ==
  ASSUME NEW ws, NEW D, D \subseteq Streams, NEW passed, Scheduler(ws, D, passed),
         NEW id \in Streams, NEW prio \in Classes, NEW less, less[id] = {}, \A i \in Streams : less[i] \subseteq passed[i],
         NEW l, l = AdjustStream(ws, id, prio)
  PROVE  Scheduler(l, D, less) /\ Holds(ws, l)
<1>1. DOMAIN ws = Fields /\ Queues(ws) /\ ws.panic = FALSE
  BY DEF Scheduler, Queues
<1>2. CASE ws.kind # "rfc9218"
  <2>1. l = ws /\ SameRings(ws, ws)
    BY <1>2 DEF AdjustStream, SameRings
  <2>2. CASE Ringed(ws.kind)
    <3>1. DOMAIN ws.queue = D /\ Linked(ws, D) /\ Behind(ws, D, passed)
      BY <2>2 DEF Scheduler
    <3>2. Behind(ws, D, less)
      BY <2>1, <3>1, RingsKept
    <3>3. QED
      BY <1>1, <2>1, <2>2, <3>1, <3>2 DEF Scheduler, Holds
  <2>3. CASE ~Ringed(ws.kind)
    BY <2>1, <2>3 DEF Scheduler, Holds
  <2>4. QED
    BY <2>2, <2>3
<1>3. CASE ws.kind = "rfc9218"
  <2>1. Ringed(ws.kind) /\ DOMAIN ws.queue = D /\ Linked(ws, D) /\ Behind(ws, D, passed)
    BY <1>3 DEF Scheduler, Ringed
  <2>2. CASE id \notin D
    <3>1. PICK b : b = [id |-> id, prio |-> prio]
      OBVIOUS
    <3>2. l = [ws EXCEPT !.priorityUpdateBuf = b]
      BY <1>3, <2>1, <2>2, <3>1 DEF AdjustStream, isOpen
    <3>3. DOMAIN b = {"id", "prio"} /\ b.prio \in Classes
      BY <3>1
    <3>4. /\ DOMAIN l = Fields /\ SameRings(ws, l) /\ l.kind = ws.kind /\ l.control = ws.control /\ l.queue = ws.queue
          /\ l.priorityUpdateBuf = b /\ l.panic = FALSE
      BY <1>1, <3>2 DEF Fields, SameRings
    <3>5. Queues(l)
      BY <1>1, <3>3, <3>4 DEF Queues
    <3>6. Linked(l, D) /\ Behind(l, D, less)
      BY <2>1, <3>4, RingsKept
    <3>7. Holds(ws, l)
      BY <3>4 DEF Holds, hold
    <3>8. QED
      BY <2>1, <3>4, <3>5, <3>6, <3>7 DEF Scheduler
  <2>3. CASE id \in D
    <3>1. PICK u : u = unlink(ws, id)
      OBVIOUS
    <3>2. Unlinking(ws, u, id)
      BY <3>1 DEF Unlinking
    <3>3. Relinked(ws, u)
      BY <1>1, <3>2, UnlinkFields
    <3>4. PICK E : E = D \ {id}
      OBVIOUS
    <3>5. Linked(u, E) /\ Behind(u, E, passed)
      BY <1>1, <2>1, <2>3, <3>2, <3>4, UnlinkLinked
    <3>6. Behind(u, E, less)
      <4>1. SameRings(u, u) /\ E \subseteq Streams
        BY <3>4 DEF SameRings
      <4>2. QED
        BY <3>5, <4>1, RingsKept
    <3>7. l = link(u, id, prio)
      BY <1>3, <2>1, <2>3, <3>1 DEF AdjustStream, isOpen
    <3>8. Linking(u, l, id, prio) /\ DOMAIN u = Fields /\ u.kind # "roundrobin"
      BY <1>3, <3>3, <3>7 DEF Linking, Relinked
    <3>9. Relinked(u, l)
      BY <3>8, LinkFields
    <3>10. Linked(l, E \cup {id}) /\ Behind(l, E \cup {id}, less)
      <4>1. id \in Streams \ E /\ E \subseteq Streams
        BY <3>4
      <4>2. QED
        BY <3>5, <3>6, <3>8, <4>1, LinkLinked
    <3>11. E \cup {id} = D
      BY <2>3, <3>4
    <3>12. /\ DOMAIN l = Fields /\ l.kind = ws.kind /\ l.control = ws.control /\ l.queue = ws.queue
           /\ l.priorityUpdateBuf = ws.priorityUpdateBuf /\ l.panic = FALSE
      BY <1>1, <3>3, <3>9 DEF Relinked
    <3>13. Queues(l)
      BY <1>1, <3>12 DEF Queues
    <3>14. Holds(ws, l)
      BY <3>12 DEF Holds, hold
    <3>15. QED
      BY <2>1, <3>10, <3>11, <3>12, <3>13, <3>14 DEF Scheduler
  <2>4. QED
    BY <2>2, <2>3
<1>4. QED
  BY <1>2, <1>3

Unfair(ws, passed, id, i) ==
  \/ ws.kind = "rfc9218" /\ ws.class[i][1] < ws.class[id][1]
  \/ ws.kind # "random" /\ ws.class[i] = ws.class[id] /\ ws.class[i][2] = 1 /\ id \in passed[i]

\* Pop of a frame of a stream: its first pieces leave its queue, all else stays,
\* and nobody is passed over.
LEMMA ServeKeeps ==
  ASSUME NEW ws, NEW D, D \subseteq Streams, NEW passed, Scheduler(ws, D, passed), ws.kind \in Servers,
         NEW allowed, NEW id, NEW p, Serves(ws, allowed, id, p),
         NEW W, W = {i \in DOMAIN ws.queue : ready(ws, allowed, i)}, NEW passed2, Passes(passed, id, W, passed2)
  PROVE  /\ Scheduler(p.ws, D, passed2) /\ p.ws.kind = ws.kind
         /\ id \in D /\ StreamFrame(p.wr, id) /\ Len(p.wr.data) <= allowed[id]
         /\ hold(ws, id) = piece(p.wr) \o hold(p.ws, id)
         /\ \A i \in Streams \ {id} : hold(p.ws, i) = hold(ws, i)
         /\ \A i \in W : i # id => ~Unfair(ws, passed, id, i)
<1>1. Queues(ws) /\ ws.panic = FALSE /\ DOMAIN ws.queue \subseteq D
  BY DEF Scheduler
<1>2. Takes(ws, allowed, id, p) /\ id \in DOMAIN ws.queue
  BY DEF Serves, Takes
<1>3. /\ DOMAIN p.ws = Fields /\ p.ws.kind = ws.kind /\ p.ws.control = ws.control /\ p.ws.class = ws.class
      /\ p.ws.priorityUpdateBuf = ws.priorityUpdateBuf /\ p.ws.panic = FALSE
      /\ StreamFrame(p.wr, id) /\ Len(p.wr.data) <= allowed[id] /\ ready(ws, allowed, id)
  BY <1>1, <1>2 DEF Takes
<1>4. PICK later : /\ Frames(later, id) /\ pieces(ws.queue[id]) = piece(p.wr) \o pieces(later)
                  /\ \/ p.ws.queue = [ws.queue EXCEPT ![id] = later]
                     \/ ws.kind = "random" /\ later = <<>> /\ p.ws.queue = without(ws.queue, id)
  BY <1>2 DEF Takes
<1>5. /\ DOMAIN p.ws.queue \subseteq DOMAIN ws.queue
      /\ ws.kind # "random" => DOMAIN p.ws.queue = DOMAIN ws.queue
      /\ id \in DOMAIN p.ws.queue => p.ws.queue[id] = later
      /\ id \notin DOMAIN p.ws.queue => later = <<>>
      /\ \A i \in DOMAIN ws.queue : i # id => i \in DOMAIN p.ws.queue /\ p.ws.queue[i] = ws.queue[i]
  <2>1. CASE p.ws.queue = [ws.queue EXCEPT ![id] = later]
    BY <1>2, <2>1
  <2>2. CASE ws.kind = "random" /\ later = <<>> /\ p.ws.queue = without(ws.queue, id)
    BY <2>2 DEF without
  <2>3. QED
    BY <1>4, <2>1, <2>2
<1>6. Queues(p.ws)
  <2>1. \A i \in DOMAIN p.ws.queue : Frames(p.ws.queue[i], i)
    BY <1>1, <1>4, <1>5 DEF Queues
  <2>2. DOMAIN p.ws.queue \subseteq Streams
    BY <1>1, <1>5
  <2>3. QED
    BY <1>1, <1>3, <2>1, <2>2 DEF Queues
<1>7. hold(ws, id) = piece(p.wr) \o hold(p.ws, id)
  <2>1. hold(p.ws, id) = pieces(later)
    BY <1>5, NoPieces DEF hold
  <2>2. QED
    BY <1>2, <1>4, <2>1 DEF hold
<1>8. \A i \in Streams \ {id} : hold(p.ws, i) = hold(ws, i)
  BY <1>5 DEF hold
<1>9. CASE Ringed(ws.kind)
  <2>1. DOMAIN ws.queue = D /\ Linked(ws, D) /\ Behind(ws, D, passed) /\ ws.kind # "random"
    BY <1>9 DEF Scheduler, Ringed
  <2>2. PICK c : c = ws.class[id]
    OBVIOUS
  <2>3. PICK q : q = ws.ring[c]
    OBVIOUS
  <2>4. PICK k, e : /\ First(ws, allowed, q, k) /\ q[k] = id /\ Turned(e, q, k, c)
                    /\ p.ws.ring = [ws.ring EXCEPT ![c] = e]
    BY <1>9, <2>2, <2>3 DEF Serves, InTurn
  <2>5. k \in 1..Len(q) /\ \A a \in 1..Len(q) : q[a] \in W => k <= a
    BY <2>4 DEF First
  <2>6. Turns(ws, p.ws, id, W)
    BY <1>3, <2>2, <2>3, <2>4, <2>5 DEF Turns
  <2>7. Linked(p.ws, D) /\ Behind(p.ws, D, passed2) /\ Fair(ws, D, passed, id, W)
    <3>1. id \in D
      BY <1>2, <2>1
    <3>2. QED
      BY <2>1, <2>6, <3>1, Served
  <2>8. \A i \in W : i # id => ~Unfair(ws, passed, id, i)
    <3>1. SUFFICES ASSUME NEW i \in W, i # id PROVE ~Unfair(ws, passed, id, i)
      OBVIOUS
    <3>2. i \in DOMAIN ws.queue /\ ready(ws, allowed, i) /\ i \in D \cap W
      BY <2>1
    <3>3. ~(ws.kind # "random" /\ ws.class[i] = ws.class[id] /\ ws.class[i][2] = 1 /\ id \in passed[i])
      BY <2>7, <3>1, <3>2 DEF Fair
    <3>4. ~(ws.kind = "rfc9218" /\ ws.class[i][1] < ws.class[id][1])
      <4>1. ws.class[i][1] \in Nat /\ ws.class[id][1] \in Nat
        <5>1. ws.class[i] \in Classes /\ ws.class[id] \in Classes
          BY <1>2, <2>1, <3>2 DEF Linked
        <5>2. QED
          BY <5>1, UrgencyAssumption DEF Classes
      <4>2. ws.kind = "rfc9218" => ws.class[id][1] <= ws.class[i][1]
        BY <3>2 DEF Serves
      <4>3. QED
        BY <4>1, <4>2
    <3>5. QED
      BY <3>3, <3>4 DEF Unfair
  <2>9. QED
    BY <1>2, <1>3, <1>5, <1>6, <1>7, <1>8, <1>9, <2>1, <2>7, <2>8 DEF Scheduler
<1>10. CASE ~Ringed(ws.kind)
  <2>1. ws.kind = "random"
    BY <1>10 DEF Servers, Ringed
  <2>2. \A i \in W : ~Unfair(ws, passed, id, i)
    BY <2>1 DEF Unfair
  <2>3. Scheduler(p.ws, D, passed2)
    BY <1>1, <1>3, <1>5, <1>6, <1>10 DEF Scheduler
  <2>4. QED
    BY <1>1, <1>2, <1>3, <1>7, <1>8, <2>2, <2>3
<1>11. QED
  BY <1>9, <1>10

-----------------------------------------------------------------------------
(* The inductive invariant, of the writing end and its history.             *)

WriterFields == {"kind", "ws", "enc", "peerMax", "flow", "conn", "opened", "closed"}
HistoryFields == {"asked", "written", "passed", "outOfTurn", "writes", "calls", "events"}

\* What was written of a stream.
share(kind, c, id) == IF kind # "client" /\ ~c.ctl /\ c.id = id THEN piece(c) ELSE <<>>
sent(kind, frames, id) == FlattenSeq([k \in DOMAIN frames |-> share(kind, frames[k], id)])

WriterOK(v) ==
  /\ DOMAIN v = WriterFields
  /\ v.kind \in Servers \cup {"client"} /\ v.ws.kind = v.kind
  /\ v.flow \in [Streams -> Nat] /\ v.conn \in Nat
  /\ v.closed \subseteq v.opened /\ v.opened \subseteq Streams
  /\ v.kind = "client" => v.opened = {}

HistoryOK(v, g) ==
  /\ DOMAIN g = HistoryFields
  /\ IsList(g.written) /\ g.outOfTurn = FALSE
  /\ DOMAIN g.asked = Streams /\ DOMAIN g.passed = Streams
  /\ \A id \in Streams : /\ Frames(g.asked[id], id) /\ IsList(sent(v.kind, g.written, id))
                         /\ id \notin v.opened => g.passed[id] = {}

InOrder(v, g, id) ==
  IF id \in v.closed THEN IsPrefix(sent(v.kind, g.written, id), pieces(g.asked[id]))
  ELSE pieces(g.asked[id]) = sent(v.kind, g.written, id) \o hold(v.ws, id)

CodecOK(v, g) ==
  /\ WriterOK(v) /\ HistoryOK(v, g)
  /\ Scheduler(v.ws, v.opened \ v.closed, g.passed)
  /\ \A id \in Streams : InOrder(v, g, id)

\* What is written comes after what was written before.
LEMMA SentAppend ==
  ASSUME NEW kind, NEW id, NEW q, IsList(q), NEW c, IsList(share(kind, c, id)), NEW e, Appended(e, q, c)
  PROVE  IsList(e) /\ sent(kind, e, id) = sent(kind, q, id) \o share(kind, c, id)
<1>1. PICK n \in Nat : n = Len(q)
  BY DEF IsList
<1>2. PICK m \in Nat : m = n + 1
  OBVIOUS
<1>3. IsList(e) /\ Len(e) = m /\ (\A i \in 1..n : e[i] = q[i]) /\ e[m] = c
  BY <1>1, <1>2, ListAppend DEF Appended
<1>4. PICK L : L = [k \in 1..m |-> share(kind, e[k], id)]
  OBVIOUS
<1>5. L[m] = share(kind, c, id)
  BY <1>2, <1>3, <1>4
<1>6. FlattenSeq(Upto(L, m)) = FlattenSeq(Upto(L, n)) \o L[m]
  BY <1>2, <1>5, UptoMore
<1>7. sent(kind, e, id) = FlattenSeq(Upto(L, m))
  <2>1. DOMAIN e = 1..m
    BY <1>3 DEF IsList
  <2>2. [k \in DOMAIN e |-> share(kind, e[k], id)] = Upto(L, m)
    BY <1>4, <2>1 DEF Upto
  <2>3. QED
    BY <2>2 DEF sent
<1>8. sent(kind, q, id) = FlattenSeq(Upto(L, n))
  <2>1. DOMAIN q = 1..n
    BY <1>1 DEF IsList
  <2>2. [k \in DOMAIN q |-> share(kind, q[k], id)] = Upto(L, n)
    BY <1>2, <1>3, <1>4, <2>1 DEF Upto
  <2>3. QED
    BY <2>2 DEF sent
<1>9. QED
  BY <1>3, <1>5, <1>6, <1>7, <1>8

\* The first of two lists joined is a prefix of the two.
LEMMA PrefixOfJoin ==
  ASSUME NEW s, IsList(s), NEW t, IsList(t), NEW j, Joins(j, s, t)
  PROVE  IsPrefix(s, j)
<1>1. PICK n \in Nat : n = Len(s)
  BY DEF IsList
<1>2. IsList(j) /\ Len(j) = n + Len(t) /\ Len(t) \in Nat /\ \A i \in 1..n : j[i] = s[i]
  BY <1>1, ListJoin DEF IsList
<1>3. PICK a, x : Cut(s, n, a, x)
  BY DEF Cut
<1>4. PICK b, y : Cut(j, n, b, y)
  BY DEF Cut
<1>5. IsList(a) /\ Len(a) = n /\ \A i \in 1..n : a[i] = s[i]
  BY <1>1, <1>3, ListCut
<1>6. n <= Len(j)
  BY <1>2
<1>7. IsList(b) /\ Len(b) = n /\ \A i \in 1..n : b[i] = j[i]
  BY <1>2, <1>4, <1>6, ListCut
<1>8. a = b
  BY <1>2, <1>5, <1>7, ListEqual
<1>9. QED
  BY <1>1, <1>3, <1>4, <1>6, <1>8 DEF IsPrefix, Cut

\* The history of what was asked and written stays.
Recalls(g, g2) ==
  /\ DOMAIN g2 = HistoryFields /\ g2.written = g.written /\ g2.asked = g.asked /\ g2.outOfTurn = g.outOfTurn

\* Steps that keep the history and what is queued.
LEMMA SchedulerMoves ==
  ASSUME NEW v, NEW g, CodecOK(v, g), NEW v2, WriterOK(v2), v2.kind = v.kind,
         v2.closed = v.closed, v.opened \subseteq v2.opened,
         Holds(v.ws, v2.ws), NEW g2, Recalls(g, g2), Scheduler(v2.ws, v2.opened \ v2.closed, g2.passed),
         DOMAIN g2.passed = Streams, \A id \in Streams : id \notin v2.opened => g2.passed[id] = {}
  PROVE  CodecOK(v2, g2)
<1>1. HistoryOK(v2, g2)
  BY DEF CodecOK, HistoryOK, Recalls
<1>2. \A id \in Streams : InOrder(v2, g2, id)
  BY DEF CodecOK, InOrder, Recalls, Holds
<1>3. QED
  BY <1>1, <1>2 DEF CodecOK

\* A client has no streams here, and writes what it likes.
LEMMA ClientWrites ==
  ASSUME NEW v, NEW g, CodecOK(v, g), v.kind = "client", NEW c, NEW g2, DOMAIN g2 = HistoryFields,
         Appended(g2.written, g.written, c), g2.asked = g.asked, g2.outOfTurn = g.outOfTurn, g2.passed = g.passed
  PROVE  CodecOK(v, g2)
<1>1. IsList(g.written) /\ \A id \in Streams : IsList(sent(v.kind, g.written, id))
  BY DEF CodecOK, HistoryOK
<1>2. ASSUME NEW id \in Streams
      PROVE  IsList(g2.written) /\ sent(v.kind, g2.written, id) = sent(v.kind, g.written, id)
  <2>1. share(v.kind, c, id) = <<>>
    BY DEF share
  <2>2. IsList(share(v.kind, c, id))
    BY <2>1, EmptyList
  <2>3. IsList(g2.written) /\ sent(v.kind, g2.written, id) = sent(v.kind, g.written, id) \o share(v.kind, c, id)
    BY <1>1, <2>2, SentAppend
  <2>4. QED
    BY <1>1, <2>1, <2>3, JoinEmpty
<1>3. IsList(g2.written)
  BY <1>1, ListAppend DEF Appended
<1>4. HistoryOK(v, g2)
  BY <1>2, <1>3 DEF CodecOK, HistoryOK
<1>5. \A id \in Streams : InOrder(v, g2, id)
  BY <1>2 DEF CodecOK, InOrder
<1>6. QED
  BY <1>4, <1>5 DEF CodecOK

\* A writing end but for its scheduler.
Rescheduled(v, v2, l) ==
  /\ DOMAIN v2 = WriterFields /\ v2.ws = l /\ v2.kind = v.kind
  /\ v2.flow = v.flow /\ v2.conn = v.conn /\ v2.opened = v.opened /\ v2.closed = v.closed

\* A frame is asked for, pushed and remembered.
Asking(v, g, v2, g2, id, wr, l) ==
  /\ CodecOK(v, g) /\ v.kind \in Servers /\ id \in v.opened \ v.closed
  /\ StreamFrame(wr, id) /\ l = Push(v.ws, wr) /\ Rescheduled(v, v2, l)
  /\ DOMAIN g2 = HistoryFields /\ g2.written = g.written /\ g2.outOfTurn = g.outOfTurn /\ g2.passed = g.passed
  /\ g2.asked = [g.asked EXCEPT ![id] = Append(@, wr)]

\* What a stream has been asked to write grows with its queue.
LEMMA AskStream ==
  ASSUME NEW v, NEW g, NEW v2, NEW g2, NEW id, NEW wr, NEW l, Asking(v, g, v2, g2, id, wr, l)
  PROVE  CodecOK(v2, g2)
<1> SUFFICES ASSUME CodecOK(v, g), v.kind \in Servers, id \in v.opened \ v.closed,
                    StreamFrame(wr, id), l = Push(v.ws, wr), Rescheduled(v, v2, l),
                    DOMAIN g2 = HistoryFields, g2.written = g.written, g2.outOfTurn = g.outOfTurn,
                    g2.passed = g.passed, g2.asked = [g.asked EXCEPT ![id] = Append(@, wr)]
             PROVE  CodecOK(v2, g2)
  BY DEF Asking
<1>1. PICK D : D = v.opened \ v.closed
  OBVIOUS
<1>2. D \subseteq Streams /\ id \in D /\ Scheduler(v.ws, D, g.passed) /\ v.ws.kind \in Servers
  BY <1>1 DEF CodecOK, WriterOK
<1>3. Scheduler(l, D, g.passed) /\ l.kind = v.ws.kind /\ Adds(v.ws, l, id, wr)
  <2>1. PICK ws : ws = v.ws
    OBVIOUS
  <2>2. PICK passed : passed = g.passed
    OBVIOUS
  <2>3. D \subseteq Streams /\ id \in D /\ Scheduler(ws, D, passed) /\ ws.kind \in Servers /\ l = Push(ws, wr)
    BY <1>2, <2>1, <2>2
  <2>4. Scheduler(l, D, passed) /\ l.kind = ws.kind /\ Adds(ws, l, id, wr)
    BY <2>3, PushStream
  <2>5. QED
    BY <2>1, <2>2, <2>4
<1>4. WriterOK(v2)
  BY <1>3 DEF CodecOK, WriterOK, Rescheduled
<1>5. id \in Streams /\ Frames(g.asked[id], id) /\ Appended(g2.asked[id], g.asked[id], wr)
      /\ DOMAIN g2.asked = Streams /\ \A i \in Streams \ {id} : g2.asked[i] = g.asked[i]
  BY <1>1, <1>2 DEF CodecOK, HistoryOK, Appended
<1>6. Frames(g2.asked[id], id) /\ pieces(g2.asked[id]) = pieces(g.asked[id]) \o piece(wr)
  <2>1. PICK e : e = g2.asked[id]
    OBVIOUS
  <2>2. Appended(e, g.asked[id], wr)
    BY <1>5, <2>1
  <2>3. QED
    BY <1>5, <2>1, <2>2, PiecesAppend
<1>7. HistoryOK(v2, g2)
  BY <1>5, <1>6 DEF CodecOK, HistoryOK, Rescheduled
<1>8. ASSUME NEW i \in Streams PROVE InOrder(v2, g2, i)
  <2>1. InOrder(v, g, i)
    BY DEF CodecOK
  <2>2. CASE i # id
    <3>1. g2.asked[i] = g.asked[i] /\ (i \in Streams \ {id})
      BY <1>5, <2>2
    <3>2. hold(l, i) = hold(v.ws, i)
      BY <1>3, <3>1 DEF Adds
    <3>3. QED
      BY <2>1, <3>1, <3>2 DEF InOrder, Rescheduled
  <2>3. CASE i = id
    <3>1. PICK s : s = sent(v.kind, g.written, id)
      OBVIOUS
    <3>2. IsList(s) /\ IsList(hold(v.ws, id)) /\ IsList(piece(wr))
      <4>1. IsList(s)
        BY <1>5, <3>1 DEF CodecOK, HistoryOK
      <4>2. Queues(v.ws)
        BY <1>2 DEF Scheduler
      <4>3. QED
        BY <4>1, <4>2, HoldIsList, PieceIs
    <3>3. pieces(g.asked[id]) = s \o hold(v.ws, id)
      BY <2>1, <2>3, <3>1 DEF InOrder
    <3>4. (s \o hold(v.ws, id)) \o piece(wr) = s \o (hold(v.ws, id) \o piece(wr))
      BY <3>2, JoinThree
    <3>5. pieces(g2.asked[id]) = s \o hold(l, id)
      BY <1>3, <1>6, <3>3, <3>4 DEF Adds
    <3>6. QED
      BY <2>3, <3>1, <3>5 DEF InOrder, Rescheduled
  <2>4. QED
    BY <2>2, <2>3
<1>9. QED
  BY <1>1, <1>3, <1>4, <1>7, <1>8 DEF CodecOK, Rescheduled

\* A stream is closed: what was queued of it is never written.
Leaving(v, g, id, v2, g2) ==
  /\ CodecOK(v, g) /\ v.kind \in Servers /\ id \in v.opened \ v.closed
  /\ DOMAIN v2 = WriterFields /\ v2.ws = CloseStream(v.ws, id) /\ v2.kind = v.kind
  /\ v2.flow = v.flow /\ v2.conn = v.conn /\ v2.opened = v.opened /\ v2.closed = v.closed \cup {id}
  /\ Recalls(g, g2) /\ g2.passed = g.passed

\* Of a closed stream, what was written is what was asked for first.
LEMMA StreamCloses ==
  ASSUME NEW v, NEW g, NEW id, NEW v2, NEW g2, Leaving(v, g, id, v2, g2)
  PROVE  CodecOK(v2, g2)
<1>a. PICK l : l = CloseStream(v.ws, id)
  OBVIOUS
<1> SUFFICES ASSUME CodecOK(v, g), v.kind \in Servers, id \in v.opened \ v.closed,
                    l = CloseStream(v.ws, id), DOMAIN v2 = WriterFields, v2.ws = l, v2.kind = v.kind,
                    v2.flow = v.flow, v2.conn = v.conn, v2.opened = v.opened, v2.closed = v.closed \cup {id},
                    Recalls(g, g2), g2.passed = g.passed
             PROVE  CodecOK(v2, g2)
  BY <1>a DEF Leaving
<1>1. PICK D : D = v.opened \ v.closed
  OBVIOUS
<1>2. D \subseteq Streams /\ id \in D /\ Scheduler(v.ws, D, g.passed) /\ v.ws.kind \in Servers
  BY <1>1 DEF CodecOK, WriterOK
<1>3. /\ Scheduler(l, D \ {id}, g.passed) /\ l.kind = v.ws.kind
      /\ \A i \in Streams \ {id} : hold(l, i) = hold(v.ws, i)
  <2>1. PICK ws : ws = v.ws
    OBVIOUS
  <2>2. PICK passed : passed = g.passed
    OBVIOUS
  <2>3. Closing(ws, D, passed, id, l)
    BY <1>2, <2>1, <2>2 DEF Closing
  <2>4. Closed(ws, D, passed, id, l)
    BY <2>3, CloseKeeps
  <2>5. QED
    BY <2>1, <2>2, <2>4 DEF Closed
<1>4. WriterOK(v2)
  BY <1>3 DEF CodecOK, WriterOK
<1>5. HistoryOK(v2, g2)
  BY DEF CodecOK, HistoryOK, Recalls
<1>6. Scheduler(v2.ws, v2.opened \ v2.closed, g2.passed)
  <2>1. v2.opened \ v2.closed = D \ {id}
    BY <1>1
  <2>2. QED
    BY <1>3, <2>1
<1>7. ASSUME NEW i \in Streams PROVE InOrder(v2, g2, i)
  <2>1. InOrder(v, g, i)
    BY DEF CodecOK
  <2>2. CASE i # id
    <3>1. hold(l, i) = hold(v.ws, i)
      BY <1>3, <2>2
    <3>2. QED
      BY <2>1, <2>2, <3>1 DEF InOrder, Recalls
  <2>3. CASE i = id
    <3>1. PICK s : s = sent(v.kind, g.written, id)
      OBVIOUS
    <3>2. PICK t : t = hold(v.ws, id)
      OBVIOUS
    <3>3. IsList(s) /\ IsList(t)
      <4>1. IsList(s)
        BY <2>3, <3>1 DEF CodecOK, HistoryOK
      <4>2. Queues(v.ws)
        BY <1>2 DEF Scheduler
      <4>3. QED
        BY <3>2, <4>1, <4>2, HoldIsList
    <3>4. Joins(pieces(g.asked[id]), s, t)
      BY <2>1, <2>3, <3>1, <3>2 DEF InOrder, Joins
    <3>5. IsPrefix(s, pieces(g.asked[id]))
      BY <3>3, <3>4, PrefixOfJoin
    <3>6. QED
      BY <2>3, <3>1, <3>5 DEF InOrder, Recalls
  <2>4. QED
    BY <2>2, <2>3
<1>8. QED
  BY <1>4, <1>5, <1>6, <1>7 DEF CodecOK

\* A frame of no stream is written.
LEMMA ControlWritten ==
  ASSUME NEW v, NEW g, CodecOK(v, g), NEW p, Controls(v.ws, p), NEW v2, Rescheduled(v, v2, p.ws),
         NEW g2, DOMAIN g2 = HistoryFields, Appended(g2.written, g.written, p.wr), g2.asked = g.asked,
         g2.outOfTurn = g.outOfTurn, g2.passed = g.passed
  PROVE  CodecOK(v2, g2) /\ ControlFrame(p.wr)
<1>1. PICK D : D = v.opened \ v.closed
  OBVIOUS
<1>2. Scheduler(v.ws, D, g.passed)
  BY <1>1 DEF CodecOK
<1>3. /\ Scheduler(p.ws, D, g.passed) /\ p.ws.kind = v.ws.kind /\ ControlFrame(p.wr)
      /\ \A i \in Streams : hold(p.ws, i) = hold(v.ws, i)
  <2>1. PICK ws : ws = v.ws
    OBVIOUS
  <2>2. PICK passed : passed = g.passed
    OBVIOUS
  <2>3. Scheduler(ws, D, passed) /\ Controls(ws, p)
    BY <1>2, <2>1, <2>2
  <2>4. /\ Scheduler(p.ws, D, passed) /\ p.ws.kind = ws.kind /\ ControlFrame(p.wr)
        /\ \A i \in Streams : hold(p.ws, i) = hold(ws, i)
    BY <2>3, PopControl
  <2>5. QED
    BY <2>1, <2>2, <2>4
<1>4. WriterOK(v2)
  BY <1>3 DEF CodecOK, WriterOK, Rescheduled
<1>5. IsList(g.written) /\ \A id \in Streams : IsList(sent(v.kind, g.written, id))
  BY DEF CodecOK, HistoryOK
<1>6. ASSUME NEW id \in Streams
      PROVE  sent(v.kind, g2.written, id) = sent(v.kind, g.written, id)
  <2>1. share(v.kind, p.wr, id) = <<>>
    BY <1>3 DEF share, ControlFrame
  <2>2. IsList(share(v.kind, p.wr, id))
    BY <2>1, EmptyList
  <2>3. sent(v.kind, g2.written, id) = sent(v.kind, g.written, id) \o share(v.kind, p.wr, id)
    BY <1>5, <2>2, SentAppend
  <2>4. QED
    BY <1>5, <2>1, <2>3, JoinEmpty
<1>7. IsList(g2.written)
  BY <1>5, ListAppend DEF Appended
<1>8. HistoryOK(v2, g2)
  BY <1>5, <1>6, <1>7 DEF CodecOK, HistoryOK, Rescheduled
<1>9. \A id \in Streams : InOrder(v2, g2, id)
  BY <1>3, <1>6 DEF CodecOK, InOrder, Rescheduled
<1>10. Scheduler(v2.ws, v2.opened \ v2.closed, g2.passed)
  BY <1>1, <1>3 DEF Rescheduled
<1>11. QED
  BY <1>3, <1>4, <1>8, <1>9, <1>10 DEF CodecOK

\* A frame of a stream is written: its windows and the history move.
Serving(v, g, allowed, id, p, v2, g2) ==
  LET W == {i \in DOMAIN v.ws.queue : ready(v.ws, allowed, i)}
      n == Len(p.wr.data)
  IN  /\ CodecOK(v, g) /\ v.kind \in Servers /\ Serves(v.ws, allowed, id, p)
      /\ \A i \in Streams : allowed[i] \in Nat /\ allowed[i] <= v.flow[i] /\ allowed[i] <= v.conn
      /\ DOMAIN v2 = WriterFields /\ v2.ws = p.ws /\ v2.kind = v.kind
      /\ v2.flow = [i \in Streams |-> IF i = id THEN v.flow[i] - n ELSE v.flow[i]] /\ v2.conn = v.conn - n
      /\ v2.opened = v.opened /\ v2.closed = v.closed
      /\ DOMAIN g2 = HistoryFields /\ Appended(g2.written, g.written, p.wr) /\ g2.asked = g.asked
      /\ DOMAIN g2.passed = Streams /\ Passes(g.passed, id, W, g2.passed)
      /\ g2.outOfTurn = (\E i \in W : i # id /\ Unfair(v.ws, g.passed, id, i))

\* What was written of a stream grows by what leaves its queue.
LEMMA StreamWritten ==
  ASSUME NEW v, NEW g, NEW allowed, NEW id, NEW p, NEW v2, NEW g2, Serving(v, g, allowed, id, p, v2, g2)
  PROVE  CodecOK(v2, g2) /\ StreamFrame(p.wr, id) /\ id \in v.opened \ v.closed
<1>a. PICK W, n : W = {i \in DOMAIN v.ws.queue : ready(v.ws, allowed, i)} /\ n = Len(p.wr.data)
  OBVIOUS
<1> SUFFICES ASSUME CodecOK(v, g), v.kind \in Servers, Serves(v.ws, allowed, id, p),
                    \A i \in Streams : allowed[i] \in Nat /\ allowed[i] <= v.flow[i] /\ allowed[i] <= v.conn,
                    W = {i \in DOMAIN v.ws.queue : ready(v.ws, allowed, i)}, n = Len(p.wr.data),
                    DOMAIN v2 = WriterFields, v2.ws = p.ws, v2.kind = v.kind,
                    v2.flow = [i \in Streams |-> IF i = id THEN v.flow[i] - n ELSE v.flow[i]], v2.conn = v.conn - n,
                    v2.opened = v.opened, v2.closed = v.closed,
                    DOMAIN g2 = HistoryFields, Appended(g2.written, g.written, p.wr), g2.asked = g.asked,
                    DOMAIN g2.passed = Streams, Passes(g.passed, id, W, g2.passed),
                    g2.outOfTurn = (\E i \in W : i # id /\ Unfair(v.ws, g.passed, id, i))
             PROVE  CodecOK(v2, g2) /\ StreamFrame(p.wr, id) /\ id \in v.opened \ v.closed
  BY <1>a DEF Serving
<1>1. PICK D : D = v.opened \ v.closed
  OBVIOUS
<1>2. PICK ws : ws = v.ws
  OBVIOUS
<1>3. PICK passed : passed = g.passed
  OBVIOUS
<1>4. PICK passed2 : passed2 = g2.passed
  OBVIOUS
<1>5. D \subseteq Streams /\ Scheduler(ws, D, passed) /\ ws.kind = v.kind
  BY <1>1, <1>2, <1>3 DEF CodecOK, WriterOK
<1>6. /\ Scheduler(p.ws, D, passed2) /\ p.ws.kind = ws.kind
      /\ id \in D /\ StreamFrame(p.wr, id) /\ Len(p.wr.data) <= allowed[id]
      /\ hold(ws, id) = piece(p.wr) \o hold(p.ws, id)
      /\ \A i \in Streams \ {id} : hold(p.ws, i) = hold(ws, i)
      /\ \A i \in W : i # id => ~Unfair(ws, passed, id, i)
  <2>1. Serves(ws, allowed, id, p) /\ ws.kind \in Servers /\ Passes(passed, id, W, passed2)
    BY <1>2, <1>3, <1>4, <1>5
  <2>2. W = {i \in DOMAIN ws.queue : ready(ws, allowed, i)}
    BY <1>2
  <2>3. QED
    BY <1>5, <2>1, <2>2, ServeKeeps
<1>7. WriterOK(v2)
  <2>1. n \in Nat /\ n <= allowed[id] /\ id \in Streams
    BY <1>5, <1>6 DEF StreamFrame, IsList
  <2>2. v.flow \in [Streams -> Nat] /\ v.conn \in Nat
    BY DEF CodecOK, WriterOK
  <2>3. v.conn - n \in Nat /\ v.flow[id] - n \in Nat
    <3>1. PICK a \in Nat : a = allowed[id]
      BY <2>1
    <3>2. PICK b \in Nat : b = v.flow[id]
      BY <2>1, <2>2
    <3>3. PICK c \in Nat : c = v.conn
      BY <2>2
    <3>4. n <= a /\ a <= b /\ a <= c
      BY <2>1, <3>1, <3>2, <3>3
    <3>5. n \in Nat /\ n <= b /\ n <= c
      BY <2>1, <3>1, <3>2, <3>3, <3>4
    <3>6. b - n \in Nat /\ c - n \in Nat
      BY <3>2, <3>3, <3>5
    <3>7. QED
      BY <3>2, <3>3, <3>6
  <2>4. v2.flow \in [Streams -> Nat]
    BY <2>1, <2>2, <2>3
  <2>5. QED
    BY <1>2, <1>5, <1>6, <2>3, <2>4 DEF CodecOK, WriterOK
<1>8. IsList(g.written) /\ \A i \in Streams : IsList(sent(v.kind, g.written, i))
  BY DEF CodecOK, HistoryOK
<1>9. ASSUME NEW i \in Streams
      PROVE  /\ IsList(sent(v.kind, g2.written, i))
             /\ i # id => sent(v.kind, g2.written, i) = sent(v.kind, g.written, i)
             /\ i = id => sent(v.kind, g2.written, i) = sent(v.kind, g.written, i) \o piece(p.wr)
  <2>1. share(v.kind, p.wr, i) = IF i = id THEN piece(p.wr) ELSE <<>>
    BY <1>6 DEF share, StreamFrame, Servers
  <2>2. IsList(share(v.kind, p.wr, i))
    <3>1. IsList(piece(p.wr))
      BY <1>6, PieceIs
    <3>2. QED
      BY <2>1, <3>1, EmptyList
  <2>3. PICK s : s = sent(v.kind, g.written, i)
    OBVIOUS
  <2>4. PICK t : t = share(v.kind, p.wr, i)
    OBVIOUS
  <2>5. PICK j : j = sent(v.kind, g2.written, i)
    OBVIOUS
  <2>6. j = s \o t
    <3>1. PICK e, q, c, kind : e = g2.written /\ q = g.written /\ c = p.wr /\ kind = v.kind
      OBVIOUS
    <3>2. IsList(q) /\ IsList(share(kind, c, i)) /\ Appended(e, q, c)
      BY <1>8, <2>2, <3>1
    <3>3. sent(kind, e, i) = sent(kind, q, i) \o share(kind, c, i)
      BY <3>2, SentAppend
    <3>4. QED
      BY <2>3, <2>4, <2>5, <3>1, <3>3
  <2>7. IsList(s) /\ IsList(t) /\ Joins(j, s, t)
    BY <1>8, <2>2, <2>3, <2>4, <2>6 DEF Joins
  <2>8. IsList(j)
    BY <2>7, ListJoin
  <2>9. i # id => j = s
    BY <2>1, <2>4, <2>6, <2>7, JoinEmpty
  <2>10. QED
    BY <2>1, <2>3, <2>4, <2>5, <2>6, <2>8, <2>9
<1>10. g2.outOfTurn = FALSE
  BY <1>2, <1>3, <1>6
<1>11. HistoryOK(v2, g2)
  <2>1. IsList(g2.written)
    BY <1>8, ListAppend DEF Appended
  <2>2. ASSUME NEW i \in Streams, i \notin v.opened PROVE g2.passed[i] = {}
    <3>1. i \notin W
      BY <1>1, <1>2, <1>5, <2>2 DEF Scheduler
    <3>2. QED
      BY <3>1 DEF Passes
  <2>3. QED
    BY <1>9, <1>10, <2>1, <2>2 DEF CodecOK, HistoryOK
<1>12. ASSUME NEW i \in Streams PROVE InOrder(v2, g2, i)
  <2>1. InOrder(v, g, i)
    BY DEF CodecOK
  <2>2. CASE i # id
    <3>1. hold(p.ws, i) = hold(v.ws, i)
      BY <1>2, <1>6, <2>2
    <3>2. sent(v.kind, g2.written, i) = sent(v.kind, g.written, i)
      BY <1>9, <2>2
    <3>3. QED
      BY <2>1, <3>1, <3>2 DEF InOrder
  <2>3. CASE i = id
    <3>1. PICK s : s = sent(v.kind, g.written, id)
      OBVIOUS
    <3>2. PICK t : t = hold(p.ws, id)
      OBVIOUS
    <3>3. PICK x : x = piece(p.wr)
      OBVIOUS
    <3>4. IsList(s) /\ IsList(t) /\ IsList(x)
      <4>1. Queues(p.ws)
        BY <1>6 DEF Scheduler
      <4>2. QED
        BY <1>6, <1>8, <2>3, <3>1, <3>2, <3>3, <4>1, HoldIsList, PieceIs
    <3>5. pieces(g.asked[id]) = s \o (x \o t)
      BY <1>1, <1>2, <1>6, <2>1, <2>3, <3>1, <3>2, <3>3 DEF InOrder
    <3>6. (s \o x) \o t = s \o (x \o t)
      BY <3>4, JoinThree
    <3>7. sent(v.kind, g2.written, id) = s \o x
      BY <1>9, <2>3, <3>1, <3>3
    <3>8. QED
      BY <1>1, <1>6, <2>3, <3>2, <3>5, <3>6, <3>7 DEF InOrder
  <2>4. QED
    BY <2>2, <2>3
<1>13. Scheduler(v2.ws, v2.opened \ v2.closed, g2.passed)
  BY <1>1, <1>4, <1>6
<1>14. QED
  BY <1>1, <1>6, <1>7, <1>11, <1>12, <1>13 DEF CodecOK

-----------------------------------------------------------------------------
(* The steps of the specification.                                          *)

\* Steps that keep the scheduler too.
LEMMA Remembered ==
  ASSUME NEW v, NEW g, CodecOK(v, g), NEW v2, Rescheduled(v, v2, v.ws), NEW g2, Recalls(g, g2), g2.passed = g.passed
  PROVE  CodecOK(v2, g2)
<1>1. WriterOK(v2)
  BY DEF CodecOK, WriterOK, Rescheduled
<1>2. Holds(v.ws, v2.ws)
  BY DEF Rescheduled, Holds
<1>3. Scheduler(v2.ws, v2.opened \ v2.closed, g2.passed)
  BY DEF CodecOK, Rescheduled
<1>4. DOMAIN g2.passed = Streams /\ \A id \in Streams : id \notin v2.opened => g2.passed[id] = {}
  BY DEF CodecOK, HistoryOK, Rescheduled
<1>5. v2.kind = v.kind /\ v2.closed = v.closed /\ v.opened \subseteq v2.opened
  BY DEF Rescheduled
<1>6. QED
  BY <1>1, <1>2, <1>3, <1>4, <1>5, SchedulerMoves

\* What the Framer wrote is written, or nothing is.
Records(g, g2, c) ==
  /\ DOMAIN g2 = HistoryFields /\ g2.asked = g.asked /\ g2.outOfTurn = g.outOfTurn /\ g2.passed = g.passed
  /\ g2.written = g.written \/ Appended(g2.written, g.written, c)

\* Whatever the client writes.
LEMMA ClientMoves ==
  ASSUME NEW v, NEW g, CodecOK(v, g), v.kind = "client", NEW v2, Rescheduled(v, v2, v.ws),
         NEW c, NEW g2, Records(g, g2, c)
  PROVE  CodecOK(v2, g2)
<1>1. CASE g2.written = g.written
  <2>1. Recalls(g, g2) /\ g2.passed = g.passed
    BY <1>1 DEF Records, Recalls
  <2>2. QED
    BY <2>1, Remembered
<1>2. CASE Appended(g2.written, g.written, c)
  <2>1. Recalls(g, g)
    BY DEF CodecOK, HistoryOK, Recalls
  <2>2. CodecOK(v2, g) /\ v2.kind = "client"
    BY <2>1, Remembered DEF Rescheduled
  <2>3. /\ DOMAIN g2 = HistoryFields /\ g2.asked = g.asked /\ g2.outOfTurn = g.outOfTurn
        /\ g2.passed = g.passed
    BY DEF Records
  <2>4. QED
    BY <1>2, <2>2, <2>3, ClientWrites
<1>3. QED
  BY <1>1, <1>2 DEF Records

\* FramerCall and SendRequest.
LEMMA ClientStepOK ==
  ASSUME CodecOK(w, h), ClientStep
  PROVE  CodecOK(w', h')
<1>1. DOMAIN w = WriterFields /\ DOMAIN h = HistoryFields
  BY DEF CodecOK, WriterOK, HistoryOK
<1>2. \E c : w.kind = "client" /\ Rescheduled(w, w', w.ws) /\ Records(h, h', c)
  <2>1. ASSUME NEW c \in Calls, NEW illegal \in BOOLEAN, FramerCall(c, illegal)
        PROVE  w.kind = "client" /\ Rescheduled(w, w', w.ws) /\ Records(h, h', c)
    <3>1. w.kind = "client" /\ w' = w /\ h' = [written(c, framesOf(c, illegal)) EXCEPT !.calls = @ + 1]
      BY <2>1 DEF FramerCall, Client
    <3>2. Rescheduled(w, w', w.ws)
      BY <1>1, <3>1 DEF Rescheduled
    <3>3. Records(h, h', c)
      BY <1>1, <3>1 DEF Records, written, HistoryFields, Appended
    <3>4. QED
      BY <3>1, <3>2, <3>3
  <2>2. ASSUME NEW req \in Requests, SendRequest(req)
        PROVE  \E c : w.kind = "client" /\ Rescheduled(w, w', w.ws) /\ Records(h, h', c)
    <3>1. \E enc, c, fs : w.kind = "client" /\ w' = [w EXCEPT !.enc = enc] /\ h' = written(c, fs)
      BY <2>2 DEF SendRequest, Client
    <3>2. PICK enc, c, fs : w.kind = "client" /\ w' = [w EXCEPT !.enc = enc] /\ h' = written(c, fs)
      BY <3>1
    <3>3. Rescheduled(w, w', w.ws)
      BY <1>1, <3>2 DEF Rescheduled, WriterFields
    <3>4. Records(h, h', c)
      BY <1>1, <3>2 DEF Records, written, HistoryFields, Appended
    <3>5. QED
      BY <3>2, <3>3, <3>4
  <2>3. QED
    BY <2>1, <2>2 DEF ClientStep
<1>3. PICK v2, g2 : v2 = w' /\ g2 = h'
  OBVIOUS
<1>4. PICK v, g : v = w /\ g = h
  OBVIOUS
<1>5. PICK c : v.kind = "client" /\ Rescheduled(v, v2, v.ws) /\ Records(g, g2, c)
  BY <1>2, <1>3, <1>4
<1>6. CodecOK(v2, g2)
  BY <1>4, <1>5, ClientMoves
<1>7. QED
  BY <1>3, <1>6

\* SETTINGS of the reading end.
LEMMA ResizeOK ==
  ASSUME CodecOK(w, h), NEW x, Resize(x)
  PROVE  CodecOK(w', h')
<1>1. DOMAIN w = WriterFields /\ DOMAIN h = HistoryFields
  BY DEF CodecOK, WriterOK, HistoryOK
<1>2. PICK v2, g2 : v2 = w' /\ g2 = h'
  OBVIOUS
<1>3. Rescheduled(w, v2, w.ws)
  BY <1>1, <1>2 DEF Resize, Rescheduled, WriterFields
<1>4. Recalls(h, g2) /\ g2.passed = h.passed
  BY <1>1, <1>2 DEF Resize, Recalls, HistoryFields
<1>5. CodecOK(v2, g2)
  BY <1>3, <1>4, Remembered
<1>6. QED
  BY <1>2, <1>5

-----------------------------------------------------------------------------
(* What is asked of the scheduler.                                          *)

\* The frame of a handler goes into the queue of its stream.
LEMMA AskFrame ==
  ASSUME CodecOK(w, h), NEW wr, NEW id \in StreamsOpen, StreamFrame(wr, id), Ask(wr)
  PROVE  CodecOK(w', h')
<1>1. DOMAIN w = WriterFields /\ DOMAIN h = HistoryFields
  BY DEF CodecOK, WriterOK, HistoryOK
<1>2. w.kind \in Servers /\ id \in w.opened \ w.closed
  BY DEF Ask, Client, CodecOK, WriterOK, StreamsOpen
<1>3. wr.ctl = FALSE /\ wr.id = id
  BY DEF StreamFrame
<1>4. PICK v2, g2, l : v2 = w' /\ g2 = h' /\ l = Push(w.ws, wr)
  OBVIOUS
<1>5. Rescheduled(w, v2, l)
  BY <1>1, <1>4 DEF Ask, Rescheduled, WriterFields
<1>6. /\ DOMAIN g2 = HistoryFields /\ g2.written = h.written /\ g2.outOfTurn = h.outOfTurn /\ g2.passed = h.passed
      /\ g2.asked = [h.asked EXCEPT ![id] = Append(@, wr)]
  <2>1. askedNow(wr) = [h.asked EXCEPT ![id] = Append(@, wr)]
    BY <1>3 DEF askedNow
  <2>2. QED
    BY <1>1, <1>4, <2>1 DEF Ask, HistoryFields
<1>7. CodecOK(v2, g2)
  <2>1. Asking(w, h, v2, g2, id, wr, l)
    BY <1>2, <1>4, <1>5, <1>6 DEF Asking
  <2>2. QED
    BY <2>1, AskStream
<1>8. QED
  BY <1>4, <1>7

\* A frame of the serve loop goes into the queue of no stream.
LEMMA AskControl ==
  ASSUME CodecOK(w, h), NEW wr, ControlFrame(wr), Ask(wr)
  PROVE  CodecOK(w', h')
<1>1. DOMAIN w = WriterFields /\ DOMAIN h = HistoryFields
  BY DEF CodecOK, WriterOK, HistoryOK
<1>2. wr.ctl = TRUE
  BY DEF ControlFrame
<1>3. PICK ws, l, D, passed : ws = w.ws /\ l = Push(ws, wr) /\ D = w.opened \ w.closed /\ passed = h.passed
  OBVIOUS
<1>4. Scheduler(ws, D, passed)
  BY <1>3 DEF CodecOK
<1>5. Scheduler(l, D, passed) /\ l.kind = ws.kind /\ \A i \in Streams : hold(l, i) = hold(ws, i)
  BY <1>3, <1>4, PushControl
<1>6. PICK v2, g2 : v2 = w' /\ g2 = h'
  OBVIOUS
<1>7. Rescheduled(w, v2, l)
  BY <1>1, <1>3, <1>6 DEF Ask, Rescheduled, WriterFields
<1>8. Recalls(h, g2) /\ g2.passed = passed
  BY <1>1, <1>2, <1>3, <1>6 DEF Ask, askedNow, Recalls, HistoryFields
<1>9. WriterOK(v2) /\ v2.kind = w.kind /\ v2.closed = w.closed /\ v2.opened = w.opened
  BY <1>3, <1>5, <1>7 DEF CodecOK, WriterOK, Rescheduled
<1>10. Holds(w.ws, v2.ws) /\ Scheduler(v2.ws, v2.opened \ v2.closed, g2.passed)
  BY <1>3, <1>5, <1>7, <1>8, <1>9 DEF Holds, Rescheduled
<1>11. DOMAIN g2.passed = Streams /\ \A id \in Streams : id \notin v2.opened => g2.passed[id] = {}
  BY <1>3, <1>8, <1>9 DEF CodecOK, HistoryOK
<1>12. CodecOK(v2, g2)
  BY <1>8, <1>9, <1>10, <1>11, SchedulerMoves
<1>13. QED
  BY <1>6, <1>12

\* A header.
LEMMA RespondOK ==
  ASSUME CodecOK(w, h), NEW id \in Streams, NEW res, NEW n, NEW done, Respond(id, res, n, done)
  PROVE  CodecOK(w', h')
<1>1. PICK end : end = (done /\ ~hasTrailers(res, done) /\ n = 0)
  OBVIOUS
<1>2. PICK f : f = writeResHeaders(writeHeaders(res, n, done))
  OBVIOUS
<1>3. PICK wr : wr = [op |-> "BLOCK", id |-> id, ctl |-> FALSE, data |-> <<>>, end |-> end,
                      fields |-> f, res |-> res, n |-> n, done |-> done]
  OBVIOUS
<1>4. id \in StreamsOpen /\ Ask(wr)
  BY <1>1, <1>2, <1>3 DEF Respond
<1>5. StreamFrame(wr, id)
  BY <1>3, EmptyList DEF StreamFrame
<1>6. QED
  BY <1>4, <1>5, AskFrame

\* Part of a body.
LEMMA SendBodyOK ==
  ASSUME CodecOK(w, h), NEW id \in Streams, NEW n \in {0, 2}, NEW done \in BOOLEAN, SendBody(id, n, done)
  PROVE  CodecOK(w', h')
<1>1. PICK end : end = (done /\ ~hasNonemptyTrailers(answer(id).res))
  OBVIOUS
<1>2. PICK data : data = [k \in 1..n |-> (Len(h.asked[id]) * n + k) % Octet]
  OBVIOUS
<1>3. IsList(data)
  <2>1. n \in Nat
    OBVIOUS
  <2>2. Len(data) = n
    BY <1>2, <2>1
  <2>3. QED
    BY <1>2, <2>1, <2>2 DEF IsList
<1>4. PICK wr : wr = [op |-> "DATA", id |-> id, ctl |-> FALSE, end |-> end, pad |-> NoPad, data |-> data]
  OBVIOUS
<1>5. id \in StreamsOpen /\ Ask(wr)
  BY <1>1, <1>2, <1>4 DEF SendBody
<1>6. StreamFrame(wr, id)
  BY <1>3, <1>4 DEF StreamFrame
<1>7. QED
  BY <1>5, <1>6, AskFrame

\* Trailers.
LEMMA SendTrailersOK ==
  ASSUME CodecOK(w, h), NEW id \in Streams, SendTrailers(id)
  PROVE  CodecOK(w', h')
<1>1. PICK f : f = writeResHeaders(writeTrailers(answer(id).res))
  OBVIOUS
<1>2. PICK wr : wr = [op |-> "BLOCK", id |-> id, ctl |-> FALSE, data |-> <<>>, end |-> TRUE,
                      fields |-> f, res |-> answer(id).res, n |-> 0, done |-> TRUE]
  OBVIOUS
<1>3. id \in StreamsOpen /\ Ask(wr)
  BY <1>1, <1>2 DEF SendTrailers
<1>4. StreamFrame(wr, id)
  BY <1>2, EmptyList DEF StreamFrame
<1>5. QED
  BY <1>3, <1>4, AskFrame

\* All that a handler asks for.
LEMMA HandlerStepOK ==
  ASSUME CodecOK(w, h), HandlerStep
  PROVE  CodecOK(w', h')
BY RespondOK, SendBodyOK, SendTrailersOK DEF HandlerStep

\* PING.
LEMMA SendControlOK ==
  ASSUME CodecOK(w, h), NEW c, SendControl(c)
  PROVE  CodecOK(w', h')
<1>1. PICK wr : wr = [op |-> "PING", id |-> 0, ack |-> c.ack, echo |-> c.echo, ctl |-> TRUE, data |-> <<>>, end |-> FALSE]
  OBVIOUS
<1>2. Ask(wr) /\ ControlFrame(wr)
  BY <1>1 DEF SendControl, ControlFrame
<1>3. QED
  BY <1>2, AskControl

\* RST_STREAM.
LEMMA ResetOK ==
  ASSUME CodecOK(w, h), NEW id, Reset(id)
  PROVE  CodecOK(w', h')
<1>1. PICK wr : wr = [op |-> "RST_STREAM", id |-> id, code |-> 0, ctl |-> TRUE, data |-> <<>>, end |-> FALSE]
  OBVIOUS
<1>2. Ask(wr) /\ ControlFrame(wr)
  BY <1>1 DEF Reset, ControlFrame
<1>3. QED
  BY <1>2, AskControl

-----------------------------------------------------------------------------
(* The frames of the client.                                                *)

\* A new stream.
LEMMA OpenOK ==
  ASSUME CodecOK(w, h), NEW id \in Streams, NEW prio \in Priorities, Open(id, prio)
  PROVE  CodecOK(w', h')
<1>1. DOMAIN w = WriterFields /\ DOMAIN h = HistoryFields
  BY DEF CodecOK, WriterOK, HistoryOK
<1>2. w.kind \in Servers /\ id \notin w.opened /\ w.opened \subseteq Streams /\ w.closed \subseteq w.opened
  BY DEF Open, Client, CodecOK, WriterOK
<1>3. PICK ws, l, D, passed : ws = w.ws /\ l = OpenStream(ws, id, prio) /\ D = w.opened \ w.closed /\ passed = h.passed
  OBVIOUS
<1>4. /\ D \subseteq Streams /\ id \in Streams \ D /\ prio \in Classes /\ passed[id] = {}
      /\ Scheduler(ws, D, passed) /\ ws.kind \in Servers
  BY <1>2, <1>3, CodecAssumption DEF CodecOK, WriterOK, HistoryOK
<1>5. Scheduler(l, D \cup {id}, passed) /\ Holds(ws, l)
  BY <1>3, <1>4, OpenKeeps
<1>6. PICK v2 : v2 = w'
  OBVIOUS
<1>7. /\ DOMAIN v2 = WriterFields /\ v2.ws = l /\ v2.kind = w.kind /\ v2.flow = w.flow /\ v2.conn = w.conn
      /\ v2.opened = w.opened \cup {id} /\ v2.closed = w.closed
  BY <1>1, <1>3, <1>6 DEF Open, WriterFields
<1>8. WriterOK(v2)
  BY <1>2, <1>3, <1>5, <1>7 DEF CodecOK, WriterOK, Holds, Servers
<1>9. Holds(w.ws, v2.ws) /\ v2.opened \ v2.closed = D \cup {id}
  BY <1>2, <1>3, <1>5, <1>7
<1>10. /\ Recalls(h, h) /\ Scheduler(v2.ws, v2.opened \ v2.closed, h.passed) /\ w.opened \subseteq v2.opened
       /\ DOMAIN h.passed = Streams /\ \A i \in Streams : i \notin v2.opened => h.passed[i] = {}
  BY <1>1, <1>3, <1>5, <1>7, <1>9 DEF Recalls, CodecOK, HistoryOK
<1>11. CodecOK(v2, h)
  BY <1>7, <1>8, <1>9, <1>10, SchedulerMoves
<1>12. h' = h
  BY DEF Open
<1>13. QED
  BY <1>6, <1>11, <1>12

\* PRIORITY_UPDATE.
LEMMA AdjustOK ==
  ASSUME CodecOK(w, h), NEW id \in Streams, NEW prio \in Priorities, Adjust(id, prio)
  PROVE  CodecOK(w', h')
<1>1. DOMAIN w = WriterFields /\ DOMAIN h = HistoryFields /\ DOMAIN h.passed = Streams
  BY DEF CodecOK, WriterOK, HistoryOK
<1>2. PICK ws, l, D, passed : ws = w.ws /\ l = AdjustStream(ws, id, prio) /\ D = w.opened \ w.closed /\ passed = h.passed
  OBVIOUS
<1>3. PICK less : less = [passed EXCEPT ![id] = {}]
  OBVIOUS
<1>4. D \subseteq Streams /\ prio \in Classes /\ Scheduler(ws, D, passed)
  BY <1>2, CodecAssumption DEF CodecOK, WriterOK
<1>5. DOMAIN less = Streams /\ less[id] = {} /\ \A i \in Streams : less[i] \subseteq passed[i]
  BY <1>1, <1>2, <1>3
<1>6. Scheduler(l, D, less) /\ Holds(ws, l)
  BY <1>2, <1>4, <1>5, AdjustKeeps
<1>7. PICK v2, g2 : v2 = w' /\ g2 = h'
  OBVIOUS
<1>8. Rescheduled(w, v2, l)
  BY <1>1, <1>2, <1>7 DEF Adjust, Rescheduled, WriterFields
<1>9. Recalls(h, g2) /\ g2.passed = less
  BY <1>1, <1>2, <1>3, <1>7 DEF Adjust, Recalls, HistoryFields
<1>10. WriterOK(v2) /\ v2.kind = w.kind /\ v2.closed = w.closed /\ v2.opened = w.opened
  BY <1>2, <1>6, <1>8 DEF CodecOK, WriterOK, Rescheduled, Holds
<1>11. Holds(w.ws, v2.ws) /\ Scheduler(v2.ws, v2.opened \ v2.closed, g2.passed)
  BY <1>2, <1>6, <1>8, <1>9, <1>10 DEF Rescheduled
<1>12. DOMAIN g2.passed = Streams /\ \A i \in Streams : i \notin v2.opened => g2.passed[i] = {}
  BY <1>2, <1>5, <1>9, <1>10 DEF CodecOK, HistoryOK
<1>13. CodecOK(v2, g2)
  BY <1>9, <1>10, <1>11, <1>12, SchedulerMoves
<1>14. QED
  BY <1>7, <1>13

\* WINDOW_UPDATE.
LEMMA GrantOK ==
  ASSUME CodecOK(w, h), NEW id \in Streams, Grant(id, 1)
  PROVE  CodecOK(w', h')
<1>1. DOMAIN w = WriterFields /\ DOMAIN h = HistoryFields /\ w.flow \in [Streams -> Nat] /\ w.conn \in Nat
  BY DEF CodecOK, WriterOK, HistoryOK
<1>2. PICK v2, g2 : v2 = w' /\ g2 = h'
  OBVIOUS
<1>3. PICK flow : flow = [w.flow EXCEPT ![id] = @ + 1]
  OBVIOUS
<1>4. flow \in [Streams -> Nat]
  BY <1>1, <1>3
<1>5. w' = [w EXCEPT !.flow[id] = @ + 1, !.conn = @ + 1] /\ h' = [h EXCEPT !.events = @ + 1]
  BY DEF Grant
<1>6. /\ DOMAIN v2 = WriterFields /\ v2.ws = w.ws /\ v2.kind = w.kind /\ v2.flow = flow /\ v2.conn = w.conn + 1
      /\ v2.opened = w.opened /\ v2.closed = w.closed
  BY <1>1, <1>2, <1>3, <1>5 DEF WriterFields
<1>7. Recalls(h, g2) /\ g2.passed = h.passed
  BY <1>1, <1>2, <1>5 DEF Recalls, HistoryFields
<1>8. v2.flow \in [Streams -> Nat] /\ v2.conn \in Nat
  BY <1>1, <1>4, <1>6
<1>9. WriterOK(v2)
  BY <1>6, <1>8 DEF CodecOK, WriterOK
<1>10. Holds(w.ws, v2.ws) /\ Scheduler(v2.ws, v2.opened \ v2.closed, g2.passed) /\ w.opened \subseteq v2.opened
       /\ DOMAIN g2.passed = Streams /\ \A i \in Streams : i \notin v2.opened => g2.passed[i] = {}
  BY <1>6, <1>7 DEF CodecOK, HistoryOK, Holds
<1>11. CodecOK(v2, g2)
  BY <1>6, <1>7, <1>9, <1>10, SchedulerMoves
<1>12. QED
  BY <1>2, <1>11

\* RST_STREAM of the client.
LEMMA PeerResetOK ==
  ASSUME CodecOK(w, h), NEW id \in Streams, PeerReset(id)
  PROVE  CodecOK(w', h')
<1>1. DOMAIN w = WriterFields /\ DOMAIN h = HistoryFields
  BY DEF CodecOK, WriterOK, HistoryOK
<1>2. id \in w.opened \ w.closed /\ w.kind \in Servers
  BY DEF PeerReset, StreamsOpen, CodecOK, WriterOK
<1>3. PICK v2, g2 : v2 = w' /\ g2 = h'
  OBVIOUS
<1>4. /\ DOMAIN v2 = WriterFields /\ v2.ws = CloseStream(w.ws, id) /\ v2.kind = w.kind
      /\ v2.flow = w.flow /\ v2.conn = w.conn /\ v2.opened = w.opened /\ v2.closed = w.closed \cup {id}
  BY <1>1, <1>3 DEF PeerReset, WriterFields
<1>5. Recalls(h, g2) /\ g2.passed = h.passed
  BY <1>1, <1>3 DEF PeerReset, Recalls, HistoryFields
<1>6. Leaving(w, h, id, v2, g2)
  BY <1>2, <1>4, <1>5 DEF Leaving
<1>7. CodecOK(v2, g2)
  BY <1>6, StreamCloses
<1>8. QED
  BY <1>3, <1>7

\* All that the client sends.
LEMMA PeerStepOK ==
  ASSUME CodecOK(w, h), PeerStep
  PROVE  CodecOK(w', h')
BY OpenOK, AdjustOK, PeerResetOK, GrantOK DEF PeerStep

-----------------------------------------------------------------------------
(* The frames that are written.                                             *)

\* Pop of an empty scheduler.
LEMMA PopNothingOK ==
  ASSUME CodecOK(w, h), PopNothing
  PROVE  CodecOK(w', h')
<1>1. DOMAIN w = WriterFields /\ DOMAIN h = HistoryFields
  BY DEF CodecOK, WriterOK, HistoryOK
<1>2. PICK ws, l, D, passed : ws = w.ws /\ l = emptyPop(ws) /\ D = w.opened \ w.closed /\ passed = h.passed
  OBVIOUS
<1>3. Scheduler(ws, D, passed) /\ DOMAIN ws = Fields /\ D \subseteq Streams
  BY <1>2 DEF CodecOK, WriterOK, Scheduler, Queues
<1>4. SameRings(ws, l) /\ Alike(ws, l) /\ l.control = ws.control /\ l.queue = ws.queue
  BY <1>2, <1>3 DEF emptyPop, Alike, SameRings, Fields
<1>5. Holds(ws, l)
  BY <1>4 DEF Holds, hold, SameRings
<1>6. Scheduler(l, D, passed)
  <2>1. Queues(l) /\ l.panic = FALSE /\ l.kind = ws.kind
    BY <1>3, <1>4 DEF Scheduler, Queues, Alike
  <2>2. CASE Ringed(ws.kind)
    <3>1. Linked(ws, D) /\ Behind(ws, D, passed) /\ DOMAIN ws.queue = D
      BY <1>3, <2>2 DEF Scheduler
    <3>2. Linked(l, D) /\ Behind(l, D, passed)
      BY <1>4, <3>1, AlikeLinked
    <3>3. QED
      BY <1>4, <2>1, <2>2, <3>1, <3>2 DEF Scheduler
  <2>3. CASE ~Ringed(ws.kind)
    BY <1>3, <1>4, <2>1, <2>3 DEF Scheduler
  <2>4. QED
    BY <2>2, <2>3
<1>7. PICK v2 : v2 = w'
  OBVIOUS
<1>8. Rescheduled(w, v2, l)
  BY <1>1, <1>2, <1>7 DEF PopNothing, Rescheduled, WriterFields
<1>9. WriterOK(v2) /\ v2.kind = w.kind /\ v2.closed = w.closed /\ v2.opened = w.opened
  BY <1>2, <1>5, <1>8 DEF CodecOK, WriterOK, Rescheduled, Holds
<1>10. /\ Holds(w.ws, v2.ws) /\ Scheduler(v2.ws, v2.opened \ v2.closed, h.passed) /\ Recalls(h, h)
       /\ DOMAIN h.passed = Streams /\ \A i \in Streams : i \notin v2.opened => h.passed[i] = {}
  BY <1>1, <1>2, <1>5, <1>6, <1>8, <1>9 DEF Rescheduled, Recalls, CodecOK, HistoryOK
<1>11. CodecOK(v2, h)
  BY <1>9, <1>10, SchedulerMoves
<1>12. h' = h
  BY DEF PopNothing
<1>13. QED
  BY <1>7, <1>11, <1>12

\* What a stream is allowed is within its window and that of the connection.
LEMMA AllowanceIs ==
  ASSUME CodecOK(w, h)
  PROVE  \A i \in Streams : /\ allowance[i] \in Nat /\ allowance[i] <= w.flow[i] /\ allowance[i] <= w.conn
<1>1. SUFFICES ASSUME NEW i \in Streams
               PROVE  allowance[i] \in Nat /\ allowance[i] <= w.flow[i] /\ allowance[i] <= w.conn
  OBVIOUS
<1>2. w.flow[i] \in Nat /\ w.conn \in Nat /\ MaxFrameSize \in Nat
  BY CodecAssumption DEF CodecOK, WriterOK
<1>3. PICK T : T = {w.flow[i], w.conn, MaxFrameSize}
  OBVIOUS
<1>4. allowance[i] = Min(T)
  BY <1>3 DEF allowance
<1>5. T \in SUBSET Nat /\ T # {} /\ w.flow[i] \in T /\ w.conn \in T
  BY <1>2, <1>3
<1>6. Min(T) \in T /\ \A y \in T : Min(T) <= y
  BY <1>5, LeastIs
<1>7. QED
  BY <1>4, <1>5, <1>6

\* What is popped is the first frame of no stream, or that of one served fairly.
LEMMA Popped ==
  ASSUME CodecOK(w, h), w.kind \in Servers, NEW p \in Pop(w.ws, allowance)
  PROVE  Controls(w.ws, p) \/ \E id : Serves(w.ws, allowance, id, p)
<1>1. PICK ws, allowed, D : ws = w.ws /\ allowed = allowance /\ D = w.opened \ w.closed
  OBVIOUS
<1>2. Scheduler(ws, D, h.passed) /\ ws.kind \in Servers
  BY <1>1 DEF CodecOK, WriterOK
<1>3. /\ Queues(ws) /\ ws.kind \in {"roundrobin", "random", "rfc9218"}
      /\ Ringed(ws.kind) => Linked(ws, DOMAIN ws.queue)
  BY <1>2 DEF Scheduler, Servers
<1>4. \A i \in Streams : allowed[i] \in Nat
  BY <1>1, AllowanceIs
<1>5. p \in Pop(ws, allowed)
  BY <1>1
<1>6. Controls(ws, p) \/ \E id : Serves(ws, allowed, id, p)
  BY <1>3, <1>4, <1>5, PopIs
<1>7. QED
  BY <1>1, <1>6

\* The writing end once a frame is popped, before its stream is closed.
Midway(v, v2, p, enc) ==
  LET n == Len(p.wr.data)
  IN  v2 = [v EXCEPT !.enc = enc, !.conn = @ - n, !.ws = p.ws,
                     !.flow = [i \in Streams |-> IF i = p.wr.id THEN @[i] - n ELSE @[i]]]

\* Its fields.
LEMMA MidwayIs ==
  ASSUME NEW v, DOMAIN v = WriterFields, NEW p, NEW enc, NEW v2, Midway(v, v2, p, enc)
  PROVE  /\ DOMAIN v2 = WriterFields /\ v2.ws = p.ws /\ v2.kind = v.kind /\ v2.conn = v.conn - Len(p.wr.data)
         /\ v2.flow = [i \in Streams |-> IF i = p.wr.id THEN v.flow[i] - Len(p.wr.data) ELSE v.flow[i]]
         /\ v2.opened = v.opened /\ v2.closed = v.closed
BY DEF Midway, WriterFields

\* A frame of no stream costs no window.
LEMMA ControlPopped ==
  ASSUME CodecOK(w, h), NEW p, Controls(w.ws, p), NEW enc, NEW v2, Midway(w, v2, p, enc),
         NEW g2, g2 = [(IF p.wr.ctl THEN h ELSE noteTurn(p.wr.id)) EXCEPT !.written = Append(@, p.wr)]
  PROVE  CodecOK(v2, g2)
<1>1. DOMAIN w = WriterFields /\ DOMAIN h = HistoryFields /\ w.flow \in [Streams -> Nat] /\ w.conn \in Nat
  BY DEF CodecOK, WriterOK, HistoryOK
<1>2. ControlFrame(p.wr)
  <2>1. IsList(w.ws.control) /\ \A k \in 1..Len(w.ws.control) : ControlFrame(w.ws.control[k])
    BY DEF CodecOK, Scheduler, Queues
  <2>2. w.ws.control # <<>> /\ p.wr = Head(w.ws.control)
    BY DEF Controls
  <2>3. Len(w.ws.control) \in Nat \ {0} /\ Head(w.ws.control) = w.ws.control[1]
    BY <2>1, <2>2, ListTail
  <2>4. QED
    BY <2>1, <2>2, <2>3
<1>3. p.wr.ctl = TRUE /\ Len(p.wr.data) = 0
  BY <1>2, EmptyList DEF ControlFrame
<1>4. Rescheduled(w, v2, p.ws)
  <2>1. /\ DOMAIN v2 = WriterFields /\ v2.ws = p.ws /\ v2.kind = w.kind /\ v2.conn = w.conn - 0
        /\ v2.flow = [i \in Streams |-> IF i = p.wr.id THEN w.flow[i] - 0 ELSE w.flow[i]]
        /\ v2.opened = w.opened /\ v2.closed = w.closed
    BY <1>1, <1>3, MidwayIs
  <2>2. v2.conn = w.conn /\ v2.flow = w.flow
    BY <1>1, <2>1
  <2>3. QED
    BY <2>1, <2>2 DEF Rescheduled
<1>5. g2 = [h EXCEPT !.written = Append(@, p.wr)]
  BY <1>3
<1>6. /\ DOMAIN g2 = HistoryFields /\ Appended(g2.written, h.written, p.wr) /\ g2.asked = h.asked
      /\ g2.outOfTurn = h.outOfTurn /\ g2.passed = h.passed
  BY <1>1, <1>5 DEF HistoryFields, Appended
<1>7. QED
  BY <1>4, <1>6, ControlWritten

\* A frame of a stream costs what it was allowed, and the turn is noted.
LEMMA StreamPopped ==
  ASSUME CodecOK(w, h), w.kind \in Servers, NEW id, NEW p, Serves(w.ws, allowance, id, p),
         NEW enc, NEW v2, Midway(w, v2, p, enc),
         NEW g2, g2 = [(IF p.wr.ctl THEN h ELSE noteTurn(p.wr.id)) EXCEPT !.written = Append(@, p.wr)]
  PROVE  CodecOK(v2, g2)
<1>1. DOMAIN w = WriterFields /\ DOMAIN h = HistoryFields /\ h.outOfTurn = FALSE
  BY DEF CodecOK, WriterOK, HistoryOK
<1>2. StreamFrame(p.wr, id) /\ p.wr.ctl = FALSE /\ p.wr.id = id
  BY DEF Serves, Takes, StreamFrame
<1>3. g2 = [noteTurn(id) EXCEPT !.written = Append(@, p.wr)]
  BY <1>2
<1>4. PICK W : W = {i \in DOMAIN w.ws.queue : ready(w.ws, allowance, i)}
  OBVIOUS
<1>5. W \subseteq Streams
  BY <1>4 DEF CodecOK, Scheduler, Queues
<1>6. \A i : waiting(i) <=> i \in W
  BY <1>4 DEF waiting
<1>7. PICK passed2 : passed2 = [i \in Streams |-> IF i = id \/ ~waiting(i) THEN {} ELSE h.passed[i] \cup {id}]
  OBVIOUS
<1>8. DOMAIN passed2 = Streams /\ Passes(h.passed, id, W, passed2)
  BY <1>6, <1>7 DEF Passes
<1>9. PICK turn : turn = (\E i \in Streams \ {id} : /\ waiting(i)
                                                    /\ moreUrgent(i, id) \/ (inTurnWith(i, id) /\ id \in h.passed[i]))
  OBVIOUS
<1>10. turn = (\E i \in W : i # id /\ Unfair(w.ws, h.passed, id, i))
  BY <1>5, <1>6, <1>9 DEF Unfair, moreUrgent, inTurnWith
<1>11. noteTurn(id) = [h EXCEPT !.outOfTurn = @ \/ turn, !.passed = passed2]
  BY <1>7, <1>9 DEF noteTurn
<1>12. /\ DOMAIN g2 = HistoryFields /\ Appended(g2.written, h.written, p.wr) /\ g2.asked = h.asked
       /\ g2.passed = passed2 /\ g2.outOfTurn = (h.outOfTurn \/ turn)
  BY <1>1, <1>3, <1>11 DEF HistoryFields, Appended
<1>13. g2.outOfTurn = (\E i \in W : i # id /\ Unfair(w.ws, h.passed, id, i))
  BY <1>1, <1>10, <1>12
<1>14. Serving(w, h, allowance, id, p, v2, g2)
  <2>1. /\ DOMAIN v2 = WriterFields /\ v2.ws = p.ws /\ v2.kind = w.kind /\ v2.conn = w.conn - Len(p.wr.data)
        /\ v2.flow = [i \in Streams |-> IF i = id THEN w.flow[i] - Len(p.wr.data) ELSE w.flow[i]]
        /\ v2.opened = w.opened /\ v2.closed = w.closed
    BY <1>1, <1>2, MidwayIs
  <2>2. \A i \in Streams : allowance[i] \in Nat /\ allowance[i] <= w.flow[i] /\ allowance[i] <= w.conn
    BY AllowanceIs
  <2>3. QED
    BY <1>4, <1>8, <1>12, <1>13, <2>1, <2>2 DEF Serving
<1>15. QED
  BY <1>14, StreamWritten

\* A frame is written, and its stream closed if it was the last one.
LEMMA PopFrameOK ==
  ASSUME CodecOK(w, h), PopFrame
  PROVE  CodecOK(w', h')
<1>1. DOMAIN w = WriterFields /\ w.kind \in Servers
  BY DEF PopFrame, Client, CodecOK, WriterOK
<1>2. PICK p \in Pop(w.ws, allowance) :
        LET c == p.wr
            x == encoded(c)
            n == Len(c.data)
            shut == closes(c) /\ c.id \in StreamsOpen
        IN  /\ w' = [w EXCEPT !.enc = x.enc, !.conn = @ - n,
                              !.flow = [i \in Streams |-> IF i = c.id THEN @[i] - n ELSE @[i]],
                              !.ws = IF shut THEN CloseStream(p.ws, c.id) ELSE p.ws,
                              !.closed = IF shut THEN @ \cup {c.id} ELSE @]
            /\ h' = [(IF c.ctl THEN h ELSE noteTurn(c.id)) EXCEPT !.written = Append(@, c)]
  BY DEF PopFrame
<1>3. PICK g2 : g2 = h'
  OBVIOUS
<1>4. g2 = [(IF p.wr.ctl THEN h ELSE noteTurn(p.wr.id)) EXCEPT !.written = Append(@, p.wr)]
  BY <1>2, <1>3
<1>5. PICK v2 : Midway(w, v2, p, encoded(p.wr).enc)
  BY DEF Midway
<1>6. CodecOK(v2, g2)
  <2>1. CASE Controls(w.ws, p)
    BY <1>4, <1>5, <2>1, ControlPopped
  <2>2. ASSUME NEW id, Serves(w.ws, allowance, id, p) PROVE CodecOK(v2, g2)
    BY <1>1, <1>4, <1>5, <2>2, StreamPopped
  <2>3. QED
    BY <1>1, <2>1, <2>2, Popped
<1>7. PICK shut \in BOOLEAN : shut = (closes(p.wr) /\ p.wr.id \in StreamsOpen)
  OBVIOUS
<1>8. PICK u : u = w'
  OBVIOUS
<1>9. /\ DOMAIN v2 = WriterFields /\ v2.ws = p.ws /\ v2.kind = w.kind /\ v2.conn = w.conn - Len(p.wr.data)
      /\ v2.flow = [i \in Streams |-> IF i = p.wr.id THEN w.flow[i] - Len(p.wr.data) ELSE w.flow[i]]
      /\ v2.opened = w.opened /\ v2.closed = w.closed
  BY <1>1, <1>5, MidwayIs
<1>10. /\ DOMAIN u = WriterFields /\ u.kind = v2.kind /\ u.flow = v2.flow /\ u.conn = v2.conn /\ u.opened = v2.opened
       /\ u.ws = (IF shut THEN CloseStream(v2.ws, p.wr.id) ELSE v2.ws)
       /\ u.closed = (IF shut THEN v2.closed \cup {p.wr.id} ELSE v2.closed)
  BY <1>1, <1>2, <1>7, <1>8, <1>9 DEF WriterFields
<1>11. Recalls(g2, g2)
  BY <1>6 DEF CodecOK, HistoryOK, Recalls
<1>12. CodecOK(u, g2)
  <2>1. CASE shut
    <3>1. p.wr.id \in v2.opened \ v2.closed /\ v2.kind \in Servers
      BY <1>1, <1>7, <1>9, <2>1 DEF StreamsOpen
    <3>2. Leaving(v2, g2, p.wr.id, u, g2)
      BY <1>6, <1>10, <1>11, <2>1, <3>1 DEF Leaving
    <3>3. QED
      BY <3>2, StreamCloses
  <2>2. CASE ~shut
    <3>1. Rescheduled(v2, u, v2.ws)
      BY <1>10, <2>2 DEF Rescheduled
    <3>2. QED
      BY <1>6, <1>11, <3>1, Remembered
  <2>3. QED
    BY <2>1, <2>2
<1>13. QED
  BY <1>3, <1>8, <1>12

\* All that the serve loop does.
LEMMA ServeStepOK ==
  ASSUME CodecOK(w, h), ServeStep
  PROVE  CodecOK(w', h')
BY SendControlOK, ResetOK, PopFrameOK, PopNothingOK DEF ServeStep

\* Nothing is queued and nothing was written.
LEMMA InitOK ==
  ASSUME Init
  PROVE  CodecOK(w, h)
<1>1. PICK kind, peerMax :
        /\ kind \in Kinds
        /\ w = [kind |-> kind, ws |-> newWriteScheduler(kind), enc |-> encoder,
                peerMax |-> peerMax, flow |-> [i \in Streams |-> Window.stream],
                conn |-> Window.conn, opened |-> {}, closed |-> {}]
  BY DEF Init
<1>2. h = [asked |-> [i \in Streams |-> <<>>], written |-> <<>>, passed |-> [i \in Streams |-> {}],
           outOfTurn |-> FALSE, writes |-> 0, calls |-> 0, events |-> 0]
  BY DEF Init
<1>3. kind \in Servers \cup {"client"}
  BY <1>1, CodecAssumption DEF Servers
<1>4. PICK ws : ws = newWriteScheduler(kind)
  OBVIOUS
<1>5. /\ DOMAIN ws = Fields /\ ws.kind = kind /\ ws.control = <<>> /\ ws.queue = <<>> /\ ws.class = <<>>
      /\ ws.ring = [c \in Classes |-> <<>>] /\ ws.priorityUpdateBuf = NoUpdate /\ ws.panic = FALSE
  BY <1>4 DEF newWriteScheduler, Fields
<1>6. /\ w.ws = ws /\ w.kind = kind /\ w.opened = {} /\ w.closed = {} /\ w.conn = Window.conn
      /\ w.flow = [i \in Streams |-> Window.stream] /\ DOMAIN w = WriterFields
  BY <1>1, <1>4 DEF WriterFields
<1>7. WriterOK(w)
  BY <1>3, <1>5, <1>6, CodecAssumption DEF WriterOK
<1>8. Turn \in Classes
  <2>1. Min(Urgencies) \in Urgencies
    BY UrgencyAssumption, LeastIs
  <2>2. QED
    BY <2>1 DEF Turn, Classes
<1>9. Queues(ws)
  <2>1. DOMAIN NoUpdate = {"id", "prio"} /\ NoUpdate.prio \in Classes
    BY <1>8 DEF NoUpdate
  <2>2. DOMAIN ws.queue = {}
    BY <1>5
  <2>3. QED
    BY <1>5, <2>1, <2>2, EmptyList DEF Queues
<1>10. Linked(ws, {})
  <2>1. ws.ring \in [Classes -> Seq(Streams)]
    BY <1>5
  <2>2. \A c \in Classes : ws.ring[c] = <<>>
    BY <1>5
  <2>3. DOMAIN ws.class = {}
    BY <1>5
  <2>4. Distinct(<<>>) /\ \A i : ~On(<<>>, i)
    BY EmptyList DEF Distinct, On
  <2>5. QED
    BY <2>1, <2>2, <2>3, <2>4 DEF Linked
<1>11. Behind(ws, {}, h.passed)
  BY DEF Behind
<1>12. Scheduler(w.ws, w.opened \ w.closed, h.passed)
  <2>1. w.opened \ w.closed = {} /\ DOMAIN ws.queue = {}
    BY <1>5, <1>6
  <2>2. QED
    BY <1>5, <1>6, <1>9, <1>10, <1>11, <2>1 DEF Scheduler
<1>13. \A id \in Streams : sent(w.kind, <<>>, id) = <<>>
  BY DEF sent, FlattenSeq
<1>14. /\ h.written = <<>> /\ \A id \in Streams : h.asked[id] = <<>> /\ h.passed[id] = {}
       /\ DOMAIN h = HistoryFields /\ h.outOfTurn = FALSE /\ DOMAIN h.asked = Streams /\ DOMAIN h.passed = Streams
  BY <1>2 DEF HistoryFields
<1>15. HistoryOK(w, h)
  BY <1>13, <1>14, EmptyList, NoPieces DEF HistoryOK
<1>16. \A id \in Streams : InOrder(w, h, id)
  <2>1. \A id \in Streams : hold(ws, id) = <<>>
    BY <1>5 DEF hold
  <2>2. <<>> \o <<>> = <<>>
    BY EmptyList, JoinEmpty
  <2>3. QED
    BY <1>6, <1>13, <1>14, <2>1, <2>2, NoPieces DEF InOrder
<1>17. QED
  BY <1>7, <1>12, <1>15, <1>16 DEF CodecOK

\* What was written of a stream and what it has queued is what was asked for, in
\* that order; nobody was served out of turn; and the rings tell who is next.
CodecInv == CodecOK(w, h)

\* Every step keeps the invariant.
LEMMA NextOK ==
  ASSUME CodecInv, [Next]_vars
  PROVE  CodecInv'
<1>1. CodecOK(w, h)
  BY DEF CodecInv
<1>2. CASE ClientStep
  BY <1>1, <1>2, ClientStepOK DEF CodecInv
<1>3. CASE HandlerStep
  BY <1>1, <1>3, HandlerStepOK DEF CodecInv
<1>4. CASE PeerStep
  BY <1>1, <1>4, PeerStepOK DEF CodecInv
<1>5. CASE ServeStep
  BY <1>1, <1>5, ServeStepOK DEF CodecInv
<1>6. ASSUME NEW v \in TableSizes, Resize(v) PROVE CodecInv'
  BY <1>1, <1>6, ResizeOK DEF CodecInv
<1>7. CASE Read \/ Quiet \/ UNCHANGED vars
  <2>1. w' = w /\ h' = h
    BY <1>7 DEF Read, Quiet, vars
  <2>2. QED
    BY <1>1, <2>1 DEF CodecInv
<1>8. QED
  BY <1>2, <1>3, <1>4, <1>5, <1>6, <1>7 DEF Next

\* The invariant holds of every behaviour.
LEMMA CodecInvHolds == Spec => []CodecInv
<1>1. Init => CodecInv
  BY InitOK DEF CodecInv
<1>2. CodecInv /\ [Next]_vars => CodecInv'
  BY NextOK
<1>3. QED
  BY <1>1, <1>2, PTL DEF Spec

\* No stream is passed over: one that could send when a stream of its class was
\* served is served before that stream is again, and RFC 9218 never serves a
\* stream while a more urgent one could send (writesched_roundrobin.go:101,
\* writesched_priority_rfc9218.go:171).
THEOREM NoStreamPassedOver == Spec => []ServedInTurn
<1>1. CodecInv => ServedInTurn
  BY DEF CodecInv, CodecOK, HistoryOK, ServedInTurn
<1>2. QED
  BY <1>1, CodecInvHolds, PTL

\* Whatever the scheduler, the windows and the resets, the frames written of a
\* stream are those asked for, octet by octet and in order, and what is still
\* owed is what is queued (writesched.go:62, writesched_roundrobin.go:61).
THEOREM FramesInOrder == Spec => []ServedInOrder
<1>1. CodecInv => ServedInOrder
  <2>1. SUFFICES ASSUME CodecOK(w, h) PROVE ServedInOrder
    BY DEF CodecInv
  <2>2. w.ws.panic = FALSE
    BY <2>1 DEF CodecOK, Scheduler
  <2>3. ASSUME NEW id \in Streams
        PROVE  IF id \in w.closed THEN IsPrefix(out(id), pieces(h.asked[id]))
               ELSE pieces(h.asked[id]) = out(id) \o queued(id)
    <3>1. out(id) = sent(w.kind, h.written, id)
      BY DEF out, sent, share, belongs, Client
    <3>2. queued(id) = hold(w.ws, id)
      BY DEF queued, hold, isOpen
    <3>3. InOrder(w, h, id)
      BY <2>1 DEF CodecOK
    <3>4. QED
      BY <3>1, <3>2, <3>3 DEF InOrder
  <2>4. QED
    BY <2>2, <2>3 DEF ServedInOrder
<1>2. QED
  BY <1>1, CodecInvHolds, PTL
=============================================================================
