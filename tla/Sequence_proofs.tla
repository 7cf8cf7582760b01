--------------------------- MODULE Sequence_proofs ---------------------------
(***************************************************************************)
(* Facts about numbers and sequences, cited by the proofs about the        *)
(* components: a least number, induction and definition by recursion, all  *)
(* for sets and functions and not for operators; then FlattenSeq.          *)
(***************************************************************************)
EXTENDS SequencesExt, Integers, SequenceTheorems, FiniteSetTheorems, TLAPS

\* A non-empty set of naturals has a least element: otherwise the successor
\* would map the finite set of its lower bounds into itself without 0.
LEMMA LeastExists ==
  ASSUME NEW H \in SUBSET Nat, H # {}
  PROVE  \E m \in H : \A k \in H : m =< k
<1> DEFINE T == {n \in Nat : \A k \in H : n =< k}
<1>1. PICK h \in H : TRUE
  OBVIOUS
<1>2. IsFiniteSet(T)
  <2>1. T \in SUBSET Nat /\ h \in Nat /\ \A n \in T : n <= h
    BY <1>1
  <2> QED BY <2>1, FS_BoundedSetOfNaturals
<1>3. 0 \in T
  OBVIOUS
<1>4. PICK n \in T : n + 1 \notin T
  <2>1. SUFFICES ASSUME \A n \in T : n + 1 \in T
                 PROVE  FALSE
    OBVIOUS
  <2> DEFINE f == [n \in T |-> n + 1]
  <2>2. f \in [T -> T \ {0}]
    BY <2>1
  <2>3. /\ IsFiniteSet(T \ {0})
        /\ Cardinality(T \ {0}) < Cardinality(T)
    <3> HIDE DEF T
    <3>1. /\ IsFiniteSet(T \ {0})
          /\ Cardinality(T \ {0}) = Cardinality(T) - 1
      BY <1>2, <1>3, FS_RemoveElement
    <3>2. Cardinality(T) \in Nat
      BY <1>2, FS_CardinalityType
    <3> QED BY <3>1, <3>2
  <2>4. \E i, j \in T : i # j /\ f[i] = f[j]
    BY <1>2, <2>2, <2>3, FS_PigeonHole
  <2> QED BY <2>4
<1>5. PICK k \in H : ~ (n + 1 =< k)
  BY <1>4
<1>6. k = n /\ \A j \in H : n =< j
  BY <1>5
<1> QED BY <1>6

\* A set of numbers with 0 and the successor of each of its members has them all.
LEMMA Induction ==
  ASSUME NEW N \in SUBSET Nat, 0 \in N, \A n \in N : n + 1 \in N
  PROVE  N = Nat
<1>1. SUFFICES ASSUME Nat \ N # {}
               PROVE  FALSE
  OBVIOUS
<1>2. PICK m \in Nat \ N : \A k \in Nat \ N : m <= k
  <2>1. Nat \ N \in SUBSET Nat
    OBVIOUS
  <2> QED BY <1>1, <2>1, LeastExists
<1>3. m # 0 /\ m \in Nat
  BY <1>2
<1>4. m - 1 \in Nat /\ ~ (m <= m - 1)
  BY <1>3
<1>5. m - 1 \in N
  BY <1>2, <1>4
<1>6. (m - 1) + 1 = m
  BY <1>3
<1> QED BY <1>2, <1>5, <1>6

\* h has the first n + 1 values of what v and g define by recursion.
Computes(h, n, V, v, g) ==
  /\ h \in [0 .. n -> V]
  /\ h[0] = v
  /\ \A i \in 0 .. n - 1 : h[i + 1] = g[<<i, h[i]>>]

\* A step takes a number and the value for it to the next value.
IsStep(g, V) == g \in [Nat \X V -> V]

\* f begins with v and goes on as the step g says.
Follows(f, v, g, V) ==
  /\ f \in [Nat -> V]
  /\ f[0] = v
  /\ \A n \in Nat : f[n + 1] = g[<<n, f[n]>>]

\* A function on the numbers may be defined by recursion.
LEMMA Recursion ==
  ASSUME NEW V, NEW v \in V, NEW g, IsStep(g, V)
  PROVE  \E f : Follows(f, v, g, V)
<1>0. g \in [Nat \X V -> V]
  BY DEF IsStep
<1>1. \A n \in Nat : \E h : Computes(h, n, V, v, g)
  <2> DEFINE N == {n \in Nat : \E h : Computes(h, n, V, v, g)}
  <2>1. 0 \in N
    <3> DEFINE h == [i \in 0 .. 0 |-> v]
    <3>1. Computes(h, 0, V, v, g)
      BY DEF Computes
    <3> QED BY <3>1
  <2>2. ASSUME NEW n \in N
        PROVE  n + 1 \in N
    <3>1. n \in Nat
      OBVIOUS
    <3>2. PICK h : Computes(h, n, V, v, g)
      OBVIOUS
    <3> DEFINE k == [i \in 0 .. n + 1 |-> IF i <= n THEN h[i] ELSE g[<<n, h[n]>>]]
    <3>3. h[n] \in V /\ g[<<n, h[n]>>] \in V
      BY <1>0, <3>1, <3>2 DEF Computes
    <3>4. k \in [0 .. n + 1 -> V] /\ k[0] = v
      BY <3>1, <3>2, <3>3 DEF Computes
    <3>5. ASSUME NEW i \in 0 .. (n + 1) - 1
          PROVE  k[i + 1] = g[<<i, k[i]>>]
      <4>1. i \in 0 .. n /\ k[i] = h[i]
        BY <3>1
      <4>2. CASE i = n
        <5>1. i + 1 \in 0 .. n + 1 /\ ~(i + 1 <= n)
          BY <3>1, <4>2
        <5> QED BY <4>1, <4>2, <5>1
      <4>3. CASE i # n
        <5>1. i \in 0 .. n - 1 /\ i + 1 \in 0 .. n + 1 /\ i + 1 <= n
          BY <3>1, <4>1, <4>3
        <5>2. h[i + 1] = g[<<i, h[i]>>]
          BY <3>2, <5>1 DEF Computes
        <5> QED BY <4>1, <5>1, <5>2
      <4> QED BY <4>2, <4>3
    <3>6. Computes(k, n + 1, V, v, g)
      <4> HIDE DEF k
      <4> QED BY <3>4, <3>5 DEF Computes
    <3> QED BY <3>1, <3>6
  <2>3. N \in SUBSET Nat
    OBVIOUS
  <2>4. N = Nat
    <3> HIDE DEF N
    <3> QED BY <2>1, <2>2, <2>3, Induction
  <2> QED BY <2>4
<1>2. ASSUME NEW n \in Nat, NEW h, NEW k,
             Computes(h, n, V, v, g), Computes(k, n + 1, V, v, g)
      PROVE  h[n] = k[n]
  <2> DEFINE N == {i \in Nat : i <= n => h[i] = k[i]}
  <2>1. 0 \in N
    BY <1>2 DEF Computes
  <2>2. ASSUME NEW i \in N
        PROVE  i + 1 \in N
    <3>1. CASE i + 1 <= n
      <4>1. i \in 0 .. n - 1 /\ i \in 0 .. (n + 1) - 1 /\ h[i] = k[i]
        BY <3>1
      <4>2. h[i + 1] = g[<<i, h[i]>>] /\ k[i + 1] = g[<<i, k[i]>>]
        BY <1>2, <4>1 DEF Computes
      <4> QED BY <4>1, <4>2
    <3> QED BY <3>1
  <2>3. N \in SUBSET Nat
    OBVIOUS
  <2>4. N = Nat
    <3> HIDE DEF N
    <3> QED BY <2>1, <2>2, <2>3, Induction
  <2>5. n \in N
    BY <2>4
  <2> QED BY <2>5
<1> DEFINE H(n) == CHOOSE h : Computes(h, n, V, v, g)
           f == [n \in Nat |-> H(n)[n]]
<1>3. \A n \in Nat : Computes(H(n), n, V, v, g)
  <2> TAKE n \in Nat
  <2>1. \E h : Computes(h, n, V, v, g)
    BY <1>1
  <2> HIDE DEF Computes
  <2> QED BY <2>1
<1> HIDE DEF H
<1>4. f \in [Nat -> V] /\ f[0] = v
  <2>1. ASSUME NEW n \in Nat
        PROVE  H(n)[n] \in V
    <3>1. H(n) \in [0 .. n -> V] /\ n \in 0 .. n
      BY <1>3 DEF Computes
    <3> QED BY <3>1
  <2>2. H(0)[0] = v
    BY <1>3 DEF Computes
  <2> QED BY <2>1, <2>2
<1>5. ASSUME NEW n \in Nat
      PROVE  f[n + 1] = g[<<n, f[n]>>]
  <2>1. Computes(H(n), n, V, v, g) /\ Computes(H(n + 1), n + 1, V, v, g)
    BY <1>3
  <2>2. H(n)[n] = H(n + 1)[n]
    BY <1>2, <2>1
  <2>3. n \in 0 .. (n + 1) - 1
    OBVIOUS
  <2>4. H(n + 1)[n + 1] = g[<<n, H(n + 1)[n]>>]
    BY <2>1, <2>3 DEF Computes
  <2> QED BY <2>2, <2>4
<1>6. Follows(f, v, g, V)
  <2> HIDE DEF f
  <2> QED BY <1>4, <1>5 DEF Follows
<1> QED BY <1>6
-----------------------------------------------------------------------------
\* f has the first sequences of seqs put together: none of them, one, and so on.
Flattens(f, seqs, S) ==
  /\ f \in [0 .. Len(seqs) -> Seq(S)]
  /\ f[0] = <<>>
  /\ \A i \in 1 .. Len(seqs) : f[i] = f[i - 1] \o seqs[i]

\* There is such a function.
LEMMA FlattensExists ==
  ASSUME NEW S, NEW seqs \in Seq(Seq(S))
  PROVE  \E f : Flattens(f, seqs, S)
<1> DEFINE g == [p \in Nat \X Seq(S) |->
                   IF p[1] + 1 \in 1 .. Len(seqs) THEN p[2] \o seqs[p[1] + 1] ELSE p[2]]
<1>1. g \in [Nat \X Seq(S) -> Seq(S)]
  <2> SUFFICES ASSUME NEW p \in Nat \X Seq(S)
               PROVE  (IF p[1] + 1 \in 1 .. Len(seqs)
                       THEN p[2] \o seqs[p[1] + 1] ELSE p[2]) \in Seq(S)
    OBVIOUS
  <2>1. CASE p[1] + 1 \in 1 .. Len(seqs)
    <3>1. seqs[p[1] + 1] \in Seq(S) /\ p[2] \in Seq(S)
      BY <2>1, ElementOfSeq
    <3> QED BY <2>1, <3>1, ConcatProperties
  <2> QED BY <2>1
<1>2. <<>> \in Seq(S)
  OBVIOUS
<1>3. PICK f \in [Nat -> Seq(S)] :
        f[0] = <<>> /\ \A n \in Nat : f[n + 1] = g[<<n, f[n]>>]
  <2> HIDE DEF g
  <2>1. IsStep(g, Seq(S))
    BY <1>1 DEF IsStep
  <2>2. \E f : Follows(f, <<>>, g, Seq(S))
    BY <1>2, <2>1, Recursion
  <2> QED BY <2>2 DEF Follows
<1> DEFINE h == [i \in 0 .. Len(seqs) |-> f[i]]
<1>4. Len(seqs) \in Nat
  BY LenProperties
<1>5. h \in [0 .. Len(seqs) -> Seq(S)] /\ h[0] = <<>>
  BY <1>3, <1>4
<1>6. ASSUME NEW i \in 1 .. Len(seqs)
      PROVE  h[i] = h[i - 1] \o seqs[i]
  <2>1. i - 1 \in Nat /\ (i - 1) + 1 = i /\ i \in 0 .. Len(seqs) /\ i - 1 \in 0 .. Len(seqs)
    BY <1>4
  <2>2. f[i] = g[<<i - 1, f[i - 1]>>] /\ f[i - 1] \in Seq(S)
    <3>1. f[(i - 1) + 1] = g[<<i - 1, f[i - 1]>>]
      BY <1>3, <2>1
    <3> QED BY <1>3, <2>1, <3>1
  <2>3. g[<<i - 1, f[i - 1]>>] = f[i - 1] \o seqs[i]
    BY <2>1, <2>2
  <2> QED BY <2>1, <2>2, <2>3
<1>7. Flattens(h, seqs, S)
  <2> HIDE DEF h
  <2> QED BY <1>5, <1>6 DEF Flattens
<1> QED BY <1>7

\* The sequences s and t have the same first n elements.
Agree(s, t, n) == n <= Len(s) /\ n <= Len(t) /\ \A i \in 1 .. n : s[i] = t[i]

\* Two such functions agree as far as the sequences do.
LEMMA FlattensAgree ==
  ASSUME NEW S, NEW s \in Seq(Seq(S)), NEW t \in Seq(Seq(S)), NEW n \in Nat,
         Agree(s, t, n),
         NEW f, NEW h, Flattens(f, s, S), Flattens(h, t, S)
  PROVE  f[n] = h[n]
<1> DEFINE N == {i \in Nat : i <= n => f[i] = h[i]}
<1>1. 0 \in N
  BY DEF Flattens
<1>2. ASSUME NEW i \in N
      PROVE  i + 1 \in N
  <2>1. CASE i + 1 <= n
    <3>1. Len(s) \in Nat /\ Len(t) \in Nat
      BY LenProperties
    <3>2. /\ i + 1 \in 1 .. n /\ i + 1 \in 1 .. Len(s) /\ i + 1 \in 1 .. Len(t)
          /\ f[i] = h[i] /\ (i + 1) - 1 = i
      BY <2>1, <3>1 DEF Agree
    <3>3. f[i + 1] = f[i] \o s[i + 1] /\ h[i + 1] = h[i] \o t[i + 1]
      <4>1. f[i + 1] = f[(i + 1) - 1] \o s[i + 1]
        BY <3>2 DEF Flattens
      <4>2. h[i + 1] = h[(i + 1) - 1] \o t[i + 1]
        BY <3>2 DEF Flattens
      <4> QED BY <3>2, <4>1, <4>2
    <3>4. s[i + 1] = t[i + 1]
      BY <3>2 DEF Agree
    <3>5. f[i + 1] = h[i + 1]
      BY <3>2, <3>3, <3>4, Zenon
    <3>6. i + 1 \in Nat
      BY <3>2
    <3> QED BY <3>5, <3>6, Zenon
  <2> QED BY <2>1
<1>3. N \in SUBSET Nat
  OBVIOUS
<1>4. N = Nat
  <2> HIDE DEF N
  <2> QED BY <1>1, <1>2, <1>3, Induction
<1>5. n \in N
  BY <1>4
<1> QED BY <1>5

\* FlattenSeq puts all of them together.
LEMMA FlattenResult ==
  ASSUME NEW S, NEW seqs \in Seq(Seq(S)), NEW f, Flattens(f, seqs, S)
  PROVE  FlattenSeq(seqs) = f[Len(seqs)]
<1>0. Len(seqs) \in Nat
  BY LenProperties
<1>1. CASE Len(seqs) = 0
  <2>1. seqs = <<>> /\ FlattenSeq(seqs) = seqs
    BY <1>1, EmptySeq, Zenon DEF FlattenSeq
  <2> QED BY <1>1, <2>1 DEF Flattens
<1>2. CASE Len(seqs) # 0
  <2> DEFINE Body(F) == [i \in 1 .. Len(seqs) |->
                           IF i = 1 THEN seqs[i] ELSE F[i - 1] \o seqs[i]]
             Fix == CHOOSE F : F = Body(F)
             h == [i \in 1 .. Len(seqs) |-> f[i]]
  <2>1. FlattenSeq(seqs) = Fix[Len(seqs)]
    BY <1>2 DEF FlattenSeq
  <2>2. h = Body(h)
    <3>1. ASSUME NEW i \in 1 .. Len(seqs)
          PROVE  f[i] = IF i = 1 THEN seqs[i] ELSE h[i - 1] \o seqs[i]
      <4>1. f[i] = f[i - 1] \o seqs[i] /\ f[0] = <<>> /\ seqs[i] \in Seq(S)
        BY ElementOfSeq DEF Flattens
      <4>2. CASE i = 1
        <5>1. <<>> \o seqs[i] = seqs[i]
          BY <4>1, ConcatEmptySeq
        <5>2. i - 1 = 0
          BY <4>2
        <5>3. f[i] = <<>> \o seqs[i]
          BY <4>1, <5>2, Zenon
        <5> QED BY <4>2, <5>1, <5>3, Zenon
      <4>3. CASE i # 1
        <5>1. i - 1 \in 1 .. Len(seqs)
          BY <1>0, <4>3
        <5> QED BY <4>1, <4>3, <5>1
      <4> QED BY <4>2, <4>3
    <3> QED BY <3>1
  <2>3. Fix = Body(Fix)
    <3>1. \E F : F = Body(F)
      BY <2>2
    <3> HIDE DEF Body
    <3> QED BY <3>1
  <2> HIDE DEF Fix, h
  <2> DEFINE N == {n \in Nat : n + 1 <= Len(seqs) => Fix[n + 1] = f[n + 1]}
  <2>4. \A i \in 1 .. Len(seqs) : Fix[i] = IF i = 1 THEN seqs[i] ELSE Fix[i - 1] \o seqs[i]
    BY <2>3
  <2>5. \A i \in 1 .. Len(seqs) : f[i] = IF i = 1 THEN seqs[i] ELSE f[i - 1] \o seqs[i]
    <3>1. \A i \in 1 .. Len(seqs) : h[i] = IF i = 1 THEN seqs[i] ELSE h[i - 1] \o seqs[i]
      BY <2>2
    <3> TAKE i \in 1 .. Len(seqs)
    <3>2. h[i] = f[i]
      BY DEF h
    <3>3. i # 1 => h[i - 1] = f[i - 1]
      <4>1. i # 1 => i - 1 \in 1 .. Len(seqs)
        BY <1>0
      <4> QED BY <4>1 DEF h
    <3> QED BY <3>1, <3>2, <3>3
  <2> HIDE DEF Body
  <2>6. 0 \in N
    <3>1. 1 \in 1 .. Len(seqs)
      BY <1>0, <1>2
    <3> QED BY <2>4, <2>5, <3>1
  <2>7. ASSUME NEW n \in N
        PROVE  n + 1 \in N
    <3>1. CASE (n + 1) + 1 <= Len(seqs)
      <4>1. /\ n \in Nat /\ (n + 1) + 1 \in 1 .. Len(seqs) /\ (n + 1) + 1 # 1
            /\ ((n + 1) + 1) - 1 = n + 1 /\ n + 1 <= Len(seqs)
        BY <1>0, <3>1
      <4>2. Fix[n + 1] = f[n + 1]
        BY <4>1
      <4>3. Fix[(n + 1) + 1] = Fix[((n + 1) + 1) - 1] \o seqs[(n + 1) + 1]
        BY <2>4, <4>1
      <4>4. f[(n + 1) + 1] = f[((n + 1) + 1) - 1] \o seqs[(n + 1) + 1]
        BY <2>5, <4>1
      <4>5. Fix[(n + 1) + 1] = f[(n + 1) + 1]
        BY <4>1, <4>2, <4>3, <4>4, Zenon
      <4>6. n + 1 \in Nat
        BY <4>1
      <4> QED BY <4>5, <4>6, Zenon
    <3> QED BY <3>1
  <2>8. N \in SUBSET Nat
    OBVIOUS
  <2>9. N = Nat
    <3> HIDE DEF N
    <3> QED BY <2>6, <2>7, <2>8, Induction
  <2>10. Len(seqs) - 1 \in Nat /\ (Len(seqs) - 1) + 1 = Len(seqs)
    BY <1>0, <1>2
  <2>11. Fix[(Len(seqs) - 1) + 1] = f[(Len(seqs) - 1) + 1]
    <3>1. (Len(seqs) - 1) \in N
      BY <2>9, <2>10, Zenon
    <3>2. (Len(seqs) - 1) + 1 <= Len(seqs)
      BY <1>0
    <3> QED BY <3>1, <3>2, Zenon
  <2> QED BY <2>1, <2>10, <2>11
<1> QED BY <1>1, <1>2

\* The type of FlattenSeq, and what it is for no sequence and for one more.
LEMMA FlattenType ==
  ASSUME NEW S, NEW seqs \in Seq(Seq(S))
  PROVE  FlattenSeq(seqs) \in Seq(S)
<1>1. PICK f : Flattens(f, seqs, S)
  BY FlattensExists
<1>2. Len(seqs) \in 0 .. Len(seqs)
  BY LenProperties
<1> QED BY <1>1, <1>2, FlattenResult DEF Flattens

LEMMA FlattenEmpty == FlattenSeq(<<>>) = <<>>
BY DEF FlattenSeq

LEMMA FlattenAppend ==
  ASSUME NEW S, NEW seqs \in Seq(Seq(S)), NEW s \in Seq(S)
  PROVE  FlattenSeq(Append(seqs, s)) = FlattenSeq(seqs) \o s
<1> DEFINE more == Append(seqs, s)
<1>1. PICK f : Flattens(f, seqs, S)
  BY FlattensExists
<1>2. /\ more \in Seq(Seq(S)) /\ Len(more) = Len(seqs) + 1 /\ Len(seqs) \in Nat
      /\ \A i \in 1 .. Len(seqs) : seqs[i] = more[i]
      /\ more[Len(seqs) + 1] = s
  BY AppendProperties, LenProperties
<1> HIDE DEF more
<1>3. PICK h : Flattens(h, more, S)
  BY <1>2, FlattensExists
<1>4. f[Len(seqs)] = h[Len(seqs)]
  <2>1. Agree(seqs, more, Len(seqs))
    <3>1. Len(seqs) <= Len(seqs) /\ Len(seqs) <= Len(more)
      BY <1>2
    <3> QED BY <1>2, <3>1, Zenon DEF Agree
  <2> QED BY <1>1, <1>2, <1>3, <2>1, FlattensAgree
<1>5. h[Len(seqs) + 1] = h[Len(seqs)] \o s
  <2>1. Len(seqs) + 1 \in 1 .. Len(more) /\ (Len(seqs) + 1) - 1 = Len(seqs)
    BY <1>2
  <2>2. h[Len(seqs) + 1] = h[(Len(seqs) + 1) - 1] \o more[Len(seqs) + 1]
    BY <1>3, <2>1 DEF Flattens
  <2> QED BY <1>2, <2>1, <2>2
<1>6. FlattenSeq(seqs) = f[Len(seqs)] /\ FlattenSeq(more) = h[Len(more)]
  BY <1>1, <1>2, <1>3, FlattenResult
<1> QED BY <1>2, <1>4, <1>5, <1>6 DEF more
-----------------------------------------------------------------------------
\* A function on 1 .. n is a sequence.
LEMMA FunctionIsSeq ==
  ASSUME NEW S, NEW n \in Nat, NEW e, e = [i \in 1 .. n |-> e[i]], \A i \in 1 .. n : e[i] \in S
  PROVE  e \in Seq(S) /\ Len(e) = n
<1>1. [i \in 1 .. n |-> e[i]] \in Seq(S)
  BY IsASeq
<1>2. DOMAIN e = 1 .. n /\ e \in Seq(S)
  BY <1>1
<1>3. Len(e) \in Nat /\ DOMAIN e = 1 .. Len(e)
  BY <1>2, LenProperties
<1> QED BY <1>2, <1>3

\* t is s and then something.
Begins(s, t, S) == \E u \in Seq(S) : t = s \o u

\* What a sequence begins with is a prefix of it.
LEMMA BeginsIsPrefix ==
  ASSUME NEW S, NEW s \in Seq(S), NEW t, Begins(s, t, S)
  PROVE  t \in Seq(S) /\ IsPrefix(s, t)
<1>1. PICK u \in Seq(S) : t = s \o u
  BY DEF Begins
<1>2. /\ t \in Seq(S) /\ Len(t) = Len(s) + Len(u)
      /\ \A i \in 1 .. Len(s) + Len(u) : t[i] = IF i <= Len(s) THEN s[i] ELSE u[i - Len(s)]
  BY <1>1, ConcatProperties
<1>3. Len(s) \in Nat /\ Len(u) \in Nat
  BY LenProperties
<1>4. SubSeq(t, 1, Len(s)) = s
  <2>1. \A i \in 1 .. Len(s) : t[i] \in S /\ t[i] = s[i]
    BY <1>2, <1>3, ElementOfSeq
  <2>2. /\ SubSeq(t, 1, Len(s)) \in Seq(S) /\ Len(SubSeq(t, 1, Len(s))) = Len(s)
        /\ \A i \in 1 .. Len(s) : SubSeq(t, 1, Len(s))[i] = t[i]
    BY <1>3, <2>1, SubSeqProperties
  <2> QED BY <2>1, <2>2, SeqEqual
<1>5. SubSeq(s, 1, Len(s)) = s
  BY SubSeqFull
<1> QED BY <1>2, <1>3, <1>4, <1>5 DEF IsPrefix

\* Every sequence begins with itself.
LEMMA BeginsItself == ASSUME NEW S, NEW s \in Seq(S) PROVE Begins(s, s, S)
<1>1. <<>> \in Seq(S) /\ s = s \o <<>>
  BY ConcatEmptySeq, EmptySeq
<1> QED BY <1>1 DEF Begins

\* A sequence begins with all that its beginning begins with.
LEMMA BeginsFurther ==
  ASSUME NEW S, NEW s \in Seq(S), NEW t, NEW v \in Seq(S), Begins(s \o v, t, S)
  PROVE  Begins(s, t, S)
<1>1. PICK u \in Seq(S) : t = (s \o v) \o u
  BY DEF Begins
<1>2. t = s \o (v \o u) /\ v \o u \in Seq(S)
  BY <1>1, ConcatAssociative, ConcatProperties
<1> QED BY <1>2 DEF Begins

\* What is put in front does not matter.
LEMMA BeginsBehind ==
  ASSUME NEW S, NEW s \in Seq(S), NEW t, NEW b \in Seq(S), Begins(s, t, S)
  PROVE  Begins(b \o s, b \o t, S)
<1>1. PICK u \in Seq(S) : t = s \o u
  BY DEF Begins
<1>2. b \o t = (b \o s) \o u
  BY <1>1, ConcatAssociative
<1> QED BY <1>2 DEF Begins

\* All of the sequences together begin with the first of them.
LEMMA FlattensBegins ==
  ASSUME NEW S, NEW seqs \in Seq(Seq(S)), NEW f, Flattens(f, seqs, S),
         NEW k \in 0 .. Len(seqs)
  PROVE  Begins(f[k], f[Len(seqs)], S)
<1> DEFINE n == Len(seqs)
           N == {d \in Nat : d <= n => Begins(f[n - d], f[n], S)}
<1>1. n \in Nat
  BY LenProperties
<1> HIDE DEF n
<1>2. f \in [0 .. n -> Seq(S)] /\ \A i \in 1 .. n : f[i] = f[i - 1] \o seqs[i]
  BY DEF Flattens, n
<1>3. 0 \in N
  <2>1. n - 0 = n /\ f[n] \in Seq(S)
    BY <1>1, <1>2
  <2> QED BY <2>1, BeginsItself
<1>4. ASSUME NEW d \in N
      PROVE  d + 1 \in N
  <2>1. d \in Nat /\ (d <= n => Begins(f[n - d], f[n], S))
    OBVIOUS
  <2>2. SUFFICES ASSUME d + 1 <= n
                 PROVE  Begins(f[n - (d + 1)], f[n], S)
    BY <2>1
  <2>3. n - d \in 1 .. n /\ (n - d) - 1 = n - (d + 1) /\ n - (d + 1) \in 0 .. n
    BY <1>1, <2>1, <2>2
  <2>4. f[n - d] = f[n - (d + 1)] \o seqs[n - d]
    BY <1>2, <2>3
  <2>5. f[n - (d + 1)] \in Seq(S) /\ seqs[n - d] \in Seq(S)
    BY <1>2, <2>3, ElementOfSeq DEF n
  <2>6. Begins(f[n - (d + 1)] \o seqs[n - d], f[n], S)
    BY <1>1, <2>1, <2>2, <2>4
  <2> QED BY <2>5, <2>6, BeginsFurther
<1>5. N = Nat
  <2>1. N \in SUBSET Nat
    OBVIOUS
  <2> HIDE DEF N
  <2> QED BY <1>3, <1>4, <2>1, Induction
<1>6. n - k \in N /\ n - k <= n /\ n - (n - k) = k
  <2>1. n - k \in Nat /\ n - k <= n /\ n - (n - k) = k
    BY <1>1 DEF n
  <2> QED BY <1>5, <2>1
<1>7. Begins(f[n - (n - k)], f[n], S)
  BY <1>6
<1> QED BY <1>6, <1>7 DEF n

\* The beginning of a beginning.
LEMMA BeginsOnward ==
  ASSUME NEW S, NEW a \in Seq(S), NEW b, NEW c, Begins(a, b, S), Begins(b, c, S)
  PROVE  Begins(a, c, S)
<1>1. PICK v \in Seq(S) : b = a \o v
  BY DEF Begins
<1> QED BY <1>1, BeginsFurther

\* The first n of the sequences f[1], f[2] and so on, put together.
UpTo(f, n) == FlattenSeq([i \in 1 .. n |-> f[i]])

\* Sequence by sequence.
LEMMA FlattenUpTo ==
  ASSUME NEW S, NEW f, NEW m \in Nat, \A i \in 1 .. m : f[i] \in Seq(S), NEW n \in Nat, n <= m
  PROVE  /\ UpTo(f, n) \in Seq(S)
         /\ n = 0 => UpTo(f, n) = <<>>
         /\ \A k \in Nat : n = k + 1 => /\ UpTo(f, k) \in Seq(S) /\ f[n] \in Seq(S)
                                       /\ UpTo(f, n) = UpTo(f, k) \o f[n]
<1> DEFINE h(k) == [i \in 1 .. k |-> f[i]]
<1>1. ASSUME NEW k \in Nat, k <= m PROVE h(k) \in Seq(Seq(S)) /\ Len(h(k)) = k
  <2> DEFINE e == h(k)
  <2>1. e = [i \in 1 .. k |-> e[i]] /\ \A i \in 1 .. k : e[i] \in Seq(S)
    BY <1>1
  <2> HIDE DEF e
  <2>2. e \in Seq(Seq(S)) /\ Len(e) = k
    BY <2>1, FunctionIsSeq
  <2> QED BY <2>2 DEF e
<1>2. ASSUME NEW k \in Nat, k <= m PROVE UpTo(f, k) \in Seq(S)
  BY <1>1, <1>2, FlattenType DEF UpTo
<1>3. UpTo(f, 0) = <<>>
  <2>1. h(0) = <<>>
    OBVIOUS
  <2> QED BY <2>1, FlattenEmpty DEF UpTo
<1>4. ASSUME NEW k \in Nat, n = k + 1
      PROVE  UpTo(f, n) = UpTo(f, k) \o f[n]
  <2> DEFINE a == h(k)
             b == h(n)
             c == f[n]
  <2>1. a \in Seq(Seq(S)) /\ Len(a) = k /\ b \in Seq(Seq(S)) /\ Len(b) = n
    BY <1>1, <1>4
  <2>2. c \in Seq(S) /\ b[n] = c /\ \A i \in 1 .. k : b[i] = a[i]
    BY <1>4
  <2>3. UpTo(f, k) = FlattenSeq(a) /\ UpTo(f, n) = FlattenSeq(b)
    BY DEF UpTo
  <2> HIDE DEF a, b, c
  <2>4. /\ Append(a, c) \in Seq(Seq(S)) /\ Len(Append(a, c)) = k + 1
        /\ \A i \in 1 .. k : Append(a, c)[i] = a[i]
        /\ Append(a, c)[k + 1] = c
    <3> HIDE DEF h
    <3>1. PICK U : U = Seq(S)
      OBVIOUS
    <3>2. a \in Seq(U) /\ c \in U
      BY <2>1, <2>2, <3>1
    <3> QED BY <2>1, <3>1, <3>2, AppendProperties
  <2>5. \A i \in 1 .. n : b[i] = Append(a, c)[i]
    <3> TAKE i \in 1 .. n
    <3>1. i \in 1 .. k \/ i = n
      BY <1>4
    <3> QED BY <1>4, <2>2, <2>4, <3>1
  <2>6. b = Append(a, c)
    BY <1>4, <2>1, <2>4, <2>5, SeqEqual
  <2>7. FlattenSeq(Append(a, c)) = FlattenSeq(a) \o c
    BY <2>1, <2>2, FlattenAppend
  <2> QED BY <2>3, <2>6, <2>7 DEF c
<1>5. ASSUME NEW k \in Nat, n = k + 1
      PROVE  /\ UpTo(f, k) \in Seq(S) /\ f[n] \in Seq(S)
             /\ UpTo(f, n) = UpTo(f, k) \o f[n]
  <2>1. k <= m /\ n \in 1 .. m
    BY <1>5
  <2> QED BY <1>2, <1>4, <1>5, <2>1
<1> QED BY <1>2, <1>3, <1>5

\* One sequence.
LEMMA FlattenOne == ASSUME NEW S, NEW s \in Seq(S) PROVE FlattenSeq(<<s>>) = s
<1>1. Append(<<>>, s) = <<s>> /\ <<>> \in Seq(Seq(S))
  OBVIOUS
<1>2. FlattenSeq(Append(<<>>, s)) = FlattenSeq(<<>>) \o s
  BY <1>1, FlattenAppend
<1>3. <<>> \o s = s
  BY ConcatEmptySeq
<1> QED BY <1>1, <1>2, <1>3, FlattenEmpty

\* The first so many sequences of a sequence.
LEMMA UpToAll ==
  ASSUME NEW S, NEW seqs \in Seq(Seq(S))
  PROVE  UpTo(seqs, Len(seqs)) = FlattenSeq(seqs)
<1>1. seqs = [i \in 1 .. Len(seqs) |-> seqs[i]]
  BY LenProperties
<1> QED BY <1>1 DEF UpTo

\* The first m are sequences over S.
SeqsOver(f, m, S) == \A i \in 1 .. m : f[i] \in Seq(S)

\* One sequence more.
LEMMA UpToNext ==
  ASSUME NEW S, NEW f, NEW m \in Nat, SeqsOver(f, m, S), NEW k \in Nat, NEW j \in Nat,
         j = k + 1, j <= m
  PROVE  /\ UpTo(f, k) \in Seq(S) /\ f[j] \in Seq(S)
         /\ UpTo(f, j) = UpTo(f, k) \o f[j]
<1>1. \A l \in Nat : j = l + 1 => /\ UpTo(f, l) \in Seq(S) /\ f[j] \in Seq(S)
                                 /\ UpTo(f, j) = UpTo(f, l) \o f[j]
  BY FlattenUpTo DEF SeqsOver
<1> QED BY <1>1

\* Two sequences of sequences, one behind the other.
LEMMA FlattenConcat ==
  ASSUME NEW S, NEW a \in Seq(Seq(S)), NEW b \in Seq(Seq(S))
  PROVE  FlattenSeq(a \o b) = FlattenSeq(a) \o FlattenSeq(b)
<1>1. PICK m \in Nat, n \in Nat, t \in Nat : m = Len(a) /\ n = Len(b) /\ t = m + n
  <2>1. Len(a) \in Nat /\ Len(b) \in Nat /\ Len(a) + Len(b) \in Nat
    BY LenProperties
  <2> QED BY <2>1
<1>2. PICK c : c = a \o b
  OBVIOUS
<1>3. /\ c \in Seq(Seq(S)) /\ Len(c) = t
      /\ \A i \in 1 .. t : c[i] = IF i <= m THEN a[i] ELSE b[i - m]
  <2>1. PICK U : U = Seq(S)
    OBVIOUS
  <2>2. a \in Seq(U) /\ b \in Seq(U)
    BY <2>1
  <2> QED BY <1>1, <1>2, <2>1, <2>2, ConcatProperties
<1>4. /\ \A i \in 1 .. t : c[i] \in Seq(S)
      /\ \A i \in 1 .. m : a[i] \in Seq(S)
      /\ \A i \in 1 .. n : b[i] \in Seq(S)
  BY <1>1, <1>3, ElementOfSeq
<1>5. UpTo(c, m) = UpTo(a, m)
  <2>1. \A i \in 1 .. m : c[i] = a[i]
    BY <1>1, <1>3
  <2>2. [i \in 1 .. m |-> c[i]] = [i \in 1 .. m |-> a[i]]
    BY <2>1
  <2> QED BY <2>2 DEF UpTo
<1>6. UpTo(a, m) \in Seq(S)
  <2>1. m <= m
    OBVIOUS
  <2> QED BY <1>4, <2>1, FlattenUpTo
<1> DEFINE N == {k \in Nat : k <= n => UpTo(c, m + k) = UpTo(a, m) \o UpTo(b, k)}
<1>7. 0 \in N
  <2>1. UpTo(b, 0) = <<>>
    <3>1. [i \in 1 .. 0 |-> b[i]] = <<>>
      OBVIOUS
    <3> QED BY <3>1, FlattenEmpty DEF UpTo
  <2>2. UpTo(a, m) \o <<>> = UpTo(a, m) /\ m + 0 = m
    BY <1>6, ConcatEmptySeq
  <2> QED BY <1>5, <2>1, <2>2
<1>8. ASSUME NEW k \in N PROVE k + 1 \in N
  <2> SUFFICES ASSUME k + 1 <= n
               PROVE  UpTo(c, m + (k + 1)) = UpTo(a, m) \o UpTo(b, k + 1)
    OBVIOUS
  <2>1. k \in Nat /\ k <= n /\ UpTo(c, m + k) = UpTo(a, m) \o UpTo(b, k)
    OBVIOUS
  <2> HIDE DEF N
  <2>2. PICK j \in Nat : j = k + 1
    BY <2>1
  <2>3. j <= n /\ j \in 1 .. n
    BY <2>2, <2>1
  <2>4. UpTo(b, k) \in Seq(S) /\ b[j] \in Seq(S) /\ UpTo(b, j) = UpTo(b, k) \o b[j]
    <3>1. SeqsOver(b, n, S)
      BY <1>4 DEF SeqsOver
    <3>2. k \in Nat /\ j \in Nat /\ j = k + 1 /\ j <= n
      BY <2>1, <2>2, <2>3
    <3> QED BY <3>1, <3>2, UpToNext
  <2>5. PICK i \in Nat, l \in Nat : i = m + j /\ l = m + k /\ i = l + 1 /\ i <= t
    BY <1>1, <2>1, <2>2, <2>3, SMTT(30)
  <2>6. UpTo(c, i) = UpTo(c, l) \o c[i]
    <3>1. SeqsOver(c, t, S)
      BY <1>4 DEF SeqsOver
    <3>2. l \in Nat /\ i \in Nat /\ i = l + 1 /\ i <= t
      BY <2>5
    <3> QED BY <3>1, <3>2, UpToNext
  <2>7. c[i] = b[j]
    <3>1. i \in 1 .. t /\ ~(i <= m) /\ i - m = j
      BY <2>3, <2>5
    <3> QED BY <1>3, <3>1
  <2>8. (UpTo(a, m) \o UpTo(b, k)) \o b[j] = UpTo(a, m) \o (UpTo(b, k) \o b[j])
    <3>1. PICK x \in Seq(S), y \in Seq(S), z \in Seq(S) : x = UpTo(a, m) /\ y = UpTo(b, k) /\ z = b[j]
      BY <1>6, <2>4
    <3>2. (x \o y) \o z = x \o (y \o z)
      BY ConcatAssociative, SMTT(30)
    <3> QED BY <3>1, <3>2
  <2> QED BY <2>1, <2>2, <2>4, <2>5, <2>6, <2>7, <2>8
<1>9. N = Nat
  <2> HIDE DEF N
  <2>1. N \in SUBSET Nat
    BY DEF N
  <2> QED BY <1>7, <1>8, <2>1, Induction
<1>10. UpTo(c, m + n) = UpTo(a, m) \o UpTo(b, n)
  <2>1. n \in N
    BY <1>9
  <2>2. n <= n
    OBVIOUS
  <2> QED BY <2>1, <2>2
<1>11. UpTo(c, m + n) = FlattenSeq(c) /\ UpTo(a, m) = FlattenSeq(a) /\ UpTo(b, n) = FlattenSeq(b)
  BY <1>1, <1>3, UpToAll
<1> QED BY <1>2, <1>10, <1>11
=============================================================================
