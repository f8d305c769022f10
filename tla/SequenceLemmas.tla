--------------------------- MODULE SequenceLemmas ---------------------------
(***************************************************************************)
(* What FlattenSeq of the community modules computes, for sequences of any  *)
(* length, and least and greatest elements.  FlattenSeq is a recursive      *)
(* function inside a definition; that it exists and what it returns follows *)
(* by looking at the least length for which it would not.                   *)
(***************************************************************************)
EXTENDS Integers, Sequences, SequencesExt, WellFoundedInduction, TLAPS

\* A nonempty set of natural numbers has a least element.
LEMMA LeastNumber ==
    ASSUME NEW S \in SUBSET Nat, S # {}
    PROVE  \E i \in S : \A j \in S : ~(j < i)
<1>1. \E i \in S : \A j \in S : ~(<<j, i>> \in OpToRel(<, Nat))
  BY WFMin, NatLessThanWellFounded, Zenon
<1>2. PICK i \in S : \A j \in S : ~(<<j, i>> \in OpToRel(<, Nat))
  BY <1>1
<1>3. ASSUME NEW j \in S PROVE ~(j < i)
  <2>1. ~(<<j, i>> \in OpToRel(<, Nat))
    BY <1>2
  <2> QED BY <2>1 DEF OpToRel
<1> QED BY <1>3

\* And a greatest one if it is bounded.
LEMMA GreatestNumber ==
    ASSUME NEW b \in Nat, NEW S \in SUBSET (0..b), S # {}
    PROVE  \E i \in S : \A j \in S : j <= i
<1> DEFINE D == {d \in 0..b : b - d \in S}
<1>1. PICK x \in S : TRUE
  OBVIOUS
<1>2. b - x \in D /\ D \in SUBSET Nat
  OBVIOUS
<1>3. PICK d \in D : \A e \in D : ~(e < d)
  <2> HIDE DEF D
  <2> QED BY <1>2, LeastNumber
<1>4. ASSUME NEW j \in S PROVE j <= b - d
  <2>1. b - j \in D
    OBVIOUS
  <2> QED BY <2>1, <1>3
<1> QED BY <1>3, <1>4

-----------------------------------------------------------------------------
(* FlattenSeq *)

\* The recursive function that FlattenSeq applies to the length.
IsFlatten(seqs, n, f) ==
    f = [i \in 1..n |-> IF i = 1 THEN seqs[i] ELSE f[i - 1] \o seqs[i]]

LEMMA FlattenExists ==
    ASSUME NEW seqs, NEW n \in Nat
    PROVE  \E f : IsFlatten(seqs, n, f)
<1> DEFINE N == {m \in Nat : ~ \E f : IsFlatten(seqs, m, f)}
<1>1. CASE N = {}
  BY <1>1
<1>2. CASE N # {}
  <2>1. PICK m \in N : \A k \in N : ~(k < m)
    <3>1. N \in SUBSET Nat
      OBVIOUS
    <3> HIDE DEF N
    <3> QED BY <3>1, <1>2, LeastNumber
  <2>2. m # 0
    <3>1. IsFlatten(seqs, 0, [i \in 1..0 |-> << >>])
      BY DEF IsFlatten
    <3> QED BY <3>1, <2>1
  <2>3. m - 1 \in Nat /\ m - 1 < m
    BY <2>1, <2>2
  <2>4. PICK f : IsFlatten(seqs, m - 1, f)
    BY <2>1, <2>3
  <2> DEFINE g == [i \in 1..m |-> IF i = m
                                  THEN IF m = 1 THEN seqs[1] ELSE f[m - 1] \o seqs[m]
                                  ELSE f[i]]
  <2>5. IsFlatten(seqs, m, g)
    <3>1. DOMAIN f = 1..m - 1
      BY <2>4 DEF IsFlatten
    <3>2. ASSUME NEW i \in 1..m
          PROVE  g[i] = IF i = 1 THEN seqs[i] ELSE g[i - 1] \o seqs[i]
      <4>1. CASE i = m
        BY <2>3, <4>1
      <4>2. CASE i # m
        <5>1. i \in 1..m - 1
          BY <4>2, <2>3
        <5>2. f[i] = IF i = 1 THEN seqs[i] ELSE f[i - 1] \o seqs[i]
          BY <5>1, <2>4 DEF IsFlatten
        <5>3. g[i] = f[i] /\ (i # 1 => g[i - 1] = f[i - 1])
          BY <4>2, <5>1, <2>3
        <5> QED BY <5>2, <5>3
      <4> QED BY <4>1, <4>2
    <3> QED BY <3>2 DEF IsFlatten
  <2> QED BY <2>1, <2>5
<1> QED BY <1>1, <1>2

LEMMA FlattenIs ==
    ASSUME NEW S, NEW seqs \in Seq(S), seqs # << >>
    PROVE  \E f : IsFlatten(seqs, Len(seqs), f) /\ FlattenSeq(seqs) = f[Len(seqs)]
<1>1. Len(seqs) \in Nat /\ Len(seqs) # 0
  OBVIOUS
<1>2. FlattenSeq(seqs) = (CHOOSE f : IsFlatten(seqs, Len(seqs), f))[Len(seqs)]
  BY <1>1, Zenon DEF FlattenSeq, IsFlatten
<1>3. \E f : IsFlatten(seqs, Len(seqs), f)
  BY <1>1, FlattenExists
<1> QED BY <1>2, <1>3

LEMMA Appended ==
    ASSUME NEW T, NEW q \in Seq(T), NEW e \in T
    PROVE  /\ Append(q, e) \in Seq(T) /\ Append(q, e) # << >>
           /\ Len(q) \in Nat /\ Len(Append(q, e)) = Len(q) + 1
           /\ Append(q, e)[Len(q) + 1] = e
           /\ \A i \in 1..Len(q) : q[i] \in T /\ Append(q, e)[i] = q[i]
OBVIOUS

LEMMA ElementIn ==
    ASSUME NEW T, NEW q \in Seq(T), NEW i \in 1..Len(q)
    PROVE  q[i] \in T
OBVIOUS

LEMMA Concatenated ==
    ASSUME NEW T, NEW q \in Seq(T), NEW r \in Seq(T)
    PROVE  /\ q \o r \in Seq(T) /\ Len(q \o r) = Len(q) + Len(r)
           /\ Len(q) \in Nat /\ Len(r) \in Nat
           /\ q \o << >> = q /\ << >> \o q = q
           /\ \A i \in 1..Len(q) : (q \o r)[i] = q[i]
           /\ \A i \in 1..Len(r) : (q \o r)[Len(q) + i] = r[i]
OBVIOUS

LEMMA FlattenEmpty == FlattenSeq(<< >>) = << >>
BY DEF FlattenSeq

LEMMA FlattenType ==
    ASSUME NEW S, NEW seqs \in Seq(Seq(S))
    PROVE  FlattenSeq(seqs) \in Seq(S)
<1>1. CASE seqs = << >>
  <2>1. FlattenSeq(seqs) = << >>
    BY <1>1, FlattenEmpty
  <2> QED BY <2>1
<1>2. CASE seqs # << >>
  <2>1. PICK f : IsFlatten(seqs, Len(seqs), f) /\ FlattenSeq(seqs) = f[Len(seqs)]
    BY <1>2, FlattenIs
  <2> DEFINE N == {i \in 1..Len(seqs) : f[i] \notin Seq(S)}
  <2>2. CASE N = {}
    <3>1. Len(seqs) \in 1..Len(seqs)
      BY <1>2
    <3> QED BY <2>1, <2>2, <3>1
  <2>3. CASE N # {}
    <3>1. PICK i \in N : \A j \in N : ~(j < i)
      <4>1. N \in SUBSET Nat
        OBVIOUS
      <4> HIDE DEF N
      <4> QED BY <4>1, <2>3, LeastNumber
    <3>2. i \in 1..Len(seqs) /\ seqs[i] \in Seq(S)
      <4>1. i \in 1..Len(seqs)
        BY <3>1
      <4> QED BY <4>1, ElementIn
    <3>3. f[i] = IF i = 1 THEN seqs[i] ELSE f[i - 1] \o seqs[i]
      BY <2>1, <3>2 DEF IsFlatten
    <3>4. i # 1 => f[i - 1] \in Seq(S)
      <4>1. i # 1 => i - 1 \in 1..Len(seqs) /\ i - 1 < i
        BY <3>2
      <4> QED BY <4>1, <3>1
    <3>5. f[i] \in Seq(S)
      <4>1. CASE i = 1
        BY <4>1, <3>2, <3>3
      <4>2. CASE i # 1
        BY <4>2, <3>2, <3>3, <3>4, Concatenated
      <4> QED BY <4>1, <4>2
    <3> QED BY <3>1, <3>5
  <2> QED BY <2>2, <2>3
<1> QED BY <1>1, <1>2

LEMMA FlattenAppend ==
    ASSUME NEW S, NEW seqs \in Seq(Seq(S)), NEW s \in Seq(S)
    PROVE  FlattenSeq(Append(seqs, s)) = FlattenSeq(seqs) \o s
<1> DEFINE t == Append(seqs, s)
           n == Len(seqs)
<1>1. /\ t \in Seq(Seq(S)) /\ t # << >> /\ Len(t) = n + 1 /\ n \in Nat
      /\ t[n + 1] = s /\ \A i \in 1..n : t[i] = seqs[i]
  BY Appended
<1> HIDE DEF t
<1>2. PICK g : IsFlatten(t, Len(t), g) /\ FlattenSeq(t) = g[Len(t)]
  BY <1>1, FlattenIs
<1>3. g[n + 1] = IF n + 1 = 1 THEN t[n + 1] ELSE g[n] \o t[n + 1]
  <2>1. n + 1 \in 1..Len(t) /\ (n + 1) - 1 = n
    BY <1>1
  <2> HIDE DEF n
  <2> QED BY <1>2, <2>1 DEF IsFlatten
<1>4. CASE seqs = << >>
  <2>1. n = 0
    BY <1>4
  <2>2. FlattenSeq(t) = s /\ FlattenSeq(seqs) = << >>
    BY <2>1, <1>1, <1>2, <1>3, <1>4, FlattenEmpty
  <2>3. << >> \o s = s
    OBVIOUS
  <2> QED BY <2>2, <2>3 DEF t
<1>5. CASE seqs # << >>
  <2>1. PICK f : IsFlatten(seqs, n, f) /\ FlattenSeq(seqs) = f[n]
    BY <1>5, FlattenIs
  <2>2. n \in 1..n
    BY <1>5
  \* Both functions have the same values as far as the shorter one goes.
  <2>3. \A i \in 1..n : f[i] = g[i]
    <3> DEFINE N == {i \in 1..n : f[i] # g[i]}
    <3> SUFFICES ASSUME N # {} PROVE FALSE
      OBVIOUS
    <3>1. N \in SUBSET Nat
      OBVIOUS
    <3>2. PICK i \in N : \A j \in N : ~(j < i)
      <4> HIDE DEF N
      <4> QED BY <3>1, LeastNumber
    <3>3. i \in 1..n /\ i \in 1..n + 1 /\ seqs[i] = t[i]
      <4>1. i \in 1..n
        OBVIOUS
      <4> HIDE DEF N, n
      <4> QED BY <4>1, <1>1
    <3>4. /\ f[i] = IF i = 1 THEN seqs[i] ELSE f[i - 1] \o seqs[i]
          /\ g[i] = IF i = 1 THEN t[i] ELSE g[i - 1] \o t[i]
      <4> HIDE DEF N, n
      <4> QED BY <1>1, <1>2, <2>1, <3>3 DEF IsFlatten
    <3>5. i # 1 => f[i - 1] = g[i - 1]
      <4>1. i # 1 => i - 1 \in 1..n /\ i - 1 < i
        <5> HIDE DEF N, n
        <5> QED BY <1>1, <3>3
      <4> QED BY <4>1, <3>2
    <3> QED BY <3>2, <3>3, <3>4, <3>5
  <2>4. n + 1 # 1
    BY <2>2
  <2>5. FlattenSeq(t) = f[n] \o s
    BY <1>1, <1>2, <1>3, <2>2, <2>3, <2>4
  <2> QED BY <2>1, <2>5 DEF t
<1> QED BY <1>4, <1>5

\* Sequences one element at a time, from the front.
LEMMA PrefixGrows ==
    ASSUME NEW T, NEW q \in Seq(T), NEW n \in 0..Len(q) - 1
    PROVE  /\ SubSeq(q, 1, n) \in Seq(T) /\ Len(SubSeq(q, 1, n)) = n
           /\ n + 1 \in 1..Len(q) /\ q[n + 1] \in T
           /\ SubSeq(q, 1, n + 1) = Append(SubSeq(q, 1, n), q[n + 1])
OBVIOUS

LEMMA WholePrefix ==
    ASSUME NEW T, NEW q \in Seq(T)
    PROVE  Len(q) \in Nat /\ SubSeq(q, 1, Len(q)) = q /\ SubSeq(q, 1, 0) = << >>
OBVIOUS

LEMMA FrontAndLast ==
    ASSUME NEW T, NEW q \in Seq(T), q # << >>
    PROVE  /\ Front(q) \in Seq(T) /\ Last(q) \in T /\ Last(q) = q[Len(q)]
           /\ q = Append(Front(q), Last(q)) /\ Len(Front(q)) = Len(q) - 1
<1>1. Len(q) - 1 \in 0..Len(q) - 1 /\ (Len(q) - 1) + 1 = Len(q)
  OBVIOUS
<1>2. Front(q) = SubSeq(q, 1, Len(q) - 1) /\ Last(q) = q[Len(q)]
  BY DEF Front, Last
<1> QED BY <1>1, <1>2, PrefixGrows, WholePrefix

LEMMA FlattenPrefixGrows ==
    ASSUME NEW S, NEW seqs \in Seq(Seq(S)), NEW n \in 0..Len(seqs) - 1
    PROVE  /\ FlattenSeq(SubSeq(seqs, 1, n)) \in Seq(S)
           /\ seqs[n + 1] \in Seq(S)
           /\ FlattenSeq(SubSeq(seqs, 1, n + 1))
                = FlattenSeq(SubSeq(seqs, 1, n)) \o seqs[n + 1]
<1>1. /\ SubSeq(seqs, 1, n) \in Seq(Seq(S)) /\ seqs[n + 1] \in Seq(S)
      /\ SubSeq(seqs, 1, n + 1) = Append(SubSeq(seqs, 1, n), seqs[n + 1])
  BY PrefixGrows
<1> QED BY <1>1, FlattenType, FlattenAppend

\* What is flattened of the beginning is the beginning of what is flattened.
LEMMA FlattenPrefix ==
    ASSUME NEW S, NEW seqs \in Seq(Seq(S)), NEW n \in 0..Len(seqs)
    PROVE  /\ FlattenSeq(SubSeq(seqs, 1, n)) \in Seq(S)
           /\ Len(FlattenSeq(SubSeq(seqs, 1, n))) <= Len(FlattenSeq(seqs))
           /\ \A i \in 1..Len(FlattenSeq(SubSeq(seqs, 1, n))) :
                 FlattenSeq(SubSeq(seqs, 1, n))[i] = FlattenSeq(seqs)[i]
<1> DEFINE F(k) == FlattenSeq(SubSeq(seqs, 1, k))
           Good(k) == /\ F(k) \in Seq(S)
                      /\ Len(F(k)) <= Len(FlattenSeq(seqs))
                      /\ \A i \in 1..Len(F(k)) : F(k)[i] = FlattenSeq(seqs)[i]
           Bad == {k \in 0..Len(seqs) : ~Good(k)}
<1>1. Len(seqs) \in Nat /\ F(Len(seqs)) = FlattenSeq(seqs)
  BY WholePrefix
<1>2. FlattenSeq(seqs) \in Seq(S) /\ Len(FlattenSeq(seqs)) \in Nat
  BY FlattenType
<1>3. Good(Len(seqs))
  <2> HIDE DEF F
  <2> QED BY <1>1, <1>2
<1>4. ASSUME Bad # {} PROVE FALSE
  <2>1. Bad \in SUBSET (0..Len(seqs))
    OBVIOUS
  <2>2. PICK k \in Bad : \A j \in Bad : j <= k
    <3> HIDE DEF Bad
    <3> QED BY <1>1, <1>4, <2>1, GreatestNumber
  <2>3. k \in 0..Len(seqs) /\ ~Good(k)
    BY <2>2
  <2>4. k \in 0..Len(seqs) - 1 /\ k + 1 \in 0..Len(seqs)
    <3> HIDE DEF Good
    <3> QED BY <1>1, <1>3, <2>3
  <2>5. Good(k + 1)
    <3> HIDE DEF Good
    <3> QED BY <1>1, <2>2, <2>4
  <2>6. /\ F(k) \in Seq(S) /\ seqs[k + 1] \in Seq(S)
        /\ F(k + 1) = F(k) \o seqs[k + 1]
    BY <2>4, FlattenPrefixGrows
  <2>7. Good(k)
    <3> HIDE DEF F
    <3>1. /\ Len(F(k + 1)) = Len(F(k)) + Len(seqs[k + 1])
          /\ Len(F(k)) \in Nat /\ Len(seqs[k + 1]) \in Nat
          /\ \A i \in 1..Len(F(k)) : F(k + 1)[i] = F(k)[i]
      BY <2>6, Concatenated
    <3>2. Len(F(k)) <= Len(F(k + 1)) /\ \A i \in 1..Len(F(k)) : i \in 1..Len(F(k + 1))
      BY <3>1
    <3> QED BY <1>2, <2>5, <2>6, <3>1, <3>2
  <2> QED BY <2>3, <2>7
<1>5. Good(n)
  <2> HIDE DEF Good
  <2> QED BY <1>4
<1> QED BY <1>5

\* Induction up to b, over the numbers in a set.
LEMMA UpTo ==
    ASSUME NEW b \in Nat, NEW G, 0 \in G, \A n \in 0..b - 1 : n \in G => n + 1 \in G
    PROVE  \A n \in 0..b : n \in G
<1> DEFINE Bad == {n \in 0..b : n \notin G}
<1>1. SUFFICES ASSUME Bad # {} PROVE FALSE
  OBVIOUS
<1>2. PICK k \in Bad : \A j \in Bad : ~(j < k)
  <2>1. Bad \in SUBSET Nat
    OBVIOUS
  <2> HIDE DEF Bad
  <2> QED BY <1>1, <2>1, LeastNumber
<1>3. k - 1 \in 0..b - 1 /\ (k - 1) + 1 = k /\ k - 1 < k /\ k \notin G
  BY <1>2
<1>4. k - 1 \in G
  BY <1>2, <1>3
<1> QED BY <1>3, <1>4

LEMMA ConcatAppend ==
    ASSUME NEW T, NEW q \in Seq(T), NEW r \in Seq(T), NEW e \in T
    PROVE  q \o Append(r, e) = Append(q \o r, e)
OBVIOUS

LEMMA FlattenConcat ==
    ASSUME NEW S, NEW a \in Seq(Seq(S)), NEW b \in Seq(Seq(S))
    PROVE  FlattenSeq(a \o b) = FlattenSeq(a) \o FlattenSeq(b)
<1> DEFINE B(n) == SubSeq(b, 1, n)
           G == {n \in Nat : FlattenSeq(a \o B(n)) = FlattenSeq(a) \o FlattenSeq(B(n))}
<1>1. Len(b) \in Nat /\ B(Len(b)) = b /\ B(0) = << >>
  BY WholePrefix
<1>2. FlattenSeq(a) \in Seq(S) /\ FlattenSeq(a) \o << >> = FlattenSeq(a)
  BY FlattenType, Concatenated
<1>3. 0 \in G
  <2>1. a \o << >> = a
    <3>1. \A T : \A q \in Seq(T) : q \o << >> = q
      OBVIOUS
    <3> QED BY <3>1
  <2>2. FlattenSeq(a \o B(0)) = FlattenSeq(a) \o FlattenSeq(B(0))
    <3> HIDE DEF B
    <3> QED BY <1>1, <1>2, <2>1, FlattenEmpty
  <2> QED BY <2>2
<1>4. ASSUME NEW n \in 0..Len(b) - 1, n \in G PROVE n + 1 \in G
  <2>1. /\ B(n) \in Seq(Seq(S)) /\ b[n + 1] \in Seq(S)
        /\ B(n + 1) = Append(B(n), b[n + 1])
    BY <1>4, PrefixGrows
  <2>2. FlattenSeq(a \o B(n)) = FlattenSeq(a) \o FlattenSeq(B(n))
    BY <1>4
  <2> HIDE DEF B
  <2>3. FlattenSeq(B(n)) \in Seq(S) /\ a \o B(n) \in Seq(Seq(S))
    BY <2>1, FlattenType, Concatenated
  <2>4. a \o B(n + 1) = Append(a \o B(n), b[n + 1])
    <3>1. ASSUME NEW r \in Seq(Seq(S)), NEW e \in Seq(S)
          PROVE  a \o Append(r, e) = Append(a \o r, e)
      BY ConcatAppend
    <3> QED BY <2>1, <3>1
  <2>5. FlattenSeq(a \o B(n + 1)) = FlattenSeq(a \o B(n)) \o b[n + 1]
    BY <2>1, <2>3, <2>4, FlattenAppend
  <2>6. FlattenSeq(B(n + 1)) = FlattenSeq(B(n)) \o b[n + 1]
    BY <2>1, FlattenAppend
  <2>7. (FlattenSeq(a) \o FlattenSeq(B(n))) \o b[n + 1]
          = FlattenSeq(a) \o (FlattenSeq(B(n)) \o b[n + 1])
    <3>1. ASSUME NEW q \in Seq(S), NEW r \in Seq(S), NEW s \in Seq(S)
          PROVE  (q \o r) \o s = q \o (r \o s)
      OBVIOUS
    <3> QED BY <1>2, <2>1, <2>3, <3>1
  <2>8. FlattenSeq(a \o B(n + 1)) = FlattenSeq(a) \o FlattenSeq(B(n + 1))
    BY <2>2, <2>5, <2>6, <2>7
  <2>9. n + 1 \in Nat
    BY <1>1
  <2> QED BY <2>8, <2>9
<1>5. Len(b) \in G
  <2> HIDE DEF G
  <2>1. \A n \in 0..Len(b) : n \in G
    BY <1>1, <1>3, <1>4, UpTo
  <2> QED BY <1>1, <2>1
<1> QED
  <2>1. FlattenSeq(a \o B(Len(b))) = FlattenSeq(a) \o FlattenSeq(B(Len(b)))
    BY <1>5
  <2> HIDE DEF B
  <2> QED BY <1>1, <2>1

\* Nothing is flattened to nothing.
LEMMA FlattenNothing ==
    ASSUME NEW S, NEW b \in Seq(Seq(S)), \A i \in 1..Len(b) : b[i] = << >>
    PROVE  FlattenSeq(b) = << >>
<1> DEFINE B(n) == SubSeq(b, 1, n)
           G == {n \in Nat : FlattenSeq(B(n)) = << >>}
<1>1. Len(b) \in Nat /\ B(Len(b)) = b /\ B(0) = << >>
  BY WholePrefix
<1>2. 0 \in G
  BY <1>1, FlattenEmpty
<1>3. ASSUME NEW n \in 0..Len(b) - 1, n \in G PROVE n + 1 \in G
  <2>1. /\ FlattenSeq(B(n)) \in Seq(S) /\ b[n + 1] \in Seq(S)
        /\ FlattenSeq(B(n + 1)) = FlattenSeq(B(n)) \o b[n + 1]
    BY <1>3, FlattenPrefixGrows
  <2>2. FlattenSeq(B(n)) = << >> /\ n + 1 \in 1..Len(b) /\ n + 1 \in Nat
    BY <1>1, <1>3
  <2> HIDE DEF B
  <2>3. FlattenSeq(B(n + 1)) = << >> \o << >>
    BY <2>1, <2>2
  <2>4. << >> \o << >> = << >>
    OBVIOUS
  <2> QED BY <2>2, <2>3, <2>4
<1>4. Len(b) \in G
  <2> HIDE DEF G
  <2>1. \A n \in 0..Len(b) : n \in G
    BY <1>1, <1>2, <1>3, UpTo
  <2> QED BY <1>1, <2>1
<1> QED
  <2>1. FlattenSeq(B(Len(b))) = << >>
    BY <1>4
  <2> HIDE DEF B
  <2> QED BY <1>1, <2>1

LEMMA SameElements ==
    ASSUME NEW T, NEW q \in Seq(T), NEW r \in Seq(T), Len(q) = Len(r),
           \A i \in 1..Len(q) : q[i] = r[i]
    PROVE  q = r
OBVIOUS
=============================================================================
