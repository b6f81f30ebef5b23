--------------------------- MODULE SequenceLemmas ---------------------------
(***************************************************************************)
(* Facts about numbers, sequences and recursively defined functions that   *)
(* the proofs about the modules of med rest on.                            *)
(***************************************************************************)
EXTENDS Integers, SequencesExt, SequenceTheorems, FiniteSetTheorems,
        WellFoundedInduction, TLAPS

\* Every set of natural numbers that is not empty has a least element: the form
\* of induction used for what recursive functions compute.
LEMMA LeastElement ==
    ASSUME NEW T, T \subseteq Nat, T # {}
    PROVE  \E m \in T : \A n \in T : m <= n
  <1> DEFINE Below == {0 .. n : n \in T}
  <1>1. Below \subseteq FiniteSubsetsOf(Nat) /\ Below # {}
    <2>1. ASSUME NEW n \in T PROVE 0 .. n \in FiniteSubsetsOf(Nat)
      <3>1. n \in Int /\ 0 \in Int /\ 0 .. n \subseteq Nat
        BY <2>1
      <3> QED
        BY <3>1, FS_Interval DEF FiniteSubsetsOf
    <2> QED
      BY <2>1
  <1>2. PICK x \in Below : \A y \in Below : ~ (<<y, x>> \in StrictSubsetOrdering(Nat))
    <2> HIDE DEF Below
    <2> QED
      BY <1>1, WFMin, FS_StrictSubsetOrderingWellFounded
  <1>3. PICK m \in T : x = 0 .. m
    BY <1>2
  <1>4. ASSUME NEW n \in T, n < m PROVE FALSE
    <2>1. 0 .. n \in Below /\ 0 .. n \subseteq x /\ n \in Nat /\ m \in Nat
      BY <1>3, <1>4
    <2>2. m \in x /\ m \notin 0 .. n
      BY <1>3, <1>4, <2>1
    <2>3. <<0 .. n, x>> \in StrictSubsetOrdering(Nat)
      BY <2>1, <2>2, <1>3 DEF StrictSubsetOrdering
    <2> QED
      BY <2>1, <2>3, <1>2
  <1> QED
    BY <1>4

\* ... and Min is that element.
LEMMA MinFacts ==
    ASSUME NEW T, T \subseteq Nat, T # {}
    PROVE  Min(T) \in T /\ \A n \in T : Min(T) <= n
  <1>1. \E m \in T : \A n \in T : m <= n
    BY LeastElement
  <1>2. Min(T) = CHOOSE m \in T : \A n \in T : m <= n
    BY DEF Min
  <1> QED
    BY <1>1, <1>2

-----------------------------------------------------------------------------
(* FlattenSeq: the sequences it joins, and the recursion it does it with.  *)

Flattening(ss, f) ==
    f = [i \in 1 .. Len(ss) |-> IF i = 1 THEN ss[i] ELSE f[i - 1] \o ss[i]]

LEMMA FlatteningExists ==
    ASSUME NEW S, NEW ss \in Seq(Seq(S))
    PROVE  \E f \in [1 .. Len(ss) -> Seq(S)] : Flattening(ss, f)
  <1> DEFINE Upto(n) == \E f \in [1 .. n -> Seq(S)] :
                          \A i \in 1 .. n : f[i] = IF i = 1 THEN ss[i] ELSE f[i - 1] \o ss[i]
             T == {n \in 0 .. Len(ss) : ~Upto(n)}
  <1>1. Len(ss) \in Nat /\ \A i \in 1 .. Len(ss) : ss[i] \in Seq(S)
    BY LenProperties, ElementOfSeq
  <1>2. ASSUME T # {} PROVE FALSE
    <2>1. PICK n \in T : \A m \in T : n <= m
      <3>1. T \subseteq Nat
        BY <1>1
      <3> HIDE DEF T
      <3> QED
        BY <1>2, <3>1, LeastElement
    <2>2. CASE n = 0
      <3> DEFINE none == [i \in 1 .. 0 |-> ss[i]]
      <3>1. none \in [1 .. 0 -> Seq(S)]
        OBVIOUS
      <3>2. \A i \in 1 .. 0 : none[i] = IF i = 1 THEN ss[i] ELSE none[i - 1] \o ss[i]
        OBVIOUS
      <3> HIDE DEF none
      <3>3. Upto(0)
        BY <3>1, <3>2
      <3> QED
        BY <2>1, <2>2, <3>3
    <2>3. CASE n # 0
      <3>1. n \in 1 .. Len(ss) /\ n - 1 \in 0 .. Len(ss) /\ Upto(n - 1)
        <4> HIDE DEF Upto
        <4> QED
          BY <1>1, <2>1, <2>3
      <3>2. PICK f \in [1 .. n - 1 -> Seq(S)] :
                    \A i \in 1 .. n - 1 : f[i] = IF i = 1 THEN ss[i] ELSE f[i - 1] \o ss[i]
        BY <3>1
      <3> DEFINE last == IF n = 1 THEN ss[1] ELSE f[n - 1] \o ss[n]
                 g == [i \in 1 .. n |-> IF i = n THEN last ELSE f[i]]
      <3>3. last \in Seq(S)
        <4>1. CASE n = 1
          BY <4>1, <3>1, <1>1
        <4>2. CASE n # 1
          <5>1. f[n - 1] \in Seq(S) /\ ss[n] \in Seq(S)
            BY <4>2, <3>1, <3>2, <1>1
          <5> QED
            BY <5>1, <4>2, ConcatProperties
        <4> QED
          BY <4>1, <4>2
      <3> HIDE DEF last
      <3>4. g \in [1 .. n -> Seq(S)]
        BY <3>1, <3>2, <3>3, <1>1
      <3>5. \A i \in 1 .. n : g[i] = IF i = 1 THEN ss[i] ELSE g[i - 1] \o ss[i]
        <4>1. ASSUME NEW i \in 1 .. n, i = n
              PROVE  g[i] = IF i = 1 THEN ss[i] ELSE g[i - 1] \o ss[i]
          BY <4>1, <3>1, <1>1 DEF last
        <4>2. ASSUME NEW i \in 1 .. n, i # n
              PROVE  g[i] = IF i = 1 THEN ss[i] ELSE g[i - 1] \o ss[i]
          <5>1. i \in 1 .. n - 1 /\ g[i] = f[i] /\ (i # 1 => g[i - 1] = f[i - 1])
            BY <4>2, <3>1, <1>1
          <5> QED
            BY <5>1, <3>2
        <4> QED
          BY <4>1, <4>2
      <3>6. Upto(n)
        BY <3>4, <3>5
      <3> QED
        BY <2>1, <3>6
    <2> QED
      BY <2>2, <2>3
  <1>3. Upto(Len(ss))
    <2> HIDE DEF Upto
    <2> QED
      BY <1>1, <1>2
  <1>4. PICK f \in [1 .. Len(ss) -> Seq(S)] :
                \A i \in 1 .. Len(ss) : f[i] = IF i = 1 THEN ss[i] ELSE f[i - 1] \o ss[i]
    BY <1>3
  <1>5. f = [i \in 1 .. Len(ss) |-> IF i = 1 THEN ss[i] ELSE f[i - 1] \o ss[i]]
    BY <1>4
  <1> QED
    BY <1>4, <1>5 DEF Flattening

LEMMA FlattenType ==
    ASSUME NEW S, NEW ss \in Seq(Seq(S))
    PROVE  FlattenSeq(ss) \in Seq(S)
  <1> DEFINE n == Len(ss)
             flatten == CHOOSE f : Flattening(ss, f)
  <1>1. n \in Nat /\ \A i \in 1 .. n : ss[i] \in Seq(S)
    BY LenProperties, ElementOfSeq
  <1>2. CASE n = 0
    <2>1. ss = <<>> /\ FlattenSeq(ss) = ss
      BY <1>2, EmptySeq DEF FlattenSeq
    <2>2. <<>> \in Seq(S)
      OBVIOUS
    <2> QED
      BY <2>1, <2>2
  <1>3. CASE n # 0
    <2>1. FlattenSeq(ss) = flatten[n]
      BY <1>3 DEF FlattenSeq, Flattening
    <2>2. Flattening(ss, flatten)
      BY FlatteningExists
    <2> HIDE DEF flatten
    <2>3. \A i \in 1 .. n : flatten[i] = IF i = 1 THEN ss[i] ELSE flatten[i - 1] \o ss[i]
      BY <2>2, <1>1 DEF Flattening
    <2> DEFINE T == {i \in 1 .. n : flatten[i] \notin Seq(S)}
    <2>4. ASSUME T # {} PROVE FALSE
      <3>1. PICK i \in T : \A j \in T : i <= j
        <4>1. T \subseteq Nat
          OBVIOUS
        <4> HIDE DEF T
        <4> QED
          BY <2>4, <4>1, LeastElement
      <3>2. CASE i = 1
        BY <3>1, <3>2, <2>3, <1>1
      <3>3. CASE i # 1
        <4>1. i \in 1 .. n /\ i - 1 \in 1 .. n /\ flatten[i - 1] \in Seq(S) /\ ss[i] \in Seq(S)
          BY <3>1, <3>3, <1>1
        <4>2. flatten[i - 1] \o ss[i] \in Seq(S)
          BY <4>1, ConcatProperties
        <4> QED
          BY <4>1, <4>2, <3>1, <3>3, <2>3
      <3> QED
        BY <3>2, <3>3
    <2> QED
      BY <2>1, <2>4, <1>1, <1>3
  <1> QED
    BY <1>2, <1>3
-----------------------------------------------------------------------------
\* A list without its k-th item.
Without(s, k) == [j \in 1 .. Len(s) - 1 |-> IF j < k THEN s[j] ELSE s[j + 1]]

LEMMA WithoutFacts ==
    ASSUME NEW S, NEW s \in Seq(S), NEW k \in 1 .. Len(s), NEW t, t = Without(s, k)
    PROVE  /\ t \in Seq(S) /\ Len(t) = Len(s) - 1 /\ Len(s) \in Nat
           /\ \A j \in 1 .. Len(t) : t[j] = IF j < k THEN s[j] ELSE s[j + 1]
           /\ RemoveAt(s, k) = t
           /\ k = Len(s) => Front(s) = t
  <1>1. Len(s) \in Nat /\ \A j \in 1 .. Len(s) : s[j] \in S
    BY LenProperties, ElementOfSeq
  <1>2. Len(s) - 1 \in Nat /\ \A j \in 1 .. Len(s) - 1 : j \in 1 .. Len(s) /\ j + 1 \in 1 .. Len(s)
    BY <1>1
  <1>3. t \in [1 .. Len(s) - 1 -> S]
    BY <1>1, <1>2 DEF Without
  <1>4. t \in Seq(S) /\ Len(t) = Len(s) - 1
    BY <1>2, <1>3
  <1>5. \A j \in 1 .. Len(t) : t[j] = IF j < k THEN s[j] ELSE s[j + 1]
    BY <1>4 DEF Without
  <1>6. RemoveAt(s, k) = t
    <2> DEFINE a == SubSeq(s, 1, k - 1)
               b == SubSeq(s, k + 1, Len(s))
    <2>1. /\ a \in Seq(S) /\ Len(a) = k - 1
          /\ \A j \in 1 .. k - 1 : a[j] = s[j]
      BY <1>1, SubSeqProperties
    <2>2. /\ b \in Seq(S) /\ Len(b) = Len(s) - k
          /\ \A j \in 1 .. Len(s) - k : b[j] = s[k + j]
      BY <1>1, SubSeqProperties
    <2> HIDE DEF a, b
    <2>3. /\ a \o b \in Seq(S) /\ Len(a \o b) = Len(a) + Len(b)
          /\ \A j \in 1 .. Len(a) + Len(b) :
                (a \o b)[j] = IF j <= Len(a) THEN a[j] ELSE b[j - Len(a)]
      BY <2>1, <2>2, ConcatProperties
    <2>3a. Len(a) + Len(b) = Len(s) - 1
      BY <1>1, <2>1, <2>2
    <2>3b. ASSUME NEW j \in 1 .. Len(s) - 1
           PROVE  (a \o b)[j] = IF j < k THEN s[j] ELSE s[j + 1]
      <3>1. CASE j < k
        BY <3>1, <1>1, <2>1, <2>3, <2>3a
      <3>2. CASE ~(j < k)
        <4>1. j - (k - 1) \in 1 .. Len(s) - k /\ k + (j - (k - 1)) = j + 1 /\ ~(j <= Len(a))
          BY <3>2, <1>1, <2>1
        <4>2. b[j - (k - 1)] = s[j + 1]
          BY <4>1, <2>2
        <4> QED
          BY <3>2, <4>1, <4>2, <2>1, <2>3, <2>3a
      <3> QED
        BY <3>1, <3>2
    <2>4. RemoveAt(s, k) = a \o b
      BY DEF RemoveAt, a, b
    <2> QED
      BY <2>3, <2>3a, <2>3b, <2>4, <1>4, <1>5, SeqEqual
  <1>7. ASSUME k = Len(s) PROVE Front(s) = t
    <2>1. Front(s) = SubSeq(s, 1, Len(s) - 1)
      BY DEF Front
    <2>2. SubSeq(s, 1, Len(s) - 1) = [j \in 1 .. Len(s) - 1 |-> s[j]]
      BY <1>2
    <2>3. Without(s, k) = [j \in 1 .. Len(s) - 1 |-> s[j]]
      BY <1>2, <1>7 DEF Without
    <2> QED
      BY <2>1, <2>2, <2>3
  <1> QED
    BY <1>1, <1>4, <1>5, <1>6, <1>7
=============================================================================
