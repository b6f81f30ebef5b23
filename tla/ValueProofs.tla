----------------------------- MODULE ValueProofs -----------------------------
(***************************************************************************)
(* Theorems about Codecs for messages of every codec: bit fields (see      *)
(* CodecProofs), varints, and integers and strings in BER, of all widths   *)
(* the types of C++ have.                                                  *)
(***************************************************************************)
EXTENDS CodecProofs

-----------------------------------------------------------------------------
(* Recursive functions.                                                    *)

\* What a step G makes of a beginning b, round by round.
Rounds(n, b, G, f) == f[0] = b /\ \A k \in 1 .. n : f[k] = G[<<k, f[k - 1]>>]

\* What goes round by round is a function.
LEMMA RoundsExist ==
    ASSUME NEW S, NEW b \in S, NEW n \in Nat, NEW G \in [(1 .. n) \X S -> S]
    PROVE  \E f \in [0 .. n -> S] : Rounds(n, b, G, f)
  <1> DEFINE Upto(k) == \E f \in [0 .. k -> S] : Rounds(k, b, G, f)
             T == {k \in 0 .. n : ~Upto(k)}
  <1>1. ASSUME T # {} PROVE FALSE
    <2>1. PICK k \in T : \A j \in T : k <= j
      <3>1. T \subseteq Nat
        OBVIOUS
      <3> HIDE DEF T
      <3> QED
        BY <1>1, <3>1, LeastElement
    <2>2. CASE k = 0
      <3> DEFINE f == [i \in 0 .. 0 |-> b]
      <3>1. f \in [0 .. 0 -> S] /\ f[0] = b
        OBVIOUS
      <3> HIDE DEF f
      <3>2. Rounds(0, b, G, f)
        BY <3>1 DEF Rounds
      <3> QED
        BY <2>1, <2>2, <3>1, <3>2
    <2>3. CASE k # 0
      <3>1. k \in 1 .. n /\ k - 1 \in 0 .. n /\ Upto(k - 1)
        <4> HIDE DEF Upto
        <4> QED
          BY <2>1, <2>3
      <3>2. PICK f \in [0 .. k - 1 -> S] : Rounds(k - 1, b, G, f)
        BY <3>1
      <3> DEFINE last == G[<<k, f[k - 1]>>]
                 g == [i \in 0 .. k |-> IF i = k THEN last ELSE f[i]]
      <3>3. last \in S
        <4>1. f[k - 1] \in S
          BY <3>1, <3>2
        <4>2. <<k, f[k - 1]>> \in (1 .. n) \X S
          BY <3>1, <4>1
        <4> QED
          BY <4>2
      <3> HIDE DEF last
      <3>4. g \in [0 .. k -> S] /\ g[0] = b
        BY <3>1, <3>2, <3>3 DEF Rounds
      <3>5. ASSUME NEW i \in 1 .. k PROVE g[i] = G[<<i, g[i - 1]>>]
        <4>1. CASE i = k
          <5>1. g[i] = last /\ g[i - 1] = f[k - 1]
            BY <4>1, <3>1
          <5> QED
            BY <4>1, <5>1 DEF last
        <4>2. CASE i # k
          <5>1. i \in 1 .. k - 1 /\ g[i] = f[i] /\ g[i - 1] = f[i - 1]
            BY <4>2, <3>1
          <5> HIDE DEF g
          <5> QED
            BY <5>1, <3>2 DEF Rounds
        <4> QED
          BY <4>1, <4>2
      <3> HIDE DEF g
      <3>6. Rounds(k, b, G, g)
        BY <3>4, <3>5 DEF Rounds
      <3> QED
        BY <2>1, <3>4, <3>6
    <2> QED
      BY <2>2, <2>3
  <1>2. Upto(n)
    <2> HIDE DEF Upto
    <2> QED
      BY <1>1
  <1> QED
    BY <1>2

\* ... and only one.
LEMMA RoundsUnique ==
    ASSUME NEW n \in Nat, NEW b, NEW G, NEW f, Rounds(n, b, G, f), NEW g, Rounds(n, b, G, g)
    PROVE  \A k \in 0 .. n : f[k] = g[k]
  <1> DEFINE T == {k \in 0 .. n : f[k] # g[k]}
  <1>1. ASSUME T # {} PROVE FALSE
    <2>1. T \subseteq Nat
      OBVIOUS
    <2> HIDE DEF T
    <2>2. PICK k \in T : \A j \in T : k <= j
      BY <1>1, <2>1, LeastElement
    <2> USE DEF T
    <2>3. k \in 0 .. n /\ f[k] # g[k]
      BY <2>2
    <2>4. k # 0
      BY <2>3 DEF Rounds
    <2>5. k \in 1 .. n /\ k - 1 \in 0 .. n /\ ~(k <= k - 1)
      BY <2>3, <2>4
    <2>6. f[k - 1] = g[k - 1]
      BY <2>2, <2>5
    <2> QED
      BY <2>3, <2>5, <2>6 DEF Rounds
  <1> QED
    BY <1>1

-----------------------------------------------------------------------------
(* Numbers and their bits.                                                 *)

\* One bit more.
LEMMA ModTwice ==
    ASSUME NEW v \in Nat, NEW p \in Nat \ {0}
    PROVE  v % (2 * p) = (v % p) + p * ((v \div p) % 2) /\ (v \div p) % 2 \in {0, 1}
  <1> DEFINE q == v \div p
             r == v % p
             h == q \div 2
             o == q % 2
  <1>1. q \in Nat /\ r \in 0 .. p - 1 /\ v = p * q + r
    BY DivNat
  <1>2. h \in Nat /\ o \in {0, 1} /\ q = 2 * h + o
    <2> HIDE DEF q
    <2> QED
      BY <1>1
  <1> HIDE DEF q, r, h, o
  <1>3. v = h * (2 * p) + (p * o + r)
    <2>1. p * q = p * (2 * h) + p * o
      <3>1. p * q = p * (2 * h + o)
        BY <1>2
      <3>2. p * (2 * h + o) = p * (2 * h) + p * o
        BY <1>2
      <3> QED
        BY <3>1, <3>2
    <2>2. p * (2 * h) = h * (2 * p) /\ p * o \in Nat /\ h * (2 * p) \in Nat
      BY <1>2
    <2> QED
      BY <1>1, <2>1, <2>2
  <1>4. p * o + r \in Nat /\ p * o + r < 2 * p
    <2>1. CASE o = 0
      BY <2>1, <1>1
    <2>2. CASE o = 1
      BY <2>2, <1>1
    <2> QED
      BY <2>1, <2>2, <1>2
  <1>5. 2 * p \in Nat \ {0}
    OBVIOUS
  <1>6. v % (2 * p) = p * o + r
    BY <1>2, <1>3, <1>4, <1>5, DivMultiple
  <1> QED
    BY <1>2, <1>4, <1>6, <1>1 DEF q, r, o

\* A number is the sum of its bits.
LEMMA SumOfBits ==
    ASSUME NEW v \in Nat, NEW m \in Nat, v < Pow2[m], NEW f, f[0] = 0,
           \A k \in 1 .. m : f[k] = f[k - 1] + (IF (v \div Pow2[k - 1]) % 2 = 1 THEN Pow2[k - 1] ELSE 0)
    PROVE  f[m] = v
  <1> DEFINE T == {k \in 0 .. m : f[k] # v % Pow2[k]}
  <1>1. ASSUME T # {} PROVE FALSE
    <2>1. T \subseteq Nat
      OBVIOUS
    <2> HIDE DEF T
    <2>2. PICK k \in T : \A j \in T : k <= j
      BY <1>1, <2>1, LeastElement
    <2> USE DEF T
    <2>3. k \in 0 .. m /\ f[k] # v % Pow2[k] /\ k \in Nat
      BY <2>1, <2>2
    <2>4. k # 0
      <3>1. v % 1 = 0
        OBVIOUS
      <3> QED
        BY <2>3, <3>1, PowFacts
    <2>5. k \in 1 .. m /\ k - 1 \in 0 .. m /\ k - 1 \in Nat /\ ~(k <= k - 1)
      BY <2>3, <2>4
    <2> DEFINE p == Pow2[k - 1]
    <2>6. f[k - 1] = v % p
      BY <2>2, <2>5
    <2>7. p \in Nat \ {0} /\ Pow2[k] = 2 * p
      <3>1. (k - 1) + 1 = k
        BY <2>5
      <3>2. Pow2[(k - 1) + 1] = 2 * Pow2[k - 1] /\ Pow2[k - 1] \in Nat \ {0}
        BY <2>5, PowFacts
      <3> QED
        BY <3>1, <3>2
    <2>8. f[k] = f[k - 1] + (IF (v \div p) % 2 = 1 THEN p ELSE 0)
      BY <2>5
    <2> HIDE DEF p, T
    <2>9. v % (2 * p) = (v % p) + p * ((v \div p) % 2) /\ (v \div p) % 2 \in {0, 1}
      BY <2>7, ModTwice
    <2>10. CASE (v \div p) % 2 = 1
      <3>1. p * 1 = p
        BY <2>7
      <3> QED
        BY <2>3, <2>6, <2>7, <2>8, <2>9, <2>10, <3>1
    <2>11. CASE (v \div p) % 2 = 0
      <3>1. p * 0 = 0
        BY <2>7
      <3>2. v % p \in Nat
        BY <2>7, DivNat
      <3> QED
        BY <2>3, <2>6, <2>7, <2>8, <2>9, <2>11, <3>1, <3>2
    <2> QED
      BY <2>9, <2>10, <2>11
  <1>2. f[m] = v % Pow2[m]
    BY <1>1
  <1>3. v % Pow2[m] = v
    BY PowFacts, DivSmall
  <1> QED
    BY <1>2, <1>3

\* Powers in order.
LEMMA PowMonotone ==
    ASSUME NEW m \in Nat, NEW n \in Nat, m <= n
    PROVE  Pow2[m] <= Pow2[n] /\ Pow2[m] \in Nat \ {0} /\ Pow2[n] \in Nat \ {0}
  <1>1. PICK d \in Nat : n = m + d
    <2>1. n - m \in Nat /\ n = m + (n - m)
      OBVIOUS
    <2> QED
      BY <2>1
  <1>2. Pow2[m + d] = Pow2[m] * Pow2[d] /\ Pow2[m] \in Nat \ {0} /\ Pow2[d] \in Nat \ {0}
    BY PowSum
  <1>3. \A a \in Nat \ {0}, b \in Nat \ {0} : a <= a * b /\ a * b \in Nat \ {0}
    OBVIOUS
  <1> QED
    BY <1>1, <1>2, <1>3

\* A sum of bits, of which the last ones may be missing.
LEMMA BitsBelow ==
    ASSUME NEW m \in Nat, NEW l \in Nat, NEW f, f[0] = 0,
           \A k \in 1 .. m : \/ f[k] = f[k - 1]
                             \/ k <= l /\ f[k] = f[k - 1] + Pow2[k - 1]
    PROVE  f[m] \in Nat /\ f[m] < Pow2[m] /\ f[m] < Pow2[l]
  <1> DEFINE Fine(k) == f[k] \in Nat /\ f[k] < Pow2[k] /\ f[k] < Pow2[l]
             T == {k \in 0 .. m : ~Fine(k)}
  <1>0. \A k \in Nat : Pow2[k] \in Nat \ {0}
    BY PowFacts
  <1>1. ASSUME T # {} PROVE FALSE
    <2>1. T \subseteq Nat
      OBVIOUS
    <2> HIDE DEF T
    <2>2. PICK k \in T : \A j \in T : k <= j
      BY <1>1, <2>1, LeastElement
    <2>3. k \in 0 .. m /\ ~Fine(k) /\ k \in Nat
      BY <2>2, <2>1 DEF T
    <2>4. k # 0
      BY <2>3, <1>0, PowFacts
    <2>5. k \in 1 .. m /\ k - 1 \in 0 .. m /\ k - 1 \in Nat /\ ~(k <= k - 1) /\ (k - 1) + 1 = k
      BY <2>3, <2>4
    <2>6. Fine(k - 1)
      BY <2>2, <2>5 DEF T
    <2>7. Pow2[k] = 2 * Pow2[k - 1] /\ Pow2[k - 1] \in Nat \ {0} /\ Pow2[l] \in Nat
      <3>1. Pow2[(k - 1) + 1] = 2 * Pow2[k - 1]
        BY <2>5, PowFacts
      <3> QED
        BY <2>5, <3>1, <1>0
    <2>8. CASE f[k] = f[k - 1]
      BY <2>3, <2>6, <2>7, <2>8
    <2>9. CASE k <= l /\ f[k] = f[k - 1] + Pow2[k - 1]
      <3>1. f[k] \in Nat /\ f[k] < Pow2[k]
        BY <2>6, <2>7, <2>9
      <3>2. Pow2[k] <= Pow2[l]
        BY <2>3, <2>9, PowMonotone
      <3>3. Pow2[k] \in Nat
        BY <2>3, <1>0
      <3> QED
        BY <2>3, <2>7, <3>1, <3>2, <3>3
    <2> QED
      BY <2>5, <2>8, <2>9
  <1>2. m \in 0 .. m
    OBVIOUS
  <1> QED
    BY <1>1, <1>2

-----------------------------------------------------------------------------
(* Varints.                                                                *)

\* Any number of up to 70 bits has a shortest varint.
LEMMA VarintLengthFacts ==
    ASSUME NEW v \in Nat, v < Pow2[70]
    PROVE  LET n == VarintLength(v)
           IN n \in 1 .. 10 /\ v < Pow2[7 * n] /\ \A m \in 1 .. n - 1 : v >= Pow2[7 * m]
  <1> DEFINE T == {n \in 1 .. 10 : v < Pow2[7 * n]}
             Fits(n) == v < Pow2[7 * n] /\ \A m \in 1 .. n - 1 : v >= Pow2[7 * m]
  <1>1. 10 \in T /\ T \subseteq Nat
    <2>1. 7 * 10 = 70 /\ 10 \in 1 .. 10
      OBVIOUS
    <2> QED
      BY <2>1
  <1>2. PICK n \in T : \A m \in T : n <= m
    <2> HIDE DEF T
    <2> QED
      BY <1>1, LeastElement
  <1>3. n \in 1 .. 10 /\ Fits(n)
    <2>1. n \in 1 .. 10 /\ v < Pow2[7 * n]
      BY <1>2
    <2>2. ASSUME NEW m \in 1 .. n - 1 PROVE v >= Pow2[7 * m]
      <3>1. m \in 1 .. 10 /\ ~(n <= m) /\ 7 * m \in Nat
        BY <2>1
      <3>2. m \notin T
        BY <1>2, <3>1
      <3>3. Pow2[7 * m] \in Nat
        BY <3>1, PowFacts
      <3> QED
        BY <3>1, <3>2, <3>3
    <2> QED
      BY <2>1, <2>2
  <1>4. VarintLength(v) = CHOOSE k \in 1 .. 10 : Fits(k)
    BY DEF VarintLength, MaxVarintBytes
  <1> HIDE DEF Fits
  <1>5. VarintLength(v) \in 1 .. 10 /\ Fits(VarintLength(v))
    BY <1>3, <1>4
  <1> QED
    BY <1>5 DEF Fits

\* Each octet of a varint holds seven bits of the number, and the last is the first below 128.
LEMMA VarintOctetsFacts ==
    ASSUME NEW v \in Nat, v < Pow2[70]
    PROVE  LET n == VarintLength(v)
               s == VarintOctets(v)
           IN /\ s \in Seq(0 .. 255) /\ Len(s) = n
              /\ \A i \in 1 .. n :
                    /\ s[i] < 128 <=> i = n
                    /\ s[i] % 128 = (v \div Pow2[7 * (i - 1)]) % 128
  <1> DEFINE n == VarintLength(v)
             d(i) == (v \div Pow2[7 * (i - 1)]) % 128
             s == [i \in 1 .. n |-> d(i) + (IF i < n THEN 128 ELSE 0)]
  <1>1. n \in 1 .. 10 /\ ~(v < 0)
    BY VarintLengthFacts
  <1>2. VarintOctets(v) = s
    BY <1>1 DEF VarintOctets
  <1> HIDE DEF n
  <1>3. ASSUME NEW i \in 1 .. n
        PROVE  /\ d(i) \in 0 .. 127 /\ s[i] \in 0 .. 255
               /\ s[i] < 128 <=> i = n
               /\ s[i] % 128 = d(i)
    <2>1. Pow2[7 * (i - 1)] \in Nat \ {0}
      <3>1. 7 * (i - 1) \in Nat
        BY <1>1
      <3> QED
        BY <3>1, PowFacts
    <2>2. v \div Pow2[7 * (i - 1)] \in Nat
      BY <2>1, DivNat
    <2>3. d(i) \in 0 .. 127
      BY <2>2
    <2>4. s[i] = d(i) + (IF i < n THEN 128 ELSE 0)
      OBVIOUS
    <2> HIDE DEF d, s
    <2> QED
      BY <1>1, <2>3, <2>4
  <1>4. s \in Seq(0 .. 255) /\ Len(s) = n
    <2>1. s \in [1 .. n -> 0 .. 255] /\ n \in Nat
      BY <1>1, <1>3
    <2> QED
      BY <2>1, LenProperties
  <1> HIDE DEF s
  <1> QED
    BY <1>2, <1>3, <1>4 DEF n

\* The first bits of an octet do not tell a continuation bit.
LEMMA LowBit ==
    ASSUME NEW x \in Nat, NEW w \in Nat, x % 128 = w % 128, NEW b \in 0 .. 6
    PROVE  (x \div Pow2[b]) % 2 = (w \div Pow2[b]) % 2
  <1>1. CASE b = 0
    <2>1. Pow2[b] = 1 /\ x \div 1 = x /\ w \div 1 = w
      BY <1>1, PowFacts
    <2>2. x % 2 = w % 2
      OBVIOUS
    <2> QED
      BY <2>1, <2>2
  <1>2. CASE b = 1
    <2>1. (x \div 2) % 2 = (w \div 2) % 2
      OBVIOUS
    <2> QED
      BY <1>2, <2>1, PowValues
  <1>3. CASE b = 2
    <2>1. (x \div 4) % 2 = (w \div 4) % 2
      OBVIOUS
    <2> QED
      BY <1>3, <2>1, PowValues
  <1>4. CASE b = 3
    <2>1. (x \div 8) % 2 = (w \div 8) % 2
      OBVIOUS
    <2> QED
      BY <1>4, <2>1, PowValues
  <1>5. CASE b = 4
    <2>1. (x \div 16) % 2 = (w \div 16) % 2
      OBVIOUS
    <2> QED
      BY <1>5, <2>1, PowValues
  <1>6. CASE b = 5
    <2>1. (x \div 32) % 2 = (w \div 32) % 2
      OBVIOUS
    <2> QED
      BY <1>6, <2>1, PowValues
  <1>7. CASE b = 6
    <2>1. (x \div 64) % 2 = (w \div 64) % 2
      OBVIOUS
    <2> QED
      BY <1>7, <2>1, PowValues
  <1> QED
    BY <1>1, <1>2, <1>3, <1>4, <1>5, <1>6, <1>7

\* What is used of the types of integers.
LEMMA TypeFacts ==
    ASSUME NEW T \in IntegerTypes
    PROVE  /\ T.bits \in {8, 16, 32, 64} /\ T.signed \in BOOLEAN
           /\ ShiftedBits(T) \in {32, 64} /\ T.bits <= ShiftedBits(T)
           /\ Pow2[T.bits] \in Nat \ {0} /\ Pow2[T.bits - 1] \in Nat \ {0} /\ Pow2[T.bits] = 2 * Pow2[T.bits - 1]
           /\ ValuesOf(T) \subseteq Int
           /\ \A x \in ValuesOf(T) : x < Pow2[T.bits]
  <1>1. T.bits \in {8, 16, 32, 64} /\ T.signed \in BOOLEAN
    BY DEF IntegerTypes
  <1>2. ShiftedBits(T) \in {32, 64} /\ T.bits <= ShiftedBits(T)
    BY <1>1 DEF ShiftedBits
  <1>3. T.bits - 1 \in Nat /\ (T.bits - 1) + 1 = T.bits /\ T.bits \in Nat
    BY <1>1
  <1>4. Pow2[T.bits] \in Nat \ {0} /\ Pow2[T.bits - 1] \in Nat \ {0} /\ Pow2[T.bits] = 2 * Pow2[T.bits - 1]
    <2>1. Pow2[(T.bits - 1) + 1] = 2 * Pow2[T.bits - 1] /\ Pow2[T.bits - 1] \in Nat \ {0} /\ Pow2[T.bits] \in Nat \ {0}
      BY <1>3, PowFacts
    <2> QED
      BY <1>3, <2>1
  <1>5. ValuesOf(T) \subseteq Int /\ \A x \in ValuesOf(T) : x < Pow2[T.bits]
    BY <1>1, <1>4 DEF ValuesOf
  <1> QED
    BY <1>1, <1>2, <1>4, <1>5

\* A number that is a value of the type is what a cast leaves of it.
LEMMA CastValue ==
    ASSUME NEW T \in IntegerTypes, NEW v \in ValuesOf(T), v >= 0
    PROVE  Cast(T, v) = v
  <1>1. v \in Nat /\ Pow2[T.bits] \in Nat \ {0} /\ v < Pow2[T.bits]
    BY TypeFacts
  <1>2. v % Pow2[T.bits] = v
    BY <1>1, DivSmall
  <1> QED
    BY <1>2 DEF Cast

\* What a cast gives, and of which numbers it is the number itself.
LEMMA CastFacts ==
    ASSUME NEW T \in IntegerTypes, NEW x \in Nat
    PROVE  /\ Cast(T, x) \in ValuesOf(T)
           /\ x < Pow2[T.bits] /\ Cast(T, x) >= 0 => Cast(T, x) = x
  <1> DEFINE p == Pow2[T.bits]
             h == Pow2[T.bits - 1]
             low == x % p
  <1>1. p \in Nat \ {0} /\ h \in Nat \ {0} /\ p = 2 * h /\ T.signed \in BOOLEAN
    BY TypeFacts
  <1>2. ValuesOf(T) = IF T.signed THEN -h .. h - 1 ELSE 0 .. p - 1
    BY DEF ValuesOf
  <1>3. Cast(T, x) = IF low \in ValuesOf(T) THEN low ELSE low - p
    BY DEF Cast
  <1>4. low \in 0 .. p - 1 /\ (x < p => low = x)
    <2> HIDE DEF p
    <2> QED
      BY <1>1, DivNat, DivSmall
  <1> HIDE DEF p, h, low
  <1>5. Cast(T, x) \in ValuesOf(T)
    BY <1>1, <1>2, <1>3, <1>4
  <1>6. low \notin ValuesOf(T) => low - p < 0
    BY <1>1, <1>4
  <1>7. ASSUME x < p, Cast(T, x) >= 0 PROVE Cast(T, x) = x
    BY <1>1, <1>3, <1>4, <1>6, <1>7
  <1> QED
    BY <1>5, <1>7 DEF p

\* Where a varint ends.
LEMMA VarintEndIs ==
    ASSUME NEW s \in Seq(0 .. 255), NEW n \in 1 .. Len(s), s[n] < 128,
           \A i \in 1 .. n - 1 : ~(s[i] < 128)
    PROVE  VarintEnd(s) = n
  <1> DEFINE T == {i \in 1 .. Len(s) : s[i] < 128}
  <1>1. Len(s) \in Nat /\ DOMAIN s = 1 .. Len(s)
    BY LenProperties
  <1>2. n \in T /\ T \subseteq Nat /\ \A i \in T : n <= i
    <2>1. ASSUME NEW i \in T, ~(n <= i) PROVE FALSE
      <3>1. i \in 1 .. n - 1 /\ s[i] < 128
        BY <1>1, <2>1
      <3> QED
        BY <3>1
    <2> QED
      BY <1>1, <2>1
  <1>3. VarintEnd(s) = Min(T)
    BY <1>1, <1>2 DEF VarintEnd
  <1> HIDE DEF T
  <1>4. Min(T) \in T /\ \A i \in T : Min(T) <= i
    BY <1>2, MinFacts
  <1>5. n <= Min(T) /\ Min(T) <= n /\ n \in Nat /\ Min(T) \in Nat
    BY <1>2, <1>4
  <1> QED
    BY <1>3, <1>5

\* What VarintEnd finds.
LEMMA VarintEndFacts ==
    ASSUME NEW s \in Seq(0 .. 255)
    PROVE  /\ VarintEnd(s) \in 0 .. Len(s)
           /\ VarintEnd(s) # 0 => s[VarintEnd(s)] < 128
  <1> DEFINE T == {i \in 1 .. Len(s) : s[i] < 128}
  <1>1. Len(s) \in Nat /\ DOMAIN s = 1 .. Len(s)
    BY LenProperties
  <1>2. VarintEnd(s) = IF T # {} THEN Min(T) ELSE 0
    BY <1>1 DEF VarintEnd
  <1>3. T \subseteq Nat
    BY <1>1
  <1>4. CASE T # {}
    <2>1. Min(T) \in T
      <3> HIDE DEF T
      <3> QED
        BY <1>3, <1>4, MinFacts
    <2> QED
      BY <1>1, <1>2, <1>4, <2>1
  <1>5. CASE T = {}
    BY <1>1, <1>2, <1>5
  <1> QED
    BY <1>4, <1>5

\* A bit of an octet and of the number.
LEMMA OctetBit ==
    ASSUME NEW x \in Nat, NEW v \in Nat, NEW a \in Nat, x % 128 = (v \div Pow2[a]) % 128, NEW b \in 0 .. 6
    PROVE  (x \div Pow2[b]) % 2 = (v \div Pow2[a + b]) % 2
  <1>1. Pow2[a + b] = Pow2[a] * Pow2[b] /\ Pow2[a] \in Nat \ {0} /\ Pow2[b] \in Nat \ {0}
    <2>1. b \in Nat
      OBVIOUS
    <2> QED
      BY <2>1, PowSum
  <1>2. PICK w \in Nat : w = v \div Pow2[a]
    BY <1>1, DivNat
  <1>3. (x \div Pow2[b]) % 2 = (w \div Pow2[b]) % 2
    BY <1>2, LowBit
  <1>4. w \div Pow2[b] = v \div (Pow2[a] * Pow2[b])
    BY <1>1, <1>2, DivDiv
  <1> QED
    BY <1>1, <1>3, <1>4

\* The octets of a number of a type are shifted by less than its bits.
LEMMA VarintShifts ==
    ASSUME NEW T \in IntegerTypes, NEW v \in ValuesOf(T), v >= 0
    PROVE  /\ v \in Nat /\ v < Pow2[T.bits] /\ v < Pow2[70]
           /\ \A i \in 1 .. VarintLength(v) : \A wraps : Shift(T, i - 1, wraps) = 7 * (i - 1)
  <1>1. v \in Nat /\ v < Pow2[T.bits] /\ T.bits \in {8, 16, 32, 64} /\ T.bits <= ShiftedBits(T) /\ ShiftedBits(T) \in {32, 64}
    BY TypeFacts
  <1>2. v < Pow2[70]
    <2>1. Pow2[T.bits] <= Pow2[70] /\ Pow2[T.bits] \in Nat /\ Pow2[70] \in Nat
      <3>1. T.bits \in Nat /\ 70 \in Nat /\ T.bits <= 70
        BY <1>1
      <3> QED
        BY <3>1, PowMonotone
    <2> QED
      BY <1>1, <2>1
  <1>3. PICK n \in 1 .. 10 : n = VarintLength(v) /\ \A m \in 1 .. n - 1 : v >= Pow2[7 * m]
    BY <1>1, <1>2, VarintLengthFacts
  <1>4. ASSUME NEW i \in 1 .. n, ~(7 * (i - 1) < T.bits) PROVE FALSE
    <2>1. i - 1 \in 1 .. n - 1 /\ T.bits \in Nat /\ 7 * (i - 1) \in Nat /\ T.bits <= 7 * (i - 1)
      BY <1>1, <1>3, <1>4
    <2>2. v >= Pow2[7 * (i - 1)]
      BY <1>3, <2>1
    <2>3. Pow2[T.bits] <= Pow2[7 * (i - 1)] /\ Pow2[T.bits] \in Nat /\ Pow2[7 * (i - 1)] \in Nat
      BY <2>1, PowMonotone
    <2> QED
      BY <1>1, <2>2, <2>3
  <1>5. ASSUME NEW i \in 1 .. n, NEW wraps PROVE Shift(T, i - 1, wraps) = 7 * (i - 1)
    <2>1. 7 * (i - 1) < ShiftedBits(T)
      <3>1. 7 * (i - 1) < T.bits
        BY <1>4
      <3>2. i - 1 \in Int
        OBVIOUS
      <3> QED
        BY <1>1, <3>1, <3>2
    <2> QED
      BY <2>1 DEF Shift
  <1> QED
    BY <1>1, <1>2, <1>3, <1>5

\* t is the beginning of s.
Begins(t, s) == Len(t) <= Len(s) /\ \A i \in 1 .. Len(t) : s[i] = t[i]

\* The bits in the octets of a number are those of the number.
LEMMA VarintBits ==
    ASSUME NEW T \in IntegerTypes, NEW v \in ValuesOf(T), v >= 0, NEW wraps,
           NEW s \in Seq(0 .. 255), Begins(VarintOctets(v), s), NEW k \in Nat
    PROVE  VarintBit(T, s, VarintLength(v), k, wraps) <=> (v \div Pow2[k]) % 2 = 1
  <1>1. /\ v \in Nat /\ v < Pow2[70]
        /\ \A i \in 1 .. VarintLength(v) : Shift(T, i - 1, wraps) = 7 * (i - 1)
    BY VarintShifts
  <1>2. PICK n \in 1 .. 10 : n = VarintLength(v) /\ v < Pow2[7 * n]
    BY <1>1, VarintLengthFacts
  <1>3. ASSUME NEW i \in 1 .. n, NEW b \in 0 .. 6
        PROVE  (s[i] \div Pow2[b]) % 2 = (v \div Pow2[7 * (i - 1) + b]) % 2
    <2>0. Len(VarintOctets(v)) = n /\ \A j \in 1 .. n : VarintOctets(v)[j] % 128 = (v \div Pow2[7 * (j - 1)]) % 128
      BY <1>1, <1>2, VarintOctetsFacts
    <2>1. s[i] % 128 = (v \div Pow2[7 * (i - 1)]) % 128
      <3>1. s[i] = VarintOctets(v)[i]
        BY <2>0 DEF Begins
      <3> QED
        BY <2>0, <3>1
    <2>2. s[i] \in Nat /\ 7 * (i - 1) \in Nat
      <3>1. Len(s) \in Nat /\ s \in [1 .. Len(s) -> 0 .. 255]
        BY LenProperties
      <3>2. i \in 1 .. Len(s)
        <4>1. n <= Len(s)
          BY <2>0 DEF Begins
        <4> QED
          BY <3>1, <4>1
      <3>3. s[i] \in 0 .. 255
        BY <3>1, <3>2
      <3>4. 7 * (i - 1) \in Nat
        <4>1. i \in Nat \ {0}
          OBVIOUS
        <4> QED
          BY <4>1
      <3>5. \A x \in 0 .. 255 : x \in Nat
        OBVIOUS
      <3> QED
        BY <3>3, <3>4, <3>5
    <2>3. PICK x \in Nat, a \in Nat : x = s[i] /\ a = 7 * (i - 1)
      BY <2>2
    <2>4. x % 128 = (v \div Pow2[a]) % 128
      BY <2>1, <2>3
    <2>5. (x \div Pow2[b]) % 2 = (v \div Pow2[a + b]) % 2
      BY <1>1, <2>4, OctetBit, ZenonT(30)
    <2> QED
      BY <2>3, <2>5
  <1>4. ASSUME NEW i \in 1 .. n, k - 7 * (i - 1) \in 0 .. 6, (s[i] \div Pow2[k - 7 * (i - 1)]) % 2 = 1
        PROVE  (v \div Pow2[k]) % 2 = 1
    <2>1. 7 * (i - 1) + (k - 7 * (i - 1)) = k
      OBVIOUS
    <2> QED
      BY <1>3, <1>4, <2>1
  <1>5. ASSUME (v \div Pow2[k]) % 2 = 1
        PROVE  \E i \in 1 .. n : k - 7 * (i - 1) \in 0 .. 6 /\ (s[i] \div Pow2[k - 7 * (i - 1)]) % 2 = 1
    <2> DEFINE i == (k \div 7) + 1
    <2>1. k < 7 * n
      <3>1. ASSUME 7 * n <= k PROVE FALSE
        <4>1. 7 * n \in Nat
          OBVIOUS
        <4>2. Pow2[7 * n] <= Pow2[k] /\ Pow2[7 * n] \in Nat /\ Pow2[k] \in Nat \ {0}
          BY <4>1, <3>1, PowMonotone
        <4>3. v < Pow2[k]
          BY <1>1, <1>2, <4>2
        <4>4. v \div Pow2[k] = 0
          BY <1>1, <4>2, <4>3, DivSmall
        <4>5. (v \div Pow2[k]) % 2 = 0
          BY <4>4
        <4> QED
          BY <1>5, <4>5
      <3> QED
        BY <3>1
    <2>2. i \in 1 .. n /\ k - 7 * (i - 1) \in 0 .. 6 /\ 7 * (i - 1) + (k - 7 * (i - 1)) = k
      BY <2>1
    <2> HIDE DEF i
    <2>3. (s[i] \div Pow2[k - 7 * (i - 1)]) % 2 = (v \div Pow2[k]) % 2
      <3>1. PICK b \in 0 .. 6 : b = k - 7 * (i - 1)
        BY <2>2
      <3>2. (s[i] \div Pow2[b]) % 2 = (v \div Pow2[7 * (i - 1) + b]) % 2
        BY <1>3, <2>2
      <3> QED
        BY <2>2, <3>1, <3>2
    <2> QED
      BY <2>2, <2>3, <1>5
  <1>6. VarintBit(T, s, n, k, wraps)
            <=> \E i \in 1 .. n : k - 7 * (i - 1) \in 0 .. 6 /\ (s[i] \div Pow2[k - 7 * (i - 1)]) % 2 = 1
    BY <1>1, <1>2 DEF VarintBit
  <1> QED
    BY <1>2, <1>4, <1>5, <1>6

\* What decoding ends with, its fault by name: apart from the numbers beside it.
Faults == {"", "overflow", "invalid_value", "unknown_tag"}
Faultless(r) == r.fault = ""
Faulty(r) == r.fault \in Faults

\* A value has used the octets it was read from.
LEMMA GoodParts ==
    ASSUME NEW used, NEW v, NEW r, r = Good(used, v)
    PROVE  Faultless(r) /\ Faulty(r) /\ r.used = used /\ r.value = v
  <1>1. r.fault = ""
    BY DEF Good
  <1>2. r.used = used /\ r.value = v
    BY DEF Good
  <1>3. Faultless(r) /\ Faulty(r)
    BY <1>1 DEF Faultless, Faulty, Faults
  <1> QED
    BY <1>2, <1>3

\* An exception has used nothing.
LEMMA BadParts ==
    ASSUME NEW fault \in Faults \ {""}, NEW r, r = Bad(fault)
    PROVE  ~Faultless(r) /\ Faulty(r) /\ r.used = 0 /\ r.value = 0
  <1>1. r.fault = fault
    BY DEF Bad
  <1>2. r.used = 0 /\ r.value = 0
    BY DEF Bad
  <1>3. ~Faultless(r) /\ Faulty(r)
    BY <1>1 DEF Faultless, Faulty, Faults
  <1> QED
    BY <1>2, <1>3

\* The value that is put together bit by bit.
VarintSum(T, s, n, wraps, f) ==
    /\ f \in [0 .. T.bits -> Nat] /\ VarintValue(T, s, n, wraps) = Cast(T, f[T.bits]) /\ f[0] = 0
    /\ \A k \in 1 .. T.bits :
          f[k] = f[k - 1] + (IF VarintBit(T, s, n, k - 1, wraps) THEN Pow2[k - 1] ELSE 0)

\* The value of a varint, bit by bit.
LEMMA VarintValueIs ==
    ASSUME NEW T \in IntegerTypes, NEW s, NEW n, NEW wraps
    PROVE  \E f : VarintSum(T, s, n, wraps, f)
  <1> DEFINE m == T.bits
             w(k) == IF VarintBit(T, s, n, k - 1, wraps) THEN Pow2[k - 1] ELSE 0
             Bitwise(f) == f = [k \in 0 .. m |-> IF k = 0 THEN 0 ELSE f[k - 1] + w(k)]
             upto == CHOOSE f : Bitwise(f)
             G == [p \in (1 .. m) \X Nat |-> p[2] + w(p[1])]
  <1>1. m \in Nat
    BY TypeFacts
  <1>2. VarintValue(T, s, n, wraps) = Cast(T, upto[m])
    BY DEF VarintValue
  <1>3. ASSUME NEW k \in 1 .. m PROVE w(k) \in Nat
    <2>1. k - 1 \in Nat
      BY <1>1
    <2>2. Pow2[k - 1] \in Nat
      BY <2>1, PowFacts
    <2> QED
      BY <2>2
  <1> HIDE DEF w, m
  <1>4. G \in [(1 .. m) \X Nat -> Nat] /\ \A k \in 1 .. m, x \in Nat : G[<<k, x>>] = x + w(k)
    <2>1. ASSUME NEW p \in (1 .. m) \X Nat PROVE p[2] + w(p[1]) \in Nat
      BY <1>3
    <2> QED
      BY <2>1
  <1> HIDE DEF G
  <1>5. PICK f \in [0 .. m -> Nat] : Rounds(m, 0, G, f)
    <2>1. 0 \in Nat
      OBVIOUS
    <2> QED
      BY <1>1, <1>4, <2>1, RoundsExist
  <1>6. f[0] = 0 /\ \A k \in 1 .. m : f[k] = f[k - 1] + w(k)
    <2>1. f[0] = 0 /\ \A k \in 1 .. m : f[k] = G[<<k, f[k - 1]>>]
      BY <1>5 DEF Rounds
    <2>2. \A k \in 1 .. m : f[k - 1] \in Nat
      BY <1>1, <1>5
    <2> QED
      BY <1>4, <2>1, <2>2
  <1>7. Bitwise(f)
    <2>1. f = [k \in 0 .. m |-> f[k]]
      BY <1>5
    <2>2. \A k \in 0 .. m : f[k] = IF k = 0 THEN 0 ELSE f[k - 1] + w(k)
      <3> SUFFICES ASSUME NEW k \in 0 .. m, k # 0 PROVE f[k] = f[k - 1] + w(k)
        BY <1>6
      <3>1. k \in 1 .. m
        BY <1>1
      <3> QED
        BY <1>6, <3>1
    <2>3. [k \in 0 .. m |-> f[k]] = [k \in 0 .. m |-> IF k = 0 THEN 0 ELSE f[k - 1] + w(k)]
      BY <2>2
    <2> QED
      BY <2>1, <2>3
  <1>8. Bitwise(upto)
    <2> HIDE DEF Bitwise
    <2> QED
      BY <1>7
  <1> HIDE DEF upto
  <1>9. \A k \in 0 .. m : upto[k] = IF k = 0 THEN 0 ELSE upto[k - 1] + w(k)
    BY <1>8
  <1>10. upto[0] = 0 /\ \A k \in 1 .. m : upto[k] = upto[k - 1] + w(k)
    <2>1. 0 \in 0 .. m
      BY <1>1
    <2>2. \A k \in 1 .. m : k \in 0 .. m /\ k # 0
      BY <1>1
    <2> QED
      BY <1>9, <2>1, <2>2
  <1>11. upto = f
    <2>1. Rounds(m, 0, G, upto)
      <3>1. \A k \in 0 .. m : upto[k] \in Nat
        <4> DEFINE U == {k \in 0 .. m : upto[k] \notin Nat}
        <4>1. ASSUME U # {} PROVE FALSE
          <5>1. U \subseteq Nat
            BY <1>1
          <5> HIDE DEF U
          <5>2. PICK k \in U : \A j \in U : k <= j
            BY <4>1, <5>1, LeastElement
          <5> USE DEF U
          <5>3. k \in 0 .. m /\ upto[k] \notin Nat
            BY <5>2
          <5>4. k # 0
            BY <5>3, <1>10
          <5>5. k \in 1 .. m /\ k - 1 \in 0 .. m /\ ~(k <= k - 1)
            BY <1>1, <5>3, <5>4
          <5>6. upto[k - 1] \in Nat
            BY <5>2, <5>5
          <5> QED
            BY <1>3, <1>10, <5>3, <5>5, <5>6
        <4> QED
          BY <4>1
      <3>2. \A k \in 1 .. m : upto[k - 1] \in Nat /\ upto[k] = upto[k - 1] + w(k)
        BY <1>1, <1>10, <3>1
      <3>3. \A k \in 1 .. m : upto[k] = G[<<k, upto[k - 1]>>]
        BY <1>4, <3>2
      <3> QED
        BY <1>10, <3>3 DEF Rounds
    <2>2. \A k \in 0 .. m : upto[k] = f[k]
      BY <1>1, <1>5, <2>1, RoundsUnique
    <2>3. upto = [k \in 0 .. m |-> upto[k]]
      BY <1>8
    <2> QED
      BY <1>5, <2>2, <2>3
  <1> QED
    BY <1>2, <1>5, <1>6, <1>11 DEF w, m, VarintSum

\* What is decoded of the octets of a number that is not negative is the number,
\* whatever follows and whatever the machine does with shifts that are too large: of
\* any type of C++.
LEMMA VarintComesBack ==
    ASSUME NEW T \in IntegerTypes, NEW v \in ValuesOf(T), v >= 0, NEW wraps,
           NEW s \in Seq(0 .. 255), Begins(VarintOctets(v), s)
    PROVE  VarintDecoded(T, s, wraps) = Good(VarintLength(v), v)
  <1>1. v \in Nat /\ v < Pow2[70] /\ v < Pow2[T.bits] /\ T.bits \in Nat
    BY VarintShifts, TypeFacts
  <1>2. PICK n \in 1 .. 10 : n = VarintLength(v)
    BY <1>1, VarintLengthFacts
  <1>3. Len(VarintOctets(v)) = n /\ \A i \in 1 .. n : VarintOctets(v)[i] < 128 <=> i = n
    BY <1>1, <1>2, VarintOctetsFacts
  <1>4. VarintEnd(s) = n
    <2>1. n \in 1 .. Len(s) /\ \A i \in 1 .. n : s[i] = VarintOctets(v)[i]
      <3>1. Len(s) \in Nat
        BY LenProperties
      <3>2. n <= Len(s)
        BY <1>3 DEF Begins
      <3>3. \A i \in 1 .. n : s[i] = VarintOctets(v)[i]
        BY <1>3 DEF Begins
      <3> QED
        BY <3>1, <3>2, <3>3
    <2>2. s[n] < 128 /\ \A i \in 1 .. n - 1 : ~(s[i] < 128)
      <3>1. s[n] < 128
        BY <1>3, <2>1
      <3>2. ASSUME NEW i \in 1 .. n - 1 PROVE ~(s[i] < 128)
        <4>1. i \in 1 .. n /\ i # n
          OBVIOUS
        <4> QED
          BY <1>3, <2>1, <4>1
      <3> QED
        BY <3>1, <3>2
    <2> QED
      BY <2>1, <2>2, VarintEndIs
  <1>5. VarintValue(T, s, n, wraps) = v
    <2>0. PICK f : VarintSum(T, s, n, wraps, f)
      BY VarintValueIs
    <2>1. /\ f \in [0 .. T.bits -> Nat] /\ VarintValue(T, s, n, wraps) = Cast(T, f[T.bits]) /\ f[0] = 0
          /\ \A k \in 1 .. T.bits :
                f[k] = f[k - 1] + (IF VarintBit(T, s, n, k - 1, wraps) THEN Pow2[k - 1] ELSE 0)
      BY <2>0 DEF VarintSum
    <2>2. \A k \in 1 .. T.bits : VarintBit(T, s, n, k - 1, wraps) <=> (v \div Pow2[k - 1]) % 2 = 1
      <3> SUFFICES ASSUME NEW k \in 1 .. T.bits
                   PROVE  VarintBit(T, s, n, k - 1, wraps) <=> (v \div Pow2[k - 1]) % 2 = 1
        OBVIOUS
      <3>1. PICK j \in Nat : j = k - 1
        BY <1>1
      <3>2. VarintBit(T, s, n, j, wraps) <=> (v \div Pow2[j]) % 2 = 1
        BY <1>2, VarintBits
      <3> QED
        BY <3>1, <3>2
    <2>3. \A k \in 1 .. T.bits : f[k] = f[k - 1] + (IF (v \div Pow2[k - 1]) % 2 = 1 THEN Pow2[k - 1] ELSE 0)
      BY <2>1, <2>2
    <2>4. f[T.bits] = v
      <3>1. PICK m \in Nat : m = T.bits
        BY <1>1
      <3>2. \A k \in 1 .. m : f[k] = f[k - 1] + (IF (v \div Pow2[k - 1]) % 2 = 1 THEN Pow2[k - 1] ELSE 0)
        BY <2>3, <3>1
      <3>3. f[0] = 0 /\ v < Pow2[m]
        BY <1>1, <2>1, <3>1
      <3>4. f[m] = v
        BY <1>1, <3>2, <3>3, SumOfBits
      <3> QED
        BY <3>1, <3>4
    <2> QED
      BY <2>1, <2>4, CastValue
  <1> QED
    BY <1>2, <1>4, <1>5 DEF VarintDecoded, MaxVarintBytes

\* What is decoded of anything: a value of the type, from octets that are there, and
\* a number that is not negative from no fewer octets than it is written in.
LEMMA VarintAccepted ==
    ASSUME NEW T \in IntegerTypes, NEW wraps, NEW s \in Seq(0 .. 255)
    PROVE  LET end == VarintDecoded(T, s, wraps)
           IN /\ Faulty(end) /\ end.used \in 0 .. Len(s)
              /\ Faultless(end) => /\ end.value \in ValuesOf(T)
                                   /\ end.value >= 0 => VarintLength(end.value) <= end.used
  <1>1. PICK n \in Nat : n = VarintEnd(s) /\ n <= Len(s)
    <2>1. VarintEnd(s) \in 0 .. Len(s)
      BY VarintEndFacts
    <2> QED
      BY <2>1
  <1>0. Len(s) \in Nat
    BY LenProperties
  <1>2. Len(s) \in Nat /\ T.bits \in {8, 16, 32, 64} /\ T.bits \in Nat /\ T.bits <= ShiftedBits(T)
    BY <1>0, TypeFacts
  <1>3. CASE ~(n \in 1 .. 10)
    <2> DEFINE x == IF Len(s) < MaxVarintBytes THEN "overflow" ELSE "invalid_value"
    <2>0. x \in Faults \ {""}
      BY DEF Faults
    <2>1. PICK r : r = VarintDecoded(T, s, wraps) /\ r = Bad(x)
      <3>1. ~(VarintEnd(s) \in 1 .. MaxVarintBytes)
        BY <1>1, <1>3 DEF MaxVarintBytes
      <3> QED
        BY <3>1 DEF VarintDecoded
    <2> HIDE DEF x
    <2>2. ~Faultless(r) /\ Faulty(r) /\ r.used = 0
      BY <2>0, <2>1, BadParts
    <2>3. 0 \in 0 .. Len(s)
      <3>1. \A l \in Nat : 0 \in 0 .. l
        OBVIOUS
      <3> QED
        BY <1>0, <3>1
    <2> QED
      BY <2>1, <2>2, <2>3
  <1>4. CASE n \in 1 .. 10
    <2>0. PICK f : VarintSum(T, s, n, wraps, f)
      BY VarintValueIs
    <2>1. /\ f \in [0 .. T.bits -> Nat] /\ VarintValue(T, s, n, wraps) = Cast(T, f[T.bits]) /\ f[0] = 0
          /\ \A k \in 1 .. T.bits :
                f[k] = f[k - 1] + (IF VarintBit(T, s, n, k - 1, wraps) THEN Pow2[k - 1] ELSE 0)
      BY <2>0 DEF VarintSum
    <2> DEFINE Step(k) == \/ f[k] = f[k - 1]
                          \/ k <= 7 * n /\ f[k] = f[k - 1] + Pow2[k - 1]
    <2>2. ASSUME NEW k \in 1 .. T.bits, VarintBit(T, s, n, k - 1, wraps) PROVE k <= 7 * n
      <3>1. PICK i \in 1 .. n : k - 1 - Shift(T, i - 1, wraps) \in 0 .. 6
        BY <2>2 DEF VarintBit
      <3>2. CASE 7 * (i - 1) < ShiftedBits(T)
        <4>1. Shift(T, i - 1, wraps) = 7 * (i - 1)
          BY <3>2 DEF Shift
        <4> QED
          BY <1>2, <1>4, <3>1, <4>1
      <3>3. CASE ~(7 * (i - 1) < ShiftedBits(T))
        <4>1. i \in 1 .. n /\ ShiftedBits(T) \in {32, 64}
          BY TypeFacts
        <4>2. k <= T.bits /\ k \in Nat /\ ShiftedBits(T) <= 7 * (i - 1)
          BY <1>2, <3>3, <4>1
        <4> QED
          BY <1>2, <1>4, <4>1, <4>2
      <3> QED
        BY <3>2, <3>3
    <2>3. \A k \in 1 .. T.bits : Step(k)
      <3> SUFFICES ASSUME NEW k \in 1 .. T.bits
                   PROVE  Step(k)
        OBVIOUS
      <3>1. CASE VarintBit(T, s, n, k - 1, wraps)
        BY <2>1, <2>2, <3>1
      <3>2. CASE ~VarintBit(T, s, n, k - 1, wraps)
        <4>1. f[k] = f[k - 1] + 0
          BY <2>1, <3>2
        <4>2. k - 1 \in 0 .. T.bits
          BY <1>2
        <4>3. f[k - 1] \in Nat
          BY <2>1, <4>2
        <4> QED
          BY <4>1, <4>3
      <3> QED
        BY <3>1, <3>2
    <2>4. PICK m \in Nat, l \in Nat : m = T.bits /\ l = 7 * n
      BY <1>2, <1>4
    <2>x. PICK x : x = f[m]
      OBVIOUS
    <2>5. x \in Nat /\ x < Pow2[m] /\ x < Pow2[l]
      <3>1. \A k \in 1 .. m : \/ f[k] = f[k - 1]
                              \/ k <= l /\ f[k] = f[k - 1] + Pow2[k - 1]
        BY <2>3, <2>4
      <3>2. f[0] = 0
        BY <2>1
      <3>3. f[m] \in Nat /\ f[m] < Pow2[m] /\ f[m] < Pow2[l]
        BY <3>1, <3>2, BitsBelow
      <3> QED
        BY <2>x, <3>3
    <2>6. VarintDecoded(T, s, wraps) = Good(n, Cast(T, x))
      BY <1>1, <1>4, <2>1, <2>4, <2>x DEF VarintDecoded, MaxVarintBytes
    <2>7. Cast(T, x) \in ValuesOf(T) /\ (Cast(T, x) >= 0 => Cast(T, x) = x)
      BY <2>4, <2>x, <2>5, CastFacts
    <2>8. ASSUME Cast(T, x) >= 0 PROVE VarintLength(Cast(T, x)) <= n
      <3>1. PICK v \in Nat : v = Cast(T, x) /\ v = x /\ v \in ValuesOf(T)
        BY <2>5, <2>7, <2>8
      <3>2. v < Pow2[70]
        BY <3>1, VarintShifts
      <3>3. /\ VarintLength(v) \in 1 .. 10 /\ \A i \in 1 .. VarintLength(v) - 1 : v >= Pow2[7 * i]
        BY <3>2, VarintLengthFacts
      <3>4. ASSUME n < VarintLength(v) PROVE FALSE
        <4>1. n \in 1 .. VarintLength(v) - 1
          BY <1>4, <3>3, <3>4
        <4>2. v >= Pow2[l]
          BY <2>4, <3>3, <4>1
        <4>3. Pow2[l] \in Nat
          BY PowFacts
        <4> QED
          BY <2>5, <3>1, <4>2, <4>3
      <3>5. VarintLength(v) \in Nat
        BY <3>3
      <3> QED
        BY <3>1, <3>4, <3>5
    <2>90. PICK r : r = VarintDecoded(T, s, wraps)
      OBVIOUS
    <2>92. r = Good(n, Cast(T, x))
      BY <2>6, <2>90
    <2>9. Faulty(r) /\ r.used = n /\ r.value = Cast(T, x)
      BY <2>92, GoodParts
    <2>10. r.used \in 0 .. Len(s)
      BY <1>0, <1>1, <2>9
    <2>11. r.value \in ValuesOf(T) /\ (r.value >= 0 => VarintLength(r.value) <= r.used)
      BY <2>7, <2>8, <2>9
    <2> QED
      BY <2>90, <2>9, <2>10, <2>11
  <1> QED
    BY <1>3, <1>4

-----------------------------------------------------------------------------
(* Integers in BER.                                                        *)

\* A number lies between two powers of two.
LEMMA DigitsFacts ==
    ASSUME NEW n \in Nat \ {0}, n < Pow2[64]
    PROVE  LET d == Digits(n) IN d \in 1 .. 64 /\ n < Pow2[d] /\ Pow2[d - 1] <= n
  <1> DEFINE T == {d \in 1 .. 64 : n < Pow2[d]}
             Fits(d) == n < Pow2[d] /\ Pow2[d - 1] <= n
  <1>1. 64 \in T /\ T \subseteq Nat
    OBVIOUS
  <1>2. PICK d \in T : \A c \in T : d <= c
    <2> HIDE DEF T
    <2> QED
      BY <1>1, LeastElement
  <1>3. d \in 1 .. 64 /\ Fits(d)
    <2>1. d \in 1 .. 64 /\ n < Pow2[d]
      BY <1>2
    <2>2. CASE d = 1
      <3>1. Pow2[d - 1] = 1
        BY <2>2, PowFacts
      <3> QED
        BY <2>1, <3>1
    <2>3. CASE d # 1
      <3>1. d - 1 \in 1 .. 64 /\ ~(d <= d - 1) /\ d - 1 \in Nat
        BY <2>1, <2>3
      <3>2. d - 1 \notin T
        BY <1>2, <3>1
      <3>3. Pow2[d - 1] \in Nat
        BY <3>1, PowFacts
      <3> QED
        BY <2>1, <3>1, <3>2, <3>3
    <2> QED
      BY <2>2, <2>3
  <1>4. Digits(n) = CHOOSE c \in 1 .. 64 : Fits(c)
    BY DEF Digits
  <1> HIDE DEF Fits
  <1>5. Digits(n) \in 1 .. 64 /\ Fits(Digits(n))
    BY <1>3, <1>4
  <1> QED
    BY <1>5 DEF Fits

\* Digits and a power that is greater.
LEMMA DigitsWithin ==
    ASSUME NEW n \in Nat \ {0}, n < Pow2[64], NEW m \in Nat, n < Pow2[m]
    PROVE  Digits(n) \in 1 .. 64 /\ Digits(n) <= m
  <1>1. PICK d \in 1 .. 64 : d = Digits(n) /\ Pow2[d - 1] <= n
    BY DigitsFacts
  <1>2. ASSUME m <= d - 1 PROVE FALSE
    <2>1. d - 1 \in Nat
      OBVIOUS
    <2>2. Pow2[m] <= Pow2[d - 1] /\ Pow2[m] \in Nat /\ Pow2[d - 1] \in Nat
      BY <1>2, <2>1, PowMonotone
    <2> QED
      BY <1>1, <2>2
  <1> QED
    BY <1>1, <1>2

\* What n octets hold of a type.
Holds(T, n, x) ==
    IF T.signed THEN -Pow2[8 * n - 1] <= x /\ x < Pow2[8 * n - 1]
    ELSE 0 <= x /\ x < Pow2[8 * n]

\* A number without its sign: the digits in front of the sign.
Magnitude(T, x) == IF T.signed /\ x < 0 THEN -1 - x ELSE x
SignBit(T) == IF T.signed THEN 1 ELSE 0

\* A number of a signed type fits as many octets as its digits and the sign do.
LEMMA MagnitudeFacts ==
    ASSUME NEW T \in IntegerTypes, NEW x \in ValuesOf(T)
    PROVE  /\ x \in Int /\ Magnitude(T, x) \in Nat /\ Magnitude(T, x) < Pow2[T.bits - SignBit(T)]
           /\ SignBit(T) \in {0, 1} /\ T.bits \in {8, 16, 32, 64}
           /\ Magnitude(T, x) < Pow2[64]
           /\ \A n \in Nat \ {0} : Holds(T, n, x) <=> Magnitude(T, x) < Pow2[8 * n - SignBit(T)]
  <1>1. /\ T.bits \in {8, 16, 32, 64} /\ T.signed \in BOOLEAN /\ x \in Int
        /\ Pow2[T.bits] \in Nat \ {0} /\ Pow2[T.bits - 1] \in Nat \ {0}
    BY TypeFacts
  <1>2. x \in IF T.signed THEN -Pow2[T.bits - 1] .. Pow2[T.bits - 1] - 1 ELSE 0 .. Pow2[T.bits] - 1
    BY DEF ValuesOf
  <1>3. Magnitude(T, x) \in Nat /\ Magnitude(T, x) < Pow2[T.bits - SignBit(T)] /\ SignBit(T) \in {0, 1}
    <2>1. CASE T.signed
      <3>1. SignBit(T) = 1 /\ x \in -Pow2[T.bits - 1] .. Pow2[T.bits - 1] - 1 /\ Magnitude(T, x) = IF x < 0 THEN -1 - x ELSE x
        BY <1>2, <2>1 DEF SignBit, Magnitude
      <3> QED
        BY <1>1, <3>1
    <2>2. CASE ~T.signed
      <3>1. SignBit(T) = 0 /\ x \in 0 .. Pow2[T.bits] - 1 /\ Magnitude(T, x) = x
        BY <1>2, <2>2 DEF SignBit, Magnitude
      <3>2. T.bits - 0 = T.bits
        BY <1>1
      <3> QED
        BY <1>1, <3>1, <3>2
    <2> QED
      BY <2>1, <2>2
  <1>4. Magnitude(T, x) < Pow2[64]
    <2>1. T.bits - SignBit(T) \in Nat /\ 64 \in Nat /\ T.bits - SignBit(T) <= 64
      BY <1>1, <1>3
    <2>2. PICK m \in Nat : m = T.bits - SignBit(T) /\ m <= 64
      BY <2>1
    <2>3. Pow2[m] <= Pow2[64] /\ Pow2[m] \in Nat /\ Pow2[64] \in Nat
      BY <2>1, <2>2, PowMonotone
    <2> QED
      BY <1>3, <2>2, <2>3
  <1>5. ASSUME NEW n \in Nat \ {0} PROVE Holds(T, n, x) <=> Magnitude(T, x) < Pow2[8 * n - SignBit(T)]
    <2>1. 8 * n \in Nat /\ 8 * n - 1 \in Nat /\ 8 * n - 0 = 8 * n
      OBVIOUS
    <2>2. PICK p \in Nat, q \in Nat : p = Pow2[8 * n] /\ q = Pow2[8 * n - 1]
      BY <2>1, PowFacts
    <2>3. CASE T.signed
      <3>1. SignBit(T) = 1 /\ Magnitude(T, x) = IF x < 0 THEN -1 - x ELSE x
        BY <2>3 DEF SignBit, Magnitude
      <3>2. Holds(T, n, x) <=> -q <= x /\ x < q
        BY <2>2, <2>3 DEF Holds
      <3> QED
        BY <1>1, <2>2, <3>1, <3>2
    <2>4. CASE ~T.signed
      <3>1. SignBit(T) = 0 /\ Magnitude(T, x) = x
        BY <2>4 DEF SignBit, Magnitude
      <3>2. Holds(T, n, x) <=> 0 <= x /\ x < p
        BY <2>2, <2>4 DEF Holds
      <3> QED
        BY <1>3, <2>1, <2>2, <3>1, <3>2
    <2> QED
      BY <2>3, <2>4
  <1> QED
    BY <1>1, <1>3, <1>4, <1>5

\* An integer is written in octets that hold it, no more than its type has and as few
\* as hold it: where __builtin_clz(0) is what the branch for clang makes of it, or
\* leaves -1 in one octet at least.
LEMMA BytesFacts ==
    ASSUME Clz0 \in 25 .. 32, NEW T \in IntegerTypes, NEW x \in ValuesOf(T)
    PROVE  LET n == Bytes(T, x)
           IN n \in 1 .. 8 /\ 8 * n <= T.bits /\ Holds(T, n, x) /\ \A m \in Nat \ {0} : Holds(T, m, x) => n <= m
  <1> DEFINE y == Magnitude(T, x)
             g == SignBit(T)
  <1>1. /\ x \in Int /\ y \in Nat /\ y < Pow2[T.bits - g] /\ g \in {0, 1} /\ T.bits \in {8, 16, 32, 64} /\ y < Pow2[64]
        /\ \A n \in Nat \ {0} : Holds(T, n, x) <=> y < Pow2[8 * n - g]
    BY MagnitudeFacts
  <1>2. PICK n : n = Bytes(T, x)
    OBVIOUS
  <1>3. CASE y = 0
    <2>1. n = 1
      <3>1. CASE x = 0
        BY <1>2, <3>1 DEF Bytes
      <3>2. CASE x # 0
        <4>1. T.signed /\ x = -1
          BY <1>1, <1>3, <3>2 DEF Magnitude
        <4>2. CalcLeastBits(T, x) = 33 - Clz0
          <5>1. CalcLeastBits(T, x) = (Digits(-1 - x) + 1) % 256
            BY <4>1 DEF CalcLeastBits
          <5>2. -1 - x = 0
            BY <4>1
          <5>3. Digits(0) = 32 - Clz0
            BY DEF Digits
          <5>4. (32 - Clz0 + 1) % 256 = 33 - Clz0
            OBVIOUS
          <5> QED
            BY <5>1, <5>2, <5>3, <5>4
        <4> QED
          BY <1>2, <3>2, <4>2 DEF Bytes, BytesOf
      <3> QED
        BY <3>1, <3>2
    <2>2. Holds(T, 1, x)
      <3>1. 8 * 1 - g \in Nat /\ 1 \in Nat \ {0}
        BY <1>1
      <3>2. Pow2[8 * 1 - g] \in Nat \ {0}
        BY <3>1, PowFacts
      <3> QED
        BY <1>1, <1>3, <3>1, <3>2
    <2> QED
      BY <1>1, <1>2, <2>1, <2>2
  <1>4. CASE y # 0
    <2>1. y \in Nat \ {0} /\ y < Pow2[64]
      BY <1>1, <1>4
    <2>2. PICK d \in 1 .. 64 : d = Digits(y) /\ y < Pow2[d]
      BY <2>1, DigitsFacts
    <2>3. x # 0 /\ CalcLeastBits(T, x) = d + g
      <3>1. CASE T.signed
        <4>1. y = IF x >= 0 THEN x ELSE -1 - x
          BY <1>1, <3>1 DEF Magnitude
        <4>2. g = 1 /\ x # 0
          BY <1>1, <1>4, <3>1, <4>1 DEF SignBit
        <4>3. CalcLeastBits(T, x) = (d + 1) % 256
          BY <2>2, <3>1, <4>1 DEF CalcLeastBits
        <4>4. (d + 1) % 256 = d + 1
          OBVIOUS
        <4> QED
          BY <4>2, <4>3, <4>4
      <3>2. CASE ~T.signed
        <4>1. y = x /\ g = 0 /\ x # 0
          BY <1>4, <3>2 DEF Magnitude, SignBit
        <4>2. CalcLeastBits(T, x) = d % 256
          BY <2>2, <3>2, <4>1 DEF CalcLeastBits
        <4>3. d % 256 = d /\ d + 0 = d
          OBVIOUS
        <4> QED
          BY <4>1, <4>2, <4>3
      <3> QED
        BY <3>1, <3>2
    <2>4. n = (d + g + 7) \div 8
      BY <1>2, <2>3 DEF Bytes, BytesOf
    <2>5. n \in 1 .. 9 /\ d + g <= 8 * n /\ 8 * (n - 1) < d + g
      <3>1. d + g \in 1 .. 65
        BY <1>1
      <3> QED
        BY <2>4, <3>1
    <2>0. g \in {0, 1}
      BY <1>1
    <2> HIDE DEF y, g
    <2>6. ASSUME NEW m \in Nat \ {0}, y < Pow2[8 * m - g] PROVE n <= m
      <3>0. 8 * m - g \in Nat
        BY <2>0
      <3>1. PICK j \in Nat : j = 8 * m - g
        BY <3>0
      <3>2. d <= j
        <4>1. y < Pow2[j]
          BY <2>6, <3>1
        <4> QED
          BY <2>1, <2>2, <4>1, DigitsWithin
      <3> QED
        BY <1>1, <2>5, <3>1, <3>2
    <2>7. PICK m \in 1 .. 8 : T.bits = 8 * m
      <3>1. 8 = 8 * 1 /\ 16 = 8 * 2 /\ 32 = 8 * 4 /\ 64 = 8 * 8
        OBVIOUS
      <3> QED
        BY <1>1, <3>1
    <2>8. n <= m
      BY <1>1, <2>6, <2>7
    <2>9. y < Pow2[8 * n - g]
      <3>0. 8 * n - g \in Nat /\ d <= 8 * n - g
        BY <2>0, <2>5
      <3>1. PICK j \in Nat : j = 8 * n - g /\ d <= j
        BY <3>0
      <3>2. Pow2[d] <= Pow2[j] /\ Pow2[d] \in Nat /\ Pow2[j] \in Nat
        <4>1. d \in Nat
          OBVIOUS
        <4> QED
          BY <3>1, <4>1, PowMonotone
      <3> QED
        BY <1>1, <2>2, <3>1, <3>2
    <2>10. n \in Nat \ {0} /\ n \in 1 .. 8 /\ 8 * n <= T.bits
      BY <2>5, <2>7, <2>8
    <2>11. Holds(T, n, x) /\ \A j \in Nat \ {0} : Holds(T, j, x) => n <= j
      BY <1>1, <2>6, <2>9, <2>10
    <2> QED
      BY <1>2, <2>10, <2>11
  <1> QED
    BY <1>3, <1>4

\* The octets of a negative number are those of the number it is modulo a power.
LEMMA PutBytesMod ==
    ASSUME NEW n \in Nat, NEW x \in Int, NEW y \in Nat, y < Pow2[8 * n], NEW q \in Int, x = q * Pow2[8 * n] + y
    PROVE  PutBytes(n, x) = PutBytes(n, y)
  <1>1. ASSUME NEW k \in 1 .. n
        PROVE  (x \div Pow2[8 * (n - k)]) % 256 = (y \div Pow2[8 * (n - k)]) % 256
    <2>1. 8 * (n - k) \in Nat /\ 8 * (k - 1) \in Nat /\ 8 * n = 8 * (n - k) + (8 * (k - 1) + 8)
      OBVIOUS
    <2>2. PICK i \in Nat, j \in Nat : i = 8 * (n - k) /\ j = 8 * (k - 1) /\ 8 * n = i + (j + 8)
      BY <2>1
    <2>3. Pow2[i + (j + 8)] = Pow2[i] * Pow2[j + 8] /\ Pow2[i] \in Nat \ {0}
      <3>1. j + 8 \in Nat
        OBVIOUS
      <3> QED
        BY <3>1, PowSum
    <2>4. Pow2[j + 8] = Pow2[j] * 256 /\ Pow2[j] \in Nat \ {0}
      <3>1. 8 \in Nat
        OBVIOUS
      <3>2. Pow2[j + 8] = Pow2[j] * Pow2[8] /\ Pow2[j] \in Nat \ {0}
        BY <3>1, PowSum
      <3> QED
        BY <3>2, PowValues
    <2>5. PICK p \in Nat \ {0}, c \in Nat \ {0} : p = Pow2[i] /\ c = Pow2[j] /\ Pow2[8 * n] = p * (c * 256)
      BY <2>2, <2>3, <2>4
    <2>6. PICK e \in Int : e = q * c
      OBVIOUS
    <2>7. q * Pow2[8 * n] = (e * 256) * p
      <3>1. q * (p * (c * 256)) = ((q * c) * 256) * p
        OBVIOUS
      <3> QED
        BY <2>5, <2>6, <3>1
    <2>8. PICK z \in Nat, r \in Nat : z = y \div p /\ r = y % p /\ r < p /\ y = z * p + r
      <3>1. y \div p \in Nat /\ y % p \in 0 .. p - 1 /\ y = p * (y \div p) + (y % p)
        BY DivNat
      <3>2. y % p \in Nat /\ y % p < p /\ y = (y \div p) * p + (y % p)
        BY <3>1
      <3> QED
        BY <3>1, <3>2
    <2>9. x = (e * 256 + z) * p + r /\ e * 256 + z \in Int
      <3>1. x = (e * 256) * p + (z * p + r)
        BY <2>7, <2>8
      <3>2. (e * 256) * p + (z * p + r) = (e * 256 + z) * p + r
        <4>1. PICK a \in Int : a = e * 256
          OBVIOUS
        <4>2. a * p + (z * p + r) = (a + z) * p + r
          OBVIOUS
        <4> QED
          BY <4>1, <4>2
      <3> QED
        BY <3>1, <3>2
    <2>10. x \div p = e * 256 + z
      <3>1. 0 <= r /\ r \in Int /\ r < p
        BY <2>8
      <3>2. PICK w \in Int : w = e * 256 + z
        BY <2>9
      <3>3. (w * p + r) \div p = w
        BY <3>1, DivUnique
      <3> QED
        BY <2>9, <3>2, <3>3
    <2>11. (e * 256 + z) % 256 = z % 256
      OBVIOUS
    <2> QED
      BY <2>2, <2>5, <2>8, <2>10, <2>11
  <1> QED
    BY <1>1 DEF PutBytes

\* The type of as many octets.
LEMMA SignedFacts ==
    ASSUME NEW n \in 1 .. 8, NEW y \in Nat, y < Pow2[8 * n]
    PROVE  LET p == Pow2[8 * n]
               h == Pow2[8 * n - 1]
           IN /\ p \in Nat \ {0} /\ h \in Nat \ {0} /\ p = 2 * h
              /\ Cast(Signed(8 * n), y) = IF y < h THEN y ELSE y - p
  <1>1. 8 * n - 1 \in Nat /\ (8 * n - 1) + 1 = 8 * n
    OBVIOUS
  <1>2. PICK m \in Nat : m = 8 * n - 1
    BY <1>1
  <1>3. PICK p \in Nat \ {0}, h \in Nat \ {0} : p = Pow2[8 * n] /\ h = Pow2[m] /\ p = 2 * h
    <2>1. Pow2[m + 1] = 2 * Pow2[m] /\ Pow2[m] \in Nat \ {0}
      BY PowFacts
    <2> QED
      BY <1>1, <1>2, <2>1
  <1>4. y % p = y
    BY <1>3, DivSmall
  <1>5. ValuesOf(Signed(8 * n)) = -h .. h - 1
    BY <1>2, <1>3 DEF ValuesOf, Signed
  <1>6. Cast(Signed(8 * n), y) = IF y % p \in ValuesOf(Signed(8 * n)) THEN y % p ELSE (y % p) - p
    BY <1>3 DEF Cast, Signed
  <1>7. y \in -h .. h - 1 <=> y < h
    BY <1>3
  <1> QED
    BY <1>2, <1>3, <1>4, <1>5, <1>6, <1>7

\* An integer in octets that hold it, and back.
LEMMA IntegerComesBack ==
    ASSUME NEW T \in IntegerTypes, NEW n \in 1 .. 8, 8 * n <= T.bits, NEW x \in Int, Holds(T, n, x)
    PROVE  /\ PutBytes(n, x) \in Seq(0 .. 255) /\ Len(PutBytes(n, x)) = n
           /\ ReadInteger(T, PutBytes(n, x)) = {x}
  <1>1. PICK p \in Nat \ {0}, h \in Nat \ {0} : p = Pow2[8 * n] /\ h = Pow2[8 * n - 1] /\ p = 2 * h
    <2>1. 0 \in Nat /\ 8 * n \in Nat
      OBVIOUS
    <2>2. 0 < Pow2[8 * n]
      BY <2>1, PowFacts
    <2> QED
      BY <2>1, <2>2, SignedFacts
  <1>2. T.bits \in {8, 16, 32, 64} /\ T.signed \in BOOLEAN
    BY TypeFacts
  <1>3. Holds(T, n, x) <=> IF T.signed THEN -h <= x /\ x < h ELSE 0 <= x /\ x < p
    BY <1>1 DEF Holds
  <1>4. PICK y \in Nat, q \in Int : /\ y < p /\ x = q * p + y
                                    /\ x >= 0 => y = x
                                    /\ x < 0 => y = x + p /\ T.signed
    <2>1. CASE x >= 0
      <3>1. x \in Nat /\ x < p /\ x = 0 * p + x /\ 0 \in Int
        BY <1>1, <1>3, <2>1
      <3> QED
        BY <2>1, <3>1
    <2>2. CASE x < 0
      <3>1. T.signed /\ x + p \in Nat /\ x + p < p /\ x = (-1) * p + (x + p) /\ -1 \in Int
        BY <1>1, <1>3, <2>2
      <3> QED
        BY <2>2, <3>1
    <2> QED
      BY <2>1, <2>2
  <1>5. n \in Nat
    OBVIOUS
  <1>51. y < Pow2[8 * n] /\ x = q * Pow2[8 * n] + y
    BY <1>1, <1>4
  <1>6. PutBytes(n, x) = PutBytes(n, y)
    BY <1>5, <1>51, PutBytesMod
  <1>7. PutBytes(n, y) \in Seq(0 .. 255) /\ Len(PutBytes(n, y)) = n /\ GetBytes(PutBytes(n, y)) = y
    BY <1>5, <1>51, NumberOfOctets
  <1>8. n \in 1 .. T.bits \div 8
    BY <1>2
  <1>9. CASE T.signed
    <2>1. ReadInteger(T, PutBytes(n, x)) = {Cast(Signed(8 * n), y)}
      BY <1>6, <1>7, <1>8, <1>9 DEF ReadInteger
    <2>2. Cast(Signed(8 * n), y) = IF y < h THEN y ELSE y - p
      BY <1>1, <1>4, SignedFacts
    <2>3. -h <= x /\ x < h
      BY <1>3, <1>9
    <2>4. Cast(Signed(8 * n), y) = x
      BY <1>1, <1>4, <2>2, <2>3
    <2> QED
      BY <1>6, <1>7, <2>1, <2>4
  <1>10. CASE ~T.signed
    <2>1. ReadInteger(T, PutBytes(n, x)) = {y}
      BY <1>6, <1>7, <1>8, <1>10 DEF ReadInteger
    <2>2. y = x
      BY <1>3, <1>4, <1>10
    <2> QED
      BY <1>6, <1>7, <2>1, <2>2
  <1> QED
    BY <1>9, <1>10

\* An integer that is read is one that the octets hold, and a value of the type.
LEMMA IntegerRead ==
    ASSUME NEW T \in IntegerTypes, NEW s \in Seq(0 .. 255), NEW x \in ReadInteger(T, s)
    PROVE  /\ Len(s) \in 1 .. 8 /\ 8 * Len(s) <= T.bits
           /\ x \in ValuesOf(T) /\ Holds(T, Len(s), x)
  <1>1. T.bits \in {8, 16, 32, 64} /\ T.signed \in BOOLEAN
    BY TypeFacts
  <1>2. PICK n \in Nat : n = Len(s)
    BY LenProperties
  <1>3. n \in 1 .. T.bits \div 8
    BY <1>2 DEF ReadInteger
  <1>4. n \in 1 .. 8 /\ 8 * n <= T.bits
    BY <1>1, <1>3
  <1>5. PICK y \in Nat : y = GetBytes(s) /\ y < Pow2[8 * n]
    <2>1. GetBytes(s) \in 0 .. Pow2[8 * n] - 1
      BY <1>2, OctetsOfNumber
    <2>2. Pow2[8 * n] \in Nat
      <3>1. 8 * n \in Nat
        OBVIOUS
      <3> QED
        BY <3>1, PowFacts
    <2> QED
      BY <2>1, <2>2
  <1>6. PICK p \in Nat \ {0}, h \in Nat \ {0} : p = Pow2[8 * n] /\ h = Pow2[8 * n - 1] /\ p = 2 * h
    BY <1>4, <1>5, SignedFacts
  <1>7. h <= Pow2[T.bits - 1] /\ p <= Pow2[T.bits] /\ Pow2[T.bits - 1] \in Nat /\ Pow2[T.bits] \in Nat
    <2>1. 8 * n - 1 \in Nat /\ 8 * n \in Nat /\ T.bits - 1 \in Nat /\ T.bits \in Nat /\ 8 * n - 1 <= T.bits - 1 /\ 8 * n <= T.bits
      BY <1>1, <1>4
    <2>2. h <= Pow2[T.bits - 1] /\ Pow2[T.bits - 1] \in Nat
      BY <1>6, <2>1, PowMonotone
    <2>3. p <= Pow2[T.bits] /\ Pow2[T.bits] \in Nat
      BY <1>6, <2>1, PowMonotone
    <2> QED
      BY <2>2, <2>3
  <1>8. CASE T.signed
    <2>1. x = Cast(Signed(8 * n), y)
      BY <1>2, <1>3, <1>5, <1>8 DEF ReadInteger
    <2>2. Cast(Signed(8 * n), y) = IF y < h THEN y ELSE y - p
      BY <1>4, <1>5, <1>6, SignedFacts
    <2>3. x \in Int /\ -h <= x /\ x < h
      BY <1>5, <1>6, <2>1, <2>2, SMTT(30)
    <2>4. x \in ValuesOf(T)
      BY <1>6, <1>7, <1>8, <2>3, SMTT(30) DEF ValuesOf
    <2>5. Holds(T, n, x)
      BY <1>6, <1>8, <2>3 DEF Holds
    <2> QED
      BY <1>2, <1>4, <2>4, <2>5
  <1>9. CASE ~T.signed
    <2>1. x = y
      BY <1>2, <1>3, <1>5, <1>9 DEF ReadInteger
    <2>2. x \in ValuesOf(T)
      BY <1>5, <1>6, <1>7, <1>9, <2>1 DEF ValuesOf
    <2>3. Holds(T, n, x)
      BY <1>5, <1>9, <2>1 DEF Holds
    <2> QED
      BY <1>2, <1>4, <2>2, <2>3
  <1> QED
    BY <1>8, <1>9

\* What an integer reads as: its own, whatever sign and size it has, from as few
\* octets as hold it; and what other octets read as is written in no more of them.
LEMMA IntegerOctetsFacts ==
    ASSUME Clz0 \in 25 .. 32, NEW T \in IntegerTypes, NEW x \in ValuesOf(T)
    PROVE  /\ IntegerOctets(T, x) \in Seq(0 .. 255) /\ Len(IntegerOctets(T, x)) = Bytes(T, x)
           /\ Bytes(T, x) \in 1 .. 8
           /\ ReadInteger(T, IntegerOctets(T, x)) = {x}
           /\ \A s \in Seq(0 .. 255) : x \in ReadInteger(T, s) => Bytes(T, x) <= Len(s)
  <1>1. PICK n \in 1 .. 8 : n = Bytes(T, x) /\ 8 * n <= T.bits /\ Holds(T, n, x) /\ \A m \in Nat \ {0} : Holds(T, m, x) => n <= m
    BY BytesFacts
  <1>2. x \in Int
    BY TypeFacts
  <1>3. ASSUME NEW s \in Seq(0 .. 255), x \in ReadInteger(T, s) PROVE n <= Len(s)
    <2>1. Len(s) \in 1 .. 8 /\ Holds(T, Len(s), x)
      BY <1>3, IntegerRead
    <2>2. Len(s) \in Nat \ {0}
      <3>1. \A i \in 1 .. 8 : i \in Nat \ {0}
        OBVIOUS
      <3> QED
        BY <2>1, <3>1
    <2> QED
      BY <1>1, <2>1, <2>2
  <1>4. PutBytes(n, x) \in Seq(0 .. 255) /\ Len(PutBytes(n, x)) = n /\ ReadInteger(T, PutBytes(n, x)) = {x}
    <2>1. 8 * n <= T.bits /\ Holds(T, n, x)
      BY <1>1
    <2> QED
      BY <1>2, <2>1, IntegerComesBack
  <1> QED
    BY <1>1, <1>3, <1>4 DEF IntegerOctets

-----------------------------------------------------------------------------
(* Sequences of octets, one behind the other.                              *)

\* Octets of one more call are behind those of the calls before.
LEMMA FlattenAppend ==
    ASSUME NEW S, NEW ss \in Seq(Seq(S)), NEW x \in Seq(S)
    PROVE  FlattenSeq(Append(ss, x)) = FlattenSeq(ss) \o x
  <1> DEFINE f == CHOOSE h : Flattening(ss, h)
             tt == Append(ss, x)
             g == CHOOSE h : Flattening(tt, h)
  <1>1. PICK n \in Nat : n = Len(ss)
    BY LenProperties
  <1>2. tt \in Seq(Seq(S)) /\ Len(tt) = n + 1 /\ tt[n + 1] = x /\ \A i \in 1 .. n : tt[i] = ss[i]
    BY <1>1, AppendProperties
  <1>3. FlattenSeq(tt) = g[n + 1]
    <2>1. Len(tt) # 0
      BY <1>2
    <2> HIDE DEF tt
    <2> QED
      BY <1>2, <2>1 DEF FlattenSeq, Flattening
  <1> HIDE DEF tt
  <1>4. Flattening(tt, g)
    BY <1>2, FlatteningExists
  <1>5. n # 0 => FlattenSeq(ss) = f[n]
    BY <1>1 DEF FlattenSeq, Flattening
  <1>6. Flattening(ss, f)
    BY FlatteningExists
  <1> HIDE DEF f, g
  <1>7. \A i \in 1 .. n : f[i] = IF i = 1 THEN ss[i] ELSE f[i - 1] \o ss[i]
    BY <1>1, <1>6 DEF Flattening
  <1>8. \A i \in 1 .. n + 1 : g[i] = IF i = 1 THEN tt[i] ELSE g[i - 1] \o tt[i]
    BY <1>2, <1>4 DEF Flattening
  <1> DEFINE T == {i \in 1 .. n : f[i] # g[i]}
  <1>9. ASSUME T # {} PROVE FALSE
    <2>1. T \subseteq Nat
      OBVIOUS
    <2> HIDE DEF T
    <2>2. PICK i \in T : \A j \in T : i <= j
      BY <1>9, <2>1, LeastElement
    <2> USE DEF T
    <2>3. i \in 1 .. n /\ i \in 1 .. n + 1 /\ f[i] # g[i] /\ tt[i] = ss[i]
      BY <1>2, <2>2
    <2>4. CASE i = 1
      BY <1>7, <1>8, <2>3, <2>4
    <2>5. CASE i # 1
      <3>1. i - 1 \in 1 .. n /\ ~(i <= i - 1)
        BY <2>3, <2>5
      <3>2. f[i - 1] = g[i - 1]
        BY <2>2, <3>1
      <3>3. f[i] = f[i - 1] \o ss[i]
        BY <1>7, <2>3, <2>5
      <3>4. g[i] = g[i - 1] \o tt[i]
        BY <1>8, <2>3, <2>5
      <3> QED
        BY <2>3, <3>2, <3>3, <3>4
    <2> QED
      BY <2>4, <2>5
  <1>10. CASE n = 0
    <2>0. g[1] = tt[1]
      <3>1. 1 \in 1 .. n + 1
        BY <1>10
      <3> QED
        BY <1>8, <3>1
    <2>1. g[1] = tt[1] /\ ss = <<>>
      BY <1>1, <1>10, <2>0, EmptySeq
    <2>2. FlattenSeq(ss) = <<>>
      BY <2>1, FlattenOne
    <2>3. <<>> \o x = x
      BY ConcatEmptySeq
    <2> QED
      BY <1>2, <1>3, <1>10, <2>1, <2>2, <2>3 DEF tt
  <1>11. CASE n # 0
    <2>1. g[n + 1] = g[n] \o tt[n + 1]
      <3>1. n + 1 \in 1 .. n + 1 /\ n + 1 # 1 /\ (n + 1) - 1 = n
        BY <1>11
      <3>2. g[n + 1] = g[(n + 1) - 1] \o tt[n + 1]
        BY <1>8, <3>1
      <3> QED
        BY <3>1, <3>2
    <2>2. f[n] = g[n]
      <3>1. n \in 1 .. n
        BY <1>11
      <3> QED
        BY <1>9, <3>1
    <2> QED
      BY <1>2, <1>3, <1>5, <1>11, <2>1, <2>2 DEF tt
  <1> QED
    BY <1>10, <1>11

\* What the buffer has room for: all chunks, or fewer than there are as all of them
\* are too many.
LEMMA FittingFacts ==
    ASSUME NEW ss \in Seq(Seq(0 .. 255)), NEW room \in Nat
    PROVE  LET fit == Fitting(ss, room)
           IN /\ FlattenSeq(fit) \in Seq(0 .. 255) /\ Len(FlattenSeq(fit)) <= room
              /\ Len(fit) = Len(ss) => fit = ss
              /\ Len(fit) # Len(ss) => Len(FlattenSeq(ss)) > room
  <1> DEFINE Size(k) == Len(FlattenSeq(SubSeq(ss, 1, k)))
  <1>1. PICK n \in Nat : n = Len(ss)
    BY LenProperties
  <1> DEFINE T == {k \in 0 .. n : Size(k) <= room}
             U == {j \in 0 .. n : n - j \in T}
  <1>2. Fitting(ss, room) = SubSeq(ss, 1, Max(T))
    BY <1>1 DEF Fitting
  <1>3. ASSUME NEW k \in 0 .. n
        PROVE  SubSeq(ss, 1, k) \in Seq(Seq(0 .. 255)) /\ Len(SubSeq(ss, 1, k)) = k
    <2>1. \A i \in 1 .. k : ss[i] \in Seq(0 .. 255)
      <3>1. ss \in [1 .. n -> Seq(0 .. 255)]
        BY <1>1, LenProperties
      <3> QED
        BY <3>1
    <2>2. 1 \in Int /\ k \in Int
      OBVIOUS
    <2>3. SubSeq(ss, 1, k) \in Seq(Seq(0 .. 255)) /\ Len(SubSeq(ss, 1, k)) = IF 1 <= k THEN k - 1 + 1 ELSE 0
      BY <2>1, <2>2, SubSeqProperties
    <2> QED
      BY <2>3
  <1>4. \A k \in 0 .. n : FlattenSeq(SubSeq(ss, 1, k)) \in Seq(0 .. 255) /\ Size(k) \in Nat
    BY <1>3, FlattenType, LenProperties, ZenonT(30)
  <1>5. SubSeq(ss, 1, n) = ss
    BY <1>1, SubSeqFull
  <1>6. 0 \in T
    <2>1. SubSeq(ss, 1, 0) = <<>>
      BY SubSeqEmpty
    <2>2. FlattenSeq(SubSeq(ss, 1, 0)) = <<>>
      BY <2>1, FlattenOne
    <2>3. Size(0) = Len(<<>>)
      BY <2>2
    <2>4. Len(<<>>) = 0
      OBVIOUS
    <2>5. Size(0) = 0 /\ 0 \in 0 .. n
      BY <2>3, <2>4
    <2> HIDE DEF Size
    <2> QED
      BY <2>5
  <1>7. PICK m \in T : \A k \in T : k <= m
    <2>1. U \subseteq Nat
      OBVIOUS
    <2>2. n \in U
      <3>1. n - n = 0 /\ n \in 0 .. n
        OBVIOUS
      <3> HIDE DEF T
      <3> QED
        BY <1>6, <3>1
    <2> HIDE DEF U
    <2>3. PICK j \in U : \A i \in U : j <= i
      BY <2>1, <2>2, LeastElement
    <2>4. j \in 0 .. n /\ n - j \in T
      BY <2>3 DEF U
    <2>5. ASSUME NEW k \in T PROVE k <= n - j
      <3>1. k \in 0 .. n
        OBVIOUS
      <3>2. n - k \in 0 .. n /\ n - (n - k) = k
        BY <3>1
      <3> HIDE DEF T
      <3>3. n - k \in U
        BY <3>2 DEF U
      <3>4. j <= n - k
        BY <2>3, <3>3
      <3> QED
        BY <2>4, <3>1, <3>4
    <2> HIDE DEF T
    <2> QED
      BY <2>4, <2>5
  <1>8. m \in 0 .. n /\ Size(m) <= room
    BY <1>7
  <1>9. n \in T <=> Size(n) <= room
    OBVIOUS
  <1>10. Size(n) = Len(FlattenSeq(ss))
    BY <1>5
  <1>11. Max(T) = m
    <2>1. T \subseteq Nat
      OBVIOUS
    <2> HIDE DEF T
    <2> QED
      BY <1>7, <2>1, MaxIs
  <1> HIDE DEF T
  <1>12. Fitting(ss, room) = SubSeq(ss, 1, m) /\ Len(SubSeq(ss, 1, m)) = m
    BY <1>2, <1>3, <1>8, <1>11
  <1>13. FlattenSeq(SubSeq(ss, 1, m)) \in Seq(0 .. 255) /\ Len(FlattenSeq(SubSeq(ss, 1, m))) <= room
    BY <1>4, <1>8
  <1>14. Size(n) \in Nat
    BY <1>4
  <1> HIDE DEF Size
  <1>15. m # n => Size(n) > room
    <2> SUFFICES ASSUME m # n, Size(n) <= room PROVE FALSE
      BY <1>14
    <2>1. n <= m
      BY <1>7, <1>9
    <2> QED
      BY <1>8, <2>1
  <1> QED
    BY <1>1, <1>5, <1>10, <1>12, <1>13, <1>15

-----------------------------------------------------------------------------
(* Tags and lengths.                                                       *)

\* How much is behind each length, from the innermost on.
LEMMA InsideFacts ==
    ASSUME NEW tags \in Seq(Seq(0 .. 255)), NEW n \in Int
    PROVE  /\ Inside(tags, Len(tags), n) = n
           /\ \A i \in 0 .. Len(tags) : Inside(tags, i, n) \in Int
           /\ \A i \in 1 .. Len(tags) : Inside(tags, i - 1, n) = Inside(tags, i, n) + Len(tags[i]) + 1
  <1> DEFINE w(k) == Len(tags[k]) + 1
             m == Len(tags)
             Counts(f) == f = [k \in 0 .. m |-> IF k = m THEN n ELSE f[k + 1] + Len(tags[k + 1]) + 1]
             behind == CHOOSE f : Counts(f)
             G == [p \in (1 .. m) \X Int |-> p[2] + Len(tags[m - p[1] + 1]) + 1]
  <1>1. m \in Nat /\ tags \in [1 .. m -> Seq(0 .. 255)]
    BY LenProperties
  <1>2. \A i : Inside(tags, i, n) = behind[i]
    BY DEF Inside
  <1> HIDE DEF m
  <1>3. \A k \in 1 .. m : Len(tags[k]) \in Nat
    BY <1>1, LenProperties
  <1>4. G \in [(1 .. m) \X Int -> Int]
    <2>1. ASSUME NEW p \in (1 .. m) \X Int PROVE p[2] + Len(tags[m - p[1] + 1]) + 1 \in Int
      <3>1. m - p[1] + 1 \in 1 .. m /\ p[2] \in Int
        BY <1>1
      <3> QED
        BY <1>3, <3>1
    <2> QED
      BY <2>1
  <1>5. \A k \in 1 .. m, x \in Int : G[<<k, x>>] = x + Len(tags[m - k + 1]) + 1
    OBVIOUS
  <1> HIDE DEF G
  <1>6. PICK r \in [0 .. m -> Int] : Rounds(m, n, G, r)
    BY <1>1, <1>4, RoundsExist
  <1> DEFINE f == [k \in 0 .. m |-> r[m - k]]
  <1>7. Counts(f)
    <2>1. f[m] = n
      <3>1. m \in 0 .. m /\ m - m = 0
        BY <1>1
      <3>2. f[m] = r[m - m]
        BY <3>1
      <3> HIDE DEF f
      <3> QED
        BY <1>6, <3>1, <3>2 DEF Rounds
    <2>2. ASSUME NEW k \in 0 .. m, k # m PROVE f[k] = f[k + 1] + Len(tags[k + 1]) + 1
      <3>1. k \in 0 .. m - 1 /\ k + 1 \in 0 .. m /\ m - k \in 1 .. m /\ (m - k) - 1 = m - (k + 1)
            /\ m - (m - k) + 1 = k + 1 /\ (m - k) - 1 \in 0 .. m
        BY <1>1, <2>2
      <3>2. f[k] = r[m - k] /\ f[k + 1] = r[m - (k + 1)]
        BY <3>1
      <3> HIDE DEF f
      <3>3. r[m - k] = G[<<m - k, r[(m - k) - 1]>>] /\ r[(m - k) - 1] \in Int
        BY <1>6, <3>1 DEF Rounds
      <3>4. r[m - k] = r[(m - k) - 1] + Len(tags[m - (m - k) + 1]) + 1
        BY <1>5, <3>1, <3>3
      <3> QED
        BY <3>1, <3>2, <3>4
    <2>3. f = [k \in 0 .. m |-> f[k]]
      OBVIOUS
    <2> HIDE DEF f
    <2>4. \A k \in 0 .. m : f[k] = IF k = m THEN n ELSE f[k + 1] + Len(tags[k + 1]) + 1
      BY <2>1, <2>2
    <2>5. [k \in 0 .. m |-> f[k]] = [k \in 0 .. m |-> IF k = m THEN n ELSE f[k + 1] + Len(tags[k + 1]) + 1]
      BY <2>4
    <2> QED
      BY <2>3, <2>5
  <1>8. Counts(behind)
    <2> HIDE DEF Counts, f
    <2> QED
      BY <1>7
  <1> HIDE DEF behind, f
  <1>9. \A k \in 0 .. m : behind[k] = IF k = m THEN n ELSE behind[k + 1] + Len(tags[k + 1]) + 1
    BY <1>8
  <1> HIDE DEF Counts
  <1>10. behind[m] = n
    <2>1. m \in 0 .. m
      BY <1>1
    <2> QED
      BY <1>9, <2>1
  <1>11. ASSUME NEW i \in 1 .. m PROVE behind[i - 1] = behind[i] + Len(tags[i]) + 1
    <2>1. i - 1 \in 0 .. m /\ i - 1 # m /\ (i - 1) + 1 = i
      BY <1>1
    <2>2. behind[i - 1] = behind[(i - 1) + 1] + Len(tags[(i - 1) + 1]) + 1
      BY <1>9, <2>1
    <2> QED
      BY <2>1, <2>2
  <1>12. \A i \in 0 .. m : behind[i] \in Int
    <2> DEFINE T == {j \in 0 .. m : behind[m - j] \notin Int}
    <2>1. ASSUME T # {} PROVE FALSE
      <3>1. T \subseteq Nat
        BY <1>1
      <3> HIDE DEF T
      <3>2. PICK j \in T : \A i \in T : j <= i
        BY <2>1, <3>1, LeastElement
      <3> USE DEF T
      <3>3. j \in 0 .. m /\ behind[m - j] \notin Int
        BY <3>2
      <3>4. j # 0
        <4>1. m - 0 = m
          BY <1>1
        <4> QED
          BY <1>10, <3>3, <4>1
      <3>5. j - 1 \in 0 .. m /\ ~(j <= j - 1) /\ m - j + 1 \in 1 .. m /\ (m - j + 1) - 1 = m - j /\ m - (j - 1) = m - j + 1
        BY <1>1, <3>3, <3>4
      <3>6. behind[m - j + 1] \in Int
        BY <3>2, <3>5
      <3> HIDE DEF T
      <3>7. PICK k \in 1 .. m : k = m - j + 1
        BY <3>5
      <3>8. behind[k - 1] = behind[k] + Len(tags[k]) + 1
        BY <1>11
      <3>9. Len(tags[k]) \in Nat
        BY <1>3
      <3> QED
        BY <3>3, <3>5, <3>6, <3>7, <3>8, <3>9
    <2>2. ASSUME NEW i \in 0 .. m PROVE behind[i] \in Int
      <3>1. m - i \in 0 .. m /\ m - (m - i) = i
        BY <1>1
      <3>2. m - i \notin T
        BY <2>1
      <3> QED
        BY <3>1, <3>2
    <2> QED
      BY <2>2
  <1> QED
    BY <1>2, <1>10, <1>11, <1>12 DEF m

\* A pair is two sequences of one.
LEMMA PairOf ==
    ASSUME NEW a, NEW b
    PROVE  <<a>> \o <<b>> = <<a, b>>
  <1>1. <<a>> \in Seq({a, b}) /\ <<b>> \in Seq({a, b}) /\ <<a, b>> \in Seq({a, b})
    OBVIOUS
  <1>2. PICK s \in Seq({a, b}), t \in Seq({a, b}), p \in Seq({a, b}) : s = <<a>> /\ t = <<b>> /\ p = <<a, b>>
    BY <1>1
  <1>3. Len(s) = 1 /\ Len(t) = 1 /\ Len(p) = 2 /\ s[1] = a /\ t[1] = b /\ p[1] = a /\ p[2] = b
    BY <1>2
  <1>4. s \o t \in Seq({a, b}) /\ Len(s \o t) = 2 /\ (s \o t)[1] = a /\ (s \o t)[2] = b
    <2>1. /\ s \o t \in Seq({a, b}) /\ Len(s \o t) = Len(s) + Len(t)
          /\ \A i \in 1 .. Len(s) + Len(t) : (s \o t)[i] = IF i <= Len(s) THEN s[i] ELSE t[i - Len(s)]
      BY ConcatProperties
    <2>2. Len(s \o t) = 2 /\ \A i \in 1 .. 2 : (s \o t)[i] = IF i <= 1 THEN s[i] ELSE t[i - 1]
      BY <1>3, <2>1
    <2>3. (s \o t)[1] = s[1] /\ (s \o t)[2] = t[1]
      BY <2>2
    <2> QED
      BY <1>3, <2>1, <2>2, <2>3
  <1>5. \A i \in 1 .. 2 : (s \o t)[i] = p[i]
    <2>1. \A i \in 1 .. 2 : i = 1 \/ i = 2
      OBVIOUS
    <2> QED
      BY <1>3, <1>4, <2>1
  <1>6. s \o t = p
    BY <1>3, <1>4, <1>5, SeqEqual
  <1> QED
    BY <1>2, <1>6

\* A length of one octet of contents or of 255: in the short form, or behind an octet.
LEMMA BerLengthFacts ==
    ASSUME NEW len \in 0 .. 255
    PROVE  /\ BerLength(len) \in Seq(0 .. 255)
           /\ len < 128 => BerLength(len) = <<len>>
           /\ len >= 128 => BerLength(len) = <<129, len>>
  <1>1. CASE len < 128
    <2>1. BerLength(len) = <<len>>
      BY <1>1 DEF BerLength
    <2>2. <<len>> \in Seq(0 .. 255)
      OBVIOUS
    <2> QED
      BY <1>1, <2>1, <2>2
  <1>2. CASE ~(len < 128)
    <2>1. len \in Nat \ {0} /\ len < Pow2[8] /\ len < Pow2[64]
      <3>1. Pow2[8] <= Pow2[64] /\ Pow2[64] \in Nat
        BY PowMonotone
      <3>2. Pow2[8] = 256
        BY PowValues
      <3> QED
        BY <1>2, <3>1, <3>2
    <2>2. Digits(len) \in 1 .. 64 /\ Digits(len) <= 8
      BY <2>1, DigitsWithin
    <2>3. Bytes(SizeT, len) = 1
      <3>1. CalcLeastBits(SizeT, len) = Digits(len)
        <4>1. CalcLeastBits(SizeT, len) = Digits(len) % 256
          BY <2>1 DEF CalcLeastBits, SizeT, Unsigned
        <4>2. \A d \in 1 .. 64 : d % 256 = d
          OBVIOUS
        <4> QED
          BY <2>2, <4>1, <4>2
      <3>2. Bytes(SizeT, len) = (Digits(len) + 7) \div 8
        BY <2>1, <3>1 DEF Bytes, BytesOf
      <3> QED
        BY <2>2, <3>2
    <2>4. PutBytes(1, len) = <<len>>
      <3>1. PutBytes(1, len) = [k \in 1 .. 1 |-> (len \div Pow2[8 * (1 - k)]) % 256]
        BY DEF PutBytes
      <3>2. \A k \in 1 .. 1 : (len \div Pow2[8 * (1 - k)]) % 256 = len
        <4> SUFFICES ASSUME NEW k \in 1 .. 1 PROVE (len \div Pow2[8 * (1 - k)]) % 256 = len
          OBVIOUS
        <4>1. 8 * (1 - k) = 0
          OBVIOUS
        <4>2. Pow2[8 * (1 - k)] = 1
          BY <4>1, PowFacts
        <4>3. len \div 1 = len /\ len % 256 = len
          OBVIOUS
        <4> QED
          BY <4>2, <4>3
      <3>3. PutBytes(1, len) = [k \in 1 .. 1 |-> len]
        BY <3>1, <3>2
      <3> QED
        BY <3>3
    <2>5. BerLength(len) = <<128 + 1>> \o <<len>>
      BY <1>2, <2>3, <2>4 DEF BerLength
    <2>6. <<128 + 1>> \o <<len>> = <<129, len>>
      <3>1. 128 + 1 = 129
        OBVIOUS
      <3>2. <<129>> \o <<len>> = <<129, len>>
        BY PairOf
      <3> QED
        BY <3>1, <3>2
    <2>7. <<129, len>> \in Seq(0 .. 255)
      OBVIOUS
    <2> QED
      BY <1>2, <2>5, <2>6, <2>7
  <1> QED
    BY <1>1, <1>2

\* 0 is in every range from 0.
LEMMA ZeroIn ==
    ASSUME NEW l \in Nat
    PROVE  0 \in 0 .. l
  OBVIOUS

\* A length is below 256 and in octets that arrived; one of 128 or more takes at least two.
LEMMA ReadLengthFacts ==
    ASSUME NEW s \in Seq(0 .. 255)
    PROVE  LET r == ReadLength(s)
           IN /\ Faulty(r) /\ r.used \in 0 .. Len(s) /\ r.value \in 0 .. 255
              /\ Faultless(r) => r.used >= 1 /\ (r.value >= 128 => r.used >= 2)
  <1>1. PICK m \in Nat : m = Len(s) /\ s \in [1 .. m -> 0 .. 255]
    BY LenProperties
  <1>2. PICK r : r = ReadLength(s)
    OBVIOUS
  <1> DEFINE Fine == /\ Faulty(r) /\ r.used \in 0 .. m /\ r.value \in 0 .. 255
                     /\ Faultless(r) => r.used >= 1 /\ (r.value >= 128 => r.used >= 2)
  <1> SUFFICES Fine
    BY <1>1, <1>2
  <1>0. 0 \in 0 .. m /\ 0 \in 0 .. 255
    BY ZeroIn
  <1>3. ASSUME NEW x \in Faults \ {""}, r = Bad(x) PROVE Fine
    <2>1. ~Faultless(r) /\ Faulty(r) /\ r.used = 0 /\ r.value = 0
      BY <1>3, BadParts
    <2> QED
      BY <1>0, <2>1
  <1>4. ASSUME NEW u \in 1 .. m, NEW v \in 0 .. 255, v < 128 \/ u >= 2, r = Good(u, v) PROVE Fine
    <2>1. Faulty(r) /\ r.used = u /\ r.value = v
      BY <1>4, GoodParts
    <2> QED
      BY <1>4, <2>1
  <1> HIDE DEF Fine
  <1>5. CASE s = <<>>
    <2>1. r = Bad("overflow")
      BY <1>2, <1>5 DEF ReadLength
    <2>2. "overflow" \in Faults \ {""}
      BY DEF Faults
    <2> QED
      BY <1>3, <2>1, <2>2
  <1>6. CASE s # <<>>
    <2>1. m # 0
      BY <1>1, <1>6, EmptySeq
    <2>2. PICK o \in 0 .. 255 : o = s[1]
      <3>1. 1 \in 1 .. m
        BY <2>1
      <3> QED
        BY <1>1, <3>1
    <2>3. CASE o < 128
      <3>1. ~(s = <<>>) /\ s[1] < 128 /\ ~(s[1] = 128) /\ ~(s[1] > 128)
        BY <1>6, <2>2, <2>3
      <3>2. r = Good(1, o)
        BY <1>2, <2>2, <3>1, Zenon DEF ReadLength
      <3>3. 1 \in 1 .. m
        BY <2>1
      <3> QED
        BY <1>4, <2>3, <3>2, <3>3
    <2>4. CASE o = 128
      <3>1. ~(s = <<>>) /\ ~(s[1] < 128) /\ s[1] = 128 /\ ~(s[1] > 128)
        BY <1>6, <2>2, <2>4
      <3>2. r = Bad("invalid_value")
        BY <1>2, <3>1, Zenon DEF ReadLength
      <3>3. "invalid_value" \in Faults \ {""}
        BY DEF Faults
      <3> QED
        BY <1>3, <3>2, <3>3
    <2>5. CASE o > 128
      <3>1. ~(s = <<>>) /\ ~(s[1] < 128) /\ ~(s[1] = 128) /\ s[1] > 128
        BY <1>6, <2>2, <2>5
      <3>2. PICK n \in 1 .. 127 : n = s[1] % 128
        <4>1. o % 128 \in 1 .. 127
          BY <2>5
        <4> QED
          BY <2>2, <4>1
      <3>3. r = CASE Len(s) <= n -> Bad("overflow")
                  [] Len(s) > n /\ n > 8 -> Bad("invalid_value")
                  [] Len(s) > n /\ n <= 8 -> Good(1 + n, s[1 + n])
        BY <1>2, <3>1, <3>2, Zenon DEF ReadLength
      <3>4. "overflow" \in Faults \ {""} /\ "invalid_value" \in Faults \ {""}
        BY DEF Faults
      <3>5. CASE m <= n
        <4>1. Len(s) <= n /\ ~(Len(s) > n)
          BY <1>1, <3>5
        <4>2. r = Bad("overflow")
          BY <3>3, <4>1, Zenon
        <4> QED
          BY <1>3, <3>4, <4>2
      <3>6. CASE m > n /\ n > 8
        <4>1. ~(Len(s) <= n) /\ Len(s) > n /\ n > 8 /\ ~(n <= 8)
          BY <1>1, <3>6
        <4>2. r = Bad("invalid_value")
          BY <3>3, <4>1, Zenon
        <4> QED
          BY <1>3, <3>4, <4>2
      <3>7. CASE m > n /\ n <= 8
        <4>1. ~(Len(s) <= n) /\ Len(s) > n /\ n <= 8 /\ ~(n > 8)
          BY <1>1, <3>7
        <4>2. r = Good(1 + n, s[1 + n])
          BY <3>3, <4>1, Zenon
        <4>3. PICK u \in 1 .. m : u = 1 + n /\ u >= 2
          <5>1. 1 + n \in 1 .. m /\ 1 + n >= 2
            BY <3>7
          <5> QED
            BY <5>1
        <4>4. PICK v \in 0 .. 255 : v = s[u]
          BY <1>1
        <4>5. r = Good(u, v)
          BY <4>2, <4>3, <4>4
        <4> QED
          BY <1>4, <4>3, <4>5
      <3> QED
        BY <3>5, <3>6, <3>7
    <2> QED
      BY <2>3, <2>4, <2>5
  <1> QED
    BY <1>5, <1>6

\* A length that was written.
LEMMA LengthComesBack ==
    ASSUME NEW len \in 0 .. 255, NEW s \in Seq(0 .. 255), Begins(BerLength(len), s)
    PROVE  ReadLength(s) = Good(Len(BerLength(len)), len)
  <1>1. Len(s) \in Nat
    BY LenProperties
  <1>2. CASE len < 128
    <2>1. BerLength(len) = <<len>>
      BY <1>2, BerLengthFacts
    <2>2. Len(<<len>>) = 1 /\ <<len>>[1] = len
      OBVIOUS
    <2>3. Len(s) >= 1 /\ s[1] = len
      BY <1>1, <2>1, <2>2 DEF Begins
    <2>4. s # <<>>
      BY <1>1, <2>3, EmptySeq
    <2>5. ~(s = <<>>) /\ s[1] < 128 /\ ~(s[1] = 128) /\ ~(s[1] > 128)
      BY <1>2, <2>3, <2>4
    <2>6. ReadLength(s) = Good(1, len)
      BY <2>3, <2>5, Zenon DEF ReadLength
    <2> QED
      BY <2>1, <2>2, <2>6
  <1>3. CASE ~(len < 128)
    <2>1. BerLength(len) = <<129, len>>
      <3>1. len >= 128
        BY <1>3
      <3> QED
        BY <3>1, BerLengthFacts
    <2>2. Len(<<129, len>>) = 2 /\ <<129, len>>[1] = 129 /\ <<129, len>>[2] = len
      OBVIOUS
    <2>3. Len(s) >= 2 /\ s[1] = 129 /\ s[2] = len
      BY <1>1, <2>1, <2>2 DEF Begins
    <2>4. s # <<>>
      BY <1>1, <2>3, EmptySeq
    <2>5. /\ ~(s = <<>>) /\ ~(s[1] < 128) /\ ~(s[1] = 128) /\ s[1] > 128
      BY <2>3, <2>4
    <2>6. PICK n : n = 1 /\ n = s[1] % 128
      BY <2>3
    <2>7. ReadLength(s) = CASE Len(s) <= n -> Bad("overflow")
                            [] Len(s) > n /\ n > 8 -> Bad("invalid_value")
                            [] Len(s) > n /\ n <= 8 -> Good(1 + n, s[1 + n])
      BY <2>5, <2>6, Zenon DEF ReadLength
    <2>8. ~(Len(s) <= n) /\ Len(s) > n /\ n <= 8 /\ ~(n > 8)
      BY <1>1, <2>3, <2>6
    <2>9. ReadLength(s) = Good(1 + n, s[1 + n])
      BY <2>7, <2>8, Zenon
    <2>10. 1 + n = 2
      BY <2>6
    <2> QED
      BY <2>1, <2>2, <2>3, <2>9, <2>10
  <1> QED
    BY <1>2, <1>3

\* The length behind tag i, and what the first i tags and lengths are written as.
LengthAt(tags, i, n) == BerLength(Inside(tags, i, n) % 256)
InFront(tags, n, g) ==
    /\ g \in [0 .. Len(tags) -> Seq(0 .. 255)] /\ g[0] = <<>>
    /\ \A i \in 1 .. Len(tags) : g[i] = g[i - 1] \o (tags[i] \o LengthAt(tags, i, n))

\* The length that is written behind a tag is octets.
LEMMA LengthAtType ==
    ASSUME NEW tags \in Seq(Seq(0 .. 255)), NEW n \in Int, NEW i \in 0 .. Len(tags)
    PROVE  /\ Inside(tags, i, n) \in Int /\ Inside(tags, i, n) % 256 \in 0 .. 255
           /\ LengthAt(tags, i, n) \in Seq(0 .. 255)
  <1>1. PICK x \in Int : x = Inside(tags, i, n)
    BY InsideFacts
  <1>2. x % 256 \in 0 .. 255
    OBVIOUS
  <1>3. BerLength(x % 256) \in Seq(0 .. 255)
    BY <1>2, BerLengthFacts
  <1> QED
    BY <1>1, <1>2, <1>3 DEF LengthAt

\* Two more.
LEMMA FlattenPair ==
    ASSUME NEW h \in Seq(Seq(0 .. 255)), NEW t \in Seq(0 .. 255), NEW b \in Seq(0 .. 255), NEW p, p = <<t, b>>
    PROVE  FlattenSeq(h \o p) = FlattenSeq(h) \o (t \o b) /\ h \o p \in Seq(Seq(0 .. 255))
  <1> DEFINE S == 0 .. 255
  <1> HIDE DEF S
  <1>0. h \in Seq(Seq(S)) /\ t \in Seq(S) /\ b \in Seq(S) /\ p = <<t, b>>
    BY DEF S
  <1>1. PICK k : k = Append(h, t)
    OBVIOUS
  <1>2. k \in Seq(Seq(S)) /\ k = h \o <<t>>
    BY <1>0, <1>1, AppendProperties, AppendIsConcat
  <1>3. FlattenSeq(k) = FlattenSeq(h) \o t
    BY <1>0, <1>1, FlattenAppend
  <1>4. Append(k, b) \in Seq(Seq(S)) /\ Append(k, b) = k \o <<b>>
    BY <1>0, <1>2, AppendProperties, AppendIsConcat
  <1>5. FlattenSeq(Append(k, b)) = FlattenSeq(k) \o b
    BY <1>0, <1>2, FlattenAppend
  <1>6. k \o <<b>> = h \o <<t, b>>
    <2>1. <<t>> \in Seq(Seq(S)) /\ <<b>> \in Seq(Seq(S))
      BY <1>0
    <2>2. (h \o <<t>>) \o <<b>> = h \o (<<t>> \o <<b>>)
      BY <1>0, <2>1, ConcatAssociative
    <2>3. <<t>> \o <<b>> = <<t, b>>
      BY PairOf
    <2> QED
      BY <1>2, <2>2, <2>3
  <1>7. FlattenSeq(h) \in Seq(S)
    BY <1>0, FlattenType
  <1>8. (FlattenSeq(h) \o t) \o b = FlattenSeq(h) \o (t \o b)
    BY <1>0, <1>7, ConcatAssociative, SMTT(30)
  <1> QED
    BY <1>0, <1>3, <1>4, <1>5, <1>6, <1>8 DEF S

\* One more tag and length.
LEMMA FlattenStep ==
    ASSUME NEW a \in Seq(Seq(Seq(0 .. 255))), NEW t \in Seq(0 .. 255), NEW b \in Seq(0 .. 255), NEW p, p = <<t, b>>
    PROVE  FlattenSeq(FlattenSeq(Append(a, p))) = FlattenSeq(FlattenSeq(a)) \o (t \o b)
  <1>1. p \in Seq(Seq(0 .. 255))
    OBVIOUS
  <1>2. FlattenSeq(Append(a, p)) = FlattenSeq(a) \o p
    BY <1>1, FlattenAppend, ZenonT(30)
  <1>3. PICK h \in Seq(Seq(0 .. 255)) : h = FlattenSeq(a)
    BY FlattenType
  <1>4. FlattenSeq(h \o p) = FlattenSeq(h) \o (t \o b)
    BY FlattenPair, SMTT(30)
  <1> QED
    BY <1>2, <1>3, <1>4

\* All tags and lengths, up to each of them.
LEMMA HeadersFacts ==
    ASSUME NEW tags \in Seq(Seq(0 .. 255)), NEW n \in Int
    PROVE  /\ Headers(tags, n) \in Seq(Seq(0 .. 255))
           /\ \E g : InFront(tags, n, g) /\ FlattenSeq(Headers(tags, n)) = g[Len(tags)]
  <1> DEFINE O == Seq(0 .. 255)
             pairs == [i \in 1 .. Len(tags) |-> <<tags[i], LengthAt(tags, i, n)>>]
             Some(k) == SubSeq(pairs, 1, k)
             g == [k \in 0 .. Len(tags) |-> FlattenSeq(FlattenSeq(Some(k)))]
  <1>1. PICK m \in Nat : m = Len(tags) /\ tags \in [1 .. m -> O] /\ DOMAIN tags = 1 .. m
    BY LenProperties
  <1>2. \A i \in 1 .. m : tags[i] \in O /\ LengthAt(tags, i, n) \in O
    <2> SUFFICES ASSUME NEW i \in 1 .. m PROVE tags[i] \in O /\ LengthAt(tags, i, n) \in O
      OBVIOUS
    <2>1. i \in 0 .. Len(tags)
      BY <1>1
    <2> QED
      BY <1>1, <2>1, LengthAtType
  <1>3. Headers(tags, n) = FlattenSeq(pairs)
    BY <1>1 DEF Headers, LengthAt
  <1> HIDE DEF O
  <1>4. pairs \in [1 .. m -> Seq(O)] /\ \A i \in 1 .. m : pairs[i] = <<tags[i], LengthAt(tags, i, n)>>
    <2>1. ASSUME NEW i \in 1 .. m PROVE <<tags[i], LengthAt(tags, i, n)>> \in Seq(O)
      <3>1. PICK a \in O, b \in O : a = tags[i] /\ b = LengthAt(tags, i, n)
        BY <1>2
      <3>2. <<a, b>> \in Seq(O)
        OBVIOUS
      <3> QED
        BY <3>1, <3>2
    <2> QED
      BY <1>1, <2>1
  <1> HIDE DEF pairs
  <1>5. pairs \in Seq(Seq(O)) /\ Len(pairs) = m
    BY <1>4, LenProperties
  <1>6. ASSUME NEW k \in 0 .. m PROVE Some(k) \in Seq(Seq(O))
    <2>1. \A i \in 1 .. k : pairs[i] \in Seq(O)
      BY <1>4
    <2>2. 1 \in Int /\ k \in Int
      OBVIOUS
    <2> QED
      BY <2>1, <2>2, SubSeqProperties
  <1>7. \A k \in 0 .. m : FlattenSeq(Some(k)) \in Seq(O)
    BY <1>6, FlattenType
  <1>8. \A k \in 0 .. m : FlattenSeq(FlattenSeq(Some(k))) \in O
    BY <1>7, FlattenType DEF O
  <1>9. g[0] = <<>>
    <2>1. SubSeq(pairs, 1, 0) = <<>>
      BY SubSeqEmpty
    <2>2. FlattenSeq(<<>>) = <<>>
      BY FlattenOne
    <2>3. Some(0) = <<>>
      BY <2>1
    <2> HIDE DEF Some
    <2>4. FlattenSeq(FlattenSeq(Some(0))) = <<>>
      BY <2>2, <2>3
    <2>5. 0 \in 0 .. Len(tags)
      BY <1>1, ZeroIn
    <2> QED
      BY <2>4, <2>5
  <1>10. ASSUME NEW i \in 1 .. m PROVE g[i] = g[i - 1] \o (tags[i] \o LengthAt(tags, i, n))
    <2>1. i - 1 \in 0 .. m /\ i \in 0 .. m /\ i \in i .. m /\ i \in 1 .. Len(pairs) /\ i \in 1 .. Len(tags)
          /\ i \in i .. Len(pairs) /\ 1 \in 1 .. Len(pairs) /\ i \in 1 .. Len(pairs)
      BY <1>1, <1>5
    <2>2. Some(i) = Some(i - 1) \o <<pairs[i]>>
      BY <1>5, <2>1, SubSeqRecursiveSecond
    <2>3. PICK a \in Seq(Seq(O)), p \in Seq(O) : a = Some(i - 1) /\ p = pairs[i]
      BY <1>4, <1>6, <2>1
    <2>4. Some(i) = Append(a, p)
      BY <2>2, <2>3, AppendIsConcat
    <2>6. PICK t \in O, b \in O : t = tags[i] /\ b = LengthAt(tags, i, n) /\ p = <<t, b>>
      BY <1>2, <1>4, <2>3
    <2>7. FlattenSeq(FlattenSeq(Append(a, p))) = FlattenSeq(FlattenSeq(a)) \o (t \o b)
      <3>1. a \in Seq(Seq(Seq(0 .. 255)))
        BY DEF O
      <3>2. t \in Seq(0 .. 255) /\ b \in Seq(0 .. 255)
        BY DEF O
      <3>3. p = <<t, b>>
        BY <2>6
      <3>4. ASSUME NEW aa \in Seq(Seq(Seq(0 .. 255))), NEW tt \in Seq(0 .. 255), NEW bb \in Seq(0 .. 255), NEW pp, pp = <<tt, bb>>
            PROVE  FlattenSeq(FlattenSeq(Append(aa, pp))) = FlattenSeq(FlattenSeq(aa)) \o (tt \o bb)
        BY <3>4, FlattenStep
      <3> HIDE DEF g, Some
      <3> QED
        BY <3>1, <3>2, <3>3, <3>4
    <2>8. g[i] = FlattenSeq(FlattenSeq(Some(i))) /\ g[i - 1] = FlattenSeq(FlattenSeq(Some(i - 1)))
      BY <1>1, <2>1
    <2> HIDE DEF g, Some
    <2> QED
      BY <2>3, <2>4, <2>6, <2>7, <2>8
  <1>11. g[m] = FlattenSeq(Headers(tags, n)) /\ Headers(tags, n) \in Seq(O)
    <2>1. SubSeq(pairs, 1, m) = pairs
      BY <1>5, SubSeqFull
    <2>2. m \in 0 .. m
      OBVIOUS
    <2> QED
      BY <1>1, <1>3, <1>7, <2>1, <2>2
  <1>12. g \in [0 .. m -> O]
    BY <1>1, <1>8
  <1> HIDE DEF g
  <1>13. InFront(tags, n, g)
    BY <1>1, <1>9, <1>10, <1>12 DEF InFront, O
  <1> QED
    BY <1>1, <1>11, <1>13 DEF O

-----------------------------------------------------------------------------
(* Elements: what is behind tags and lengths.                              *)

\* Upwards: what holds at 0 and of the next one holds up to m.
LEMMA UpTo ==
    ASSUME NEW m \in Nat, NEW T, 0 \in T, \A k \in 1 .. m : k - 1 \in T => k \in T
    PROVE  \A k \in 0 .. m : k \in T
  <1> DEFINE U == {k \in 0 .. m : k \notin T}
  <1>1. ASSUME U # {} PROVE FALSE
    <2>1. U \subseteq Nat
      OBVIOUS
    <2> HIDE DEF U
    <2>2. PICK k \in U : \A j \in U : k <= j
      BY <1>1, <2>1, LeastElement
    <2>3. k \in 0 .. m /\ k \notin T
      BY <2>2 DEF U
    <2>4. k # 0
      BY <2>3
    <2>5. k \in 1 .. m /\ k - 1 \in 0 .. m /\ ~(k <= k - 1)
      BY <2>3, <2>4
    <2>6. k - 1 \in T
      BY <2>2, <2>5 DEF U
    <2> QED
      BY <2>3, <2>5, <2>6
  <1> QED
    BY <1>1

\* Downwards.
LEMMA DownFrom ==
    ASSUME NEW m \in Nat, NEW T, m \in T, \A k \in 1 .. m : k \in T => k - 1 \in T
    PROVE  \A k \in 0 .. m : k \in T
  <1> DEFINE U == {k \in 0 .. m : m - k \in T}
  <1>1. 0 \in U
    <2>1. m - 0 = m /\ 0 \in 0 .. m
      OBVIOUS
    <2> QED
      BY <2>1
  <1>2. ASSUME NEW k \in 1 .. m, k - 1 \in U PROVE k \in U
    <2>1. m - (k - 1) \in T
      BY <1>2
    <2>2. m - (k - 1) \in 1 .. m /\ (m - (k - 1)) - 1 = m - k /\ k \in 0 .. m
      OBVIOUS
    <2>3. m - k \in T
      BY <2>1, <2>2
    <2> QED
      BY <2>2, <2>3
  <1>3. \A k \in 0 .. m : k \in U
    <2> HIDE DEF U
    <2> QED
      BY <1>1, <1>2, UpTo
  <1>4. ASSUME NEW k \in 0 .. m PROVE k \in T
    <2>1. m - k \in 0 .. m /\ m - (m - k) = k
      OBVIOUS
    <2>2. m - k \in U
      BY <1>3, <2>1
    <2> QED
      BY <2>1, <2>2
  <1> QED
    BY <1>4

\* t is found in s, behind its first a octets.
LiesAt(t, s, a) == a + Len(t) <= Len(s) /\ \A k \in 1 .. Len(t) : s[a + k] = t[k]

\* Two sequences lie one behind the other.
LEMMA LiesConcat ==
    ASSUME NEW s \in Seq(0 .. 255), NEW a \in Nat, NEW t \in Seq(0 .. 255), NEW u \in Seq(0 .. 255)
    PROVE  LiesAt(t \o u, s, a) <=> LiesAt(t, s, a) /\ LiesAt(u, s, a + Len(t))
  <1>1. Len(s) \in Nat /\ Len(t) \in Nat /\ Len(u) \in Nat
    BY LenProperties
  <1>2. PICK l \in Nat, m \in Nat, n \in Nat : l = Len(s) /\ m = Len(t) /\ n = Len(u)
    BY <1>1
  <1>3. PICK x : x = t \o u
    OBVIOUS
  <1>4. /\ Len(x) = m + n
        /\ \A i \in 1 .. m + n : x[i] = IF i <= m THEN t[i] ELSE u[i - m]
    BY <1>2, <1>3, ConcatProperties
  <1>5. \A i \in 1 .. m : x[i] = t[i]
    BY <1>4
  <1>6. \A i \in 1 .. n : x[m + i] = u[i]
    <2> SUFFICES ASSUME NEW i \in 1 .. n PROVE x[m + i] = u[i]
      OBVIOUS
    <2>1. m + i \in 1 .. m + n /\ ~(m + i <= m) /\ (m + i) - m = i
      OBVIOUS
    <2>2. x[m + i] = u[(m + i) - m]
      BY <1>4, <2>1
    <2> QED
      BY <2>1, <2>2
  <1>7. ASSUME LiesAt(x, s, a) PROVE LiesAt(t, s, a) /\ LiesAt(u, s, a + m)
    <2>1. a + (m + n) <= l /\ \A k \in 1 .. m + n : s[a + k] = x[k]
      BY <1>2, <1>4, <1>7 DEF LiesAt
    <2>2. a + m <= l /\ (a + m) + n <= l
      BY <2>1
    <2>3. \A k \in 1 .. m : s[a + k] = t[k]
      <3>1. \A k \in 1 .. m : k \in 1 .. m + n
        OBVIOUS
      <3> QED
        BY <1>5, <2>1, <3>1
    <2>4. ASSUME NEW k \in 1 .. n PROVE s[(a + m) + k] = u[k]
      <3>1. m + k \in 1 .. m + n /\ a + (m + k) = (a + m) + k
        OBVIOUS
      <3>2. s[a + (m + k)] = x[m + k]
        BY <2>1, <3>1
      <3> QED
        BY <1>6, <3>1, <3>2
    <2> QED
      BY <1>2, <2>2, <2>3, <2>4 DEF LiesAt
  <1>8. ASSUME LiesAt(t, s, a), LiesAt(u, s, a + m) PROVE LiesAt(x, s, a)
    <2>1. /\ \A k \in 1 .. m : s[a + k] = t[k]
          /\ (a + m) + n <= l /\ \A k \in 1 .. n : s[(a + m) + k] = u[k]
      BY <1>2, <1>8 DEF LiesAt
    <2>2. a + (m + n) <= l
      BY <2>1
    <2>3. ASSUME NEW k \in 1 .. m + n PROVE s[a + k] = x[k]
      <3>1. CASE k <= m
        <4>1. k \in 1 .. m
          BY <3>1
        <4> QED
          BY <1>5, <2>1, <4>1
      <3>2. CASE ~(k <= m)
        <4>1. PICK i \in 1 .. n : i = k - m
          <5>1. k - m \in 1 .. n
            BY <3>2
          <5> QED
            BY <5>1
        <4>2. (a + m) + i = a + k /\ m + i = k
          BY <4>1
        <4>3. s[(a + m) + i] = u[i] /\ x[m + i] = u[i]
          BY <1>6, <2>1
        <4> QED
          BY <4>2, <4>3
      <3> QED
        BY <3>1, <3>2
    <2> QED
      BY <1>2, <1>4, <2>2, <2>3 DEF LiesAt
  <1> QED
    BY <1>2, <1>3, <1>7, <1>8

\* What is found somewhere begins what is cut off there.
LEMMA LiesIn ==
    ASSUME NEW s \in Seq(0 .. 255), NEW a \in Nat, NEW t \in Seq(0 .. 255), LiesAt(t, s, a),
           NEW e \in Nat, a + Len(t) <= e, e <= Len(s)
    PROVE  /\ SubSeq(s, a + 1, e) \in Seq(0 .. 255) /\ Begins(t, SubSeq(s, a + 1, e))
           /\ SubSeq(s, a + 1, a + Len(t)) = t
  <1>1. Len(s) \in Nat /\ Len(t) \in Nat
    BY LenProperties
  <1>0. ASSUME NEW b \in Nat, a <= b, b <= Len(s)
        PROVE  /\ SubSeq(s, a + 1, b) \in Seq(0 .. 255) /\ Len(SubSeq(s, a + 1, b)) = b - a
               /\ \A k \in 1 .. b - a : SubSeq(s, a + 1, b)[k] = s[a + k]
    BY <1>0, Slice, ZenonT(30)
  <1>2. PICK m \in Nat : m = Len(t)
    BY <1>1
  <1>3. a <= e
    BY <1>2
  <1>4. PICK x \in Seq(0 .. 255) : /\ x = SubSeq(s, a + 1, e) /\ Len(x) = e - a
                                   /\ \A k \in 1 .. e - a : x[k] = s[a + k]
    BY <1>3, Slice, ZenonT(30)
  <1>5. \A k \in 1 .. m : s[a + k] = t[k]
    BY <1>2 DEF LiesAt
  <1>6. Begins(t, x)
    <2>1. m <= e - a
      BY <1>2
    <2>2. \A k \in 1 .. m : x[k] = t[k]
      <3>1. \A k \in 1 .. m : k \in 1 .. e - a
        BY <2>1
      <3> QED
        BY <1>4, <1>5, <3>1
    <2> QED
      BY <1>2, <1>4, <2>1, <2>2 DEF Begins
  <1>7. SubSeq(s, a + 1, a + m) = t
    <2>1. PICK b \in Nat : b = a + m
      OBVIOUS
    <2>2. a <= b /\ b <= Len(s) /\ b - a = m
      BY <1>1, <1>2, <2>1
    <2>3. PICK y \in Seq(0 .. 255) : /\ y = SubSeq(s, a + 1, b) /\ Len(y) = b - a
                                     /\ \A k \in 1 .. b - a : y[k] = s[a + k]
      BY <1>0, <2>2, Zenon
    <2>4. Len(y) = Len(t) /\ \A k \in 1 .. Len(y) : y[k] = t[k]
      BY <1>2, <1>5, <2>2, <2>3
    <2>5. y = t
      BY <2>4, SeqEqual
    <2> QED
      BY <2>1, <2>3, <2>5
  <1> QED
    BY <1>2, <1>4, <1>6, <1>7

\* The octets where a sequence lies are the sequence.
LEMMA LiesExactly ==
    ASSUME NEW s \in Seq(0 .. 255), NEW a \in Nat, NEW t \in Seq(0 .. 255), LiesAt(t, s, a)
    PROVE  SubSeq(s, a + 1, a + Len(t)) = t
  <1>1. Len(t) \in Nat /\ a + Len(t) <= Len(s)
    BY LenProperties DEF LiesAt
  <1>2. PICK e \in Nat : e = a + Len(t)
    BY <1>1
  <1>3. a + Len(t) <= e /\ e <= Len(s)
    BY <1>1, <1>2
  <1> QED
    BY <1>2, <1>3, LiesIn

\* To begin with it is to hold it at 0.
LEMMA BeginsLies ==
    ASSUME NEW s, NEW t
    PROVE  Len(t) \in Nat => (Begins(t, s) <=> LiesAt(t, s, 0))
  <1> SUFFICES ASSUME Len(t) \in Nat PROVE Begins(t, s) <=> LiesAt(t, s, 0)
    OBVIOUS
  <1>1. 0 + Len(t) = Len(t) /\ \A k \in 1 .. Len(t) : 0 + k = k
    OBVIOUS
  <1> QED
    BY <1>1 DEF Begins, LiesAt

-----------------------------------------------------------------------------
(* Windows: what the decoder of an element may read.                       *)

Pane(at, end, ends) == [fault |-> "", at |-> at, end |-> end, ends |-> ends]
Panes(s) == [fault : Faults, at : Nat, end : 0 .. Len(s), ends : SUBSET Nat]

\* A window is known by its parts.
LEMMA PaneParts ==
    ASSUME NEW at, NEW end, NEW ends, NEW w, w = Pane(at, end, ends)
    PROVE  Faultless(w) /\ w.at = at /\ w.end = end /\ w.ends = ends
  <1>1. w.fault = ""
    BY DEF Pane
  <1>2. w.at = at /\ w.end = end /\ w.ends = ends
    BY DEF Pane
  <1> QED
    BY <1>1, <1>2 DEF Faultless

\* A window's type.
LEMMA PaneType ==
    ASSUME NEW s, NEW at \in Nat, NEW end \in 0 .. Len(s), NEW ends \in SUBSET Nat
    PROVE  Pane(at, end, ends) \in Panes(s)
  <1>1. "" \in Faults
    BY DEF Faults
  <1> HIDE DEF Faults
  <1> QED
    BY <1>1, Zenon DEF Pane, Panes

\* What is known of the parts of any window.
LEMMA PanesParts ==
    ASSUME NEW s, NEW w \in Panes(s)
    PROVE  w.fault \in Faults /\ w.at \in Nat /\ w.end \in 0 .. Len(s) /\ w.ends \in SUBSET Nat
  <1> HIDE DEF Faults
  <1> QED
    BY DEF Panes

\* What a window ends with when a tag and a length are not found in it.
LEMMA FailedType ==
    ASSUME NEW s, NEW w \in Panes(s), NEW x \in Faults
    PROVE  [w EXCEPT !.fault = x] \in Panes(s) /\ [w EXCEPT !.fault = x].fault = x
  <1> HIDE DEF Faults
  <1> QED
    BY DEF Panes

\* How a tag and a length open a window: from the place they begin at, and the length.
OpensTo(w, tag, s, used, x) ==
    /\ Faultless(w) /\ used \in Nat /\ x \in 0 .. 255
    /\ used >= 1 /\ (x >= 128 => used >= 2)
    /\ w.at + Len(tag) + used + x <= w.end
    /\ Opened(w, tag, s) =
           Pane(w.at + Len(tag) + used, w.at + Len(tag) + used + x, w.ends \cup {w.at + Len(tag) + used + x})

\* A tag and a length in a window end in an exception, or open the next window.
LEMMA OpenedCases ==
    ASSUME NEW s \in Seq(0 .. 255), NEW w \in Panes(s), NEW tag \in Seq(0 .. 255)
    PROVE  \/ ~Faultless(Opened(w, tag, s)) /\ Opened(w, tag, s) \in Panes(s)
           \/ \E used, x : OpensTo(w, tag, s, used, x)
  <1>1. PICK a \in Nat, e \in Nat, n \in Nat, l \in Nat :
            a = w.at /\ e = w.end /\ n = Len(tag) /\ l = Len(s) /\ e <= l
    <2>1. Len(s) \in Nat /\ Len(tag) \in Nat
      BY LenProperties
    <2>2. w.at \in Nat /\ w.end \in 0 .. Len(s)
      BY PanesParts
    <2> QED
      BY <2>1, <2>2
  <1>2. w.fault \in Faults
    BY PanesParts
  <1>3. PICK r : r = Opened(w, tag, s)
    OBVIOUS
  <1>4. PICK len : len = ReadLength(SubSeq(s, w.at + n + 1, w.end))
    OBVIOUS
  <1> DEFINE from == w.at + n + len.used
             Fails(fault) == [w EXCEPT !.fault = fault]
             missing == w.end - w.at < n
             other == SubSeq(s, w.at + 1, w.at + n) # tag
             over == from + len.value > w.end
  <1>5. r = IF w.fault # "" THEN w
            ELSE IF missing THEN Fails("overflow")
            ELSE IF other THEN Fails("unknown_tag")
            ELSE IF len.fault # "" THEN Fails(len.fault)
            ELSE IF over THEN Fails("overflow")
            ELSE Pane(from, from + len.value, w.ends \cup {from + len.value})
    BY <1>1, <1>3, <1>4, Zenon DEF Opened, Pane
  <1> HIDE DEF from, missing, other, over
  <1>6. ASSUME NEW x \in Faults, x # "", r = Fails(x) PROVE ~Faultless(r) /\ r \in Panes(s)
    <2>1. [w EXCEPT !.fault = x] \in Panes(s) /\ [w EXCEPT !.fault = x].fault = x
      BY FailedType
    <2> QED
      BY <1>6, <2>1, Zenon DEF Faultless
  <1> HIDE DEF Fails
  <1>7. "overflow" \in Faults /\ "unknown_tag" \in Faults /\ "overflow" # "" /\ "unknown_tag" # ""
    BY DEF Faults
  <1>8. CASE w.fault # ""
    <2>1. r = w
      BY <1>5, <1>8, Zenon
    <2> QED
      BY <1>3, <1>8, <2>1, Zenon DEF Faultless
  <1>9. CASE w.fault = "" /\ missing
    <2>1. r = Fails("overflow")
      BY <1>5, <1>9, Zenon
    <2> QED
      BY <1>3, <1>6, <1>7, <2>1, Zenon
  <1>10. CASE w.fault = "" /\ ~missing /\ other
    <2>1. r = Fails("unknown_tag")
      BY <1>5, <1>10, Zenon
    <2> QED
      BY <1>3, <1>6, <1>7, <2>1, Zenon
  <1>11. CASE w.fault = "" /\ ~missing /\ ~other
    <2>1. a + n <= e
      <3>1. ~missing
        BY <1>11
      <3> QED
        BY <1>1, <3>1 DEF missing
    <2>2. PICK y \in Seq(0 .. 255) : y = SubSeq(s, w.at + n + 1, w.end) /\ Len(y) = e - (a + n)
      <3>1. a + n \in Nat
        OBVIOUS
      <3>2. SubSeq(s, (a + n) + 1, e) \in Seq(0 .. 255) /\ Len(SubSeq(s, (a + n) + 1, e)) = e - (a + n)
        <4>1. a + n <= e /\ e <= Len(s)
          BY <1>1, <2>1
        <4> QED
          BY <3>1, <4>1, Slice, ZenonT(30)
      <3> QED
        BY <1>1, <3>2
    <2>3. len = ReadLength(y)
      BY <1>4, <2>2, Zenon
    <2>4. Faulty(len) /\ len.used \in 0 .. Len(y) /\ len.value \in 0 .. 255
      BY <2>3, ReadLengthFacts
    <2>5. Faultless(len) => len.used >= 1 /\ (len.value >= 128 => len.used >= 2)
      BY <2>3, ReadLengthFacts
    <2>6. CASE len.fault # ""
      <3>1. r = Fails(len.fault)
        BY <1>5, <1>11, <2>6, Zenon
      <3> QED
        BY <1>3, <1>6, <2>4, <2>6, <3>1, Zenon DEF Faulty
    <2>7. CASE len.fault = "" /\ over
      <3>1. r = Fails("overflow")
        BY <1>5, <1>11, <2>7, Zenon
      <3> QED
        BY <1>3, <1>6, <1>7, <3>1, Zenon
    <2>8. CASE len.fault = "" /\ ~over
      <3>1. r = Pane(from, from + len.value, w.ends \cup {from + len.value})
        BY <1>5, <1>11, <2>8, Zenon
      <3>2. Faultless(len) /\ Faultless(w)
        BY <1>11, <2>8 DEF Faultless
      <3>3. PICK u \in Nat, x \in 0 .. 255 : u = len.used /\ x = len.value /\ u >= 1 /\ (x >= 128 => u >= 2)
        <4>1. len.used \in Nat
          BY <2>2, <2>4
        <4> QED
          BY <2>4, <2>5, <3>2, <4>1
      <3>4. from = w.at + n + u
        BY <3>3 DEF from
      <3>5. w.at + n + u + x <= w.end
        <4>1. ~over
          BY <2>8
        <4>2. w.at + n + u + x \in Nat /\ w.end \in Nat
          <5>1. x \in Nat /\ a + n + u + x \in Nat
            OBVIOUS
          <5> QED
            BY <1>1, <5>1
        <4>3. ~(w.at + n + u + x > w.end)
          BY <3>3, <3>4, <4>1, Zenon DEF over
        <4> QED
          BY <4>2, <4>3
      <3>6. OpensTo(w, tag, s, u, x)
        BY <1>1, <1>3, <3>1, <3>2, <3>3, <3>4, <3>5 DEF OpensTo
      <3> QED
        BY <3>6
    <2> QED
      BY <2>6, <2>7, <2>8
  <1> QED
    BY <1>8, <1>9, <1>10, <1>11

\* A tag and the length x behind octet a, up to octet b: what they announce ends at c.
Announces(s, a, e, tag, x, b, c) ==
    /\ s \in Seq(0 .. 255) /\ tag \in Seq(0 .. 255) /\ x \in 0 .. 255
    /\ a \in Nat /\ b \in Nat /\ c \in Nat /\ e \in Nat /\ c <= e /\ e <= Len(s)
    /\ LiesAt(tag \o BerLength(x), s, a) /\ b = a + Len(tag \o BerLength(x)) /\ c = b + x

\* The window that is announced is opened.
LEMMA OpenedWritten ==
    ASSUME NEW s, NEW a, NEW e, NEW ends, NEW tag, NEW x, NEW b, NEW c, Announces(s, a, e, tag, x, b, c)
    PROVE  Opened(Pane(a, e, ends), tag, s) = Pane(b, c, ends \cup {c})
  <1>a. /\ s \in Seq(0 .. 255) /\ tag \in Seq(0 .. 255) /\ x \in 0 .. 255
        /\ a \in Nat /\ b \in Nat /\ c \in Nat /\ e \in Nat /\ c <= e /\ e <= Len(s)
    BY DEF Announces
  <1> USE <1>a
  <1>w. PICK w : w = Pane(a, e, ends)
    OBVIOUS
  <1> USE <1>w
  <1>0. LiesAt(tag \o BerLength(x), s, a) /\ b = a + Len(tag \o BerLength(x)) /\ c = b + x
    BY DEF Announces
  <1>1. PICK o \in Seq(0 .. 255) : o = BerLength(x)
    BY BerLengthFacts
  <1>2. PICK n \in Nat, m \in Nat, l \in Nat : n = Len(tag) /\ m = Len(o) /\ l = Len(s)
    BY LenProperties
  <1>3. b = a + n + m /\ e \in Nat /\ e <= l /\ a + n <= e /\ a + n + m <= e
    <2>1. Len(tag \o o) = n + m
      BY <1>2, ConcatProperties
    <2>2. b = a + (n + m) /\ e \in Nat /\ e <= l
      BY <1>0, <1>1, <1>2, <2>1
    <2>3. x \in Nat /\ b + x <= e
      BY <1>0
    <2> QED
      BY <2>2, <2>3
  <1>4. LiesAt(tag, s, a) /\ LiesAt(o, s, a + n)
    <2>1. LiesAt(tag \o o, s, a)
      BY <1>0, <1>1
    <2> QED
      BY <1>2, <2>1, LiesConcat
  <1>5. SubSeq(s, a + 1, a + n) = tag
    <2>1. a + Len(tag) <= e /\ e <= Len(s) /\ e \in Nat
      BY <1>2, <1>3
    <2>2. SubSeq(s, a + 1, a + Len(tag)) = tag
      BY <1>4, <2>1, LiesIn
    <2> QED
      BY <1>2, <2>2
  <1>6. PICK y \in Seq(0 .. 255) : y = SubSeq(s, a + n + 1, e) /\ Begins(o, y)
    <2>1. PICK p \in Nat : p = a + n
      OBVIOUS
    <2>2. p + Len(o) <= e /\ e <= Len(s) /\ e \in Nat /\ LiesAt(o, s, p)
      BY <1>2, <1>3, <1>4, <2>1
    <2>3. SubSeq(s, p + 1, e) \in Seq(0 .. 255) /\ Begins(o, SubSeq(s, p + 1, e))
      BY <2>2, LiesIn
    <2> QED
      BY <2>1, <2>3
  <1>7. ReadLength(y) = Good(m, x)
    <2>1. Begins(BerLength(x), y)
      BY <1>1, <1>6
    <2> QED
      BY <1>1, <1>2, <2>1, LengthComesBack
  <1>8. Faultless(w) /\ w.at = a /\ w.end = e /\ w.ends = ends
    BY PaneParts
  <1>9. PICK len : len = ReadLength(SubSeq(s, w.at + n + 1, w.end))
    OBVIOUS
  <1>10. len = Good(m, x)
    BY <1>6, <1>7, <1>8, <1>9, Zenon
  <1>11. Faultless(len) /\ len.used = m /\ len.value = x
    BY <1>10, GoodParts
  <1> DEFINE from == w.at + n + len.used
             Fails(fault) == [w EXCEPT !.fault = fault]
             missing == w.end - w.at < n
             other == SubSeq(s, w.at + 1, w.at + n) # tag
             over == from + len.value > w.end
  <1>12. Opened(w, tag, s) =
            IF w.fault # "" THEN w
            ELSE IF missing THEN Fails("overflow")
            ELSE IF other THEN Fails("unknown_tag")
            ELSE IF len.fault # "" THEN Fails(len.fault)
            ELSE IF over THEN Fails("overflow")
            ELSE Pane(from, from + len.value, w.ends \cup {from + len.value})
    BY <1>2, <1>9, Zenon DEF Opened, Pane
  <1>13. ~missing
    <2>1. ~(e - a < n)
      BY <1>3
    <2> QED
      BY <1>8, <2>1
  <1>14. ~other
    BY <1>5, <1>8
  <1>15. from = b
    BY <1>3, <1>8, <1>11
  <1>16. ~over
    <2>1. x \in Nat /\ b + x <= e
      BY <1>0
    <2>2. ~(b + x > e)
      BY <1>3, <2>1
    <2> HIDE DEF from
    <2> QED
      BY <1>8, <1>11, <1>15, <2>2
  <1>17. w.fault = "" /\ len.fault = ""
    BY <1>8, <1>11 DEF Faultless
  <1> HIDE DEF from, missing, other, over, Fails
  <1>18. Opened(w, tag, s) = Pane(from, from + len.value, w.ends \cup {from + len.value})
    BY <1>12, <1>13, <1>14, <1>16, <1>17, Zenon
  <1> QED
    BY <1>0, <1>8, <1>11, <1>15, <1>18

\* The windows of an element, each in the one before it.
Windows(tags, s, W) ==
    /\ W[0] = Pane(0, Len(s), {})
    /\ \A k \in 1 .. Len(tags) : W[k] = Opened(W[k - 1], tags[k], s)

\* What a window opens is a window.
LEMMA OpenedType ==
    ASSUME NEW s \in Seq(0 .. 255), NEW w \in Panes(s), NEW tag \in Seq(0 .. 255)
    PROVE  Opened(w, tag, s) \in Panes(s)
  <1>1. CASE ~Faultless(Opened(w, tag, s)) /\ Opened(w, tag, s) \in Panes(s)
    BY <1>1
  <1>2. CASE \E used, x : OpensTo(w, tag, s, used, x)
    <2>1. PICK used, x : OpensTo(w, tag, s, used, x)
      BY <1>2
    <2>2. PICK a \in Nat, e \in 0 .. Len(s), n \in Nat : a = w.at /\ e = w.end /\ n = Len(tag) /\ w.ends \in SUBSET Nat
      <3>1. Len(tag) \in Nat
        BY LenProperties
      <3>2. w.at \in Nat /\ w.end \in 0 .. Len(s) /\ w.ends \in SUBSET Nat
        BY PanesParts
      <3> QED
        BY <3>1, <3>2
    <2>3. used \in Nat /\ x \in 0 .. 255 /\ a + n + used + x <= e
      BY <2>1, <2>2 DEF OpensTo
    <2>4. a + n + used \in Nat /\ a + n + used + x \in Nat
      BY <2>3
    <2>5. Len(s) \in Nat
      BY LenProperties
    <2>6. PICK b \in Nat, c \in 0 .. Len(s) : b = a + n + used /\ c = a + n + used + x
      BY <2>3, <2>4, <2>5
    <2>7. w.ends \cup {c} \in SUBSET Nat
      BY <2>2, <2>4, <2>6
    <2>8. Pane(b, c, w.ends \cup {c}) \in Panes(s)
      BY <2>7, PaneType
    <2>9. Opened(w, tag, s) = Pane(b, c, w.ends \cup {c})
      BY <2>1, <2>2, <2>6 DEF OpensTo
    <2> QED
      BY <2>8, <2>9
  <1> QED
    BY <1>1, <1>2, OpenedCases

\* A field behind tags.
Tagged(f) == f.tags \in Seq(Seq(0 .. 255)) /\ Len(f.tags) >= 1 /\ f.codec \in {"integer", "string"}

\* The windows of an element, tag by tag.
LEMMA WindowsExist ==
    ASSUME NEW f, Tagged(f), NEW s \in Seq(0 .. 255), NEW wraps
    PROVE  \E W \in [0 .. Len(f.tags) -> Panes(s)] :
               Windows(f.tags, s, W) /\ Decoded(f, s, wraps) = Windowed(f, W[Len(f.tags)], s)
  <1>1. PICK tags \in Seq(Seq(0 .. 255)), m \in Nat :
            tags = f.tags /\ m = Len(tags) /\ \A k \in 1 .. m : tags[k] \in Seq(0 .. 255)
    BY LenProperties, ElementOfSeq DEF Tagged
  <1> DEFINE first == [fault |-> "", at |-> 0, end |-> Len(s), ends |-> {}]
             Opening(W) == W = [k \in 0 .. m |-> IF k = 0 THEN first ELSE Opened(W[k - 1], tags[k], s)]
             window == CHOOSE W : Opening(W)
             G == [p \in (1 .. m) \X Panes(s) |-> Opened(p[2], tags[p[1]], s)]
  <1>2. first = Pane(0, Len(s), {})
    BY DEF Pane
  <1>3. Decoded(f, s, wraps) = Windowed(f, window[m], s)
    <2>1. f.codec # "bits" /\ f.codec # "varint" /\ f.codec \in {"integer", "string"}
      BY DEF Tagged
    <2> QED
      BY <1>1, <2>1, Zenon DEF Decoded
  <1> HIDE DEF first
  <1>4. first \in Panes(s)
    <2>1. Len(s) \in Nat
      BY LenProperties
    <2>2. Len(s) \in 0 .. Len(s)
      BY <2>1
    <2> QED
      BY <1>2, <2>2, PaneType
  <1>5. G \in [(1 .. m) \X Panes(s) -> Panes(s)]
    <2>1. ASSUME NEW p \in (1 .. m) \X Panes(s) PROVE Opened(p[2], tags[p[1]], s) \in Panes(s)
      <3>1. PICK w \in Panes(s), tag \in Seq(0 .. 255) : w = p[2] /\ tag = tags[p[1]]
        BY <1>1
      <3> QED
        BY <3>1, OpenedType
    <2> QED
      BY <2>1
  <1>6. \A k \in 1 .. m, w \in Panes(s) : G[<<k, w>>] = Opened(w, tags[k], s)
    OBVIOUS
  <1> HIDE DEF G
  <1>7. PICK r \in [0 .. m -> Panes(s)] : Rounds(m, first, G, r)
    BY <1>4, <1>5, RoundsExist
  <1>8. Opening(r)
    <2>1. r = [k \in 0 .. m |-> r[k]]
      OBVIOUS
    <2>2. ASSUME NEW k \in 0 .. m PROVE r[k] = IF k = 0 THEN first ELSE Opened(r[k - 1], tags[k], s)
      <3>1. CASE k = 0
        BY <1>7, <3>1 DEF Rounds
      <3>2. CASE k # 0
        <4>1. k \in 1 .. m /\ k - 1 \in 0 .. m
          BY <3>2
        <4>2. r[k] = G[<<k, r[k - 1]>>] /\ r[k - 1] \in Panes(s)
          BY <1>7, <4>1 DEF Rounds
        <4> QED
          BY <1>6, <3>2, <4>1, <4>2
      <3> QED
        BY <3>1, <3>2
    <2> QED
      BY <2>1, <2>2
  <1>9. Opening(window)
    <2> HIDE DEF Opening
    <2> QED
      BY <1>8
  <1> HIDE DEF window
  <1>10. \A k \in 0 .. m : window[k] = IF k = 0 THEN first ELSE Opened(window[k - 1], tags[k], s)
    BY <1>9
  <1>11. window = [k \in 0 .. m |-> window[k]]
    BY <1>9
  <1> HIDE DEF Opening
  <1>12. window[0] = first
    <2>1. 0 \in 0 .. m
      BY ZeroIn
    <2> QED
      BY <1>10, <2>1
  <1>13. \A k \in 1 .. m : window[k] = Opened(window[k - 1], tags[k], s)
    <2>1. \A k \in 1 .. m : k \in 0 .. m /\ k # 0
      OBVIOUS
    <2> QED
      BY <1>10, <2>1
  <1>14. \A k \in 0 .. m : window[k] \in Panes(s)
    <2> DEFINE T == {k \in 0 .. m : window[k] \in Panes(s)}
    <2>1. 0 \in T
      BY <1>4, <1>12, ZeroIn
    <2>2. ASSUME NEW k \in 1 .. m, k - 1 \in T PROVE k \in T
      <3>1. PICK w \in Panes(s), tag \in Seq(0 .. 255) : w = window[k - 1] /\ tag = tags[k]
        BY <1>1, <2>2
      <3>2. Opened(w, tag, s) \in Panes(s)
        BY OpenedType
      <3>3. k \in 0 .. m
        OBVIOUS
      <3> QED
        BY <1>13, <3>1, <3>2, <3>3
    <2> HIDE DEF T
    <2>3. \A k \in 0 .. m : k \in T
      BY <2>1, <2>2, UpTo
    <2> QED
      BY <2>3 DEF T
  <1>15. Windows(tags, s, window)
    BY <1>1, <1>2, <1>12, <1>13 DEF Windows
  <1>16. window \in [0 .. m -> Panes(s)]
    BY <1>11, <1>14
  <1> QED
    BY <1>1, <1>3, <1>15, <1>16

\* The values of a field, and what is written for one behind its tags.
FieldValues(f) == IF f.codec = "string" THEN Seq(0 .. 255) ELSE ValuesOf(f.type)
Says(f, content, v) == IF f.codec = "string" THEN v = content ELSE ReadInteger(f.type, content) = {v}
TypedField(f) == f.codec = "string" \/ f.type \in IntegerTypes

\* What a window shows are octets.
LEMMA ContentType ==
    ASSUME NEW s \in Seq(0 .. 255), NEW a \in Nat, NEW e \in 0 .. Len(s)
    PROVE  SubSeq(s, a + 1, e) \in Seq(0 .. 255) /\ (a <= e => Len(SubSeq(s, a + 1, e)) = e - a)
  <1>1. Len(s) \in Nat
    BY LenProperties
  <1>2. e \in Nat /\ e <= Len(s)
    BY <1>1
  <1>3. CASE a <= e
    BY <1>2, <1>3, Slice
  <1>4. CASE ~(a <= e)
    <2>1. e < a + 1 /\ e \in Int /\ a + 1 \in Int
      BY <1>2, <1>4
    <2>2. SubSeq(s, a + 1, e) = <<>>
      BY <2>1, SubSeqEmpty
    <2>3. <<>> \in Seq(0 .. 255)
      OBVIOUS
    <2> QED
      BY <1>4, <2>2, <2>3
  <1> QED
    BY <1>3, <1>4

\* What decoding an element ends with, from its innermost window.
LEMMA WindowedCases ==
    ASSUME NEW f, Tagged(f), TypedField(f), NEW s \in Seq(0 .. 255), NEW w \in Panes(s), NEW r, r = Windowed(f, w, s)
    PROVE  \/ ~Faultless(r) /\ Faulty(r) /\ r.used = 0
           \/ \E content \in Seq(0 .. 255), v \in FieldValues(f) :
                 /\ Faultless(w) /\ w.ends = {w.end}
                 /\ content = SubSeq(s, w.at + 1, w.end) /\ Says(f, content, v)
                 /\ r = Good(w.end, v)
  <1>1. PICK a \in Nat, e \in 0 .. Len(s) : a = w.at /\ e = w.end
    BY PanesParts
  <1> DEFINE content == SubSeq(s, w.at + 1, w.end)
  <1>2. content \in Seq(0 .. 255)
    BY <1>1, ContentType
  <1>3. w.fault \in Faults
    BY PanesParts
  <1> DEFINE unread == f.codec = "integer" /\ ReadInteger(f.type, content) = {}
             chosen == CHOOSE v \in ReadInteger(f.type, content) : TRUE
             value == IF f.codec = "string" THEN content ELSE chosen
  <1>4. r = IF w.fault # "" THEN Bad(w.fault)
            ELSE IF unread THEN Bad("invalid_value")
            ELSE IF w.ends # {w.end} THEN Bad("overflow")
            ELSE Good(w.end, value)
    BY Zenon DEF Windowed
  <1>5. "overflow" \in Faults \ {""} /\ "invalid_value" \in Faults \ {""}
    BY DEF Faults
  <1>6. ASSUME NEW x \in Faults \ {""}, r = Bad(x) PROVE ~Faultless(r) /\ Faulty(r) /\ r.used = 0
    BY <1>6, BadParts
  <1> HIDE DEF unread, value, chosen, content
  <1>7. CASE w.fault # ""
    <2>1. r = Bad(w.fault)
      BY <1>4, <1>7, Zenon
    <2>2. w.fault \in Faults \ {""}
      BY <1>3, <1>7
    <2> QED
      BY <1>6, <2>1, <2>2
  <1>8. CASE w.fault = "" /\ unread
    <2>1. r = Bad("invalid_value")
      BY <1>4, <1>8, Zenon
    <2> QED
      BY <1>5, <1>6, <2>1
  <1>9. CASE w.fault = "" /\ ~unread /\ w.ends # {w.end}
    <2>1. r = Bad("overflow")
      BY <1>4, <1>9, Zenon
    <2> QED
      BY <1>5, <1>6, <2>1
  <1>10. CASE w.fault = "" /\ ~unread /\ w.ends = {w.end}
    <2>1. r = Good(w.end, value) /\ Faultless(w)
      BY <1>4, <1>10, Zenon DEF Faultless
    <2>2. value \in FieldValues(f) /\ Says(f, content, value)
      <3>1. CASE f.codec = "string"
        BY <1>2, <3>1 DEF value, FieldValues, Says
      <3>2. CASE f.codec # "string"
        <4>1. f.codec = "integer" /\ f.type \in IntegerTypes
          BY <3>2 DEF Tagged, TypedField
        <4>2. ReadInteger(f.type, content) # {}
          BY <1>10, <4>1 DEF unread
        <4>3. chosen \in ReadInteger(f.type, content) /\ value = chosen
          BY <3>2, <4>2 DEF chosen, value
        <4>4. chosen \in ValuesOf(f.type)
          BY <1>2, <4>1, <4>3, IntegerRead
        <4>5. ReadInteger(f.type, content) = {chosen}
          <5>1. \E x : ReadInteger(f.type, content) \subseteq {x}
            BY DEF ReadInteger
          <5> QED
            BY <4>3, <5>1
        <4> QED
          BY <3>2, <4>3, <4>4, <4>5 DEF FieldValues, Says
      <3> QED
        BY <3>1, <3>2
    <2> QED
      BY <1>2, <1>10, <2>1, <2>2 DEF content
  <1> QED
    BY <1>7, <1>8, <1>9, <1>10

\* The octets in a window.
Shown(w, s) == SubSeq(s, w.at + 1, w.end)

\* A window that ends with all others and shows the octets of a value is that value.
LEMMA WindowedSays ==
    ASSUME NEW f, Tagged(f), NEW s, NEW w, Faultless(w), w.ends = {w.end}, NEW content,
           content = Shown(w, s), NEW v, Says(f, content, v)
    PROVE  Windowed(f, w, s) = Good(w.end, v)
  <1> DEFINE c == SubSeq(s, w.at + 1, w.end)
             unread == f.codec = "integer" /\ ReadInteger(f.type, c) = {}
             chosen == CHOOSE x \in ReadInteger(f.type, c) : TRUE
             value == IF f.codec = "string" THEN c ELSE chosen
  <1>0. c = content
    BY DEF Shown
  <1>1. Windowed(f, w, s) = IF w.fault # "" THEN Bad(w.fault)
                            ELSE IF unread THEN Bad("invalid_value")
                            ELSE IF w.ends # {w.end} THEN Bad("overflow")
                            ELSE Good(w.end, value)
    BY Zenon DEF Windowed
  <1>2. ~unread /\ value = v
    <2> HIDE DEF c
    <2>1. CASE f.codec = "string"
      BY <1>0, <2>1 DEF Says
    <2>2. CASE f.codec # "string"
      <3>1. ReadInteger(f.type, content) = {v}
        BY <2>2 DEF Says
      <3> QED
        BY <1>0, <2>2, <3>1
    <2> QED
      BY <2>1, <2>2
  <1> HIDE DEF unread, value
  <1> QED
    BY <1>1, <1>2, Zenon DEF Faultless

\* Elements of anything.
LEMMA ElementDecoded ==
    ASSUME NEW f, Tagged(f), TypedField(f), NEW s \in Seq(0 .. 255), NEW wraps, NEW r, r = Decoded(f, s, wraps)
    PROVE  /\ Faulty(r) /\ r.used \in 0 .. Len(s)
           /\ Faultless(r) => r.value \in FieldValues(f)
  <1>1. PICK m \in Nat : m = Len(f.tags)
    BY LenProperties DEF Tagged
  <1>2. PICK W \in [0 .. m -> Panes(s)] : r = Windowed(f, W[m], s)
    BY <1>1, WindowsExist
  <1>3. PICK w \in Panes(s) : r = Windowed(f, w, s)
    <2>1. m \in 0 .. m
      OBVIOUS
    <2> QED
      BY <1>2, <2>1
  <1>4. w.end \in 0 .. Len(s) /\ Len(s) \in Nat /\ 0 \in 0 .. Len(s)
    BY PanesParts, LenProperties, ZeroIn
  <1>5. CASE ~Faultless(r) /\ Faulty(r) /\ r.used = 0
    BY <1>4, <1>5
  <1>6. ASSUME NEW v \in FieldValues(f), r = Good(w.end, v)
        PROVE  Faulty(r) /\ r.used \in 0 .. Len(s) /\ r.value \in FieldValues(f)
    <2>1. Faulty(r) /\ r.used = w.end /\ r.value = v
      BY <1>6, GoodParts
    <2> QED
      BY <1>4, <2>1
  <1> QED
    BY <1>3, <1>5, <1>6, WindowedCases

\* What is counted is not negative.
LEMMA InsideNatural ==
    ASSUME NEW tags \in Seq(Seq(0 .. 255)), NEW n \in Nat
    PROVE  \A i \in 0 .. Len(tags) : Inside(tags, i, n) \in Nat
  <1>0. /\ Inside(tags, Len(tags), n) = n
        /\ \A i \in 1 .. Len(tags) : Inside(tags, i - 1, n) = Inside(tags, i, n) + Len(tags[i]) + 1
    <2>1. n \in Int
      OBVIOUS
    <2> QED
      BY <2>1, InsideFacts
  <1>1. PICK m \in Nat : m = Len(tags) /\ \A i \in 1 .. m : Len(tags[i]) \in Nat
    BY LenProperties, ElementOfSeq
  <1> DEFINE T == {i \in 0 .. m : Inside(tags, i, n) \in Nat}
  <1>2. m \in T
    <2>1. Inside(tags, Len(tags), n) = n
      BY <1>0
    <2> QED
      BY <1>1, <2>1
  <1>3. ASSUME NEW k \in 1 .. m, k \in T PROVE k - 1 \in T
    <2>1. Inside(tags, k - 1, n) = Inside(tags, k, n) + Len(tags[k]) + 1
      BY <1>0, <1>1
    <2>2. k - 1 \in 0 .. m /\ Inside(tags, k, n) \in Nat /\ Len(tags[k]) \in Nat
      BY <1>1, <1>3
    <2> QED
      BY <2>1, <2>2
  <1> HIDE DEF T
  <1>4. \A k \in 0 .. m : k \in T
    BY <1>2, <1>3, DownFrom
  <1> QED
    BY <1>1, <1>4 DEF T

Counted(tags, n) == \A i \in DOMAIN tags : Inside(tags, i, n) < (IF i = 1 THEN 256 ELSE 128)

\* What Measured says of the lengths.
LEMMA MeasuredCounted ==
    ASSUME NEW f, NEW n, Measured(f, n)
    PROVE  Counted(f.tags, n)
  BY DEF Measured, Counted

\* With lengths as they are counted, each says where the element ends.
SaysItsEnd(tags, n, g) ==
    /\ \A i \in 1 .. Len(tags) :
          /\ Inside(tags, i, n) \in 0 .. 255
          /\ i >= 2 => Inside(tags, i, n) < 128
          /\ LengthAt(tags, i, n) = BerLength(Inside(tags, i, n))
          /\ Len(g[i]) = Len(g[i - 1]) + Len(tags[i]) + Len(BerLength(Inside(tags, i, n)))
          /\ Len(g[i]) \in Nat /\ Len(g[i]) + Inside(tags, i, n) = Len(g[Len(tags)]) + n
    /\ \A i \in 0 .. Len(tags) : Len(g[i]) \in Nat

\* Where lengths are counted as they are written, each one leads to the end of the element.
LEMMA MeasuredFacts ==
    ASSUME NEW tags \in Seq(Seq(0 .. 255)), NEW n \in Nat, Counted(tags, n),
           NEW g, InFront(tags, n, g), NEW m \in Nat, m = Len(tags)
    PROVE  SaysItsEnd(tags, n, g)
  <1>1. \A i \in 1 .. m : Len(tags[i]) \in Nat /\ tags[i] \in Seq(0 .. 255)
    BY LenProperties, ElementOfSeq
  <1>2. \A i \in 0 .. m : Len(g[i]) \in Nat /\ g[i] \in Seq(0 .. 255)
    <2>1. \A i \in 0 .. m : g[i] \in Seq(0 .. 255)
      BY DEF InFront
    <2> QED
      BY <2>1, LenProperties
  <1>3. ASSUME NEW i \in 1 .. m
        PROVE  /\ Inside(tags, i, n) \in 0 .. 255 /\ (i >= 2 => Inside(tags, i, n) < 128)
               /\ LengthAt(tags, i, n) = BerLength(Inside(tags, i, n))
    <2>1. i \in 0 .. Len(tags) /\ DOMAIN tags = 1 .. m
      BY LenProperties
    <2>2. PICK x \in Nat : x = Inside(tags, i, n)
      BY <2>1, InsideNatural
    <2>3. x < (IF i = 1 THEN 256 ELSE 128)
      <3>1. \A j \in DOMAIN tags : Inside(tags, j, n) < (IF j = 1 THEN 256 ELSE 128)
        BY Zenon DEF Counted
      <3>2. i \in DOMAIN tags
        BY <2>1
      <3>3. Inside(tags, i, n) < (IF i = 1 THEN 256 ELSE 128)
        BY <3>1, <3>2, Zenon
      <3> QED
        BY <2>2, <3>3
    <2>4. x \in 0 .. 255 /\ (i >= 2 => x < 128) /\ x % 256 = x
      <3>0. \A y \in Nat : y < 256 => y \in 0 .. 255 /\ y % 256 = y
        OBVIOUS
      <3>1. CASE i = 1
        <4>1. x < 256 /\ ~(i >= 2)
          BY <2>3, <3>1
        <4> QED
          BY <3>0, <4>1
      <3>2. CASE i # 1
        <4>1. x < 128 /\ x < 256
          BY <2>3, <3>2
        <4> QED
          BY <3>0, <4>1
      <3> QED
        BY <3>1, <3>2
    <2> QED
      BY <2>2, <2>4 DEF LengthAt
  <1>4. ASSUME NEW i \in 1 .. m
        PROVE  Len(g[i]) = Len(g[i - 1]) + Len(tags[i]) + Len(BerLength(Inside(tags, i, n)))
    <2>1. i - 1 \in 0 .. m
      OBVIOUS
    <2>2. PICK a \in Seq(0 .. 255), t \in Seq(0 .. 255), b \in Seq(0 .. 255) :
              a = g[i - 1] /\ t = tags[i] /\ b = BerLength(Inside(tags, i, n))
      <3>1. BerLength(Inside(tags, i, n)) \in Seq(0 .. 255)
        BY <1>3, BerLengthFacts
      <3> QED
        BY <1>1, <1>2, <2>1, <3>1
    <2>3. g[i] = a \o (t \o b)
      BY <1>3, <2>2 DEF InFront
    <2>4. t \o b \in Seq(0 .. 255) /\ Len(t \o b) = Len(t) + Len(b)
      BY ConcatProperties
    <2>5. Len(a \o (t \o b)) = Len(a) + Len(t \o b)
      BY <2>4, ConcatProperties
    <2>6. Len(a) \in Nat /\ Len(t) \in Nat /\ Len(b) \in Nat
      BY LenProperties
    <2>7. Len(a) + (Len(t) + Len(b)) = Len(a) + Len(t) + Len(b)
      BY <2>6
    <2> QED
      BY <2>2, <2>3, <2>4, <2>5, <2>7
  <1>5. ASSUME NEW i \in 1 .. m, i >= 2 PROVE Len(BerLength(Inside(tags, i, n))) = 1
    <2>1. PICK x \in 0 .. 255 : x = Inside(tags, i, n) /\ x < 128
      BY <1>3, <1>5
    <2>2. BerLength(x) = <<x>>
      BY <2>1, BerLengthFacts
    <2>3. Len(<<x>>) = 1
      OBVIOUS
    <2> QED
      BY <2>1, <2>2, <2>3
  <1> DEFINE T == {i \in 0 .. m : i = 0 \/ Len(g[i]) + Inside(tags, i, n) = Len(g[m]) + n}
  <1>6. m \in T
    <2>1. Inside(tags, Len(tags), n) = n
      BY InsideFacts
    <2>2. m \in 0 .. m
      OBVIOUS
    <2> QED
      BY <2>1, <2>2
  <1>7. ASSUME NEW k \in 1 .. m, k \in T PROVE k - 1 \in T
    <2>1. CASE k = 1
      BY <2>1, ZeroIn
    <2>2. CASE k # 1
      <3>1. k >= 2 /\ k - 1 \in 1 .. m /\ k - 1 \in 0 .. m /\ k # 0 /\ k \in 0 .. m /\ m \in 0 .. m
        BY <2>2
      <3>2. Len(g[k]) = Len(g[k - 1]) + Len(tags[k]) + 1
        BY <1>4, <1>5, <3>1
      <3>3. Inside(tags, k - 1, n) = Inside(tags, k, n) + Len(tags[k]) + 1
        <4>1. n \in Int /\ k \in 1 .. Len(tags)
          OBVIOUS
        <4> QED
          BY <4>1, InsideFacts, Zenon
      <3>4. Len(g[k]) + Inside(tags, k, n) = Len(g[m]) + n
        BY <1>7, <3>1
      <3>5. /\ Len(tags[k]) \in Nat /\ Len(g[k - 1]) \in Nat /\ Len(g[k]) \in Nat /\ Len(g[m]) \in Nat
            /\ Inside(tags, k, n) \in Nat
        <4>1. Inside(tags, k, n) \in Nat
          <5>1. k \in 0 .. Len(tags)
            BY <3>1
          <5> QED
            BY <5>1, InsideNatural
        <4>2. Len(tags[k]) \in Nat
          BY <1>1
        <4> QED
          BY <1>2, <3>1, <4>1, <4>2
      <3>6. Len(g[k - 1]) + Inside(tags, k - 1, n) = Len(g[m]) + n
        <4>1. PICK p \in Nat, q \in Nat, r \in Nat, t \in Nat, x \in Nat :
                  /\ p = Len(g[k]) /\ q = Len(g[k - 1]) /\ r = Len(g[m]) /\ t = Len(tags[k])
                  /\ x = Inside(tags, k, n)
          BY <3>5
        <4>2. p = q + t + 1 /\ p + x = r + n /\ Inside(tags, k - 1, n) = x + t + 1
          BY <3>2, <3>3, <3>4, <4>1
        <4>3. q + (x + t + 1) = r + n
          BY <4>2
        <4> QED
          BY <4>1, <4>2, <4>3
      <3> QED
        BY <3>1, <3>6
    <2> QED
      BY <2>1, <2>2
  <1>8. \A k \in 0 .. m : k \in T
    <2> HIDE DEF T
    <2> QED
      BY <1>6, <1>7, DownFrom
  <1>9. \A i \in 1 .. m : Len(g[i]) + Inside(tags, i, n) = Len(g[m]) + n
    <2>1. \A i \in 1 .. m : i \in 0 .. m /\ i # 0
      OBVIOUS
    <2> QED
      BY <1>8, <2>1
  <1>10. \A i \in 1 .. m : Len(g[i]) \in Nat
    <2>1. \A i \in 1 .. m : i \in 0 .. m
      OBVIOUS
    <2> QED
      BY <1>2, <2>1
  <1> HIDE DEF T
  <1> QED
    BY <1>2, <1>3, <1>4, <1>9, <1>10, ZenonT(30) DEF SaysItsEnd

\* Each tag with its length is where the ones in front of it end.
LEMMA FrontLies ==
    ASSUME NEW tags \in Seq(Seq(0 .. 255)), NEW n \in Nat, NEW g, InFront(tags, n, g),
           NEW m \in Nat, m = Len(tags), NEW s \in Seq(0 .. 255), LiesAt(g[m], s, 0)
    PROVE  \A i \in 1 .. m : LiesAt(tags[i] \o LengthAt(tags, i, n), s, Len(g[i - 1]))
  <1> DEFINE T == {i \in 0 .. m : LiesAt(g[i], s, 0)}
  <1>1. m \in T
    OBVIOUS
  <1>2. ASSUME NEW i \in 1 .. m, i \in T
        PROVE  i - 1 \in T /\ LiesAt(tags[i] \o LengthAt(tags, i, n), s, Len(g[i - 1]))
    <2>1. i - 1 \in 0 .. m /\ i \in 0 .. m
      OBVIOUS
    <2>2. tags[i] \in Seq(0 .. 255) /\ LengthAt(tags, i, n) \in Seq(0 .. 255)
      <3>1. n \in Int
        OBVIOUS
      <3>2. tags[i] \in Seq(0 .. 255)
        BY ElementOfSeq
      <3>3. LengthAt(tags, i, n) \in Seq(0 .. 255)
        BY <2>1, <3>1, LengthAtType
      <3> QED
        BY <3>2, <3>3
    <2>3. PICK a \in Seq(0 .. 255), u \in Seq(0 .. 255) : a = g[i - 1] /\ u = tags[i] \o LengthAt(tags, i, n)
      <3>1. tags[i] \o LengthAt(tags, i, n) \in Seq(0 .. 255)
        BY <2>2, ConcatProperties
      <3>2. g[i - 1] \in Seq(0 .. 255)
        BY <2>1 DEF InFront
      <3> QED
        BY <3>1, <3>2
    <2>4. g[i] = a \o u
      BY <2>3 DEF InFront
    <2>5. LiesAt(a \o u, s, 0)
      BY <1>2, <2>4
    <2>6. LiesAt(a, s, 0) /\ LiesAt(u, s, 0 + Len(a))
      BY <2>5, LiesConcat
    <2>7. 0 + Len(a) = Len(a)
      <3>1. Len(a) \in Nat
        BY LenProperties
      <3> QED
        BY <3>1
    <2> QED
      BY <2>1, <2>3, <2>6, <2>7
  <1>3. \A i \in 0 .. m : i \in T
    <2>1. \A i \in 1 .. m : i \in T => i - 1 \in T
      BY <1>2
    <2> HIDE DEF T
    <2> QED
      BY <1>1, <2>1, DownFrom
  <1>4. \A i \in 1 .. m : i \in 0 .. m
    OBVIOUS
  <1> HIDE DEF T
  <1> QED
    BY <1>2, <1>3, <1>4

\* The octets of a content behind the tags of a field.
Enclosed(f, content) == FlattenSeq(Append(Headers(f.tags, Len(content)), content))

Encloses(tags, content, code, g) ==
    /\ InFront(tags, Len(content), g) /\ code = g[Len(tags)] \o content
    /\ Len(code) = Len(g[Len(tags)]) + Len(content)

\* An element is its tags and lengths, and its contents.
LEMMA EnclosedFacts ==
    ASSUME NEW f, Tagged(f), NEW content \in Seq(0 .. 255)
    PROVE  /\ Append(Headers(f.tags, Len(content)), content) \in Seq(Seq(0 .. 255))
           /\ Enclosed(f, content) \in Seq(0 .. 255)
           /\ \E g : Encloses(f.tags, content, Enclosed(f, content), g)
  <1>0. PICK tags \in Seq(Seq(0 .. 255)) : tags = f.tags
    BY DEF Tagged
  <1>1. PICK n \in Nat : n = Len(content) /\ n \in Int
    BY LenProperties
  <1>2. PICK h \in Seq(Seq(0 .. 255)) : h = Headers(tags, n)
    BY <1>1, HeadersFacts
  <1>3. PICK g : InFront(tags, n, g) /\ FlattenSeq(h) = g[Len(tags)]
    BY <1>1, <1>2, HeadersFacts
  <1>4. Append(h, content) \in Seq(Seq(0 .. 255))
    BY AppendProperties
  <1>5. FlattenSeq(Append(h, content)) = FlattenSeq(h) \o content
    BY FlattenAppend
  <1>6. Enclosed(f, content) = FlattenSeq(Append(h, content))
    BY <1>0, <1>1, <1>2 DEF Enclosed
  <1>7. FlattenSeq(Append(h, content)) \in Seq(0 .. 255) /\ FlattenSeq(h) \in Seq(0 .. 255)
    BY <1>4, FlattenType
  <1>8. PICK p \in Seq(0 .. 255) : p = g[Len(tags)]
    BY <1>3, <1>7
  <1>9. Len(p \o content) = Len(p) + Len(content)
    BY ConcatProperties
  <1>10. Encloses(tags, content, Enclosed(f, content), g)
    BY <1>1, <1>3, <1>5, <1>6, <1>8, <1>9 DEF Encloses
  <1> QED
    BY <1>0, <1>1, <1>2, <1>4, <1>6, <1>7, <1>10

Saying(f, s, a, e, v) == Says(f, SubSeq(s, a + 1, e), v)

\* The innermost window says the value.
LEMMA PaneSays ==
    ASSUME NEW f, Tagged(f), NEW s, NEW a, NEW e, NEW v, Saying(f, s, a, e, v)
    PROVE  Windowed(f, Pane(a, e, {e}), s) = Good(e, v)
  <1>1. PICK w : w = Pane(a, e, {e})
    OBVIOUS
  <1>2. Faultless(w) /\ w.at = a /\ w.end = e /\ w.ends = {e}
    BY <1>1, PaneParts
  <1>3. PICK content : content = Shown(w, s)
    OBVIOUS
  <1>4. Says(f, content, v)
    BY <1>2, <1>3 DEF Shown, Saying
  <1>5. w.ends = {w.end}
    BY <1>2
  <1>6. Windowed(f, w, s) = Good(w.end, v)
    BY <1>2, <1>3, <1>4, <1>5, WindowedSays
  <1> QED
    BY <1>1, <1>2, <1>6

\* An element that was written is read to its end, and says what it was written for.
LEMMA ElementComesBack ==
    ASSUME NEW f, Tagged(f), NEW content \in Seq(0 .. 255), Measured(f, Len(content)),
           NEW v, Says(f, content, v), NEW s \in Seq(0 .. 255), LiesAt(Enclosed(f, content), s, 0), NEW wraps
    PROVE  Decoded(f, s, wraps) = Good(Len(Enclosed(f, content)), v)
  <1>1. PICK tags \in Seq(Seq(0 .. 255)), m \in Nat, n \in Nat, l \in Nat :
            tags = f.tags /\ m = Len(tags) /\ n = Len(content) /\ m >= 1 /\ l = Len(s)
    <2>1. Len(f.tags) \in Nat /\ Len(content) \in Nat /\ Len(s) \in Nat
      BY LenProperties DEF Tagged
    <2> QED
      BY <2>1 DEF Tagged
  <1>2. PICK g : /\ InFront(tags, n, g) /\ Enclosed(f, content) = g[m] \o content
                 /\ Len(Enclosed(f, content)) = Len(g[m]) + n
    <2>1. \E g : Encloses(f.tags, content, Enclosed(f, content), g)
      BY EnclosedFacts
    <2> QED
      BY <1>1, <2>1 DEF Encloses
  <1>3. Counted(tags, n)
    BY <1>1, MeasuredCounted
  <1>4. /\ \A i \in 1 .. m : /\ Inside(tags, i, n) \in 0 .. 255
                             /\ LengthAt(tags, i, n) = BerLength(Inside(tags, i, n))
                             /\ Len(g[i]) = Len(g[i - 1]) + Len(tags[i]) + Len(BerLength(Inside(tags, i, n)))
                             /\ Len(g[i]) + Inside(tags, i, n) = Len(g[m]) + n
        /\ \A i \in 0 .. m : Len(g[i]) \in Nat
    <2>1. SaysItsEnd(tags, n, g)
      BY <1>1, <1>2, <1>3, MeasuredFacts
    <2> QED
      BY <1>1, <2>1, ZenonT(30) DEF SaysItsEnd
  <1>5. PICK last \in Seq(0 .. 255) : last = g[m] /\ m \in 0 .. m
    <2>1. m \in 0 .. m
      OBVIOUS
    <2> QED
      BY <1>1, <1>2, <2>1 DEF InFront
  <1>6. LiesAt(last, s, 0) /\ LiesAt(content, s, Len(last))
    <2>1. LiesAt(last \o content, s, 0)
      BY <1>2, <1>5
    <2>2. LiesAt(last, s, 0) /\ LiesAt(content, s, 0 + Len(last))
      BY <2>1, LiesConcat
    <2>3. 0 + Len(last) = Len(last)
      BY <1>4, <1>5
    <2> QED
      BY <2>2, <2>3
  <1>7. \A i \in 1 .. m : LiesAt(tags[i] \o BerLength(Inside(tags, i, n)), s, Len(g[i - 1]))
    <2>1. \A i \in 1 .. m : LiesAt(tags[i] \o LengthAt(tags, i, n), s, Len(g[i - 1]))
      BY <1>1, <1>2, <1>5, <1>6, FrontLies
    <2> QED
      BY <1>4, <2>1
  <1>8. PICK L \in Nat : L = Len(last) + n /\ L <= l /\ Len(last) \in Nat
    <2>1. Len(last) \in Nat
      BY LenProperties
    <2>2. Len(last) + n <= l
      BY <1>1, <1>6 DEF LiesAt
    <2> QED
      BY <2>1, <2>2
  <1>9. PICK W \in [0 .. m -> Panes(s)] : Windows(tags, s, W) /\ Decoded(f, s, wraps) = Windowed(f, W[m], s)
    BY <1>1, WindowsExist
  <1> DEFINE T == {k \in 0 .. m : k = 0 \/ W[k] = Pane(Len(g[k]), L, {L})}
  <1>10. 0 \in T
    BY ZeroIn
  <1>11. ASSUME NEW k \in 1 .. m, k - 1 \in T PROVE k \in T
    <2>1. k - 1 \in 0 .. m /\ k \in 0 .. m
      OBVIOUS
    <2>2. PICK x \in 0 .. 255, tag \in Seq(0 .. 255), a \in Nat, b \in Nat :
              x = Inside(tags, k, n) /\ tag = tags[k] /\ a = Len(g[k - 1]) /\ b = Len(g[k])
      <3>1. tags[k] \in Seq(0 .. 255)
        BY <1>1, ElementOfSeq
      <3>2. Len(g[k - 1]) \in Nat /\ Len(g[k]) \in Nat
        BY <1>4, <2>1
      <3> QED
        BY <1>4, <3>1, <3>2
    <2>3. LiesAt(tag \o BerLength(x), s, a)
      BY <1>7, <2>2
    <2>4. b = a + Len(tag \o BerLength(x))
      <3>1. b = a + Len(tag) + Len(BerLength(x))
        BY <1>4, <2>2
      <3>2. BerLength(x) \in Seq(0 .. 255)
        BY BerLengthFacts
      <3>3. Len(tag \o BerLength(x)) = Len(tag) + Len(BerLength(x))
        BY <3>2, ConcatProperties
      <3>4. Len(tag) \in Nat /\ Len(BerLength(x)) \in Nat
        BY <3>2, LenProperties
      <3> QED
        BY <3>1, <3>3, <3>4
    <2>5. L = b + x
      BY <1>4, <1>5, <1>8, <2>2
    <2>6. PICK e \in 0 .. l, ends \in SUBSET Nat : W[k - 1] = Pane(a, e, ends) /\ L <= e /\ ends \cup {L} = {L}
      <3>1. CASE k = 1
        <4>1. W[0] = Pane(0, l, {}) /\ k - 1 = 0
          BY <1>1, <1>9, <3>1 DEF Windows
        <4>2. a = 0
          <5>1. g[0] = <<>>
            BY <1>2 DEF InFront
          <5>2. Len(<<>>) = 0
            OBVIOUS
          <5> QED
            BY <2>2, <4>1, <5>1, <5>2
        <4>3. l \in 0 .. l /\ {} \cup {L} = {L} /\ {} \in SUBSET Nat
          OBVIOUS
        <4> QED
          BY <1>8, <4>1, <4>2, <4>3
      <3>2. CASE k # 1
        <4>1. k - 1 # 0
          BY <3>2
        <4>2. W[k - 1] = Pane(a, L, {L})
          BY <1>11, <2>2, <4>1
        <4>3. L \in 0 .. l /\ {L} \cup {L} = {L} /\ L <= L /\ {L} \in SUBSET Nat
          BY <1>8
        <4> QED
          BY <4>2, <4>3
      <3> QED
        BY <3>1, <3>2
    <2>7. Announces(s, a, e, tag, x, b, L)
      <3>1. e \in Nat /\ e <= Len(s) /\ L <= e
        BY <1>1, <2>6
      <3> HIDE DEF T
      <3> QED
        BY <2>3, <2>4, <2>5, <3>1, Zenon DEF Announces
    <2>8. Opened(Pane(a, e, ends), tag, s) = Pane(b, L, ends \cup {L})
      BY <2>7, OpenedWritten
    <2>9. W[k] = Opened(Pane(a, e, ends), tag, s)
      BY <1>1, <1>9, <2>2, <2>6 DEF Windows
    <2>10. W[k] = Pane(Len(g[k]), L, {L})
      BY <2>2, <2>6, <2>8, <2>9
    <2> QED
      BY <2>1, <2>10
  <1>12. \A k \in 0 .. m : k \in T
    <2> HIDE DEF T
    <2> QED
      BY <1>10, <1>11, UpTo
  <1>13. W[m] = Pane(Len(last), L, {L})
    <2>1. m # 0
      BY <1>1
    <2> QED
      BY <1>5, <1>12, <2>1
  <1> HIDE DEF T
  <1>14. content = SubSeq(s, Len(last) + 1, L)
    <2>1. PICK a \in Nat : a = Len(last)
      BY <1>8
    <2>2. L = a + Len(content)
      BY <1>1, <1>8, <2>1
    <2>3. LiesAt(content, s, a)
      BY <1>6, <2>1
    <2>5. SubSeq(s, a + 1, a + Len(content)) = content
      BY <2>3, LiesExactly
    <2> QED
      BY <2>1, <2>2, <2>5
  <1>15. Windowed(f, Pane(Len(last), L, {L}), s) = Good(L, v)
    <2>1. PICK a \in Nat : a = Len(last)
      BY <1>8
    <2>2. Saying(f, s, a, L, v)
      BY <1>14, <2>1 DEF Saying
    <2>3. Windowed(f, Pane(a, L, {L}), s) = Good(L, v)
      BY <2>2, PaneSays, SMTT(30)
    <2> QED
      BY <2>1, <2>3
  <1> QED
    BY <1>1, <1>2, <1>5, <1>8, <1>9, <1>13, <1>15

\* How a window lies in the one before it, behind a tag of t octets.
LiesWithin(v, w, t) ==
    \E used \in Nat, x \in Nat :
        /\ used >= 1 /\ (x >= 128 => used >= 2)
        /\ v.at = w.at + t + used /\ v.end = v.at + x

\* A window that was opened ends inside of the one around it.
LEMMA OpenedLies ==
    ASSUME NEW s \in Seq(0 .. 255), NEW w \in Panes(s), NEW tag \in Seq(0 .. 255), NEW v, v = Opened(w, tag, s), Faultless(v)
    PROVE  Faultless(w) /\ v.ends = w.ends \cup {v.end} /\ LiesWithin(v, w, Len(tag))
  <1>1. PICK used, x : OpensTo(w, tag, s, used, x)
    BY OpenedCases
  <1>2. PICK p \in Nat, y \in Nat : p = used /\ y = x /\ p >= 1 /\ (y >= 128 => p >= 2)
    <2>1. \A z \in 0 .. 255 : z \in Nat
      OBVIOUS
    <2> QED
      BY <1>1, <2>1 DEF OpensTo
  <1>3. PICK a \in Nat, t \in Nat : a = w.at /\ t = Len(tag)
    BY PanesParts, LenProperties
  <1>4. v = Pane(a + t + p, a + t + p + y, w.ends \cup {a + t + p + y}) /\ Faultless(w)
    BY <1>1, <1>2, <1>3 DEF OpensTo
  <1>5. PICK b, c : b = a + t + p /\ c = a + t + p + y
    OBVIOUS
  <1>6. v.at = b /\ v.end = c /\ v.ends = w.ends \cup {c}
    BY <1>4, <1>5, PaneParts
  <1>7. v.at = w.at + Len(tag) + p /\ v.end = v.at + y
    BY <1>3, <1>5, <1>6
  <1> QED
    BY <1>2, <1>4, <1>6, <1>7 DEF LiesWithin

\* An element in its shortest form has as many octets as one that was accepted, or fewer.
LEMMA ElementAccepted ==
    ASSUME NEW tags \in Seq(Seq(0 .. 255)), NEW m \in Nat, m = Len(tags), m >= 1, NEW s \in Seq(0 .. 255),
           NEW W \in [0 .. m -> Panes(s)], Windows(tags, s, W),
           NEW E \in Nat, Faultless(W[m]), W[m].end = E, W[m].ends = {E},
           NEW n \in Nat, W[m].at + n <= E, Counted(tags, n), NEW g, InFront(tags, n, g)
    PROVE  Len(g[m]) + n <= E
  <1>1. \A k \in 0 .. m : W[k] \in Panes(s)
    OBVIOUS
  <1>2. \A k \in 1 .. m : k - 1 \in 0 .. m /\ k \in 0 .. m
    OBVIOUS
  <1>3. \A k \in 0 .. m : W[k].at \in Nat
    BY <1>1, PanesParts
  <1>4. \A k \in 1 .. m : tags[k] \in Seq(0 .. 255) /\ Len(tags[k]) \in Nat
    BY LenProperties, ElementOfSeq
  <1>5. ASSUME NEW k \in 1 .. m, Faultless(W[k])
        PROVE  /\ Faultless(W[k - 1]) /\ W[k].ends = W[k - 1].ends \cup {W[k].end}
               /\ LiesWithin(W[k], W[k - 1], Len(tags[k]))
    <2>1. PICK w \in Panes(s), v \in Panes(s), tag \in Seq(0 .. 255) : w = W[k - 1] /\ v = W[k] /\ tag = tags[k]
      <3>1. W[k - 1] \in Panes(s) /\ W[k] \in Panes(s) /\ tags[k] \in Seq(0 .. 255)
        BY <1>1, <1>2, <1>4
      <3> QED
        BY <3>1
    <2>2. v = Opened(w, tag, s)
      BY <2>1 DEF Windows
    <2>3. Faultless(v)
      BY <1>5, <2>1
    <2>4. Faultless(w) /\ v.ends = w.ends \cup {v.end} /\ LiesWithin(v, w, Len(tag))
      BY <2>2, <2>3, OpenedLies
    <2> QED
      BY <2>1, <2>4
  <1>6. \A i \in 0 .. m : Inside(tags, i, n) \in Nat
    BY InsideNatural
  <1> DEFINE Ends(k) == W[k].end = E /\ W[k].ends = {E} /\ W[k].at + Inside(tags, k, n) <= E
             T == {k \in 0 .. m : Faultless(W[k]) /\ (k = 0 \/ Ends(k))}
  <1>7. m \in T
    <2>1. Inside(tags, m, n) = n /\ m \in 0 .. m
      BY InsideFacts
    <2> QED
      BY <2>1
  <1>8. ASSUME NEW k \in 1 .. m, k \in T PROVE k - 1 \in T
    <2>1. k - 1 \in 0 .. m /\ k # 0 /\ k \in 0 .. m
      OBVIOUS
    <2>2. Faultless(W[k]) /\ Ends(k)
      BY <1>8, <2>1
    <2>3. Faultless(W[k - 1]) /\ W[k].ends = W[k - 1].ends \cup {W[k].end} /\ LiesWithin(W[k], W[k - 1], Len(tags[k]))
      BY <1>5, <2>2
    <2>4. CASE k - 1 # 0
      <3>1. k - 1 \in 1 .. m /\ (k - 1) - 1 \in 0 .. m
        BY <2>1, <2>4
      <3>2. W[k - 1].ends = W[(k - 1) - 1].ends \cup {W[k - 1].end}
        BY <1>5, <2>3, <3>1
      <3>3. W[k - 1].end \in W[k - 1].ends /\ W[k - 1].ends \subseteq {E}
        BY <2>2, <2>3, <3>2
      <3>4. W[k - 1].end = E /\ W[k - 1].ends = {E}
        BY <3>3
      <3>5. Inside(tags, k - 1, n) = Inside(tags, k, n) + Len(tags[k]) + 1
        <4>1. n \in Int /\ k \in 1 .. Len(tags)
          OBVIOUS
        <4> QED
          BY <4>1, InsideFacts, ZenonT(30)
      <3>6. PICK a \in Nat, b \in Nat, t \in Nat, i \in Nat :
                a = W[k - 1].at /\ b = W[k].at /\ t = Len(tags[k]) /\ i = Inside(tags, k, n)
        BY <1>3, <1>4, <1>6, <2>1
      <3>7. \E used \in Nat, x \in Nat : used >= 1 /\ b = a + t + used
        BY <2>3, <3>6 DEF LiesWithin
      <3>8. b + i <= E
        BY <2>2, <3>6
      <3>9. a + (i + t + 1) <= E
        BY <3>7, <3>8
      <3>10. W[k - 1].at + Inside(tags, k - 1, n) <= E
        BY <3>5, <3>6, <3>9
      <3> QED
        BY <2>1, <2>3, <3>4, <3>10
    <2>5. CASE k - 1 = 0
      BY <2>1, <2>3, <2>5
    <2> QED
      BY <2>4, <2>5
  <1> HIDE DEF Ends
  <1>9. \A k \in 0 .. m : k \in T
    <2> HIDE DEF T
    <2> QED
      BY <1>7, <1>8, DownFrom
  <1>10. 1 \in 1 .. m /\ 1 \in 0 .. m /\ 1 - 1 = 0 /\ 1 # 0 /\ 0 \in 0 .. m
    OBVIOUS
  <1>11. Faultless(W[1]) /\ Ends(1)
    BY <1>9, <1>10
  <1>12. LiesWithin(W[1], W[0], Len(tags[1]))
    BY <1>5, <1>10, <1>11
  <1>13. W[0].at = 0
    <2>1. W[0] = Pane(0, Len(s), {})
      BY DEF Windows
    <2> QED
      BY <2>1, PaneParts
  <1>14. SaysItsEnd(tags, n, g)
    BY MeasuredFacts
  <1>15. PICK t \in Nat, i \in Nat, l \in Nat, p \in Nat :
             t = Len(tags[1]) /\ i = Inside(tags, 1, n) /\ l = Len(BerLength(i)) /\ p = Len(g[m])
    <2>2. Inside(tags, 1, n) \in 0 .. 255
      BY <1>10, <1>14 DEF SaysItsEnd
    <2>3. BerLength(Inside(tags, 1, n)) \in Seq(0 .. 255)
      BY <2>2, BerLengthFacts
    <2>4. Len(BerLength(Inside(tags, 1, n))) \in Nat
      BY <2>3, LenProperties
    <2>5. m \in 0 .. m
      OBVIOUS
    <2>6. Len(g[m]) \in Nat
      BY <1>14, <2>5 DEF SaysItsEnd
    <2> QED
      BY <1>4, <1>6, <1>10, <2>4, <2>6
  <1>16. p + n = t + l + i
    <2>1. Len(g[1]) = Len(g[1 - 1]) + Len(tags[1]) + Len(BerLength(Inside(tags, 1, n))) /\ Len(g[1]) + Inside(tags, 1, n) = Len(g[m]) + n
      BY <1>10, <1>14, Zenon DEF SaysItsEnd
    <2>2. Len(g[1 - 1]) = 0
      <3>1. g[1 - 1] = <<>>
        BY <1>10 DEF InFront
      <3> QED
        BY <3>1
    <2> QED
      BY <1>15, <2>1, <2>2
  <1>17. l = IF i < 128 THEN 1 ELSE 2
    <2>1. i \in 0 .. 255
      BY <1>10, <1>14, <1>15 DEF SaysItsEnd
    <2>2. CASE i < 128
      <3>1. BerLength(i) = <<i>>
        BY <2>1, <2>2, BerLengthFacts
      <3>2. Len(<<i>>) = 1
        OBVIOUS
      <3> QED
        BY <1>15, <2>2, <3>1, <3>2
    <2>3. CASE ~(i < 128)
      <3>1. i >= 128
        BY <2>3
      <3>2. BerLength(i) = <<129, i>>
        BY <2>1, <3>1, BerLengthFacts
      <3>3. Len(<<129, i>>) = 2
        OBVIOUS
      <3> QED
        BY <1>15, <2>3, <3>2, <3>3
    <2> QED
      BY <2>2, <2>3
  <1>18. PICK used \in Nat, x \in Nat : used >= 1 /\ (x >= 128 => used >= 2) /\ W[1].at = t + used /\ E = t + used + x
    <2>1. PICK used \in Nat, x \in Nat : /\ used >= 1 /\ (x >= 128 => used >= 2)
                                         /\ W[1].at = W[0].at + Len(tags[1]) + used /\ W[1].end = W[1].at + x
      BY <1>12 DEF LiesWithin
    <2>2. W[1].end = E
      BY <1>11 DEF Ends
    <2>3. W[1].at = t + used
      BY <1>13, <1>15, <2>1
    <2>4. E = t + used + x
      BY <2>1, <2>2, <2>3
    <2> QED
      BY <2>1, <2>3, <2>4
  <1>19. t + used + i <= E
    BY <1>11, <1>15, <1>18 DEF Ends
  <1>20. i <= x
    BY <1>18, <1>19
  <1>21. l <= used
    BY <1>17, <1>18, <1>20
  <1>22. t + l + i <= E
    BY <1>18, <1>20, <1>21
  <1> QED
    BY <1>15, <1>16, <1>22

-----------------------------------------------------------------------------
(* What is written for a value, and what is read.                          *)

\* Octets handed over one by one.
LEMMA FlattenSingles ==
    ASSUME NEW t \in Seq(0 .. 255), NEW n \in Nat, n = Len(t), NEW ss, ss = [i \in 1 .. n |-> <<t[i]>>]
    PROVE  ss \in Seq(Seq(0 .. 255)) /\ FlattenSeq(ss) = t
  <1> DEFINE Some(k) == SubSeq(ss, 1, k)
             Had(k) == SubSeq(t, 1, k)
  <1>1. \A i \in 1 .. n : t[i] \in 0 .. 255 /\ <<t[i]>> \in Seq(0 .. 255)
    <2>1. \A i \in 1 .. n : t[i] \in 0 .. 255
      BY ElementOfSeq
    <2> QED
      BY <2>1
  <1>2. ss \in Seq(Seq(0 .. 255)) /\ Len(ss) = n
    <2>1. ss \in [1 .. n -> Seq(0 .. 255)]
      BY <1>1
    <2>2. ss \in Seq(Seq(0 .. 255))
      BY <2>1, IsASeq
    <2> QED
      BY <2>1, <2>2, LenProperties
  <1>3. ASSUME NEW k \in 0 .. n PROVE Some(k) \in Seq(Seq(0 .. 255)) /\ Had(k) \in Seq(0 .. 255)
    <2>1. \A i \in 1 .. k : ss[i] \in Seq(0 .. 255) /\ t[i] \in 0 .. 255
      <3>1. \A i \in 1 .. k : i \in 1 .. n
        OBVIOUS
      <3>2. \A i \in 1 .. n : ss[i] = <<t[i]>>
        OBVIOUS
      <3>3. \A i \in 1 .. n : ss[i] \in Seq(0 .. 255) /\ t[i] \in 0 .. 255
        BY <1>1, <3>2
      <3> QED
        BY <3>1, <3>3
    <2>2. 1 \in Int /\ k \in Int
      OBVIOUS
    <2>3. Some(k) \in Seq(Seq(0 .. 255))
      BY <2>1, <2>2, SubSeqProperties
    <2>4. Had(k) \in Seq(0 .. 255)
      BY <2>1, <2>2, SubSeqProperties
    <2> QED
      BY <2>3, <2>4
  <1> DEFINE T == {k \in 0 .. n : FlattenSeq(Some(k)) = Had(k)}
  <1>4. 0 \in T
    <2>1. Some(0) = <<>> /\ Had(0) = <<>>
      BY SubSeqEmpty
    <2> HIDE DEF Some, Had
    <2>2. FlattenSeq(<<>>) = <<>>
      BY FlattenOne
    <2> QED
      BY <2>1, <2>2, ZeroIn
  <1>5. ASSUME NEW k \in 1 .. n, k - 1 \in T PROVE k \in T
    <2>1. k - 1 \in 0 .. n /\ k \in 0 .. n /\ k \in 1 .. Len(ss) /\ 1 \in 1 .. Len(ss) /\ k \in 1 .. Len(t) /\ 1 \in 1 .. Len(t)
      BY <1>2
    <2>2. k \in 1 .. Len(ss) /\ k \in 1 .. k
      BY <2>1
    <2>3. Some(k) = Some(k - 1) \o <<ss[k]>>
      BY <1>2, <2>1, <2>2, SubSeqRecursiveSecond
    <2>4. Had(k) = Had(k - 1) \o <<t[k]>>
      BY <2>1, <2>2, SubSeqRecursiveSecond
    <2>5. PICK a \in Seq(Seq(0 .. 255)), x \in Seq(0 .. 255) : a = Some(k - 1) /\ x = <<t[k]>> /\ x = ss[k]
      <3>1. Some(k - 1) \in Seq(Seq(0 .. 255))
        BY <1>3, <2>1
      <3>2. ss[k] = <<t[k]>> /\ <<t[k]>> \in Seq(0 .. 255)
        BY <1>1
      <3> HIDE DEF Some
      <3> QED
        BY <3>1, <3>2
    <2> HIDE DEF Some, Had
    <2>6. Some(k) = Append(a, x)
      BY <2>3, <2>5, AppendIsConcat
    <2>7. FlattenSeq(Append(a, x)) = FlattenSeq(a) \o x
      BY FlattenAppend
    <2>8. FlattenSeq(a) = Had(k - 1)
      BY <1>5, <2>5
    <2> QED
      BY <2>1, <2>4, <2>5, <2>6, <2>7, <2>8
  <1>6. \A k \in 0 .. n : k \in T
    <2> HIDE DEF T
    <2> QED
      BY <1>4, <1>5, UpTo
  <1>7. FlattenSeq(Some(n)) = Had(n)
    <2>1. n \in 0 .. n
      OBVIOUS
    <2> QED
      BY <1>6, <2>1
  <1>8. Some(n) = ss /\ Had(n) = t
    BY <1>2, SubSeqFull
  <1> QED
    BY <1>2, <1>7, <1>8

\* A field that is no bit field.
Plain(f) == GoodField(f) /\ f.codec # "bits"
IsVarint(f) == f.codec = "varint" /\ f.type \in IntegerTypes
BehindTags(f) == f.codec \in {"integer", "string"} /\ Tagged(f) /\ TypedField(f)

\* A field is a varint, or behind tags.
LEMMA PlainCases ==
    ASSUME NEW f, Plain(f)
    PROVE  (IsVarint(f) \/ BehindTags(f)) /\ Values(f) \subseteq FieldValues(f)
  <1>1. CASE f.codec = "varint" /\ f.type \in IntegerTypes /\ Values(f) \subseteq ValuesOf(f.type)
    BY <1>1 DEF IsVarint, FieldValues
  <1>2. CASE /\ f.tags \in Seq(Seq(0 .. 255) \ {<<>>}) \ {<<>>}
             /\ \/ f.codec = "integer" /\ f.type \in IntegerTypes /\ Values(f) \subseteq ValuesOf(f.type)
                \/ f.codec = "string" /\ Values(f) \subseteq Seq(0 .. 255)
    <2>1. f.tags \in Seq(Seq(0 .. 255))
      <3>1. Seq(0 .. 255) \ {<<>>} \subseteq Seq(0 .. 255)
        OBVIOUS
      <3>2. Seq(Seq(0 .. 255) \ {<<>>}) \subseteq Seq(Seq(0 .. 255))
        <4> SUFFICES ASSUME NEW S, NEW U, U \subseteq S PROVE Seq(U) \subseteq Seq(S)
          BY <3>1
        <4>1. ASSUME NEW u \in Seq(U) PROVE u \in Seq(S)
          <5>1. Len(u) \in Nat /\ u \in [1 .. Len(u) -> U]
            BY LenProperties
          <5>2. u \in [1 .. Len(u) -> S]
            BY <5>1
          <5> QED
            BY <5>1, <5>2, IsASeq
        <4> QED
          BY <4>1
      <3> QED
        BY <1>2, <3>2
    <2>2. Len(f.tags) >= 1
      <3>1. f.tags # <<>> /\ Len(f.tags) \in Nat
        BY <1>2, <2>1, LenProperties
      <3>2. Len(f.tags) # 0
        BY <2>1, <3>1, EmptySeq
      <3> QED
        BY <3>1, <3>2
    <2>3. f.codec \in {"integer", "string"}
      BY <1>2
    <2>4. Tagged(f)
      BY <2>1, <2>2, <2>3 DEF Tagged
    <2>5. TypedField(f) /\ Values(f) \subseteq FieldValues(f)
      BY <1>2 DEF TypedField, FieldValues
    <2> QED
      BY <2>3, <2>4, <2>5 DEF BehindTags
  <1> QED
    BY <1>1, <1>2 DEF Plain, GoodField

\* Whatever number is put into octets, they are octets.
LEMMA PutBytesInt ==
    ASSUME NEW n \in Int, NEW x \in Int
    PROVE  PutBytes(n, x) \in Seq(0 .. 255)
  <1>1. ASSUME NEW k \in 1 .. n PROVE (x \div Pow2[8 * (n - k)]) % 256 \in 0 .. 255
    <2>1. PICK p \in Nat \ {0} : p = Pow2[8 * (n - k)]
      <3>1. 8 * (n - k) \in Nat
        OBVIOUS
      <3> QED
        BY <3>1, PowFacts
    <2>2. x \div p \in Int
      OBVIOUS
    <2>3. (x \div p) % 256 \in 0 .. 255
      BY <2>2
    <2> QED
      BY <2>1, <2>3
  <1>2. PutBytes(n, x) \in [1 .. n -> 0 .. 255]
    BY <1>1 DEF PutBytes
  <1>3. CASE n \in Nat
    BY <1>2, <1>3, IsASeq
  <1>4. CASE n \notin Nat
    <2>1. 1 .. n = 1 .. 0
      BY <1>4
    <2>2. PutBytes(n, x) \in [1 .. 0 -> 0 .. 255]
      BY <1>2, <2>1
    <2>3. 0 \in Nat
      OBVIOUS
    <2> QED
      BY <2>2, <2>3, IsASeq
  <1> QED
    BY <1>3, <1>4

\* Whatever the machine says of the digits of 0, the octets of an integer are a number.
LEMMA BytesNumber ==
    ASSUME Clz0 \in Int, NEW T \in IntegerTypes, NEW x \in ValuesOf(T)
    PROVE  x \in Int /\ Bytes(T, x) \in Int
  <1>1. /\ x \in Int /\ Magnitude(T, x) \in Nat /\ Magnitude(T, x) < Pow2[64]
    BY MagnitudeFacts
  <1>2. \A y \in Nat : y < Pow2[64] => Digits(y) \in Int
    <2> SUFFICES ASSUME NEW y \in Nat, y < Pow2[64] PROVE Digits(y) \in Int
      OBVIOUS
    <2>1. CASE y = 0
      BY <2>1 DEF Digits
    <2>2. CASE y # 0
      <3>1. Digits(y) \in 1 .. 64
        BY <2>2, DigitsFacts
      <3> QED
        BY <3>1
    <2> QED
      BY <2>1, <2>2
  <1>3. Digits(Magnitude(T, x)) \in Int
    BY <1>1, <1>2
  <1>4. PICK c \in Int : c = CalcLeastBits(T, x)
    <2>0. \A d \in Int : (d + 1) % 256 \in Int /\ d % 256 \in Int
      OBVIOUS
    <2>1. CASE T.signed
      <3>1. Magnitude(T, x) = IF x >= 0 THEN x ELSE -1 - x
        BY <1>1, <2>1 DEF Magnitude
      <3>2. CalcLeastBits(T, x) = (Digits(Magnitude(T, x)) + 1) % 256
        BY <2>1, <3>1 DEF CalcLeastBits
      <3> QED
        BY <1>3, <2>0, <3>2
    <2>2. CASE ~T.signed
      <3>1. Magnitude(T, x) = x
        BY <1>1, <2>2 DEF Magnitude, ValuesOf
      <3>2. CalcLeastBits(T, x) = (IF x = 0 THEN 1 ELSE Digits(Magnitude(T, x))) % 256
        BY <2>2, <3>1 DEF CalcLeastBits
      <3> QED
        BY <1>3, <2>0, <3>2
    <2> QED
      BY <2>1, <2>2
  <1>5. BytesOf(c) \in Int
    BY DEF BytesOf
  <1> QED
    BY <1>1, <1>4, <1>5 DEF Bytes

\* The octets of a value.
Code(f, v) == FlattenSeq(Chunks(f, v, 0))

Handed(f, v, chunks) ==
    /\ chunks \in Seq(Seq(0 .. 255)) /\ FlattenSeq(chunks) \in Seq(0 .. 255)
    /\ f.codec = "varint" => FlattenSeq(chunks) = VarintOctets(v)
    /\ f.codec = "integer" => chunks = Append(Headers(f.tags, Bytes(f.type, v)), IntegerOctets(f.type, v))
    /\ f.codec = "string" => chunks = Append(Headers(f.tags, Len(v)), v)

\* What is written for any number of a type, negative ones included, are octets.
LEMMA VarintIsNumber ==
    ASSUME NEW T \in IntegerTypes, NEW v \in ValuesOf(T)
    PROVE  VarintOctets(v) \in Seq(0 .. 255) /\ VarintLength(v) \in Nat /\ Len(VarintOctets(v)) = VarintLength(v)
  <1>1. v \in Int
    BY TypeFacts
  <1>2. CASE v >= 0
    <2>1. v \in Nat /\ v < Pow2[70]
      BY <1>2, VarintShifts
    <2>2. VarintLength(v) \in 1 .. 10
      BY <2>1, VarintLengthFacts
    <2>3. VarintOctets(v) \in Seq(0 .. 255) /\ Len(VarintOctets(v)) = VarintLength(v)
      BY <2>1, VarintOctetsFacts
    <2>4. \A n \in 1 .. 10 : n \in Nat
      OBVIOUS
    <2> QED
      BY <2>2, <2>3, <2>4
  <1>3. CASE ~(v >= 0)
    <2>1. v < 0 /\ v % 256 \in 0 .. 255
      BY <1>1, <1>3
    <2>2. VarintOctets(v) = <<v % 256>>
      BY <2>1 DEF VarintOctets
    <2>3. <<v % 256>> \in Seq(0 .. 255) /\ Len(<<v % 256>>) = 1
      BY <2>1
    <2>4. VarintLength(v) = 1
      <3>1. \A n \in 1 .. 10 : Pow2[7 * n] \in Nat
        <4>1. \A n \in 1 .. 10 : 7 * n \in Nat
          OBVIOUS
        <4> QED
          BY <4>1, PowFacts
      <3>2. \A n \in 1 .. 10 : v < Pow2[7 * n] /\ ~(v >= Pow2[7 * n])
        BY <1>1, <2>1, <3>1
      <3> DEFINE Fits(n) == v < Pow2[7 * n] /\ \A m \in 1 .. n - 1 : v >= Pow2[7 * m]
      <3>3. Fits(1)
        <4>1. 1 \in 1 .. 10 /\ 1 .. 1 - 1 = {}
          OBVIOUS
        <4> QED
          BY <3>2, <4>1
      <3>4. ASSUME NEW n \in 1 .. 10, n # 1 PROVE ~Fits(n)
        <4>1. 1 \in 1 .. n - 1 /\ 1 \in 1 .. 10
          BY <3>4
        <4> QED
          BY <3>2, <4>1
      <3>5. VarintLength(v) = CHOOSE n \in 1 .. 10 : Fits(n)
        BY DEF VarintLength, MaxVarintBytes
      <3> HIDE DEF Fits
      <3>6. 1 \in 1 .. 10
        OBVIOUS
      <3> QED
        BY <3>3, <3>4, <3>5, <3>6
    <2> QED
      BY <2>2, <2>3, <2>4
  <1> QED
    BY <1>2, <1>3

\* What the encoder hands to the buffer, call by call, does not depend on memory.
LEMMA ChunksFacts ==
    ASSUME Clz0 \in Int, NEW f, Plain(f), NEW v \in FieldValues(f), NEW old
    PROVE  Handed(f, v, Chunks(f, v, old)) /\ Chunks(f, v, old) = Chunks(f, v, 0)
  <1>1. Chunks(f, v, old) = Chunks(f, v, 0)
    <2>1. f.codec = "varint" \/ f.codec = "integer" \/ f.codec = "string"
      BY PlainCases DEF IsVarint, BehindTags
    <2> QED
      BY <2>1 DEF Chunks
  <1>2. CASE IsVarint(f)
    <2>1. f.codec = "varint" /\ f.type \in IntegerTypes /\ v \in ValuesOf(f.type)
      BY <1>2 DEF IsVarint, FieldValues
    <2>2. PICK t \in Seq(0 .. 255), n \in Nat : t = VarintOctets(v) /\ n = VarintLength(v) /\ n = Len(t)
      BY <2>1, VarintIsNumber
    <2>3. Chunks(f, v, old) = [i \in 1 .. n |-> <<t[i]>>]
      BY <2>1, <2>2 DEF Chunks
    <2>4. PICK ss : ss = Chunks(f, v, old)
      OBVIOUS
    <2>5. ss \in Seq(Seq(0 .. 255)) /\ FlattenSeq(ss) = t
      <3>1. ss = [i \in 1 .. n |-> <<t[i]>>]
        BY <2>3, <2>4
      <3>2. n = Len(t)
        BY <2>2
      <3> QED
        BY <3>1, <3>2, FlattenSingles, Zenon
    <2> QED
      BY <1>1, <2>1, <2>2, <2>4, <2>5 DEF Handed
  <1>3. CASE BehindTags(f) /\ f.codec = "integer"
    <2>1. f.type \in IntegerTypes /\ v \in ValuesOf(f.type)
      BY <1>3 DEF BehindTags, TypedField, FieldValues
    <2>2. PICK n \in Int, x \in Int : n = Bytes(f.type, v) /\ x = v
      BY <2>1, BytesNumber
    <2>3. PICK tags \in Seq(Seq(0 .. 255)) : tags = f.tags
      BY <1>3 DEF BehindTags, Tagged
    <2>4. PICK h \in Seq(Seq(0 .. 255)), c \in Seq(0 .. 255) : h = Headers(tags, n) /\ c = IntegerOctets(f.type, v)
      <3>1. Headers(tags, n) \in Seq(Seq(0 .. 255))
        BY HeadersFacts
      <3>2. PutBytes(n, x) \in Seq(0 .. 255)
        BY PutBytesInt
      <3> QED
        BY <2>2, <3>1, <3>2 DEF IntegerOctets
    <2>5. Append(h, c) \in Seq(Seq(0 .. 255))
      BY AppendProperties
    <2>6. FlattenSeq(Append(h, c)) \in Seq(0 .. 255)
      BY <2>5, FlattenType
    <2>7. Chunks(f, v, old) = Append(h, c)
      BY <1>3, <2>2, <2>3, <2>4 DEF Chunks
    <2> QED
      BY <1>1, <1>3, <2>2, <2>3, <2>4, <2>5, <2>6, <2>7 DEF Handed
  <1>4. CASE BehindTags(f) /\ f.codec = "string"
    <2>1. v \in Seq(0 .. 255)
      BY <1>4 DEF FieldValues
    <2>2. PICK tags \in Seq(Seq(0 .. 255)), n \in Int : tags = f.tags /\ n = Len(v)
      <3>1. Len(v) \in Int
        BY <2>1, LenProperties
      <3> QED
        BY <1>4, <3>1 DEF BehindTags, Tagged
    <2>3. PICK h \in Seq(Seq(0 .. 255)) : h = Headers(tags, n)
      BY HeadersFacts
    <2>5. Append(h, v) \in Seq(Seq(0 .. 255))
      BY <2>1, AppendProperties
    <2>6. FlattenSeq(Append(h, v)) \in Seq(0 .. 255)
      BY <2>5, FlattenType
    <2>7. Chunks(f, v, old) = Append(h, v)
      BY <1>4, <2>2, <2>3 DEF Chunks
    <2> QED
      BY <1>1, <1>4, <2>2, <2>3, <2>5, <2>6, <2>7 DEF Handed
  <1> QED
    BY <1>1, <1>2, <1>3, <1>4, PlainCases DEF BehindTags

\* What can be said, by codec.
LEMMA SayableParts ==
    ASSUME NEW f, NEW v, Sayable(f, v)
    PROVE  /\ f.codec = "varint" => v >= 0
           /\ f.codec = "integer" => Measured(f, Bytes(f.type, v))
           /\ f.codec = "string" => Measured(f, Len(v))
  BY DEF Sayable

\* What was written is read back.
LEMMA ValueComesBack ==
    ASSUME Clz0 \in 25 .. 32, NEW f, Plain(f), NEW v \in FieldValues(f), Sayable(f, v),
           NEW s \in Seq(0 .. 255), LiesAt(Code(f, v), s, 0), NEW wraps
    PROVE  Decoded(f, s, wraps) = Good(Len(Code(f, v)), v)
  <1>1. Handed(f, v, Chunks(f, v, 0))
    <2>1. Clz0 \in Int
      OBVIOUS
    <2> QED
      BY <2>1, ChunksFacts
  <1>2. CASE IsVarint(f)
    <2>1. f.codec = "varint" /\ f.type \in IntegerTypes /\ v \in ValuesOf(f.type)
      BY <1>2 DEF IsVarint, FieldValues
    <2>2. v >= 0
      BY <2>1, SayableParts
    <2>3. PICK T \in IntegerTypes : T = f.type /\ v \in ValuesOf(T)
      BY <2>1
    <2>4. PICK t \in Seq(0 .. 255) : t = VarintOctets(v) /\ Len(t) = VarintLength(v) /\ Len(t) \in Nat
      BY <2>3, VarintIsNumber
    <2>5. Code(f, v) = t
      BY <1>1, <2>1, <2>4 DEF Handed, Code
    <2>6. Begins(t, s)
      <3>1. LiesAt(t, s, 0)
        BY <2>5
      <3> QED
        BY <2>4, <3>1, BeginsLies
    <2>7. VarintDecoded(T, s, wraps) = Good(VarintLength(v), v)
      BY <2>2, <2>3, <2>4, <2>6, VarintComesBack
    <2>8. Decoded(f, s, wraps) = VarintDecoded(f.type, s, wraps)
      BY <2>1 DEF Decoded
    <2> QED
      BY <2>3, <2>4, <2>5, <2>7, <2>8
  <1>3. ASSUME BehindTags(f), NEW content \in Seq(0 .. 255), Measured(f, Len(content)), Says(f, content, v),
               Code(f, v) = Enclosed(f, content)
        PROVE  Decoded(f, s, wraps) = Good(Len(Code(f, v)), v)
    <2>1. Tagged(f)
      BY <1>3 DEF BehindTags
    <2>2. LiesAt(Enclosed(f, content), s, 0)
      BY <1>3
    <2>3. Decoded(f, s, wraps) = Good(Len(Enclosed(f, content)), v)
      BY <1>3, <2>1, <2>2, ElementComesBack
    <2> QED
      BY <1>3, <2>3
  <1>4. CASE BehindTags(f) /\ f.codec = "integer"
    <2>1. PICK T \in IntegerTypes : T = f.type /\ v \in ValuesOf(T)
      BY <1>4 DEF BehindTags, TypedField, FieldValues
    <2>2. PICK content \in Seq(0 .. 255) : /\ content = IntegerOctets(T, v) /\ Len(content) = Bytes(T, v)
                                           /\ ReadInteger(T, content) = {v}
      BY <2>1, IntegerOctetsFacts
    <2>3. Measured(f, Len(content))
      BY <1>4, <2>1, <2>2, SayableParts
    <2>4. Says(f, content, v)
      BY <1>4, <2>1, <2>2 DEF Says
    <2>5. Code(f, v) = Enclosed(f, content)
      BY <1>1, <1>4, <2>1, <2>2 DEF Handed, Code, Enclosed
    <2> QED
      BY <1>3, <1>4, <2>3, <2>4, <2>5
  <1>5. CASE BehindTags(f) /\ f.codec = "string"
    <2>1. v \in Seq(0 .. 255)
      BY <1>5 DEF FieldValues
    <2>3. Measured(f, Len(v))
      BY <1>5, SayableParts
    <2>4. Says(f, v, v)
      BY <1>5 DEF Says
    <2>5. Code(f, v) = Enclosed(f, v)
      BY <1>1, <1>5 DEF Handed, Code, Enclosed
    <2> QED
      BY <1>3, <1>5, <2>1, <2>3, <2>4, <2>5
  <1> QED
    BY <1>2, <1>4, <1>5, PlainCases DEF BehindTags

\* What is read is a value of the field, or there is an exception.
LEMMA ValueDecoded ==
    ASSUME NEW f, Plain(f), NEW s \in Seq(0 .. 255), NEW wraps, NEW r, r = Decoded(f, s, wraps)
    PROVE  /\ Faulty(r) /\ r.used \in 0 .. Len(s)
           /\ Faultless(r) => r.value \in FieldValues(f)
  <1>1. CASE IsVarint(f)
    <2>1. f.codec = "varint" /\ f.type \in IntegerTypes
      BY <1>1 DEF IsVarint
    <2>2. PICK T \in IntegerTypes : T = f.type
      BY <2>1
    <2>3. r = VarintDecoded(T, s, wraps)
      BY <2>1, <2>2 DEF Decoded
    <2>4. Faulty(r) /\ r.used \in 0 .. Len(s) /\ (Faultless(r) => r.value \in ValuesOf(T))
      BY <2>3, VarintAccepted
    <2>5. FieldValues(f) = ValuesOf(T)
      BY <2>1, <2>2 DEF FieldValues
    <2> QED
      BY <2>4, <2>5
  <1>2. CASE BehindTags(f)
    BY <1>2, ElementDecoded DEF BehindTags
  <1> QED
    BY <1>1, <1>2, PlainCases

\* What is accepted has no fewer octets than are written for it.
LEMMA ValueAccepted ==
    ASSUME Clz0 \in 25 .. 32, NEW f, Plain(f), NEW s \in Seq(0 .. 255), NEW wraps,
           NEW r, r = Decoded(f, s, wraps), Faultless(r), Sayable(f, r.value)
    PROVE  Len(Code(f, r.value)) <= r.used
  <1>0. PICK v \in FieldValues(f) : v = r.value
    BY ValueDecoded
  <1>1. Handed(f, v, Chunks(f, v, 0))
    <2>1. Clz0 \in Int
      OBVIOUS
    <2> QED
      BY <2>1, ChunksFacts
  <1>2. CASE IsVarint(f)
    <2>1. f.codec = "varint" /\ f.type \in IntegerTypes /\ v \in ValuesOf(f.type)
      BY <1>2 DEF IsVarint, FieldValues
    <2>2. v >= 0
      BY <1>0, <2>1, SayableParts
    <2>3. PICK T \in IntegerTypes : T = f.type /\ v \in ValuesOf(T)
      BY <2>1
    <2>4. Len(VarintOctets(v)) = VarintLength(v)
      BY <2>3, VarintIsNumber
    <2>5. Code(f, v) = VarintOctets(v)
      BY <1>1, <2>1 DEF Handed, Code
    <2>6. r = VarintDecoded(T, s, wraps)
      BY <2>1, <2>3 DEF Decoded
    <2>7. r.value >= 0 => VarintLength(r.value) <= r.used
      BY <2>6, VarintAccepted
    <2> QED
      BY <1>0, <2>2, <2>4, <2>5, <2>7
  <1>3. CASE BehindTags(f)
    <2>0. Tagged(f) /\ TypedField(f)
      BY <1>3 DEF BehindTags
    <2>1. PICK tags \in Seq(Seq(0 .. 255)), m \in Nat : tags = f.tags /\ m = Len(tags) /\ m >= 1
      BY <2>0, LenProperties DEF Tagged
    <2>2. PICK W \in [0 .. m -> Panes(s)] : Windows(tags, s, W) /\ r = Windowed(f, W[m], s)
      BY <2>0, <2>1, WindowsExist
    <2>3. m \in 0 .. m /\ m \in 1 .. m /\ m - 1 \in 0 .. m
      BY <2>1
    <2>4. PICK w \in Panes(s) : w = W[m]
      BY <2>2, <2>3
    <2>5. PICK content \in Seq(0 .. 255), x \in FieldValues(f) :
              /\ Faultless(w) /\ w.ends = {w.end}
              /\ content = SubSeq(s, w.at + 1, w.end) /\ Says(f, content, x)
              /\ r = Good(w.end, x)
      <3>1. r = Windowed(f, w, s)
        BY <2>2, <2>4
      <3> QED
        BY <2>0, <3>1, WindowedCases
    <2>6. x = v /\ r.used = w.end
      BY <1>0, <2>5, GoodParts
    <2>7. PICK a \in Nat, E \in 0 .. Len(s) : a = w.at /\ E = w.end
      BY PanesParts
    <2>8. E \in Nat /\ a <= E
      <3>1. Len(s) \in Nat
        BY LenProperties
      <3>2. PICK p \in Panes(s), tag \in Seq(0 .. 255) : p = W[m - 1] /\ tag = tags[m]
        <4>1. W[m - 1] \in Panes(s) /\ tags[m] \in Seq(0 .. 255)
          BY <2>1, <2>3, ElementOfSeq
        <4> QED
          BY <4>1
      <3>3. w = Opened(p, tag, s)
        BY <2>1, <2>2, <2>3, <2>4, <3>2 DEF Windows
      <3>4. LiesWithin(w, p, Len(tag))
        BY <2>5, <3>3, OpenedLies
      <3>5. \E y \in Nat : E = a + y
        BY <2>7, <3>4 DEF LiesWithin
      <3> QED
        BY <3>1, <3>5
    <2>9. Len(content) = E - a
      <3>1. content = SubSeq(s, a + 1, E)
        BY <2>5, <2>7
      <3> QED
        BY <2>8, <3>1, ContentType
    <2>10. ASSUME NEW c \in Seq(0 .. 255), Len(c) <= Len(content), Measured(f, Len(c)), Code(f, v) = Enclosed(f, c)
           PROVE  Len(Code(f, v)) <= r.used
      <3>1. PICK n \in Nat : n = Len(c) /\ a + n <= E
        <4>1. Len(c) \in Nat
          BY LenProperties
        <4> QED
          BY <2>8, <2>9, <2>10, <4>1
      <3>2. PICK g : InFront(tags, n, g) /\ Len(Enclosed(f, c)) = Len(g[m]) + n
        <4>1. \E g : Encloses(f.tags, c, Enclosed(f, c), g)
          BY <2>0, EnclosedFacts
        <4> QED
          BY <2>1, <3>1, <4>1 DEF Encloses
      <3>3. Counted(tags, n)
        BY <2>1, <2>10, <3>1, MeasuredCounted
      <3>4. Faultless(W[m]) /\ W[m].end = E /\ W[m].ends = {E} /\ W[m].at + n <= E
        BY <2>4, <2>5, <2>7, <3>1
      <3>5. Len(g[m]) + n <= E
        BY <2>1, <2>2, <2>8, <3>2, <3>3, <3>4, ElementAccepted
      <3> QED
        BY <2>6, <2>7, <2>10, <3>2, <3>5
    <2>11. CASE f.codec = "integer"
      <3>1. PICK T \in IntegerTypes : T = f.type /\ v \in ValuesOf(T)
        BY <2>0, <2>11 DEF TypedField, FieldValues
      <3>2. PICK c \in Seq(0 .. 255) : c = IntegerOctets(T, v) /\ Len(c) = Bytes(T, v)
        BY <3>1, IntegerOctetsFacts
      <3>3. v \in ReadInteger(T, content)
        BY <2>5, <2>6, <2>11, <3>1 DEF Says
      <3>4. Bytes(T, v) <= Len(content)
        BY <3>1, <3>3, IntegerOctetsFacts
      <3>5. Measured(f, Len(c))
        BY <1>0, <2>11, <3>1, <3>2, SayableParts
      <3>6. Code(f, v) = Enclosed(f, c)
        BY <1>1, <2>11, <3>1, <3>2 DEF Handed, Code, Enclosed
      <3> QED
        BY <1>0, <2>10, <3>2, <3>4, <3>5, <3>6
    <2>12. CASE f.codec = "string"
      <3>1. v = content
        BY <2>5, <2>6, <2>12 DEF Says
      <3>2. Measured(f, Len(content))
        BY <1>0, <2>12, <3>1, SayableParts
      <3>3. Code(f, v) = Enclosed(f, content)
        BY <1>1, <2>12, <3>1 DEF Handed, Code, Enclosed
      <3>4. Len(content) <= Len(content)
        BY <2>8, <2>9
      <3> QED
        BY <1>0, <2>10, <3>2, <3>3, <3>4
    <2> QED
      BY <1>3, <2>11, <2>12 DEF BehindTags
  <1> QED
    BY <1>2, <1>3, PlainCases

-----------------------------------------------------------------------------
(* Values one behind the other in memory.                                  *)

\* What is written behind a value leaves it where it is.
LEMMA LiesKept ==
    ASSUME NEW mem \in Seq(0 .. 255), NEW c \in Nat, NEW part \in Seq(0 .. 255),
           NEW t \in Seq(0 .. 255), NEW a \in Nat, LiesAt(t, mem, a), a + Len(t) <= c
    PROVE  LiesAt(t, Overlaid(mem, c, part), a)
  <1>1. PICK n \in Nat, m \in Nat, l \in Nat : n = Len(t) /\ m = Len(mem) /\ l = Len(part)
    BY LenProperties
  <1>2. PICK x : x = Overlaid(mem, c, part)
    OBVIOUS
  <1>3. Len(x) = m /\ \A k \in 1 .. m : x[k] = IF k \in c + 1 .. c + l THEN part[k - c] ELSE mem[k]
    BY <1>1, <1>2, OverlaidFacts
  <1>4. a + n <= m /\ \A k \in 1 .. n : mem[a + k] = t[k]
    BY <1>1 DEF LiesAt
  <1>5. ASSUME NEW k \in 1 .. n PROVE x[a + k] = t[k]
    <2>1. a + k \in 1 .. m /\ a + k \notin c + 1 .. c + l
      BY <1>1, <1>4
    <2> QED
      BY <1>3, <1>4, <2>1
  <1> QED
    BY <1>1, <1>2, <1>3, <1>4, <1>5 DEF LiesAt

\* What is written is there.
LEMMA LiesWritten ==
    ASSUME NEW mem \in Seq(0 .. 255), NEW c \in Nat, NEW part \in Seq(0 .. 255), c + Len(part) <= Len(mem)
    PROVE  LiesAt(part, Overlaid(mem, c, part), c)
  <1>1. PICK m \in Nat, l \in Nat : m = Len(mem) /\ l = Len(part)
    BY LenProperties
  <1>2. PICK x : x = Overlaid(mem, c, part)
    OBVIOUS
  <1>3. Len(x) = m /\ \A k \in 1 .. m : x[k] = IF k \in c + 1 .. c + l THEN part[k - c] ELSE mem[k]
    BY <1>1, <1>2, OverlaidFacts
  <1>5. ASSUME NEW k \in 1 .. l PROVE x[c + k] = part[k]
    <2>1. c + k \in 1 .. m /\ c + k \in c + 1 .. c + l /\ (c + k) - c = k
      BY <1>1
    <2>2. x[c + k] = part[(c + k) - c]
      BY <1>3, <2>1
    <2> QED
      BY <2>1, <2>2
  <1> QED
    BY <1>1, <1>2, <1>3, <1>5 DEF LiesAt

\* Where each value begins, and where the last one ends.
Laid(lay, vs, at) ==
    /\ at \in [0 .. Len(vs) -> Nat] /\ at[0] = 0
    /\ \A k \in 1 .. Len(vs) : at[k] = at[k - 1] + Len(Code(lay[k], vs[k]))

InMemory(lay, vs, at, mem, n) == \A i \in 1 .. n : LiesAt(Code(lay[i], vs[i]), mem, at[i - 1])

Coded(lay, vs) == \A i \in 1 .. Len(vs) : Code(lay[i], vs[i]) \in Seq(0 .. 255)

\* Before the first value.
LEMMA NothingLaid ==
    ASSUME NEW lay, NEW mem
    PROVE  \E at : Laid(lay, <<>>, at) /\ at[0] = 0 /\ InMemory(lay, <<>>, at, mem, 0)
  <1> DEFINE at == [k \in 0 .. 0 |-> 0]
  <1>1. Len(<<>>) = 0 /\ 0 \in 0 .. 0 /\ 1 .. 0 = {}
    OBVIOUS
  <1>2. at[0] = 0 /\ at \in [0 .. 0 -> Nat]
    OBVIOUS
  <1> HIDE DEF at
  <1>3. Laid(lay, <<>>, at)
    BY <1>1, <1>2 DEF Laid
  <1>4. InMemory(lay, <<>>, at, mem, 0)
    BY <1>1 DEF InMemory
  <1> QED
    BY <1>2, <1>3, <1>4

\* Values begin one behind the other.
LEMMA LaidGrows ==
    ASSUME NEW lay, NEW vs, NEW n \in Nat, n = Len(vs), NEW at, Laid(lay, vs, at), Coded(lay, vs)
    PROVE  \A i \in 0 .. n : at[i] \in Nat /\ at[i] <= at[n]
  <1>1. /\ \A i \in 0 .. n : at[i] \in Nat
        /\ \A i \in 1 .. n : at[i] = at[i - 1] + Len(Code(lay[i], vs[i]))
    BY DEF Laid
  <1>2. \A i \in 1 .. n : Len(Code(lay[i], vs[i])) \in Nat
    BY LenProperties DEF Coded
  <1> DEFINE T == {i \in 0 .. n : at[i] <= at[n]}
  <1>3. n \in T
    <2>1. n \in 0 .. n
      OBVIOUS
    <2> QED
      BY <1>1, <2>1
  <1>4. ASSUME NEW k \in 1 .. n, k \in T PROVE k - 1 \in T
    <2>1. k - 1 \in 0 .. n /\ k \in 0 .. n /\ n \in 0 .. n
      OBVIOUS
    <2>2. PICK p \in Nat, q \in Nat, l \in Nat, r \in Nat :
              p = at[k - 1] /\ q = at[k] /\ l = Len(Code(lay[k], vs[k])) /\ r = at[n] /\ q = p + l /\ q <= r
      BY <1>1, <1>2, <1>4, <2>1
    <2> QED
      BY <2>1, <2>2
  <1>5. \A k \in 0 .. n : k \in T
    <2> HIDE DEF T
    <2> QED
      BY <1>3, <1>4, DownFrom
  <1> QED
    BY <1>1, <1>5

\* One more value.
LEMMA CodedAppend ==
    ASSUME NEW lay, NEW S, NEW vs \in Seq(S), NEW v \in S, Coded(lay, vs), NEW n \in Nat, n = Len(vs),
           Code(lay[n + 1], v) \in Seq(0 .. 255)
    PROVE  /\ Coded(lay, Append(vs, v)) /\ Append(vs, v) \in Seq(S) /\ Len(Append(vs, v)) = n + 1
           /\ Append(vs, v)[n + 1] = v /\ \A i \in 1 .. n : Append(vs, v)[i] = vs[i]
  <1>1. PICK ws \in Seq(S) : /\ ws = Append(vs, v) /\ Len(ws) = n + 1 /\ ws[n + 1] = v
                             /\ \A i \in 1 .. n : ws[i] = vs[i]
    <2>1. /\ Append(vs, v) \in Seq(S) /\ Len(Append(vs, v)) = Len(vs) + 1
          /\ \A i \in 1 .. Len(vs) : Append(vs, v)[i] = vs[i]
          /\ Append(vs, v)[Len(vs) + 1] = v
      BY AppendProperties
    <2> QED
      BY <2>1
  <1>2. ASSUME NEW i \in 1 .. n + 1 PROVE Code(lay[i], ws[i]) \in Seq(0 .. 255)
    <2>1. i \in 1 .. n \/ i = n + 1
      OBVIOUS
    <2> QED
      BY <1>1, <2>1 DEF Coded
  <1> QED
    BY <1>1, <1>2 DEF Coded

\* A value behind the others.
LEMMA LaidAppend ==
    ASSUME NEW lay, NEW S, NEW vs \in Seq(S), NEW v \in S, NEW at, Laid(lay, vs, at), NEW n \in Nat, n = Len(vs),
           NEW code \in Seq(0 .. 255), code = Code(lay[n + 1], v)
    PROVE  \E at2 : /\ Laid(lay, Append(vs, v), at2) /\ at2[n + 1] = at[n] + Len(code)
                    /\ \A k \in 0 .. n : at2[k] = at[k]
  <1>1. PICK ws \in Seq(S) : /\ ws = Append(vs, v) /\ Len(ws) = n + 1 /\ ws[n + 1] = v
                             /\ \A i \in 1 .. n : ws[i] = vs[i]
    <2>1. /\ Append(vs, v) \in Seq(S) /\ Len(Append(vs, v)) = Len(vs) + 1
          /\ \A i \in 1 .. Len(vs) : Append(vs, v)[i] = vs[i]
          /\ Append(vs, v)[Len(vs) + 1] = v
      BY AppendProperties
    <2> QED
      BY <2>1
  <1>2. PICK l \in Nat : l = Len(code)
    BY LenProperties
  <1>3. /\ at \in [0 .. n -> Nat] /\ at[0] = 0
        /\ \A k \in 1 .. n : at[k] = at[k - 1] + Len(Code(lay[k], vs[k]))
    BY DEF Laid
  <1>4. n \in 0 .. n /\ 0 \in 0 .. n /\ 0 \in 0 .. n + 1 /\ n + 1 \in 0 .. n + 1 /\ ~(n + 1 <= n) /\ 0 <= n
        /\ n + 1 \in 1 .. n + 1
    OBVIOUS
  <1>5. PICK e \in Nat : e = at[n] + l
    <2>1. PICK a \in Nat : a = at[n]
      <3>1. at[n] \in Nat
        BY <1>3, <1>4
      <3> QED
        BY <3>1
    <2>2. a + l \in Nat
      BY <1>2
    <2> QED
      BY <2>1, <2>2
  <1> DEFINE at2 == [k \in 0 .. n + 1 |-> IF k <= n THEN at[k] ELSE e]
  <1>6. \A k \in 0 .. n : at2[k] = at[k]
    <2>1. \A k \in 0 .. n : k \in 0 .. n + 1 /\ k <= n
      OBVIOUS
    <2> QED
      BY <2>1
  <1>7. at2[n + 1] = e
    BY <1>4
  <1>8. at2 \in [0 .. n + 1 -> Nat]
    <2>1. \A k \in 0 .. n + 1 : k <= n => k \in 0 .. n
      OBVIOUS
    <2> QED
      BY <1>3, <2>1
  <1> HIDE DEF at2
  <1>9. ASSUME NEW k \in 1 .. n + 1 PROVE at2[k] = at2[k - 1] + Len(Code(lay[k], ws[k]))
    <2>1. CASE k <= n
      <3>1. k \in 1 .. n /\ k \in 0 .. n /\ k - 1 \in 0 .. n
        BY <2>1
      <3> QED
        BY <1>1, <1>3, <1>6, <3>1
    <2>2. CASE ~(k <= n)
      <3>1. k = n + 1 /\ k - 1 = n
        BY <2>2
      <3> QED
        BY <1>1, <1>2, <1>4, <1>5, <1>6, <1>7, <3>1
    <2> QED
      BY <2>1, <2>2
  <1>10. at2[0] = 0
    BY <1>3, <1>4, <1>6
  <1>11. Laid(lay, ws, at2)
    BY <1>1, <1>8, <1>9, <1>10 DEF Laid
  <1> QED
    BY <1>1, <1>2, <1>5, <1>6, <1>7, <1>11

\* A value v of S behind those of vs, which begin at at, and its octets; how places
\* and memory grow by it.
OneBehind(lay, S, vs, v, at, n, code) ==
    /\ vs \in Seq(S) /\ v \in S /\ Laid(lay, vs, at) /\ Coded(lay, vs) /\ n \in Nat /\ n = Len(vs)
    /\ code \in Seq(0 .. 255) /\ code = Code(lay[n + 1], v)
Longer(at, n, code, at2) == at2[n + 1] = at[n] + Len(code) /\ \A k \in 0 .. n : at2[k] = at[k]
Rewritten(mem, at, n, part, new) ==
    mem \in Seq(0 .. 255) /\ part \in Seq(0 .. 255) /\ new = Overlaid(mem, at[n], part) /\ at[n] + Len(part) <= Len(mem)

\* ... and where it ends.
LEMMA OneMore ==
    ASSUME NEW lay, NEW S, NEW vs, NEW v, NEW at, NEW n, NEW code, OneBehind(lay, S, vs, v, at, n, code)
    PROVE  \E at2 : Laid(lay, Append(vs, v), at2) /\ Longer(at, n, code, at2)
  <1>1. /\ vs \in Seq(S) /\ v \in S /\ Laid(lay, vs, at) /\ n \in Nat /\ n = Len(vs)
        /\ code \in Seq(0 .. 255) /\ code = Code(lay[n + 1], v)
    BY DEF OneBehind
  <1> QED
    BY <1>1, LaidAppend DEF Longer

\* The values that were in memory are there when one more is written, or a part of it.
LEMMA OneMoreInMemory ==
    ASSUME NEW lay, NEW S, NEW vs, NEW v, NEW at, NEW n, NEW code, OneBehind(lay, S, vs, v, at, n, code),
           NEW mem, InMemory(lay, vs, at, mem, n), NEW part, NEW new, Rewritten(mem, at, n, part, new),
           NEW at2, Longer(at, n, code, at2)
    PROVE  /\ InMemory(lay, Append(vs, v), at2, new, n)
           /\ part = code => InMemory(lay, Append(vs, v), at2, new, n + 1)
  <1>a. /\ vs \in Seq(S) /\ v \in S /\ Laid(lay, vs, at) /\ n \in Nat /\ n = Len(vs) /\ Coded(lay, vs)
        /\ code \in Seq(0 .. 255) /\ code = Code(lay[n + 1], v)
    BY DEF OneBehind
  <1>b. mem \in Seq(0 .. 255) /\ part \in Seq(0 .. 255) /\ new = Overlaid(mem, at[n], part) /\ at[n] + Len(part) <= Len(mem)
    BY DEF Rewritten
  <1>c. \A k \in 0 .. n : at2[k] = at[k]
    BY DEF Longer
  <1>d. PICK ws : ws = Append(vs, v)
    OBVIOUS
  <1> USE <1>a, <1>b, <1>c, <1>d
  <1>1. /\ ws \in Seq(S) /\ Len(ws) = n + 1 /\ ws[n + 1] = v
        /\ \A i \in 1 .. n : ws[i] = vs[i]
    BY AppendProperties
  <1>2. \A i \in 0 .. n : at[i] \in Nat /\ at[i] <= at[n]
    BY LaidGrows
  <1>3. PICK c \in Nat : c = at[n]
    <2>1. n \in 0 .. n
      OBVIOUS
    <2> QED
      BY <1>2, <2>1
  <1>4. ASSUME NEW i \in 1 .. n PROVE LiesAt(Code(lay[i], ws[i]), new, at2[i - 1])
    <2>1. i \in 0 .. n /\ i - 1 \in 0 .. n
      OBVIOUS
    <2>2. PICK t \in Seq(0 .. 255), a \in Nat : t = Code(lay[i], vs[i]) /\ a = at[i - 1]
      BY <1>2, <2>1 DEF Coded
    <2>3. LiesAt(t, mem, a)
      BY <2>2 DEF InMemory
    <2>4. a + Len(t) <= c
      <3>1. at[i] = at[i - 1] + Len(Code(lay[i], vs[i]))
        BY DEF Laid
      <3>2. at[i] <= at[n]
        BY <1>2, <2>1
      <3> QED
        BY <1>3, <2>2, <3>1, <3>2
    <2>5. LiesAt(t, Overlaid(mem, c, part), a)
      BY <2>3, <2>4, LiesKept
    <2> QED
      BY <1>1, <1>3, <2>1, <2>2, <2>5
  <1>5. ASSUME part = Code(lay[n + 1], v), at[n] + Len(part) <= Len(mem)
        PROVE  LiesAt(Code(lay[n + 1], ws[n + 1]), new, at2[(n + 1) - 1])
    <2>1. c + Len(part) <= Len(mem)
      BY <1>3, <1>5
    <2>2. LiesAt(part, Overlaid(mem, c, part), c)
      BY <2>1, LiesWritten
    <2>3. (n + 1) - 1 = n /\ n \in 0 .. n
      OBVIOUS
    <2> QED
      BY <1>1, <1>3, <1>5, <2>2, <2>3
  <1>6. \A i \in 1 .. n + 1 : i \in 1 .. n \/ i = n + 1
    OBVIOUS
  <1> QED
    BY <1>4, <1>5, <1>6 DEF InMemory


-----------------------------------------------------------------------------
(* What the encoder and the decoder of varints and elements keep.          *)

\* The values of any field of a message.
AnyValue(lay) == UNION {FieldValues(lay[i]) : i \in DOMAIN lay}

\* A message that is not of bit fields has none.
LEMMA PlainLayout ==
    ASSUME layout \in Layouts, ~OfBits
    PROVE  /\ Len(layout) \in Nat /\ DOMAIN layout = 1 .. Len(layout)
           /\ \A i \in 1 .. Len(layout) : Plain(layout[i]) /\ FieldValues(layout[i]) \subseteq AnyValue(layout)
  <1>1. layout \in Seq({layout[i] : i \in DOMAIN layout})
    BY LayoutsAssumption
  <1>2. Len(layout) \in Nat /\ DOMAIN layout = 1 .. Len(layout)
    BY <1>1, LenProperties
  <1>3. ASSUME NEW i \in DOMAIN layout PROVE Plain(layout[i])
    <2>1. GoodField(layout[i]) /\ (layout[i].codec = "bits" => Gapless(layout))
      BY LayoutsAssumption
    <2>2. ~Gapless(layout)
      BY DEF Gapless, OfBits
    <2> QED
      BY <2>1, <2>2 DEF Plain
  <1>4. \A i \in DOMAIN layout : FieldValues(layout[i]) \subseteq AnyValue(layout)
    BY Zenon DEF AnyValue
  <1> QED
    BY <1>2, <1>3, <1>4

\* The bits of the values are those of the octets up to where the last one ends.
LEMMA SentIsLaid ==
    ASSUME layout \in Layouts, ~OfBits, NEW n \in Nat, n = Len(sent), n <= Len(layout), NEW at, Laid(layout, sent, at),
           Coded(layout, sent)
    PROVE  SentBits(n) = 8 * at[n]
  <1>1. /\ at[0] = 0 /\ \A k \in 0 .. n : at[k] \in Nat
        /\ \A k \in 1 .. n : at[k] = at[k - 1] + Len(Code(layout[k], sent[k]))
    BY DEF Laid
  <1>2. ASSUME NEW k \in 1 .. n PROVE SizeOf(layout[k], sent[k]) = 8 * Len(Code(layout[k], sent[k]))
    <2>1. k \in 1 .. Len(layout)
      BY PlainLayout
    <2>2. layout[k].codec # "bits"
      BY <2>1, PlainLayout DEF Plain
    <2> QED
      BY <2>2 DEF SizeOf, Code
  <1>3. \A k \in 1 .. n : Len(Code(layout[k], sent[k])) \in Nat
    BY LenProperties DEF Coded
  <1> DEFINE Sized(f) == f = [j \in 0 .. n |-> IF j = 0 THEN 0 ELSE f[j - 1] + SizeOf(layout[j], sent[j])]
             upto == CHOOSE f : Sized(f)
             g == [j \in 0 .. n |-> 8 * at[j]]
  <1>4. SentBits(n) = upto[n]
    BY DEF SentBits
  <1>5. Sized(g)
    <2>1. ASSUME NEW j \in 0 .. n PROVE 8 * at[j] = IF j = 0 THEN 0 ELSE g[j - 1] + SizeOf(layout[j], sent[j])
      <3>1. CASE j = 0
        BY <1>1, <3>1
      <3>2. CASE j # 0
        <4>1. j \in 1 .. n /\ j - 1 \in 0 .. n
          BY <3>2
        <4>2. PICK p \in Nat, q \in Nat, l \in Nat : p = at[j - 1] /\ q = at[j] /\ l = Len(Code(layout[j], sent[j]))
          BY <1>1, <1>3, <4>1
        <4>3. q = p + l /\ SizeOf(layout[j], sent[j]) = 8 * l
          BY <1>1, <1>2, <4>1, <4>2
        <4>4. g[j - 1] = 8 * p
          BY <4>1, <4>2
        <4>5. 8 * q = 8 * p + 8 * l
          BY <4>3
        <4> QED
          BY <3>2, <4>2, <4>3, <4>4, <4>5
      <3> QED
        BY <3>1, <3>2
    <2> QED
      BY <2>1
  <1>6. Sized(upto)
    <2> HIDE DEF Sized, g
    <2> QED
      BY <1>5
  <1> HIDE DEF upto, g
  <1>7. \A j \in 0 .. n : upto[j] = IF j = 0 THEN 0 ELSE upto[j - 1] + SizeOf(layout[j], sent[j])
    BY <1>6
  <1> HIDE DEF Sized
  <1> DEFINE T == {j \in 0 .. n : upto[j] = 8 * at[j]}
  <1>8. 0 \in T
    <2>1. 0 \in 0 .. n
      BY ZeroIn
    <2>2. upto[0] = 0
      BY <1>7, <2>1
    <2> QED
      BY <1>1, <2>1, <2>2
  <1>9. ASSUME NEW k \in 1 .. n, k - 1 \in T PROVE k \in T
    <2>1. k \in 0 .. n /\ k - 1 \in 0 .. n /\ k # 0
      OBVIOUS
    <2>2. PICK p \in Nat, q \in Nat, l \in Nat : p = at[k - 1] /\ q = at[k] /\ l = Len(Code(layout[k], sent[k]))
      BY <1>1, <1>3, <2>1
    <2>3. q = p + l /\ SizeOf(layout[k], sent[k]) = 8 * l
      BY <1>1, <1>2, <2>2
    <2>4. upto[k] = upto[k - 1] + SizeOf(layout[k], sent[k]) /\ upto[k - 1] = 8 * p
      BY <1>7, <1>9, <2>1, <2>2
    <2>5. 8 * q = 8 * p + 8 * l
      BY <2>3
    <2> QED
      BY <2>1, <2>2, <2>3, <2>4, <2>5
  <1>10. \A k \in 0 .. n : k \in T
    <2> HIDE DEF T
    <2> QED
      BY <1>8, <1>9, UpTo
  <1>11. n \in 0 .. n
    OBVIOUS
  <1> QED
    BY <1>4, <1>10, <1>11

PlainTypes ==
    /\ layout \in Layouts /\ octets \in Seq(0 .. 255) /\ cursor \in 0 .. Len(octets)
    /\ sent \in Seq(AnyValue(layout)) /\ Len(sent) <= Len(layout)
    /\ got \in Seq(AnyValue(layout)) /\ Len(got) <= Len(layout)
    /\ \A i \in 1 .. Len(sent) : sent[i] \in FieldValues(layout[i])
    /\ \A i \in 1 .. Len(got) : got[i] \in FieldValues(layout[i])
    /\ phase \in {"encode", "decode", "full", "overflow", "invalid_value", "unknown_tag"}

PlainPhases ==
    /\ phase \in {"encode", "full"} => got = <<>>
    /\ phase = "full" => sent # <<>>
    /\ phase = "decode" /\ sent # <<>> => Len(sent) = Len(layout)
    /\ phase = "decode" /\ sent = <<>> /\ got = <<>> => cursor = 0

\* Values are where they begin, as long as all of them are written; one that did not
\* fit would end behind memory.
InPlaces(at) ==
    /\ Laid(layout, sent, at)
    /\ phase = "encode" => cursor = at[Len(sent)]
    /\ phase = "full" => Len(octets) < at[Len(sent)]
    /\ phase \in {"encode", "decode"} => InMemory(layout, sent, at, octets, Len(sent))

AllSayable == \A i \in 1 .. Len(sent) : Sayable(layout[i], sent[i])

ReadBack(at) ==
    Clz0 \in 25 .. 32 /\ sent # <<>> /\ AllSayable =>
        /\ phase \in {"encode", "full", "decode"}
        /\ phase = "decode" => cursor = at[Len(got)] /\ \A i \in 1 .. Len(got) : got[i] = sent[i]

\* What was accepted has no fewer octets than are written for it.
AcceptedFits ==
    Clz0 \in 25 .. 32 /\ sent = <<>> /\ Len(got) = 1 /\ Len(layout) = 1 /\ Sayable(layout[1], got[1]) =>
        Len(Code(layout[1], got[1])) <= cursor

PlainInv == ~OfBits => PlainTypes /\ PlainPhases /\ AcceptedFits /\ \E at : InPlaces(at) /\ ReadBack(at)

\* All values given so far have their octets.
LEMMA SentCoded ==
    ASSUME Clz0 \in Int, ~OfBits, PlainTypes
    PROVE  Coded(layout, sent)
  <1>1. ASSUME NEW i \in 1 .. Len(sent) PROVE Code(layout[i], sent[i]) \in Seq(0 .. 255)
    <2>1. layout \in Layouts /\ Len(layout) \in Nat /\ Len(sent) \in Nat /\ Len(sent) <= Len(layout)
      BY PlainLayout, LenProperties DEF PlainTypes
    <2>2. i \in 1 .. Len(layout) /\ sent[i] \in FieldValues(layout[i])
      BY <2>1 DEF PlainTypes
    <2>3. Plain(layout[i])
      BY <2>1, <2>2, PlainLayout
    <2>4. PICK f, v : f = layout[i] /\ v = sent[i] /\ v \in FieldValues(f) /\ Plain(f)
      BY <2>2, <2>3
    <2>5. Handed(f, v, Chunks(f, v, 0))
      BY <2>4, ChunksFacts
    <2> QED
      BY <2>4, <2>5 DEF Handed, Code
  <1> QED
    BY <1>1 DEF Coded

\* The last call for an integer is the one for its content.
LEMMA IntegerChunks ==
    ASSUME Clz0 \in Int, NEW f, Plain(f), NEW v \in FieldValues(f), f.codec = "integer"
    PROVE  \E h \in Seq(Seq(0 .. 255)), c \in Seq(0 .. 255) : Chunks(f, v, 0) = Append(h, c)
  <1>1. BehindTags(f)
    BY PlainCases DEF IsVarint
  <1>2. f.type \in IntegerTypes /\ v \in ValuesOf(f.type)
    BY <1>1 DEF BehindTags, TypedField, FieldValues
  <1>3. PICK n \in Int, x \in Int : n = Bytes(f.type, v) /\ x = v
    BY <1>2, BytesNumber
  <1>4. PICK tags \in Seq(Seq(0 .. 255)) : tags = f.tags
    BY <1>1 DEF BehindTags, Tagged
  <1>5. PICK h \in Seq(Seq(0 .. 255)) : h = Headers(tags, n)
    BY HeadersFacts
  <1>6. PICK c \in Seq(0 .. 255) : c = IntegerOctets(f.type, v)
    BY <1>3, PutBytesInt DEF IntegerOctets
  <1>7. Chunks(f, v, 0) = Append(h, c)
    BY <1>3, <1>4, <1>5, <1>6 DEF Chunks
  <1> QED
    BY <1>7

\* An integer that is refused leaves the octets of its headers, which are fewer.
LEMMA FrontFacts ==
    ASSUME NEW h \in Seq(Seq(0 .. 255)), NEW c \in Seq(0 .. 255), NEW ss, ss = Append(h, c)
    PROVE  FlattenSeq(Front(ss)) \in Seq(0 .. 255) /\ Len(FlattenSeq(Front(ss))) <= Len(FlattenSeq(ss))
  <1> DEFINE O == Seq(0 .. 255)
  <1>1. Front(ss) = h
    <2>1. PICK n \in Nat : n = Len(h)
      BY LenProperties
    <2>2. /\ ss \in Seq(O) /\ Len(ss) = n + 1
          /\ \A i \in 1 .. n : ss[i] = h[i]
      BY <2>1, AppendProperties
    <2> HIDE DEF O
    <2>3. Front(ss) = SubSeq(ss, 1, n)
      BY <2>1, <2>2 DEF Front
    <2>4. SubSeq(ss, 1, n) \in Seq(O) /\ Len(SubSeq(ss, 1, n)) = n /\ \A i \in 1 .. n : SubSeq(ss, 1, n)[i] = ss[i]
      BY <2>1, <2>2, SubSeqProperties
    <2>5. h \in Seq(O)
      BY DEF O
    <2> QED
      BY <2>1, <2>2, <2>3, <2>4, <2>5, SeqEqual
  <1>2. PICK a \in O : a = FlattenSeq(h)
    BY FlattenType
  <1>3. FlattenSeq(ss) = a \o c
    BY <1>2, FlattenAppend
  <1>4. Len(a \o c) = Len(a) + Len(c) /\ Len(a) \in Nat /\ Len(c) \in Nat
    BY ConcatProperties, LenProperties
  <1>5. Len(a) <= Len(a \o c)
    BY <1>4
  <1> QED
    BY <1>1, <1>2, <1>3, <1>5

\* No integer is refused where 0 is counted as at most seven digits.
LEMMA AllWritable ==
    ASSUME Clz0 \in 25 .. 32, NEW f, Plain(f), NEW v \in FieldValues(f)
    PROVE  Writable(f, v)
  <1> SUFFICES ASSUME f.codec = "integer"
               PROVE  Bytes(f.type, v) \in 1 .. f.type.bits \div 8
    BY DEF Writable
  <1>1. PICK T \in IntegerTypes : T = f.type /\ v \in ValuesOf(T)
    BY PlainCases DEF IsVarint, BehindTags, TypedField, FieldValues
  <1>2. PICK n \in 1 .. 8 : n = Bytes(T, v) /\ 8 * n <= T.bits
    BY <1>1, BytesFacts
  <1>3. T.bits \in {8, 16, 32, 64}
    BY TypeFacts
  <1>4. n <= T.bits \div 8
    BY <1>2, <1>3
  <1>5. n \in 1 .. T.bits \div 8
    BY <1>3, <1>4
  <1> QED
    BY <1>1, <1>2, <1>5

\* What encoding a value comes to: all of its octets are written, or those of the calls
\* that found room, or those in front of an integer that is refused.
ValueWritten(f, v, part) ==
    /\ phase = "encode" /\ Len(sent) + 1 \in 1 .. Len(layout) /\ f = layout[Len(sent) + 1]
    /\ Plain(f) /\ v \in FieldValues(f) /\ v \in AnyValue(layout) /\ Code(f, v) \in Seq(0 .. 255)
    /\ layout' = layout /\ got' = got /\ sent' = Append(sent, v)
    /\ part \in Seq(0 .. 255) /\ cursor + Len(part) <= Len(octets)
    /\ octets' = Overlaid(octets, cursor, part) /\ cursor' \in 0 .. Len(octets)
    /\ \/ part = Code(f, v) /\ phase' = "encode" /\ cursor' = cursor + Len(part)
       \/ phase' = "full" /\ Len(octets) < cursor + Len(Code(f, v))
       \/ phase' = "invalid_value" /\ ~Writable(f, v)

\* Every step of the encoder is of this kind.
LEMMA EncodesPlain ==
    ASSUME Clz0 \in Int, ~OfBits, PlainTypes, Encode
    PROVE  \E f, v, part : ValueWritten(f, v, part)
  <1>1. layout \in Layouts /\ Len(layout) \in Nat /\ Len(sent) \in Nat /\ octets \in Seq(0 .. 255)
    BY PlainLayout, LenProperties DEF PlainTypes
  <1>2. phase = "encode" /\ Len(sent) < Len(layout) /\ layout' = layout /\ got' = got
    BY DEF Encode
  <1>3. PICK f : f = layout[Len(sent) + 1]
    OBVIOUS
  <1>4. PICK v \in Values(f) : \E chunks \in {Chunks(f, v, OctetAtCursor)} :
            Writes(f, v, chunks, Fitting(chunks, Len(octets) - cursor))
    BY <1>3, Zenon DEF Encode
  <1>5. PICK chunks : chunks = Chunks(f, v, OctetAtCursor) /\ Writes(f, v, chunks, Fitting(chunks, Len(octets) - cursor))
    BY <1>4
  <1>6. Len(sent) + 1 \in 1 .. Len(layout)
    BY <1>1, <1>2
  <1>7. Plain(f) /\ FieldValues(f) \subseteq AnyValue(layout)
    BY <1>1, <1>3, <1>6, PlainLayout
  <1>8. v \in FieldValues(f)
    BY <1>7, PlainCases
  <1>9. Handed(f, v, chunks) /\ chunks = Chunks(f, v, 0)
    BY <1>5, <1>7, <1>8, ChunksFacts
  <1>10. PICK ss \in Seq(Seq(0 .. 255)), code \in Seq(0 .. 255) : ss = chunks /\ code = FlattenSeq(ss) /\ code = Code(f, v)
    BY <1>9 DEF Handed, Code
  <1>11. PICK l \in Nat, c \in Nat, room \in Nat : l = Len(octets) /\ c = cursor /\ room = l - c
    <2>1. Len(octets) \in Nat
      BY <1>1, LenProperties
    <2>2. cursor \in 0 .. Len(octets)
      BY DEF PlainTypes
    <2> QED
      BY <2>1, <2>2
  <1>12. PICK fit : fit = Fitting(ss, room)
    OBVIOUS
  <1>13. PICK part \in Seq(0 .. 255) : part = FlattenSeq(fit) /\ Len(part) <= room
    BY <1>12, FittingFacts
  <1>14. (Len(fit) = Len(ss) => fit = ss) /\ (Len(fit) # Len(ss) => Len(FlattenSeq(ss)) > room)
    BY <1>12, FittingFacts
  <1>15. Writes(f, v, ss, fit)
    BY <1>5, <1>10, <1>11, <1>12
  <1>16. sent' = Append(sent, v) /\ Code(f, v) \in Seq(0 .. 255) /\ v \in AnyValue(layout)
    BY <1>7, <1>8, <1>10, <1>15 DEF Writes
  <1>17. Advance(f, Len(part)) = Len(part)
    BY <1>7 DEF Advance, Plain
  <1>18. PICK p \in Nat : p = Len(part) /\ c + p <= l /\ c + p \in 0 .. l
    <2>1. Len(part) \in Nat
      BY LenProperties
    <2> QED
      BY <1>11, <1>13, <2>1
  <1>19. CASE Len(fit) = Len(ss) /\ Writable(f, v)
    <2>1. octets' = Overlaid(octets, cursor, part) /\ cursor' = cursor + Len(part) /\ phase' = "encode"
      BY <1>2, <1>13, <1>15, <1>17, <1>19 DEF Writes
    <2>2. part = Code(f, v)
      BY <1>10, <1>13, <1>14, <1>19
    <2>3. cursor' \in 0 .. Len(octets) /\ cursor + Len(part) <= Len(octets)
      BY <1>11, <1>18, <2>1
    <2>4. ValueWritten(f, v, part)
      BY <1>2, <1>3, <1>6, <1>7, <1>8, <1>13, <1>16, <2>1, <2>2, <2>3, Zenon DEF ValueWritten
    <2> QED
      BY <2>4
  <1>20. CASE Len(fit) # Len(ss)
    <2>1. octets' = Overlaid(octets, cursor, part) /\ cursor' = cursor + Len(part) /\ phase' = "full"
      BY <1>13, <1>15, <1>20 DEF Writes
    <2>2. Len(octets) < cursor + Len(Code(f, v))
      <3>1. Len(code) > room /\ Len(code) \in Nat
        BY <1>10, <1>14, <1>20, LenProperties
      <3>2. l < c + Len(code)
        BY <1>11, <3>1
      <3> QED
        BY <1>10, <1>11, <3>2
    <2>3. cursor' \in 0 .. Len(octets) /\ cursor + Len(part) <= Len(octets)
      BY <1>11, <1>18, <2>1
    <2>4. ValueWritten(f, v, part)
      BY <1>2, <1>3, <1>6, <1>7, <1>8, <1>13, <1>16, <2>1, <2>2, <2>3, Zenon DEF ValueWritten
    <2> QED
      BY <2>4
  <1>21. CASE Len(fit) = Len(ss) /\ ~Writable(f, v)
    <2>1. octets' = Overlaid(octets, cursor, FlattenSeq(Front(ss))) /\ cursor' = cursor + Len(part) /\ phase' = "invalid_value"
      BY <1>13, <1>14, <1>15, <1>21 DEF Writes
    <2>2. PICK front \in Seq(0 .. 255) : front = FlattenSeq(Front(ss)) /\ Len(front) <= Len(part)
      <3>1. f.codec = "integer"
        BY <1>21 DEF Writable
      <3>2. PICK h, x : ss = Append(h, x) /\ h \in Seq(Seq(0 .. 255)) /\ x \in Seq(0 .. 255)
        BY <1>7, <1>8, <1>9, <1>10, <3>1, IntegerChunks
      <3>3. FlattenSeq(Front(ss)) \in Seq(0 .. 255) /\ Len(FlattenSeq(Front(ss))) <= Len(FlattenSeq(ss))
        BY <3>2, FrontFacts
      <3> QED
        BY <1>13, <1>14, <1>21, <3>3
    <2>3. cursor' \in 0 .. Len(octets) /\ cursor + Len(front) <= Len(octets)
      <3>1. Len(front) \in Nat
        BY LenProperties
      <3>2. c + Len(front) <= l
        BY <1>18, <2>2, <3>1
      <3> QED
        BY <1>11, <1>18, <2>1, <3>2
    <2>4. ValueWritten(f, v, front)
      BY <1>2, <1>3, <1>6, <1>7, <1>8, <1>16, <1>21, <2>1, <2>2, <2>3, Zenon DEF ValueWritten
    <2> QED
      BY <2>4
  <1> QED
    BY <1>19, <1>20, <1>21

\* Encoding keeps the invariant: a value is behind the others, or does not fit.
LEMMA EncodeKeepsPlain ==
    ASSUME Clz0 \in Int, ~OfBits, PlainTypes, PlainPhases, NEW at, InPlaces(at),
           NEW f, NEW v, NEW part, ValueWritten(f, v, part)
    PROVE  PlainTypes' /\ PlainPhases' /\ AcceptedFits' /\ \E at2 : InPlaces(at2)' /\ ReadBack(at2)'
  <1>1. layout \in Layouts /\ Len(layout) \in Nat /\ octets \in Seq(0 .. 255) /\ got = <<>>
    BY PlainLayout DEF PlainTypes, ValueWritten, PlainPhases
  <1>2. PICK n \in Nat : n = Len(sent) /\ n + 1 \in 1 .. Len(layout)
    BY LenProperties DEF PlainTypes, ValueWritten
  <1>3. PICK S : S = AnyValue(layout) /\ sent \in Seq(S) /\ v \in S
    BY DEF PlainTypes, ValueWritten
  <1>0. PICK lay : lay = layout
    OBVIOUS
  <1>4. PICK vs \in Seq(S), mem \in Seq(0 .. 255) : lay = layout /\ vs = sent /\ mem = octets
    BY <1>0, <1>1, <1>3
  <1>5. PICK code \in Seq(0 .. 255) : code = Code(f, v) /\ f = lay[n + 1]
    BY <1>2, <1>4 DEF ValueWritten
  <1>6. Coded(lay, vs)
    BY <1>4, SentCoded
  <1>7. Laid(lay, vs, at) /\ InMemory(lay, vs, at, mem, n) /\ cursor = at[n]
    <2>1. phase = "encode"
      BY DEF ValueWritten
    <2> QED
      BY <1>2, <1>4, <2>1 DEF InPlaces
  <1>8. PICK c \in Nat, p \in Nat, l \in Nat, m \in Nat :
            c = cursor /\ p = Len(part) /\ l = Len(code) /\ m = Len(mem) /\ c + p <= m /\ part \in Seq(0 .. 255)
    <2>1. part \in Seq(0 .. 255) /\ cursor + Len(part) <= Len(octets) /\ Len(octets) \in Nat
      BY <1>1, LenProperties DEF ValueWritten
    <2>2. cursor \in Nat
      BY <2>1 DEF PlainTypes
    <2> QED
      BY <1>4, <2>1, <2>2, LenProperties
  <1>9. PICK ws \in Seq(S) : /\ ws = Append(vs, v) /\ Len(ws) = n + 1 /\ ws[n + 1] = v /\ ws # <<>>
                             /\ \A i \in 1 .. n : ws[i] = vs[i]
    <2>1. /\ Append(vs, v) \in Seq(S) /\ Len(Append(vs, v)) = Len(vs) + 1 /\ Append(vs, v) # <<>>
          /\ \A i \in 1 .. Len(vs) : Append(vs, v)[i] = vs[i]
          /\ Append(vs, v)[Len(vs) + 1] = v
      BY <1>3, AppendProperties
    <2> QED
      BY <1>2, <1>4, <2>1
  <1>10. PICK new \in Seq(0 .. 255) : new = Overlaid(mem, c, part) /\ Len(new) = m
    BY <1>8, OverlaidFacts
  <1>11. layout' = lay /\ sent' = ws /\ got' = <<>> /\ octets' = new /\ cursor' \in 0 .. m
    BY <1>1, <1>4, <1>8, <1>9, <1>10 DEF ValueWritten
  <1>12. \/ part = code /\ phase' = "encode" /\ cursor' = c + l
         \/ phase' = "full" /\ m < c + l
         \/ phase' = "invalid_value" /\ ~Writable(f, v)
    BY <1>4, <1>5, <1>8 DEF ValueWritten
  <1>13. PlainTypes'
    <2>1. lay \in Layouts /\ new \in Seq(0 .. 255) /\ cursor' \in 0 .. Len(new)
      BY <1>1, <1>4, <1>8, <1>10, <1>11
    <2>2. ws \in Seq(AnyValue(lay)) /\ Len(ws) <= Len(lay)
      BY <1>1, <1>2, <1>3, <1>4, <1>9
    <2>3. <<>> \in Seq(AnyValue(lay)) /\ Len(<<>>) = 0 /\ 0 <= Len(lay) /\ 1 .. 0 = {}
      BY <1>1, <1>4
    <2>4. \A i \in 1 .. Len(ws) : ws[i] \in FieldValues(lay[i])
      <3>1. \A i \in 1 .. n + 1 : i \in 1 .. n \/ i = n + 1
        OBVIOUS
      <3>2. \A i \in 1 .. n : vs[i] \in FieldValues(lay[i])
        BY <1>2, <1>4 DEF PlainTypes
      <3>3. v \in FieldValues(lay[n + 1])
        BY <1>5 DEF ValueWritten
      <3> QED
        BY <1>9, <3>1, <3>2, <3>3
    <2>5. phase' \in {"encode", "decode", "full", "overflow", "invalid_value", "unknown_tag"}
      BY <1>12
    <2>6. \A i \in 1 .. Len(<<>>) : <<>>[i] \in FieldValues(lay[i])
      BY <2>3
    <2> QED
      BY <1>11, <2>1, <2>2, <2>3, <2>4, <2>5, <2>6 DEF PlainTypes
  <1>14. PlainPhases'
    BY <1>9, <1>11, <1>12 DEF PlainPhases
  <1>15. AcceptedFits'
    BY <1>9, <1>11 DEF AcceptedFits
  <1>a. OneBehind(lay, S, vs, v, at, n, code)
    BY <1>2, <1>3, <1>4, <1>5, <1>6, <1>7 DEF OneBehind
  <1>b. PICK at2 : Laid(lay, Append(vs, v), at2) /\ Longer(at, n, code, at2)
    BY <1>a, OneMore
  <1>16. Laid(lay, ws, at2) /\ at2[n + 1] = at[n] + Len(code)
    BY <1>9, <1>b DEF Longer
  <1>c. Rewritten(mem, at, n, part, new)
    BY <1>7, <1>8, <1>10 DEF Rewritten
  <1>17. /\ InMemory(lay, ws, at2, new, n)
         /\ part = code => InMemory(lay, ws, at2, new, n + 1)
    BY <1>7, <1>9, <1>a, <1>b, <1>c, OneMoreInMemory
  <1>18. InPlaces(at2)'
    <2>1. at2[n + 1] = c + l
      BY <1>7, <1>8, <1>16
    <2>2. CASE part = code /\ phase' = "encode" /\ cursor' = c + l
      <3>1. cursor' = at2[Len(sent')]
        BY <1>9, <1>11, <2>1, <2>2
      <3>2. InMemory(lay, ws, at2, new, Len(ws))
        BY <1>9, <1>17, <2>2
      <3> QED
        BY <1>11, <1>16, <2>2, <3>1, <3>2 DEF InPlaces
    <2>3. CASE phase' = "full" /\ m < c + l
      <3>1. Len(octets') < at2[Len(sent')]
        BY <1>9, <1>10, <1>11, <2>1, <2>3
      <3> QED
        BY <1>11, <1>16, <2>3, <3>1 DEF InPlaces
    <2>4. CASE phase' = "invalid_value"
      BY <1>11, <1>16, <2>4 DEF InPlaces
    <2> QED
      BY <1>12, <2>2, <2>3, <2>4
  <1>19. ReadBack(at2)'
    <2>1. Clz0 \in 25 .. 32 => Writable(f, v)
      BY AllWritable DEF ValueWritten
    <2> QED
      BY <1>12, <2>1 DEF ReadBack
  <1> QED
    BY <1>13, <1>14, <1>15, <1>18, <1>19

\* What is in memory at the cursor, is what the octets behind it begin with.
LEMMA LiesBehind ==
    ASSUME NEW mem \in Seq(0 .. 255), NEW c \in 0 .. Len(mem), NEW t \in Seq(0 .. 255), LiesAt(t, mem, c)
    PROVE  LiesAt(t, SubSeq(mem, c + 1, Len(mem)), 0)
  <1>1. PICK m \in Nat, n \in Nat : m = Len(mem) /\ n = Len(t)
    BY LenProperties
  <1>2. c \in Nat /\ c + n <= m
    BY <1>1 DEF LiesAt
  <1>3. Begins(t, SubSeq(mem, c + 1, m))
    <2>1. c + Len(t) <= m /\ m <= Len(mem)
      BY <1>1, <1>2
    <2> QED
      BY <1>2, <2>1, LiesIn
  <1> QED
    BY <1>1, <1>3, BeginsLies

\* What decoding a value comes to: r is what it ended with, in the octets behind the cursor.
ValueRead(f, rest, r) ==
    /\ phase = "decode" /\ Len(got) + 1 \in 1 .. Len(layout) /\ f = layout[Len(got) + 1] /\ Plain(f)
    /\ rest = SubSeq(octets, cursor + 1, Len(octets)) /\ rest \in Seq(0 .. 255) /\ Len(rest) = Len(octets) - cursor
    /\ \E wraps : r = Decoded(f, rest, wraps)
    /\ layout' = layout /\ octets' = octets /\ sent' = sent
    /\ \/ Faultless(r) /\ got' = Append(got, r.value) /\ cursor' = cursor + r.used /\ phase' = "decode"
       \/ /\ ~Faultless(r) /\ got' = got /\ cursor' = cursor
          /\ phase' \in {"overflow", "invalid_value", "unknown_tag"}

\* Every step of the decoder is of this kind.
LEMMA DecodesPlain ==
    ASSUME ~OfBits, PlainTypes, Decode
    PROVE  \E f, rest, r : ValueRead(f, rest, r)
  <1>1. layout \in Layouts /\ Len(layout) \in Nat /\ Len(got) \in Nat /\ octets \in Seq(0 .. 255)
    BY PlainLayout, LenProperties DEF PlainTypes
  <1>2. phase = "decode" /\ Len(got) < Len(layout) /\ layout' = layout /\ octets' = octets /\ sent' = sent
    BY DEF Decode
  <1>3. PICK f : f = layout[Len(got) + 1]
    OBVIOUS
  <1>4. PICK rest : rest = SubSeq(octets, cursor + 1, Len(octets))
    OBVIOUS
  <1>5. \E wraps \in BOOLEAN : \E end \in {Decoded(f, rest, wraps)} :
              IF end.fault = ""
              THEN got' = Append(got, end.value) /\ cursor' = cursor + end.used /\ UNCHANGED phase
              ELSE phase' = end.fault /\ UNCHANGED <<got, cursor>>
    BY <1>3, <1>4, Zenon DEF Decode
  <1>6. PICK wraps, r : /\ r = Decoded(f, rest, wraps)
                        /\ IF r.fault = ""
                           THEN got' = Append(got, r.value) /\ cursor' = cursor + r.used /\ phase' = phase
                           ELSE phase' = r.fault /\ got' = got /\ cursor' = cursor
    BY <1>5
  <1>7. Len(got) + 1 \in 1 .. Len(layout)
    BY <1>1, <1>2
  <1>8. Plain(f)
    BY <1>1, <1>3, <1>7, PlainLayout
  <1>9. rest \in Seq(0 .. 255) /\ Len(rest) = Len(octets) - cursor
    <2>1. PICK m \in Nat, c \in Nat : m = Len(octets) /\ c = cursor /\ c <= m
      <3>1. Len(octets) \in Nat /\ cursor \in 0 .. Len(octets)
        BY <1>1, LenProperties DEF PlainTypes
      <3> QED
        BY <3>1
    <2>2. SubSeq(octets, c + 1, m) \in Seq(0 .. 255) /\ Len(SubSeq(octets, c + 1, m)) = m - c
      <3>1. m <= Len(octets)
        BY <2>1
      <3> QED
        BY <1>1, <2>1, <3>1, Slice, ZenonT(30)
    <2> QED
      BY <1>4, <2>1, <2>2
  <1>10. Faulty(r)
    BY <1>6, <1>8, <1>9, ValueDecoded
  <1>11. \/ Faultless(r) /\ got' = Append(got, r.value) /\ cursor' = cursor + r.used /\ phase' = "decode"
         \/ /\ ~Faultless(r) /\ got' = got /\ cursor' = cursor
            /\ phase' \in {"overflow", "invalid_value", "unknown_tag"}
    <2>1. CASE r.fault = ""
      BY <1>2, <1>6, <2>1, Zenon DEF Faultless
    <2>2. CASE r.fault # ""
      <3>1. r.fault \in {"overflow", "invalid_value", "unknown_tag"}
        BY <1>10, <2>2 DEF Faulty, Faults
      <3> QED
        BY <1>6, <2>2, <3>1, Zenon DEF Faultless
    <2> QED
      BY <2>1, <2>2
  <1>12. ValueRead(f, rest, r)
    BY <1>2, <1>3, <1>4, <1>6, <1>7, <1>8, <1>9, <1>11, Zenon DEF ValueRead
  <1> QED
    BY <1>12

\* Decoding keeps the invariant: a value comes back, and the next one begins behind it.
LEMMA DecodeKeepsPlain ==
    ASSUME Clz0 \in Int, ~OfBits, PlainTypes, PlainPhases, AcceptedFits, NEW at, InPlaces(at), ReadBack(at),
           NEW f, NEW rest, NEW r, ValueRead(f, rest, r)
    PROVE  PlainTypes' /\ PlainPhases' /\ AcceptedFits' /\ InPlaces(at)' /\ ReadBack(at)'
  <1>1. layout \in Layouts /\ Len(layout) \in Nat /\ octets \in Seq(0 .. 255) /\ phase = "decode"
    BY PlainLayout DEF PlainTypes, ValueRead
  <1>2. PICK n \in Nat : n = Len(got) /\ n + 1 \in 1 .. Len(layout) /\ f = layout[n + 1] /\ Plain(f)
    BY LenProperties DEF PlainTypes, ValueRead
  <1>3. PICK S : S = AnyValue(layout) /\ got \in Seq(S) /\ FieldValues(f) \subseteq S
    BY <1>1, <1>2, PlainLayout DEF PlainTypes
  <1>4. layout' = layout /\ octets' = octets /\ sent' = sent
    BY DEF ValueRead
  <1>5. PICK m \in Nat, c \in Nat : m = Len(octets) /\ c = cursor /\ c <= m /\ c \in 0 .. Len(octets)
    <2>1. Len(octets) \in Nat /\ cursor \in 0 .. Len(octets)
      BY <1>1, LenProperties DEF PlainTypes
    <2> QED
      BY <2>1
  <1>6. PICK wraps : r = Decoded(f, rest, wraps) /\ rest \in Seq(0 .. 255) /\ Len(rest) = m - c
    BY <1>5 DEF ValueRead
  <1>7. PICK u \in Nat : u = r.used /\ c + u <= m
    <2>1. r.used \in 0 .. m - c
      BY <1>2, <1>6, ValueDecoded
    <2> QED
      BY <1>5, <2>1
  <1>8. PICK v : v = r.value
    OBVIOUS
  <1>9. Faultless(r) => v \in FieldValues(f) /\ v \in S
    BY <1>2, <1>3, <1>6, <1>8, ValueDecoded
  <1>10. \/ Faultless(r) /\ got' = Append(got, v) /\ cursor' = c + u /\ phase' = "decode"
         \/ /\ ~Faultless(r) /\ got' = got /\ cursor' = c
            /\ phase' \in {"overflow", "invalid_value", "unknown_tag"}
    BY <1>5, <1>7, <1>8 DEF ValueRead
  <1>11. ASSUME Faultless(r)
         PROVE  /\ got' \in Seq(S) /\ Len(got') = n + 1 /\ got'[n + 1] = v /\ got' # <<>>
                /\ \A i \in 1 .. n : got'[i] = got[i]
    <2>1. /\ Append(got, v) \in Seq(S) /\ Len(Append(got, v)) = Len(got) + 1 /\ Append(got, v) # <<>>
          /\ \A i \in 1 .. Len(got) : Append(got, v)[i] = got[i]
          /\ Append(got, v)[Len(got) + 1] = v
      BY <1>3, <1>9, <1>11, AppendProperties
    <2> QED
      BY <1>2, <1>10, <1>11, <2>1
  <1>12. PlainTypes'
    <2>1. /\ layout \in Layouts /\ octets \in Seq(0 .. 255)
          /\ sent \in Seq(AnyValue(layout)) /\ Len(sent) <= Len(layout)
          /\ got \in Seq(AnyValue(layout)) /\ Len(got) <= Len(layout)
          /\ \A i \in 1 .. Len(sent) : sent[i] \in FieldValues(layout[i])
          /\ \A i \in 1 .. Len(got) : got[i] \in FieldValues(layout[i])
      BY DEF PlainTypes
    <2>2. phase' \in {"encode", "decode", "full", "overflow", "invalid_value", "unknown_tag"}
      BY <1>10
    <2>3. cursor' \in 0 .. Len(octets')
      BY <1>4, <1>5, <1>7, <1>10
    <2>4. /\ got' \in Seq(AnyValue(layout)) /\ Len(got') <= Len(layout)
          /\ \A i \in 1 .. Len(got') : got'[i] \in FieldValues(layout[i])
      <3>1. CASE Faultless(r)
        <4>1. \A i \in 1 .. n + 1 : i \in 1 .. n \/ i = n + 1
          OBVIOUS
        <4>2. Len(got') = n + 1 /\ Len(got') <= Len(layout)
          BY <1>1, <1>2, <1>11, <3>1
        <4>3. \A i \in 1 .. n + 1 : got'[i] \in FieldValues(layout[i])
          BY <1>2, <1>9, <1>11, <2>1, <3>1, <4>1
        <4> QED
          BY <1>3, <1>11, <3>1, <4>2, <4>3
      <3>2. CASE ~Faultless(r)
        BY <1>10, <2>1, <3>2
      <3> QED
        BY <3>1, <3>2
    <2> QED
      BY <1>4, <2>1, <2>2, <2>3, <2>4 DEF PlainTypes
  <1>13. PlainPhases'
    <2>1. sent # <<>> => Len(sent) = Len(layout)
      BY <1>1 DEF PlainPhases
    <2>2. CASE Faultless(r)
      BY <1>4, <1>10, <1>11, <2>1, <2>2 DEF PlainPhases
    <2>3. CASE ~Faultless(r)
      <3>1. phase' # "encode" /\ phase' # "full" /\ phase' # "decode"
        BY <1>10, <2>3
      <3> QED
        BY <3>1 DEF PlainPhases
    <2> QED
      BY <2>2, <2>3
  <1>14. AcceptedFits'
    <2> SUFFICES ASSUME Clz0 \in 25 .. 32, sent = <<>>, Len(got') = 1, Len(layout) = 1, Sayable(layout[1], got'[1])
                 PROVE  Len(Code(layout[1], got'[1])) <= cursor'
      BY <1>4 DEF AcceptedFits
    <2>1. n = 0
      BY <1>2
    <2>2. Faultless(r)
      <3> SUFFICES ASSUME ~Faultless(r) PROVE FALSE
        OBVIOUS
      <3>1. got' = got
        BY <1>10
      <3>2. Len(got') = 0
        BY <1>2, <2>1, <3>1
      <3>3. 0 # 1
        OBVIOUS
      <3> QED
        BY <3>2, <3>3
    <2>3. got = <<>>
      BY <1>2, <1>3, <2>1, EmptySeq
    <2>4. c = 0
      BY <1>1, <1>5, <2>3 DEF PlainPhases
    <2>5. got'[1] = v /\ layout[1] = f
      BY <1>2, <1>11, <2>1, <2>2
    <2>6. Sayable(f, r.value)
      BY <1>8, <2>5
    <2>7. Len(Code(f, r.value)) <= r.used
      BY <1>2, <1>6, <2>2, <2>6, ValueAccepted
    <2>8. cursor' = r.used
      BY <1>7, <1>10, <2>2, <2>4
    <2> QED
      BY <1>8, <2>5, <2>7, <2>8
  <1>15. InPlaces(at)'
    <2>1. Laid(layout, sent, at) /\ InMemory(layout, sent, at, octets, Len(sent))
      BY <1>1 DEF InPlaces
    <2>2. phase' # "encode" /\ phase' # "full"
      BY <1>10
    <2> QED
      BY <1>4, <2>1, <2>2 DEF InPlaces
  <1>16. ReadBack(at)'
    <2> SUFFICES ASSUME Clz0 \in 25 .. 32, sent # <<>>, AllSayable
                 PROVE  /\ phase' \in {"encode", "full", "decode"}
                        /\ phase' = "decode" => cursor' = at[Len(got')] /\ \A i \in 1 .. Len(got') : got'[i] = sent[i]
      BY <1>4 DEF ReadBack, AllSayable
    <2>1. cursor = at[n] /\ \A i \in 1 .. n : got[i] = sent[i]
      BY <1>1, <1>2 DEF ReadBack
    <2>2. Len(sent) = Len(layout)
      BY <1>1 DEF PlainPhases
    <2>3. n + 1 \in 1 .. Len(sent) /\ (n + 1) - 1 = n
      BY <1>2, <2>2
    <2>4. PICK x : x = sent[n + 1] /\ x \in FieldValues(f) /\ Sayable(f, x)
      BY <1>2, <2>3 DEF PlainTypes, AllSayable
    <2>5. Coded(layout, sent)
      BY SentCoded
    <2>6. PICK code \in Seq(0 .. 255) : code = Code(f, x)
      BY <1>2, <2>3, <2>4, <2>5 DEF Coded
    <2>7. LiesAt(code, octets, c)
      <3>1. InMemory(layout, sent, at, octets, Len(sent))
        BY <1>1 DEF InPlaces
      <3>2. LiesAt(Code(layout[n + 1], sent[n + 1]), octets, at[(n + 1) - 1])
        BY <2>3, <3>1 DEF InMemory
      <3> QED
        BY <1>2, <1>5, <2>1, <2>3, <2>4, <2>6, <3>2
    <2>8. LiesAt(Code(f, x), rest, 0)
      <3>1. LiesAt(code, SubSeq(octets, c + 1, Len(octets)), 0)
        BY <1>1, <1>5, <2>7, LiesBehind
      <3>2. rest = SubSeq(octets, c + 1, Len(octets))
        BY <1>5 DEF ValueRead
      <3> QED
        BY <2>6, <3>1, <3>2
    <2>9. r = Good(Len(Code(f, x)), x)
      BY <1>2, <1>6, <2>4, <2>8, ValueComesBack
    <2>10. Faultless(r) /\ r.used = Len(code) /\ r.value = x
      BY <2>6, <2>9, GoodParts
    <2>11. at[n + 1] = at[n] + Len(code)
      <3>1. at[n + 1] = at[(n + 1) - 1] + Len(Code(layout[n + 1], sent[n + 1]))
        BY <2>3 DEF InPlaces, Laid
      <3> QED
        BY <1>2, <2>3, <2>4, <2>6, <3>1
    <2>12. cursor' = at[n + 1] /\ phase' = "decode" /\ Len(got') = n + 1
      BY <1>5, <1>7, <1>10, <1>11, <2>1, <2>10, <2>11
    <2>13. \A i \in 1 .. n + 1 : got'[i] = sent[i]
      <3>1. \A i \in 1 .. n + 1 : i \in 1 .. n \/ i = n + 1
        OBVIOUS
      <3> QED
        BY <1>8, <1>11, <2>1, <2>4, <2>10, <3>1
    <2> QED
      BY <2>12, <2>13
  <1> QED
    BY <1>12, <1>13, <1>14, <1>15, <1>16

\* Nothing was written or read.
LEMMA InitPlain == Init => PlainInv
  <1> SUFFICES ASSUME Init, ~OfBits
               PROVE  PlainTypes /\ PlainPhases /\ AcceptedFits /\ \E at : InPlaces(at) /\ ReadBack(at)
    BY DEF PlainInv
  <1>1. layout \in Layouts /\ cursor = 0 /\ sent = <<>> /\ got = <<>> /\ (phase = "encode" \/ phase = "decode")
    BY DEF Init
  <1>2. octets \in Seq(0 .. 255)
    BY MemoryAssumption DEF Init
  <1>3. Len(layout) \in Nat /\ Len(octets) \in Nat /\ Len(<<>>) = 0 /\ 1 .. 0 = {}
    BY <1>1, <1>2, PlainLayout, LenProperties
  <1>4. PlainTypes
    <2>1. cursor \in 0 .. Len(octets)
      BY <1>1, <1>3
    <2>2. <<>> \in Seq(AnyValue(layout)) /\ 0 <= Len(layout)
      BY <1>3
    <2>3. \A i \in 1 .. Len(<<>>) : <<>>[i] \in FieldValues(layout[i])
      BY <1>3
    <2>4. phase \in {"encode", "decode", "full", "overflow", "invalid_value", "unknown_tag"}
      BY <1>1
    <2> QED
      BY <1>1, <1>2, <1>3, <2>1, <2>2, <2>3, <2>4 DEF PlainTypes
  <1>5. PlainPhases
    BY <1>1 DEF PlainPhases
  <1>6. AcceptedFits
    BY <1>1, <1>3 DEF AcceptedFits
  <1>7. PICK at : Laid(layout, <<>>, at) /\ at[0] = 0 /\ InMemory(layout, <<>>, at, octets, 0)
    BY NothingLaid
  <1>8. InPlaces(at)
    <2>1. Len(sent) = 0 /\ phase # "full"
      BY <1>1, <1>3
    <2> QED
      BY <1>1, <1>3, <1>7, <2>1 DEF InPlaces
  <1>9. ReadBack(at)
    BY <1>1 DEF ReadBack
  <1> QED
    BY <1>4, <1>5, <1>6, <1>8, <1>9

\* The cursor goes back to the first value.
LEMMA TurnKeepsPlain ==
    ASSUME ~OfBits, PlainTypes, PlainPhases, NEW at, InPlaces(at), Turn
    PROVE  PlainTypes' /\ PlainPhases' /\ AcceptedFits' /\ InPlaces(at)' /\ ReadBack(at)'
  <1>1. /\ phase = "encode" /\ phase' = "decode" /\ cursor' = 0 /\ sent # <<>> /\ Len(sent) = Len(layout)
        /\ layout' = layout /\ octets' = octets /\ sent' = sent /\ got' = got
    BY DEF Turn
  <1>2. got = <<>> /\ Len(<<>>) = 0 /\ 1 .. 0 = {}
    BY <1>1 DEF PlainPhases
  <1>3. PlainTypes'
    <2>1. cursor' \in 0 .. Len(octets')
      <3>1. Len(octets) \in Nat
        BY LenProperties DEF PlainTypes
      <3> QED
        BY <1>1, <3>1
    <2>2. phase' \in {"encode", "decode", "full", "overflow", "invalid_value", "unknown_tag"}
      BY <1>1
    <2> QED
      BY <1>1, <2>1, <2>2 DEF PlainTypes
  <1>4. PlainPhases'
    BY <1>1 DEF PlainPhases
  <1>5. AcceptedFits'
    BY <1>1 DEF AcceptedFits
  <1>6. InPlaces(at)'
    <2>1. InMemory(layout, sent, at, octets, Len(sent))
      BY <1>1 DEF InPlaces
    <2> QED
      BY <1>1, <2>1 DEF InPlaces
  <1>7. ReadBack(at)'
    <2>1. at[0] = 0
      BY DEF InPlaces, Laid
    <2>2. cursor' = at[Len(got')] /\ \A i \in 1 .. Len(got') : got'[i] = sent'[i]
      BY <1>1, <1>2, <2>1
    <2> QED
      BY <1>1, <2>2 DEF ReadBack
  <1> QED
    BY <1>3, <1>4, <1>5, <1>6, <1>7

\* Every step keeps the invariant.
LEMMA NextPlain == Clz0 \in Int => (PlainInv /\ [Next]_vars => PlainInv')
  <1> SUFFICES ASSUME Clz0 \in Int, PlainInv, [Next]_vars, ~OfBits'
               PROVE  PlainTypes' /\ PlainPhases' /\ AcceptedFits' /\ \E at : InPlaces(at)' /\ ReadBack(at)'
    BY DEF PlainInv
  <1>1. layout' = layout
    BY DEF Next, Encode, Turn, Decode, vars
  <1>2. ~OfBits
    BY <1>1 DEF OfBits
  <1>3. PlainTypes /\ PlainPhases /\ AcceptedFits
    BY <1>2 DEF PlainInv
  <1>4. PICK at : InPlaces(at) /\ ReadBack(at)
    BY <1>2 DEF PlainInv
  <1>5. CASE Encode
    <2>1. PICK f, v, part : ValueWritten(f, v, part)
      BY <1>2, <1>3, <1>5, EncodesPlain
    <2> QED
      BY <1>2, <1>3, <1>4, <2>1, EncodeKeepsPlain
  <1>6. CASE Turn
    BY <1>2, <1>3, <1>4, <1>6, TurnKeepsPlain
  <1>7. CASE Decode
    <2>1. PICK f, rest, r : ValueRead(f, rest, r)
      BY <1>2, <1>3, <1>7, DecodesPlain
    <2> QED
      BY <1>2, <1>3, <1>4, <2>1, DecodeKeepsPlain
  <1>8. CASE UNCHANGED vars
    <2>1. /\ layout' = layout /\ octets' = octets /\ cursor' = cursor /\ sent' = sent /\ got' = got
          /\ phase' = phase
      BY <1>8 DEF vars
    <2>3. InPlaces(at)' /\ ReadBack(at)'
      <3>1. InPlaces(at)'
        BY <1>4, <2>1 DEF InPlaces
      <3>2. ReadBack(at)'
        BY <1>4, <2>1 DEF ReadBack, AllSayable
      <3> QED
        BY <3>1, <3>2
    <2>4. PlainTypes' /\ PlainPhases' /\ AcceptedFits'
      BY <1>3, <2>1 DEF PlainTypes, PlainPhases, AcceptedFits
    <2> QED
      BY <2>3, <2>4
  <1> QED
    BY <1>5, <1>6, <1>7, <1>8 DEF Next

-----------------------------------------------------------------------------
(* What the invariants say of every message.                               *)

\* TypeOK for varints and elements.
LEMMA PlainTypesOK == PlainInv => (~OfBits => TypeOK)
  <1> SUFFICES ASSUME PlainTypes PROVE TypeOK
    BY DEF PlainInv
  <1> QED
    BY DEF PlainTypes, TypeOK

\* OverflowIsReal for varints and elements: a value that did not fit ends behind memory.
LEMMA PlainIsReal == Clz0 \in Int => (PlainInv => (~OfBits => OverflowIsReal))
  <1> SUFFICES ASSUME Clz0 \in Int, PlainInv, ~OfBits, phase = "full"
               PROVE  8 * Len(octets) < SentBits(Len(sent))
    BY DEF OverflowIsReal
  <1>1. PlainTypes
    BY DEF PlainInv
  <1>2. PICK at : Laid(layout, sent, at) /\ Len(octets) < at[Len(sent)]
    BY DEF PlainInv, InPlaces
  <1>3. PICK n \in Nat : n = Len(sent) /\ n <= Len(layout)
    BY <1>1, LenProperties DEF PlainTypes
  <1>4. layout \in Layouts /\ Coded(layout, sent)
    BY <1>1, SentCoded DEF PlainTypes
  <1>5. SentBits(n) = 8 * at[n]
    BY <1>2, <1>3, <1>4, SentIsLaid
  <1>6. PICK m \in Nat, e \in Nat : m = Len(octets) /\ e = at[n]
    <2>1. Len(octets) \in Nat
      BY <1>1, LenProperties DEF PlainTypes
    <2>2. n \in 0 .. n
      OBVIOUS
    <2>3. at[n] \in Nat
      BY <1>2, <1>3, <2>2 DEF Laid
    <2> QED
      BY <2>1, <2>3
  <1>7. 8 * m < 8 * e
    BY <1>2, <1>3, <1>6
  <1> QED
    BY <1>3, <1>5, <1>6, <1>7

\* FieldsRoundTrip for varints and elements.
LEMMA PlainRoundTrip == Clz0 \in 25 .. 32 => (PlainInv => (~OfBits => FieldsRoundTrip))
  <1> SUFFICES ASSUME Clz0 \in 25 .. 32, PlainInv, ~OfBits, sent # <<>>,
                      \A i \in DOMAIN sent : Sayable(layout[i], sent[i])
               PROVE  got = SubSeq(sent, 1, Len(got)) /\ phase \in {"encode", "full", "decode"}
    BY DEF FieldsRoundTrip
  <1>1. PlainTypes /\ PlainPhases
    BY DEF PlainInv
  <1>2. PICK at : ReadBack(at)
    BY DEF PlainInv
  <1>3. PICK S : S = AnyValue(layout) /\ sent \in Seq(S) /\ got \in Seq(S)
    BY <1>1 DEF PlainTypes
  <1>4. PICK l \in Nat, n \in Nat : l = Len(sent) /\ n = Len(got) /\ DOMAIN sent = 1 .. l
    BY <1>3, LenProperties
  <1>5. AllSayable
    BY <1>4 DEF AllSayable
  <1>6. phase \in {"encode", "full", "decode"}
    BY <1>2, <1>5 DEF ReadBack
  <1>7. CASE phase # "decode"
    <2>1. got = <<>>
      BY <1>1, <1>6, <1>7 DEF PlainPhases
    <2>2. SubSeq(sent, 1, 0) = <<>>
      BY SubSeqEmpty
    <2> QED
      BY <1>6, <2>1, <2>2
  <1>8. CASE phase = "decode"
    <2>1. \A i \in 1 .. n : got[i] = sent[i]
      BY <1>2, <1>4, <1>5, <1>8 DEF ReadBack
    <2>2. n <= l
      BY <1>1, <1>4, <1>8 DEF PlainPhases, PlainTypes
    <2>3. /\ SubSeq(sent, 1, n) \in Seq(S) /\ Len(SubSeq(sent, 1, n)) = n
          /\ \A i \in 1 .. n : SubSeq(sent, 1, n)[i] = sent[i]
      <3>1. \A i \in 1 .. n : sent[i] \in S
        <4>1. \A i \in 1 .. n : i \in 1 .. l
          BY <2>2
        <4>2. \A i \in 1 .. l : sent[i] \in S
          BY <1>3, <1>4, ElementOfSeq
        <4> QED
          BY <4>1, <4>2
      <3> QED
        BY <1>3, <1>4, <2>2, <3>1, SubSeqProperties
    <2>4. got = SubSeq(sent, 1, n)
      BY <1>3, <1>4, <2>1, <2>3, SeqEqual
    <2> QED
      BY <1>4, <1>6, <2>4
  <1> QED
    BY <1>7, <1>8

\* AcceptedComesBack for varints and elements.
LEMMA PlainComesBack == Clz0 \in 25 .. 32 => (PlainInv => (~OfBits => AcceptedComesBack))
  <1> SUFFICES ASSUME Clz0 \in 25 .. 32, PlainInv, ~OfBits, sent = <<>>, Len(got) = 1, Len(layout) = 1,
                      Sayable(layout[1], got[1]), NEW s, s = FlattenSeq(Chunks(layout[1], got[1], 0))
               PROVE  /\ Decoded(layout[1], s, FALSE).value = got[1]
                      /\ Decoded(layout[1], s, FALSE).fault = ""
                      /\ layout[1].codec # "bits" => Len(s) <= cursor
    BY DEF AcceptedComesBack
  <1>1. PlainTypes /\ AcceptedFits
    BY DEF PlainInv
  <1>2. PICK f, v : f = layout[1] /\ v = got[1]
    OBVIOUS
  <1>3. Plain(f) /\ v \in FieldValues(f)
    <2>1. 1 \in 1 .. Len(layout) /\ 1 \in 1 .. Len(got)
      OBVIOUS
    <2>2. layout \in Layouts /\ v \in FieldValues(f)
      BY <1>1, <1>2, <2>1 DEF PlainTypes
    <2> QED
      BY <1>2, <2>1, <2>2, PlainLayout
  <1>4. s = Code(f, v) /\ s \in Seq(0 .. 255)
    <2>1. Clz0 \in Int
      OBVIOUS
    <2>2. Handed(f, v, Chunks(f, v, 0))
      BY <1>3, <2>1, ChunksFacts
    <2> QED
      BY <1>2, <2>2 DEF Handed, Code
  <1>5. LiesAt(Code(f, v), s, 0)
    <2>1. Len(s) \in Nat /\ 0 + Len(s) = Len(s) /\ \A k \in 1 .. Len(s) : 0 + k = k
      BY <1>4, LenProperties
    <2> QED
      BY <1>4, <2>1 DEF LiesAt
  <1>6. PICK r : r = Decoded(f, s, FALSE) /\ r = Good(Len(s), v)
    <2>1. Sayable(f, v)
      BY <1>2
    <2> QED
      BY <1>3, <1>4, <1>5, <2>1, ValueComesBack
  <1>7. Faultless(r) /\ r.value = v
    <2>1. PICK u : r = Good(u, v)
      BY <1>6
    <2> QED
      BY <2>1, GoodParts
  <1>8. Len(s) <= cursor
    BY <1>1, <1>2, <1>4 DEF AcceptedFits
  <1> QED
    BY <1>2, <1>6, <1>7, <1>8 DEF Faultless

\* AcceptedComesBack for a bit field.
LEMMA BitsComeBack == BitsInv => (OfBits => AcceptedComesBack)
  <1> SUFFICES ASSUME BitsInv, OfBits, Len(got) = 1, Len(layout) = 1,
                      Sayable(layout[1], got[1]), NEW s, s = FlattenSeq(Chunks(layout[1], got[1], 0))
               PROVE  /\ Decoded(layout[1], s, FALSE).value = got[1]
                      /\ Decoded(layout[1], s, FALSE).fault = ""
                      /\ layout[1].codec # "bits" => Len(s) <= cursor
    BY DEF AcceptedComesBack
  <1>1. layout \in Layouts /\ got \in Seq(Nat)
    BY DEF BitsInv, BitsType
  <1>2. PICK f, v : f = layout[1] /\ v = got[1]
    OBVIOUS
  <1>3. v \in Nat /\ BitField(f) /\ f.codec = "bits"
    <2>1. 1 \in 1 .. Len(layout) /\ 1 \in 1 .. Len(got)
      OBVIOUS
    <2>2. v \in Nat
      BY <1>1, <1>2, <2>1, ElementOfSeq
    <2> QED
      BY <1>1, <1>2, <2>1, <2>2, LayoutFacts
  <1>4. v < Pow2[f.bits]
    BY <1>2, <1>3 DEF Sayable
  <1>5. s = Placed(f, v, 0)
    <2>1. Chunks(f, v, 0) = <<Placed(f, v, 0)>>
      BY <1>3 DEF Chunks
    <2> QED
      BY <1>2, <2>1, FlattenOne
  <1>6. PICK h \in Nat : /\ s \in Seq(0 .. 255) /\ Len(s) = NumBytes(f)
                         /\ GetBytes(s) = h * Pow2[8 * NumBytes(f) - f.offset] + v * Pow2[Spare(f)]
    <2>1. 0 \in 0 .. 255
      OBVIOUS
    <2>2. /\ s \in Seq(0 .. 255) /\ Len(s) = NumBytes(f)
          /\ GetBytes(s) = (0 \div Pow2[8 - f.offset]) * Pow2[8 * NumBytes(f) - f.offset] + v * Pow2[Spare(f)]
      BY <1>3, <1>4, <1>5, <2>1, PlacedFacts, ZenonT(30)
    <2>3. 0 \div Pow2[8 - f.offset] \in Nat
      <3>1. 8 - f.offset \in Nat
        BY <1>3 DEF BitField
      <3>2. PICK p \in Nat \ {0} : p = Pow2[8 - f.offset]
        BY <3>1, PowFacts
      <3>3. 0 \in Nat
        OBVIOUS
      <3>4. 0 \div p \in Nat
        BY <3>3, DivNat
      <3> QED
        BY <3>2, <3>4
    <2> QED
      BY <2>2, <2>3
  <1>7. Extracted(f, s) = v
    BY <1>3, <1>4, <1>6, ExtractedFacts
  <1>8. SubSeq(s, 1, NumBytes(f)) = s
    <2>1. PICK n \in Nat : n = Len(s)
      BY <1>6, LenProperties
    <2>2. /\ SubSeq(s, 0 + 1, n) \in Seq(0 .. 255) /\ Len(SubSeq(s, 0 + 1, n)) = n - 0
          /\ \A k \in 1 .. n - 0 : SubSeq(s, 0 + 1, n)[k] = s[0 + k]
      <3>1. s \in Seq(0 .. 255) /\ n <= Len(s)
        BY <1>6, <2>1
      <3>2. \A b \in Nat : b <= Len(s) =>
                 /\ SubSeq(s, 0 + 1, b) \in Seq(0 .. 255) /\ Len(SubSeq(s, 0 + 1, b)) = b - 0
                 /\ \A k \in 1 .. b - 0 : SubSeq(s, 0 + 1, b)[k] = s[0 + k]
        <4> TAKE b \in Nat
        <4> HAVE b <= Len(s)
        <4>1. 0 \in Nat /\ 0 <= b
          OBVIOUS
        <4> QED
          BY <3>1, <4>1, Slice, ZenonT(30)
      <3> QED
        BY <3>1, <3>2
    <2>3. 0 + 1 = 1 /\ n - 0 = n /\ \A k \in 1 .. n : 0 + k = k
      OBVIOUS
    <2>4. /\ SubSeq(s, 1, n) \in Seq(0 .. 255) /\ Len(SubSeq(s, 1, n)) = n
          /\ \A k \in 1 .. n : SubSeq(s, 1, n)[k] = s[k]
      BY <2>2, <2>3
    <2> QED
      BY <1>6, <2>1, <2>4, SeqEqual
  <1>9. Decoded(f, s, FALSE) = Good(AdvanceBits(f), v)
    <2>1. ~(Len(s) < NumBytes(f))
      BY <1>3, <1>6, FieldSizes
    <2> QED
      BY <1>3, <1>7, <1>8, <2>1 DEF Decoded
  <1>10. Faultless(Good(AdvanceBits(f), v)) /\ Good(AdvanceBits(f), v).value = v
    BY GoodParts
  <1> QED
    BY <1>2, <1>3, <1>9, <1>10 DEF Faultless


-----------------------------------------------------------------------------
(* Messages of every codec.                                                *)

\* Varints and BER elements are in memory one behind the other, and are read back from
\* where they begin, whatever calls of the encoder and the decoder came before.
THEOREM PlainInvariant == Spec => []PlainInv
  <1>1. PlainInv /\ [Next]_vars => PlainInv'
    BY NextPlain, ClzAssumption
  <1> QED
    BY <1>1, InitPlain, PTL DEF Spec

\* Whatever is encoded, and whatever octets arrive, the cursor stays in the memory of
\* the buffer, what is written there are octets, and decoding ends in one of three
\* exceptions or goes on (octet_decoder.hpp:66-106, protobuf/decoder.hpp:55-92,
\* asn/ber/ber_decoder.hpp:71-208).
THEOREM CodecTypes == Spec => []TypeOK
  <1>1. PlainInv /\ (OfBits => TypeOK /\ phase \notin {"invalid_value", "unknown_tag"}) => TypeOK
    BY PlainTypesOK
  <1> QED
    BY <1>1, PlainInvariant, BitFieldTypes, PTL

\* The buffer overflows only where the octets of the values given so far are more than
\* it has, for every codec: no encoder asks for room it does not need
\* (protobuf/encoder.hpp:68-85, asn/ber/ber_encoder.hpp:147-298).
THEOREM CodecOverflowIsReal == Spec => []OverflowIsReal
  <1>1. PlainInv /\ (OfBits => OverflowIsReal) => OverflowIsReal
    BY PlainIsReal, ClzAssumption
  <1> QED
    BY <1>1, PlainInvariant, BitFieldOverflowIsReal, PTL

\* A message of any number of values, of any codec and of all types of integers, is
\* read back as it was written, when all of its values can be said and the compiler
\* counts no more than 7 digits of 0 (it counts 0 where it computes what
\* calc_least_bits means, asn/ber/ber_length.hpp:22-73).
THEOREM CodecsRoundTrip == Clz0 \in 25 .. 32 => (Spec => []FieldsRoundTrip)
  <1> SUFFICES ASSUME Clz0 \in 25 .. 32 PROVE Spec => []FieldsRoundTrip
    OBVIOUS
  <1>1. PlainInv /\ (OfBits => FieldsRoundTrip) => FieldsRoundTrip
    BY PlainRoundTrip
  <1> QED
    BY <1>1, PlainInvariant, BitFieldsRoundTrip, PTL

\* What a decoder accepts, of whatever octets arrive, its encoder says with as many or
\* fewer, and the decoder returns the same for these: leading zeros, long forms of
\* lengths and varints that are too long lose nothing (asn/ber/ber_decoder.hpp:82-208,
\* protobuf/decoder.hpp:55-92).
THEOREM WhatIsAcceptedComesBack == Clz0 \in 25 .. 32 => (Spec => []AcceptedComesBack)
  <1> SUFFICES ASSUME Clz0 \in 25 .. 32 PROVE Spec => []AcceptedComesBack
    OBVIOUS
  <1>1. PlainInv /\ BitsInv => AcceptedComesBack
    BY PlainComesBack, BitsComeBack
  <1> QED
    BY <1>1, PlainInvariant, BitsInvariant, PTL
=============================================================================
