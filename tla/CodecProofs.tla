---------------------------- MODULE CodecProofs ----------------------------
(***************************************************************************)
(* Theorems about the bit fields of Codecs, for fields of any widths in    *)
(* any layout, any memory and any values.                                  *)
(***************************************************************************)
EXTENDS Codecs, SequenceLemmas

-----------------------------------------------------------------------------
(* Quotients.                                                              *)

LEMMA DivMod ==
    ASSUME NEW a \in Int, NEW c \in Nat \ {0}
    PROVE  a \div c \in Int /\ a % c \in 0 .. c - 1 /\ a = c * (a \div c) + (a % c)
  OBVIOUS

LEMMA DivNat ==
    ASSUME NEW a \in Nat, NEW c \in Nat \ {0}
    PROVE  a \div c \in Nat /\ a % c \in 0 .. c - 1 /\ a = c * (a \div c) + (a % c)
  OBVIOUS

LEMMA DivUnique ==
    ASSUME NEW q \in Int, NEW c \in Nat \ {0}, NEW r \in Int, 0 <= r, r < c
    PROVE  (q * c + r) \div c = q /\ (q * c + r) % c = r
  <1>1. (q * c + r) \div c = q
    OBVIOUS
  <1>2. q * c + r \in Int
    OBVIOUS
  <1>3. (q * c + r) % c = r
    <2> DEFINE a == q * c + r
               m == a % c
    <2>1. a \in Int /\ a \div c = q /\ a = c * q + r
      BY <1>1, <1>2
    <2> HIDE DEF a
    <2>2. a = c * (a \div c) + m /\ m \in Int
      BY <2>1, DivMod
    <2> HIDE DEF m
    <2>3. c * q + r = c * q + m /\ c * q \in Int
      BY <2>1, <2>2
    <2>4. m = r
      BY <2>2, <2>3
    <2> QED
      BY <2>4 DEF a, m
  <1> QED
    BY <1>1, <1>3

LEMMA DivMultiple ==
    ASSUME NEW q \in Nat, NEW c \in Nat \ {0}
    PROVE  /\ (q * c) \div c = q
           /\ \A r \in Nat : r < c => (q * c + r) \div c = q /\ (q * c + r) % c = r
  <1>1. ASSUME NEW r \in Nat, r < c PROVE (q * c + r) \div c = q /\ (q * c + r) % c = r
    <2>1. 0 <= r /\ r \in Int /\ q \in Int
      OBVIOUS
    <2> QED
      BY <2>1, <1>1, DivUnique
  <1>2. 0 \in Nat /\ 0 < c /\ q * c + 0 = q * c
    OBVIOUS
  <1>3. (q * c + 0) \div c = q
    BY <1>1, <1>2
  <1> QED
    BY <1>1, <1>2, <1>3

LEMMA DivBelow ==
    ASSUME NEW a \in Nat, NEW b \in Nat, NEW c \in Nat \ {0}, a < b * c
    PROVE  a \div c < b
  OBVIOUS

LEMMA DivDiv ==
    ASSUME NEW a \in Nat, NEW b \in Nat \ {0}, NEW c \in Nat \ {0}
    PROVE  (a \div b) \div c = a \div (b * c)
  OBVIOUS

\* The last digits, and those in front of them.
LEMMA ModDiv ==
    ASSUME NEW a \in Nat, NEW b \in Nat \ {0}, NEW c \in Nat \ {0}
    PROVE  (a % (b * c)) \div c = (a \div c) % b /\ (a % (b * c)) % c = a % c
  <1> DEFINE q == a \div c
             r == a % c
             u == q \div b
             w == q % b
  <1>0. q \in Nat /\ r \in 0 .. c - 1 /\ a = c * q + r
    BY DivNat
  <1> HIDE DEF q, r
  <1>1. q \in Nat /\ r \in 0 .. c - 1 /\ a = q * c + r
    BY <1>0
  <1>2. u \in Int /\ w \in 0 .. b - 1 /\ q = u * b + w
    BY <1>1, DivMod
  <1> HIDE DEF u, w
  <1>3. b * c \in Nat \ {0}
    OBVIOUS
  <1>4. a = u * (b * c) + (w * c + r)
    <2>1. a = (u * b + w) * c + r
      BY <1>1, <1>2
    <2>2. (u * b + w) * c = u * (b * c) + w * c
      BY <1>2
    <2> DEFINE x == u * (b * c)
               y == w * c
    <2>3. x \in Int /\ y \in Int
      BY <1>2
    <2>4. a = (x + y) + r
      BY <2>1, <2>2
    <2> HIDE DEF x, y
    <2>5. (x + y) + r = x + (y + r)
      BY <2>3, <1>1
    <2> QED
      BY <2>4, <2>5 DEF x, y
  <1>5. 0 <= w * c + r /\ w * c + r < b * c /\ w * c + r \in Int
    <2>1. w * c + c <= b * c /\ w * c >= 0 /\ w * c \in Int
      BY <1>2
    <2> QED
      BY <1>1, <1>3, <2>1
  <1>6. a % (b * c) = w * c + r
    <2> DEFINE d == b * c
               e == w * c + r
    <2>1. d \in Nat \ {0} /\ e \in Int /\ 0 <= e /\ e < d /\ a = u * d + e
      BY <1>3, <1>4, <1>5
    <2> HIDE DEF d, e
    <2>2. a % d = e
      BY <2>1, <1>2, DivUnique
    <2> QED
      BY <2>2 DEF d, e
  <1>7. (w * c + r) \div c = w /\ (w * c + r) % c = r
    BY <1>1, <1>2, DivUnique
  <1> QED
    BY <1>6, <1>7 DEF q, r, w

LEMMA DivSmall ==
    ASSUME NEW a \in Nat, NEW c \in Nat \ {0}, a < c
    PROVE  a \div c = 0 /\ a % c = a
  OBVIOUS

\* One octet more.
LEMMA Shifted ==
    ASSUME NEW a \in Nat, NEW o \in 0 .. 255, NEW x \in Nat, x = 256 * a + o
    PROVE  x \div 256 = a /\ x % 256 = o
  OBVIOUS

-----------------------------------------------------------------------------
(* Powers of two.                                                          *)

PowersTo(n, p) == \A i \in 0 .. n : p[i] = IF i = 0 THEN 1 ELSE 2 * p[i - 1]

LEMMA PowersUpTo ==
    ASSUME NEW n \in Nat
    PROVE  \E p \in [0 .. n -> Nat \ {0}] : PowersTo(n, p)
  <1> DEFINE Upto(m) == \E p \in [0 .. m -> Nat \ {0}] : PowersTo(m, p)
             T == {m \in Nat : ~Upto(m)}
  <1>1. ASSUME T # {} PROVE FALSE
    <2>1. PICK m \in T : \A k \in T : m <= k
      <3>1. T \subseteq Nat
        OBVIOUS
      <3> HIDE DEF T
      <3> QED
        BY <1>1, <3>1, LeastElement
    <2>2. CASE m = 0
      <3> DEFINE p == [i \in 0 .. 0 |-> 1]
      <3>1. p \in [0 .. 0 -> Nat \ {0}] /\ PowersTo(0, p)
        BY DEF PowersTo
      <3> QED
        BY <2>1, <2>2, <3>1
    <2>3. CASE m # 0
      <3>1. m \in Nat \ {0} /\ m - 1 \in Nat /\ Upto(m - 1)
        <4> HIDE DEF Upto
        <4> QED
          BY <2>1, <2>3
      <3>2. PICK p \in [0 .. m - 1 -> Nat \ {0}] : PowersTo(m - 1, p)
        BY <3>1
      <3> DEFINE q == [i \in 0 .. m |-> IF i = m THEN 2 * p[m - 1] ELSE p[i]]
      <3>3. p[m - 1] \in Nat \ {0}
        BY <3>1, <3>2
      <3>4. q \in [0 .. m -> Nat \ {0}]
        BY <3>1, <3>2, <3>3
      <3>5. ASSUME NEW i \in 0 .. m PROVE q[i] = IF i = 0 THEN 1 ELSE 2 * q[i - 1]
        <4>1. CASE i = m
          BY <4>1, <3>1
        <4>2. CASE i # m
          <5>1. i \in 0 .. m - 1 /\ q[i] = p[i] /\ (i # 0 => q[i - 1] = p[i - 1])
            BY <4>2, <3>1
          <5> QED
            BY <5>1, <3>2 DEF PowersTo
        <4> QED
          BY <4>1, <4>2
      <3>6. Upto(m)
        <4> HIDE DEF q
        <4>1. PowersTo(m, q)
          BY <3>5 DEF PowersTo
        <4> QED
          BY <3>4, <4>1
      <3> QED
        BY <2>1, <3>6
    <2> QED
      BY <2>2, <2>3
  <1>2. Upto(n)
    <2> HIDE DEF Upto
    <2> QED
      BY <1>1
  <1> QED
    BY <1>2

LEMMA PowersAgree ==
    ASSUME NEW m \in Nat, NEW n \in Nat, m <= n,
           NEW p \in [0 .. m -> Nat \ {0}], PowersTo(m, p),
           NEW q \in [0 .. n -> Nat \ {0}], PowersTo(n, q)
    PROVE  p[m] = q[m]
  <1> DEFINE T == {i \in 0 .. m : p[i] # q[i]}
  <1>1. ASSUME T # {} PROVE FALSE
    <2>1. PICK i \in T : \A k \in T : i <= k
      <3>1. T \subseteq Nat
        OBVIOUS
      <3> HIDE DEF T
      <3> QED
        BY <1>1, <3>1, LeastElement
    <2>2. i \in 0 .. m /\ i \in 0 .. n /\ (i # 0 => i - 1 \in 0 .. m /\ i - 1 \notin T)
      BY <2>1
    <2>3. p[i] = (IF i = 0 THEN 1 ELSE 2 * p[i - 1]) /\ q[i] = IF i = 0 THEN 1 ELSE 2 * q[i - 1]
      BY <2>2 DEF PowersTo
    <2>4. i # 0 => p[i - 1] = q[i - 1]
      BY <2>2
    <2> QED
      BY <2>1, <2>3, <2>4
  <1> QED
    BY <1>1

LEMMA PowFacts ==
    /\ Pow2[0] = 1
    /\ \A n \in Nat : Pow2[n] \in Nat \ {0} /\ Pow2[n + 1] = 2 * Pow2[n]
  <1> DEFINE PowersOf(n, p) == p \in [0 .. n -> Nat \ {0}] /\ PowersTo(n, p)
             F == [n \in Nat |-> CHOOSE p : PowersOf(n, p)]
             g == [n \in Nat |-> F[n][n]]
             Powers(p) == p = [n \in Nat |-> IF n = 0 THEN 1 ELSE 2 * p[n - 1]]
  <1>1. ASSUME NEW n \in Nat PROVE PowersOf(n, F[n])
    <2>1. \E p : PowersOf(n, p)
      BY PowersUpTo
    <2> HIDE DEF PowersOf
    <2> QED
      BY <2>1
  <1> HIDE DEF F
  <1>2. ASSUME NEW n \in Nat PROVE g[n] \in Nat \ {0}
    BY <1>1
  <1>3. ASSUME NEW n \in Nat PROVE g[n] = IF n = 0 THEN 1 ELSE 2 * g[n - 1]
    <2>1. F[n][n] = IF n = 0 THEN 1 ELSE 2 * F[n][n - 1]
      BY <1>1 DEF PowersTo
    <2>2. ASSUME n # 0 PROVE F[n][n - 1] = F[n - 1][n - 1]
      <3>1. n - 1 \in Nat /\ n - 1 <= n /\ PowersOf(n, F[n])
        BY <2>2, <1>1
      <3>2. PowersOf(n - 1, F[n - 1])
        BY <3>1, <1>1
      <3> QED
        BY <3>1, <3>2, PowersAgree, SMTT(30)
    <2> QED
      BY <2>1, <2>2
  <1>4. Powers(g)
    <2>1. g = [n \in Nat |-> IF n = 0 THEN 1 ELSE 2 * g[n - 1]]
      <3>1. \A n \in Nat : g[n] = IF n = 0 THEN 1 ELSE 2 * g[n - 1]
        BY <1>3
      <3>2. g = [n \in Nat |-> g[n]]
        OBVIOUS
      <3> HIDE DEF g
      <3> QED
        BY <3>1, <3>2
    <2> QED
      BY <2>1
  <1>5. Pow2 = CHOOSE p : Powers(p)
    BY DEF Pow2
  <1>6. Powers(Pow2)
    <2> HIDE DEF Powers, g
    <2> QED
      BY <1>4, <1>5
  <1>7. ASSUME NEW n \in Nat PROVE Pow2[n] = IF n = 0 THEN 1 ELSE 2 * Pow2[n - 1]
    BY <1>6
  <1> DEFINE T == {n \in Nat : Pow2[n] \notin Nat \ {0}}
  <1>8. ASSUME T # {} PROVE FALSE
    <2>1. PICK n \in T : \A k \in T : n <= k
      <3>1. T \subseteq Nat
        OBVIOUS
      <3> HIDE DEF T
      <3> QED
        BY <1>8, <3>1, LeastElement
    <2>2. n # 0 => n - 1 \in Nat /\ n - 1 \notin T
      BY <2>1
    <2>3. n # 0 => Pow2[n - 1] \in Nat \ {0}
      BY <2>2
    <2> QED
      BY <2>1, <2>3, <1>7
  <1>9. ASSUME NEW n \in Nat PROVE Pow2[n + 1] = 2 * Pow2[n]
    <2>1. n + 1 \in Nat /\ n + 1 # 0 /\ (n + 1) - 1 = n
      OBVIOUS
    <2> QED
      BY <2>1, <1>7
  <1> QED
    BY <1>7, <1>8, <1>9

LEMMA PowSum ==
    ASSUME NEW m \in Nat, NEW n \in Nat
    PROVE  Pow2[m + n] = Pow2[m] * Pow2[n] /\ Pow2[m] \in Nat \ {0} /\ Pow2[n] \in Nat \ {0}
  <1> DEFINE T == {k \in Nat : Pow2[m + k] # Pow2[m] * Pow2[k]}
  <1>1. ASSUME T # {} PROVE FALSE
    <2>1. PICK k \in T : \A j \in T : k <= j
      <3>1. T \subseteq Nat
        OBVIOUS
      <3> HIDE DEF T
      <3> QED
        BY <1>1, <3>1, LeastElement
    <2>2. CASE k = 0
      BY <2>1, <2>2, PowFacts
    <2>3. CASE k # 0
      <3> DEFINE j == k - 1
      <3>1. j \in Nat /\ j \notin T /\ k = j + 1 /\ m + k = (m + j) + 1 /\ m + j \in Nat
        BY <2>1, <2>3
      <3>2. Pow2[m + j] = Pow2[m] * Pow2[j]
        BY <3>1
      <3> HIDE DEF j
      <3>3. Pow2[m + k] = 2 * Pow2[m + j] /\ Pow2[k] = 2 * Pow2[j] /\ Pow2[m] \in Nat /\ Pow2[j] \in Nat
        BY <3>1, PowFacts
      <3>4. 2 * (Pow2[m] * Pow2[j]) = Pow2[m] * (2 * Pow2[j])
        BY <3>3
      <3> QED
        BY <2>1, <3>2, <3>3, <3>4
    <2> QED
      BY <2>2, <2>3
  <1> QED
    BY <1>1, PowFacts

LEMMA PowValues ==
    /\ Pow2[1] = 2 /\ Pow2[2] = 4 /\ Pow2[3] = 8 /\ Pow2[4] = 16
    /\ Pow2[5] = 32 /\ Pow2[6] = 64 /\ Pow2[7] = 128 /\ Pow2[8] = 256
  <1>1. Pow2[0 + 1] = 2 /\ Pow2[1 + 1] = 2 * Pow2[1] /\ Pow2[2 + 1] = 2 * Pow2[2] /\ Pow2[3 + 1] = 2 * Pow2[3]
    BY PowFacts
  <1>2. Pow2[4 + 1] = 2 * Pow2[4] /\ Pow2[5 + 1] = 2 * Pow2[5] /\ Pow2[6 + 1] = 2 * Pow2[6] /\ Pow2[7 + 1] = 2 * Pow2[7]
    BY PowFacts
  <1> QED
    BY <1>1, <1>2

-----------------------------------------------------------------------------
(* Numbers from their digits.                                              *)

Sums(n, m, d, f) == f[0] = 0 /\ \A k \in 1 .. n : f[k] = m * f[k - 1] + d[k]

LEMMA SumsExist ==
    ASSUME NEW n \in Nat, NEW m \in Nat, NEW d \in [1 .. n -> Nat]
    PROVE  \E f \in [0 .. n -> Nat] : Sums(n, m, d, f)
  <1> DEFINE Upto(k) == \E f \in [0 .. k -> Nat] : Sums(k, m, d, f)
             T == {k \in 0 .. n : ~Upto(k)}
  <1>1. ASSUME T # {} PROVE FALSE
    <2>1. PICK k \in T : \A j \in T : k <= j
      <3>1. T \subseteq Nat
        OBVIOUS
      <3> HIDE DEF T
      <3> QED
        BY <1>1, <3>1, LeastElement
    <2>2. CASE k = 0
      <3> DEFINE f == [i \in 0 .. 0 |-> 0]
      <3>1. f \in [0 .. 0 -> Nat] /\ Sums(0, m, d, f)
        BY DEF Sums
      <3> QED
        BY <2>1, <2>2, <3>1
    <2>3. CASE k # 0
      <3>1. k \in 1 .. n /\ k - 1 \in 0 .. n /\ Upto(k - 1)
        <4> HIDE DEF Upto
        <4> QED
          BY <2>1, <2>3
      <3>2. PICK f \in [0 .. k - 1 -> Nat] : Sums(k - 1, m, d, f)
        BY <3>1
      <3> DEFINE last == m * f[k - 1] + d[k]
                 g == [i \in 0 .. k |-> IF i = k THEN last ELSE f[i]]
      <3>3. last \in Nat
        <4>1. f[k - 1] \in Nat /\ d[k] \in Nat
          BY <3>1, <3>2
        <4>2. m * f[k - 1] \in Nat
          BY <4>1
        <4> QED
          BY <4>1, <4>2
      <3> HIDE DEF last
      <3>4. g \in [0 .. k -> Nat] /\ g[0] = 0
        BY <3>1, <3>2, <3>3 DEF Sums
      <3>5. ASSUME NEW i \in 1 .. k PROVE g[i] = m * g[i - 1] + d[i]
        <4>1. CASE i = k
          <5>1. g[i] = last /\ g[i - 1] = f[k - 1]
            BY <4>1, <3>1
          <5> QED
            BY <4>1, <5>1 DEF last
        <4>2. CASE i # k
          <5>1. i \in 1 .. k - 1 /\ g[i] = f[i] /\ g[i - 1] = f[i - 1]
            BY <4>2, <3>1
          <5> QED
            BY <5>1, <3>2 DEF Sums
        <4> QED
          BY <4>1, <4>2
      <3>6. Upto(k)
        <4> HIDE DEF g
        <4> QED
          BY <3>4, <3>5 DEF Sums
      <3> QED
        BY <2>1, <3>6
    <2> QED
      BY <2>2, <2>3
  <1>2. Upto(n)
    <2> HIDE DEF Upto
    <2> QED
      BY <1>1
  <1> QED
    BY <1>2

LEMMA SumsAreNumbers ==
    ASSUME NEW n \in Nat, NEW m \in Nat, NEW d \in [1 .. n -> Nat], NEW f, Sums(n, m, d, f)
    PROVE  \A k \in 0 .. n : f[k] \in Nat
  <1> DEFINE T == {k \in 0 .. n : f[k] \notin Nat}
  <1>1. ASSUME T # {} PROVE FALSE
    <2>1. PICK k \in T : \A j \in T : k <= j
      <3>1. T \subseteq Nat
        OBVIOUS
      <3> HIDE DEF T
      <3> QED
        BY <1>1, <3>1, LeastElement
    <2>2. k # 0
      BY <2>1 DEF Sums
    <2>3. k \in 1 .. n /\ k - 1 \in 0 .. n /\ k - 1 \notin T
      BY <2>1, <2>2
    <2>4. f[k - 1] \in Nat /\ d[k] \in Nat
      BY <2>3
    <2>5. m * f[k - 1] \in Nat
      BY <2>4
    <2>6. f[k] = m * f[k - 1] + d[k]
      BY <2>3 DEF Sums
    <2> QED
      BY <2>1, <2>4, <2>5, <2>6
  <1> QED
    BY <1>1

LEMMA GetBytesSums ==
    ASSUME NEW s \in Seq(0 .. 255)
    PROVE  \E f \in [0 .. Len(s) -> Nat] : Sums(Len(s), 256, s, f) /\ GetBytes(s) = f[Len(s)]
  <1> DEFINE n == Len(s)
             Bytewise(f) == f = [k \in 0 .. n |-> IF k = 0 THEN 0 ELSE 256 * f[k - 1] + s[k]]
             upto == CHOOSE f : Bytewise(f)
  <1>1. n \in Nat /\ s \in [1 .. n -> 0 .. 255]
    BY LenProperties
  <1>2. s \in [1 .. n -> Nat]
    <2>1. ASSUME NEW k \in 1 .. n PROVE s[k] \in Nat
      <3>1. s[k] \in 0 .. 255
        BY <1>1
      <3>2. \A x \in 0 .. 255 : x \in Nat
        OBVIOUS
      <3> QED
        BY <3>1, <3>2
    <2> QED
      BY <1>1, <2>1
  <1>3. GetBytes(s) = upto[n]
    BY DEF GetBytes
  <1> HIDE DEF n
  <1>4. \E f : Bytewise(f)
    <2>1. PICK f \in [0 .. n -> Nat] : Sums(n, 256, s, f)
      BY <1>1, <1>2, SumsExist, SMTT(30)
    <2>2. f = [k \in 0 .. n |-> f[k]]
      OBVIOUS
    <2>3. \A k \in 0 .. n : f[k] = IF k = 0 THEN 0 ELSE 256 * f[k - 1] + s[k]
      BY <2>1, <1>1 DEF Sums
    <2>4. [k \in 0 .. n |-> f[k]] = [k \in 0 .. n |-> IF k = 0 THEN 0 ELSE 256 * f[k - 1] + s[k]]
      BY <2>3
    <2>5. Bytewise(f)
      BY <2>2, <2>4
    <2> QED
      BY <2>5
  <1>5. Bytewise(upto)
    <2> HIDE DEF Bytewise
    <2> QED
      BY <1>4
  <1> HIDE DEF upto
  <1>6. Sums(n, 256, s, upto)
    BY <1>1, <1>5 DEF Sums
  <1>7. \A k \in 0 .. n : upto[k] \in Nat
    BY <1>1, <1>2, <1>6, SumsAreNumbers
  <1>8. upto \in [0 .. n -> Nat]
    BY <1>5, <1>7
  <1> QED
    BY <1>3, <1>6, <1>8 DEF n

\* Octets are the digits of a number,
LEMMA OctetsOfNumber ==
    ASSUME NEW s \in Seq(0 .. 255)
    PROVE  /\ GetBytes(s) \in 0 .. Pow2[8 * Len(s)] - 1
           /\ \A k \in 1 .. Len(s) : s[k] = (GetBytes(s) \div Pow2[8 * (Len(s) - k)]) % 256
  <1> DEFINE n == Len(s)
             P(k) == Pow2[8 * k]
  <1>1. n \in Nat
    BY LenProperties
  <1>2. PICK f \in [0 .. n -> Nat] : Sums(n, 256, s, f) /\ GetBytes(s) = f[n]
    BY GetBytesSums
  <1>3. ASSUME NEW k \in 1 .. n PROVE s[k] \in 0 .. 255
    BY LenProperties, ZenonT(30)
  <1> HIDE DEF n
  <1>4. \A k \in Nat : P(k) \in Nat \ {0} /\ P(k + 1) = P(k) * 256
    <2> SUFFICES ASSUME NEW k \in Nat PROVE P(k) \in Nat \ {0} /\ P(k + 1) = P(k) * 256
      OBVIOUS
    <2>1. 8 * k \in Nat /\ 8 * (k + 1) = 8 * k + 8
      OBVIOUS
    <2>2. Pow2[8 * k + 8] = Pow2[8 * k] * Pow2[8]
      BY <2>1, PowSum
    <2> QED
      BY <2>1, <2>2, PowFacts, PowValues
  <1>5. P(0) = 1
    BY PowFacts
  <1> HIDE DEF P
  <1>6. ASSUME NEW k \in 0 .. n PROVE f[k] < P(k)
    <2> DEFINE T == {i \in 0 .. n : ~(f[i] < P(i))}
    <2>1. ASSUME T # {} PROVE FALSE
      <3>1. PICK i \in T : \A j \in T : i <= j
        <4>1. T \subseteq Nat
          OBVIOUS
        <4> HIDE DEF T
        <4> QED
          BY <2>1, <4>1, LeastElement
      <3>2. i # 0
        BY <3>1, <1>5, <1>2 DEF Sums
      <3>3. i \in 1 .. n /\ i - 1 \in 0 .. n /\ i - 1 \notin T /\ i - 1 \in Nat /\ (i - 1) + 1 = i
        BY <3>1, <3>2, <1>1
      <3>4. f[i - 1] < P(i - 1) /\ f[i - 1] \in Nat /\ f[i] = 256 * f[i - 1] + s[i] /\ P(i) = P(i - 1) * 256 /\ P(i - 1) \in Nat
        BY <3>3, <1>2, <1>4, ZenonT(30) DEF Sums
      <3>5. s[i] \in 0 .. 255
        BY <3>3, <1>3
      <3>6. f[i] < P(i)
        <4> DEFINE a == f[i - 1]
                   b == P(i - 1)
                   c == s[i]
        <4>1. a < b /\ a \in Nat /\ b \in Nat /\ c \in 0 .. 255 /\ f[i] = 256 * a + c /\ P(i) = b * 256
          BY <3>4, <3>5
        <4> HIDE DEF a, b, c
        <4>2. 256 * a + c < b * 256
          BY <4>1
        <4> QED
          BY <4>1, <4>2
      <3> QED
        BY <3>1, <3>6
    <2> QED
      BY <2>1
  <1>7. ASSUME NEW k \in 0 .. n PROVE f[n] \div P(k) = f[n - k]
    <2> DEFINE T == {i \in 0 .. n : f[n] \div P(i) # f[n - i]}
    <2>1. ASSUME T # {} PROVE FALSE
      <3>1. PICK i \in T : \A j \in T : i <= j
        <4>1. T \subseteq Nat
          OBVIOUS
        <4> HIDE DEF T
        <4> QED
          BY <2>1, <4>1, LeastElement
      <3>2. f[n] \in Nat
        BY <1>1, <1>2
      <3>3. i # 0
        BY <3>1, <3>2, <1>1, <1>5
      <3> DEFINE j == i - 1
      <3>4. i \in 1 .. n /\ j \in 0 .. n /\ j \notin T /\ j \in Nat /\ j + 1 = i /\ n - j \in 1 .. n /\ (n - j) - 1 = n - i
        BY <3>1, <3>3, <1>1
      <3>5. f[n] \div P(j) = f[n - j]
        BY <3>4
      <3> HIDE DEF j
      <3>6. P(i) = P(j) * 256 /\ P(j) \in Nat \ {0}
        BY <3>4, <1>4
      <3>7. f[n] \div P(i) = f[n - j] \div 256
        BY <3>2, <3>5, <3>6, DivDiv
      <3>8. f[n - j] = 256 * f[n - i] + s[n - j] /\ f[n - i] \in Nat
        <4>1. n - i \in 0 .. n
          BY <3>4, <1>1
        <4> QED
          BY <3>4, <4>1, <1>2 DEF Sums
      <3>9. s[n - j] \in 0 .. 255
        BY <3>4, <1>3
      <3>11. f[n - j] \in Nat
        <4>1. n - j \in 0 .. n
          BY <3>4
        <4> QED
          BY <4>1, <1>2
      <3>10. f[n - j] \div 256 = f[n - i]
        <4> DEFINE a == f[n - i]
                   o == s[n - j]
                   b == f[n - j]
        <4>1. a \in Nat /\ o \in 0 .. 255 /\ b \in Nat /\ b = 256 * a + o
          BY <3>8, <3>9, <3>11
        <4> HIDE DEF a, o, b
        <4>2. b \div 256 = a
          BY <4>1, Shifted
        <4> QED
          BY <4>2 DEF a, b
      <3> QED
        BY <3>1, <3>7, <3>10
    <2> QED
      BY <2>1
  <1>8. ASSUME NEW k \in 1 .. n PROVE s[k] = (f[n] \div P(n - k)) % 256
    <2>1. n - k \in 0 .. n /\ n - (n - k) = k
      BY <1>1
    <2>2. f[n] \div P(n - k) = f[k]
      BY <2>1, <1>7
    <2>3. f[k] = 256 * f[k - 1] + s[k] /\ f[k - 1] \in Nat
      <3>1. k - 1 \in 0 .. n
        BY <1>1
      <3> QED
        BY <3>1, <1>2 DEF Sums
    <2>4. s[k] \in 0 .. 255
      BY <1>3
    <2>6. f[k] \in Nat
      BY <1>2
    <2>5. f[k] % 256 = s[k]
      <3> DEFINE a == f[k - 1]
                 o == s[k]
                 b == f[k]
      <3>1. a \in Nat /\ o \in 0 .. 255 /\ b \in Nat /\ b = 256 * a + o
        BY <2>3, <2>4, <2>6
      <3> HIDE DEF a, o, b
      <3>2. b % 256 = o
        BY <3>1
      <3> QED
        BY <3>2 DEF o, b
    <2> QED
      BY <2>2, <2>5
  <1>9. GetBytes(s) < P(n) /\ GetBytes(s) \in Nat /\ P(n) \in Nat
    BY <1>1, <1>2, <1>4, <1>6
  <1> QED
    BY <1>2, <1>8, <1>9 DEF n, P

\* and the number of its digits.
LEMMA NumberOfOctets ==
    ASSUME NEW n \in Nat, NEW x \in Nat, x < Pow2[8 * n]
    PROVE  PutBytes(n, x) \in Seq(0 .. 255) /\ Len(PutBytes(n, x)) = n /\ GetBytes(PutBytes(n, x)) = x
  <1> DEFINE s == PutBytes(n, x)
             P(k) == Pow2[8 * k]
  <1>4. \A k \in Nat : P(k) \in Nat \ {0} /\ P(k + 1) = P(k) * 256
    <2> SUFFICES ASSUME NEW k \in Nat PROVE P(k) \in Nat \ {0} /\ P(k + 1) = P(k) * 256
      OBVIOUS
    <2>1. 8 * k \in Nat /\ 8 * (k + 1) = 8 * k + 8
      OBVIOUS
    <2>2. Pow2[8 * k + 8] = Pow2[8 * k] * Pow2[8]
      BY <2>1, PowSum
    <2> QED
      BY <2>1, <2>2, PowFacts, PowValues
  <1>5. P(0) = 1
    BY PowFacts
  <1>1. x < P(n) /\ \A k \in 1 .. n : s[k] = (x \div P(n - k)) % 256
    BY DEF PutBytes
  <1>2. s = [k \in 1 .. n |-> (x \div P(n - k)) % 256]
    BY DEF PutBytes
  <1> HIDE DEF s, P
  <1>3. s \in [1 .. n -> 0 .. 255]
    <2>1. ASSUME NEW k \in 1 .. n PROVE (x \div P(n - k)) % 256 \in 0 .. 255
      <3>1. n - k \in Nat
        OBVIOUS
      <3>2. x \div P(n - k) \in Nat
        BY <3>1, <1>4, DivNat
      <3> QED
        BY <3>2
    <2> QED
      BY <1>2, <2>1
  <1>6. s \in Seq(0 .. 255) /\ Len(s) = n
    BY <1>3, LenProperties
  <1>7. PICK f \in [0 .. n -> Nat] : Sums(n, 256, s, f) /\ GetBytes(s) = f[n]
    BY <1>6, GetBytesSums
  <1>8. ASSUME NEW k \in 0 .. n PROVE f[k] = x \div P(n - k)
    <2> DEFINE T == {i \in 0 .. n : f[i] # x \div P(n - i)}
    <2>1. ASSUME T # {} PROVE FALSE
      <3>1. PICK i \in T : \A j \in T : i <= j
        <4>1. T \subseteq Nat
          OBVIOUS
        <4> HIDE DEF T
        <4> QED
          BY <2>1, <4>1, LeastElement
      <3>2. CASE i = 0
        <4>1. x \div P(n) = 0
          <5>1. P(n) \in Nat \ {0} /\ x < P(n)
            BY <1>1, <1>4
          <5> QED
            BY <5>1, DivSmall
        <4> QED
          BY <3>1, <3>2, <4>1, <1>7 DEF Sums
      <3>3. CASE i # 0
        <4> DEFINE j == n - i
                   y == x \div P(j)
        <4>1. i \in 1 .. n /\ i - 1 \in 0 .. n /\ i - 1 \notin T /\ j \in Nat /\ n - (i - 1) = j + 1
          BY <3>1, <3>3
        <4>2. f[i - 1] = x \div P(j + 1)
          BY <4>1
        <4>2a. s[i] = y % 256
          BY <4>1, <1>1
        <4>2b. P(j + 1) = P(j) * 256 /\ P(j) \in Nat \ {0}
          BY <4>1, <1>4
        <4> HIDE DEF j
        <4>3. y \in Nat /\ x \div P(j + 1) = y \div 256
          <5>1. y \in Nat
            BY <4>2b, DivNat
          <5>2. (x \div P(j)) \div 256 = x \div (P(j) * 256)
            BY <4>2b, DivDiv
          <5> QED
            BY <4>2b, <5>1, <5>2
        <4> HIDE DEF y
        <4>4. y = 256 * (y \div 256) + (y % 256)
          BY <4>3, DivMod
        <4>5. f[i] = 256 * f[i - 1] + s[i]
          BY <4>1, <1>7 DEF Sums
        <4>6. f[i] = y
          BY <4>2, <4>2a, <4>3, <4>4, <4>5, SMTT(30)
        <4> QED
          BY <3>1, <4>6 DEF y, j
      <3> QED
        BY <3>2, <3>3
    <2> QED
      BY <2>1
  <1>9. f[n] = x
    <2>1. f[n] = x \div P(n - n) /\ n - n = 0
      BY <1>8
    <2> QED
      BY <2>1, <1>5
  <1> QED
    BY <1>6, <1>7, <1>9 DEF s

-----------------------------------------------------------------------------
(* Bits that are or-ed together.                                           *)

BitAt(x, j) == (x \div Pow2[j]) % 2

LEMMA BitAtFacts ==
    ASSUME NEW x \in Nat, NEW j \in Nat
    PROVE  /\ BitAt(x, j) \in {0, 1}
           /\ x \div Pow2[j] \in Nat
           /\ x \div Pow2[j] = 2 * (x \div Pow2[j + 1]) + BitAt(x, j)
  <1> DEFINE y == x \div Pow2[j]
  <1>1. Pow2[j] \in Nat \ {0} /\ Pow2[j + 1] = Pow2[j] * 2
    BY PowFacts
  <1>2. y \in Nat /\ y \div 2 = x \div (Pow2[j] * 2)
    <2> DEFINE p == Pow2[j]
    <2>1. p \in Nat \ {0} /\ 2 \in Nat \ {0}
      BY <1>1
    <2> HIDE DEF p
    <2>2. x \div p \in Nat
      BY <2>1, DivNat
    <2>3. (x \div p) \div 2 = x \div (p * 2)
      BY <2>1, DivDiv
    <2> QED
      BY <2>2, <2>3 DEF p
  <1> HIDE DEF y
  <1>3. y % 2 \in {0, 1} /\ y = 2 * (y \div 2) + (y % 2)
    BY <1>2
  <1> QED
    BY <1>1, <1>2, <1>3 DEF BitAt, y

LEMMA OrSums ==
    ASSUME NEW a \in Nat, NEW b \in Nat
    PROVE  \E f \in [0 .. 8 -> Nat] :
              /\ Or(a, b) = f[8] /\ f[0] = 0
              /\ \A k \in 1 .. 8 : f[k] = 2 * f[k - 1] + OneOf(BitAt(a, 8 - k), BitAt(b, 8 - k))
  <1> DEFINE d == [k \in 1 .. 8 |-> OneOf(BitAt(a, 8 - k), BitAt(b, 8 - k))]
             Bitwise(f) == f = [k \in 0 .. 8 |-> IF k = 0 THEN 0
                                                 ELSE 2 * f[k - 1] + OneOf((a \div Pow2[8 - k]) % 2, (b \div Pow2[8 - k]) % 2)]
             upto == CHOOSE f : Bitwise(f)
  <1>1. d \in [1 .. 8 -> Nat]
    BY DEF OneOf
  <1>2. \A k \in 1 .. 8 : d[k] = OneOf(BitAt(a, 8 - k), BitAt(b, 8 - k))
    OBVIOUS
  <1>3. \A k \in 1 .. 8 : d[k] = OneOf((a \div Pow2[8 - k]) % 2, (b \div Pow2[8 - k]) % 2)
    BY DEF BitAt
  <1> HIDE DEF d
  <1>4. \E f : Bitwise(f)
    <2>1. PICK f \in [0 .. 8 -> Nat] : Sums(8, 2, d, f)
      BY <1>1, SumsExist
    <2>2. f = [k \in 0 .. 8 |-> f[k]]
      OBVIOUS
    <2>3. \A k \in 0 .. 8 : f[k] = IF k = 0 THEN 0
                                   ELSE 2 * f[k - 1] + OneOf((a \div Pow2[8 - k]) % 2, (b \div Pow2[8 - k]) % 2)
      BY <2>1, <1>3 DEF Sums
    <2>4. Bitwise(f)
      <3>1. [k \in 0 .. 8 |-> f[k]]
            = [k \in 0 .. 8 |-> IF k = 0 THEN 0
                                ELSE 2 * f[k - 1] + OneOf((a \div Pow2[8 - k]) % 2, (b \div Pow2[8 - k]) % 2)]
        BY <2>3
      <3> QED
        BY <2>2, <3>1
    <2> QED
      BY <2>4
  <1>5. Bitwise(upto)
    <2> HIDE DEF Bitwise
    <2> QED
      BY <1>4
  <1>6. Or(a, b) = upto[8]
    BY DEF Or
  <1> HIDE DEF upto
  <1>7. upto[0] = 0 /\ \A k \in 1 .. 8 : upto[k] = 2 * upto[k - 1] + d[k]
    BY <1>5, <1>3
  <1>8. Sums(8, 2, d, upto)
    BY <1>7 DEF Sums
  <1>9. \A k \in 0 .. 8 : upto[k] \in Nat
    BY <1>1, <1>8, SumsAreNumbers
  <1>10. upto \in [0 .. 8 -> Nat]
    BY <1>5, <1>9
  <1> QED
    BY <1>2, <1>6, <1>7, <1>10

\* The sum of numbers that have no bit in common: a is below the bits of b.
LEMMA OrApart ==
    ASSUME NEW c \in 0 .. 8, NEW a \in Nat, a < Pow2[c], NEW h \in Nat, h < Pow2[8 - c]
    PROVE  Or(a, h * Pow2[c]) = h * Pow2[c] + a /\ h * Pow2[c] + a < 256
  <1> DEFINE b == h * Pow2[c]
             x == b + a
  <1>1. Pow2[c] \in Nat \ {0} /\ Pow2[8 - c] \in Nat \ {0} /\ Pow2[8 - c] * Pow2[c] = 256
    <2> DEFINE e == 8 - c
    <2>1. c \in Nat /\ e \in Nat /\ e + c = 8
      OBVIOUS
    <2> HIDE DEF e
    <2>2. Pow2[e + c] = Pow2[e] * Pow2[c] /\ Pow2[e] \in Nat \ {0} /\ Pow2[c] \in Nat \ {0}
      BY <2>1, PowSum
    <2> QED
      BY <2>1, <2>2, PowValues DEF e
  <1>2. b \in Nat /\ x \in Nat /\ x < 256
    <2>1. b \in Nat
      BY <1>1
    <2>2. (h + 1) * Pow2[c] <= Pow2[8 - c] * Pow2[c]
      BY <1>1
    <2>3. (h + 1) * Pow2[c] = b + Pow2[c]
      <3> DEFINE p == Pow2[c]
      <3>1. p \in Nat
        BY <1>1
      <3> HIDE DEF p
      <3>2. (h + 1) * p = h * p + p
        BY <3>1
      <3> QED
        BY <3>2 DEF p
    <2> HIDE DEF b
    <2> QED
      BY <1>1, <2>1, <2>2, <2>3
  <1>3. ASSUME NEW j \in 0 .. 7 PROVE BitAt(x, j) = OneOf(BitAt(a, j), BitAt(b, j))
    <2>1. j \in Nat /\ Pow2[j] \in Nat \ {0}
      BY PowFacts
    <2>2. CASE c <= j
      <3> DEFINE e == j - c
      <3>1. e \in Nat /\ j = c + e /\ c \in Nat
        BY <2>2
      <3> HIDE DEF e
      <3>2. Pow2[j] = Pow2[c] * Pow2[e] /\ Pow2[e] \in Nat \ {0}
        BY <3>1, PowSum
      <3>3. x \div Pow2[c] = h
        <4> DEFINE p == Pow2[c]
        <4>1. p \in Nat \ {0} /\ a < p
          BY <1>1
        <4> HIDE DEF p
        <4>2. (h * p + a) \div p = h
          BY <4>1, DivMultiple
        <4> QED
          BY <4>2 DEF p
      <3>4. b \div Pow2[c] = h
        BY <1>1, DivMultiple
      <3>5. x \div Pow2[j] = h \div Pow2[e] /\ b \div Pow2[j] = h \div Pow2[e]
        <4> HIDE DEF b, x
        <4>1. (x \div Pow2[c]) \div Pow2[e] = x \div (Pow2[c] * Pow2[e])
          BY <1>1, <1>2, <3>2, DivDiv
        <4>2. (b \div Pow2[c]) \div Pow2[e] = b \div (Pow2[c] * Pow2[e])
          BY <1>1, <1>2, <3>2, DivDiv
        <4> QED
          BY <3>2, <3>3, <3>4, <4>1, <4>2
      <3>6. BitAt(a, j) = 0
        <4>1. Pow2[c] <= Pow2[c] * Pow2[e]
          BY <1>1, <3>2
        <4>2. a < Pow2[j]
          BY <4>1, <1>1, <3>2, <2>1
        <4>3. a \div Pow2[j] = 0
          BY <4>2, <2>1, DivSmall
        <4> QED
          BY <4>3 DEF BitAt
      <3> HIDE DEF b, x
      <3>7. BitAt(x, j) = BitAt(b, j) /\ BitAt(b, j) \in {0, 1}
        BY <3>5, <1>2, <2>1, BitAtFacts DEF BitAt
      <3> QED
        BY <3>6, <3>7 DEF OneOf
    <2>3. CASE c > j
      <3> DEFINE e == c - j
                 i == e - 1
                 g == h * Pow2[i]
                 r == a \div Pow2[j]
      <3>1. i \in Nat /\ e \in Nat /\ e = i + 1 /\ c = e + j
        BY <2>3
      <3> HIDE DEF e, i
      <3>2. Pow2[c] = Pow2[e] * Pow2[j] /\ Pow2[e] = 2 * Pow2[i] /\ Pow2[i] \in Nat \ {0}
        BY <3>1, <2>1, PowSum, PowFacts
      <3>3. g \in Nat /\ b = (2 * g) * Pow2[j]
        BY <3>2, <2>1
      <3>3a. x = b + a
        OBVIOUS
      <3> HIDE DEF g, b, x
      <3>4. b \div Pow2[j] = 2 * g
        <4>1. 2 * g \in Nat
          BY <3>3
        <4> QED
          BY <4>1, <2>1, <3>3, DivMultiple
      <3>5. r \in Nat /\ x \div Pow2[j] = 2 * g + r
        <4> DEFINE m == a % Pow2[j]
        <4>1. r \in Nat /\ m \in 0 .. Pow2[j] - 1 /\ a = Pow2[j] * r + m
          <5> DEFINE p == Pow2[j]
          <5>1. p \in Nat \ {0} /\ a \in Int
            BY <2>1
          <5> HIDE DEF p
          <5>2. a \div p \in Nat
            BY <5>1, DivNat
          <5>3. a % p \in 0 .. p - 1 /\ a = p * (a \div p) + (a % p)
            BY <5>1, DivMod
          <5> QED
            BY <5>2, <5>3 DEF p
        <4> HIDE DEF r, m
        <4>2. x = (2 * g + r) * Pow2[j] + m
          BY <4>1, <3>3, <3>3a, <2>1
        <4>3. 2 * g + r \in Int /\ m \in Int /\ 0 <= m /\ m < Pow2[j]
          BY <4>1, <3>3, <2>1
        <4>4. ((2 * g + r) * Pow2[j] + m) \div Pow2[j] = 2 * g + r
          BY <4>3, <2>1, DivUnique
        <4> QED
          BY <4>1, <4>2, <4>4
      <3>6. BitAt(b, j) = 0
        BY <3>3, <3>4 DEF BitAt
      <3>7. BitAt(x, j) = BitAt(a, j)
        <4>1. (2 * g + r) % 2 = r % 2
          <5> HIDE DEF r
          <5> QED
            BY <3>3, <3>5
        <4> QED
          BY <3>5, <4>1 DEF BitAt
      <3> QED
        BY <3>6, <3>7, <2>1, BitAtFacts DEF OneOf
    <2> QED
      BY <2>2, <2>3
  <1> HIDE DEF b, x
  <1>4. PICK f \in [0 .. 8 -> Nat] :
              /\ Or(a, b) = f[8] /\ f[0] = 0
              /\ \A k \in 1 .. 8 : f[k] = 2 * f[k - 1] + OneOf(BitAt(a, 8 - k), BitAt(b, 8 - k))
    BY <1>2, OrSums
  <1>5. ASSUME NEW k \in 0 .. 8 PROVE f[k] = x \div Pow2[8 - k]
    <2> DEFINE T == {i \in 0 .. 8 : f[i] # x \div Pow2[8 - i]}
    <2>1. ASSUME T # {} PROVE FALSE
      <3>1. PICK i \in T : \A j \in T : i <= j
        <4>1. T \subseteq Nat
          OBVIOUS
        <4> HIDE DEF T
        <4> QED
          BY <2>1, <4>1, LeastElement
      <3>2. CASE i = 0
        <4>1. x \div 256 = 0
          BY <1>2
        <4> QED
          BY <3>1, <3>2, <4>1, <1>4, PowValues
      <3>3. CASE i # 0
        <4> DEFINE j == 8 - i
        <4>1. i \in 1 .. 8 /\ i - 1 \in 0 .. 8 /\ i - 1 \notin T /\ j \in 0 .. 7 /\ j \in Nat /\ 8 - (i - 1) = j + 1
          BY <3>1, <3>3
        <4>2. f[i - 1] = x \div Pow2[j + 1]
          BY <4>1
        <4>3. f[i] = 2 * f[i - 1] + OneOf(BitAt(a, j), BitAt(b, j))
          BY <4>1, <1>4
        <4> HIDE DEF j
        <4>4. x \div Pow2[j] = 2 * (x \div Pow2[j + 1]) + BitAt(x, j)
          BY <1>2, <4>1, BitAtFacts
        <4>5. f[i] = x \div Pow2[j]
          BY <4>1, <4>2, <4>3, <4>4, <1>3
        <4> QED
          BY <3>1, <4>5 DEF j
      <3> QED
        BY <3>2, <3>3
    <2> QED
      BY <2>1
  <1>6. f[8] = x
    <2>1. f[8] = x \div Pow2[8 - 8] /\ 8 - 8 = 0
      BY <1>5
    <2> QED
      BY <2>1, <1>2, PowFacts
  <1> QED
    BY <1>2, <1>4, <1>6 DEF b, x

\* Whatever is or-ed to an octet, one octet is kept.
LEMMA OrOctet ==
    ASSUME NEW a \in Nat, NEW b \in Nat
    PROVE  Or(a, b) \in 0 .. 255
  <1>1. PICK f \in [0 .. 8 -> Nat] :
              /\ Or(a, b) = f[8] /\ f[0] = 0
              /\ \A k \in 1 .. 8 : f[k] = 2 * f[k - 1] + OneOf(BitAt(a, 8 - k), BitAt(b, 8 - k))
    BY OrSums
  <1>2. \A k \in 1 .. 8 : f[k] <= 2 * f[k - 1] + 1
    <2> SUFFICES ASSUME NEW k \in 1 .. 8 PROVE f[k] <= 2 * f[k - 1] + 1
      OBVIOUS
    <2>1. k - 1 \in 0 .. 8 /\ f[k - 1] \in Nat
      OBVIOUS
    <2>2. OneOf(BitAt(a, 8 - k), BitAt(b, 8 - k)) \in {0, 1}
      BY DEF OneOf
    <2> QED
      BY <1>1, <2>1, <2>2
  <1>3. f[1] <= 1 /\ f[2] <= 2 * f[1] + 1 /\ f[3] <= 2 * f[2] + 1 /\ f[4] <= 2 * f[3] + 1
    <2>1. f[1] <= 2 * f[1 - 1] + 1 /\ f[2] <= 2 * f[2 - 1] + 1 /\ f[3] <= 2 * f[3 - 1] + 1 /\ f[4] <= 2 * f[4 - 1] + 1
      BY <1>2
    <2> QED
      BY <2>1, <1>1
  <1>4. f[5] <= 2 * f[4] + 1 /\ f[6] <= 2 * f[5] + 1 /\ f[7] <= 2 * f[6] + 1 /\ f[8] <= 2 * f[7] + 1
    <2>1. f[5] <= 2 * f[5 - 1] + 1 /\ f[6] <= 2 * f[6 - 1] + 1 /\ f[7] <= 2 * f[7 - 1] + 1 /\ f[8] <= 2 * f[8 - 1] + 1
      BY <1>2
    <2> QED
      BY <2>1
  <1>5. f[8] \in Nat /\ \A k \in 1 .. 8 : f[k] \in Nat
    OBVIOUS
  <1>6. f[1] \in Nat /\ f[2] \in Nat /\ f[3] \in Nat /\ f[4] \in Nat /\ f[5] \in Nat /\ f[6] \in Nat /\ f[7] \in Nat
    BY <1>5
  <1> QED
    <2>1. f[8] <= 255
      BY <1>3, <1>4, <1>5, <1>6
    <2> QED
      BY <2>1, <1>1, <1>5

-----------------------------------------------------------------------------
(* A field in its octets.                                                  *)

BitField(f) == f.bits \in Nat \ {0} /\ f.offset \in 0 .. 7

LEMMA FieldSizes ==
    ASSUME NEW f, BitField(f)
    PROVE  /\ NumBytes(f) \in Nat \ {0} /\ Spare(f) \in 0 .. 7
           /\ 8 * NumBytes(f) = f.offset + f.bits + Spare(f)
           /\ AdvanceBits(f) \in 0 .. NumBytes(f)
           /\ 8 * AdvanceBits(f) <= f.offset + f.bits /\ f.offset + f.bits < 8 * AdvanceBits(f) + 8
  <1> DEFINE b == f.bits + f.offset
  <1>1. b \in Nat \ {0}
    BY DEF BitField
  <1>2. NumBytes(f) = (b + 7) \div 8 /\ Spare(f) = 8 * NumBytes(f) - b /\ AdvanceBits(f) = b \div 8
    BY DEF NumBytes, BytesOf, NumBits, Spare, AdvanceBits
  <1>3. b = f.offset + f.bits /\ f.offset \in Nat /\ f.bits \in Nat
    BY DEF BitField
  <1> HIDE DEF b
  <1>4. /\ NumBytes(f) \in Nat \ {0} /\ Spare(f) \in 0 .. 7 /\ 8 * NumBytes(f) = b + Spare(f)
        /\ AdvanceBits(f) \in 0 .. NumBytes(f) /\ 8 * AdvanceBits(f) <= b /\ b < 8 * AdvanceBits(f) + 8
    BY <1>1, <1>2
  <1> QED
    BY <1>3, <1>4

LEMMA PutBytesType ==
    ASSUME NEW n \in Nat, NEW x \in Nat
    PROVE  PutBytes(n, x) \in [1 .. n -> 0 .. 255]
  <1>1. ASSUME NEW k \in 1 .. n PROVE (x \div Pow2[8 * (n - k)]) % 256 \in 0 .. 255
    <2> DEFINE p == Pow2[8 * (n - k)]
    <2>1. p \in Nat \ {0}
      <3>1. 8 * (n - k) \in Nat
        OBVIOUS
      <3> QED
        BY <3>1, PowFacts
    <2> HIDE DEF p
    <2>2. x \div p \in Nat
      BY <2>1, DivNat
    <2>3. (x \div p) % 256 \in 0 .. 255
      BY <2>2
    <2> QED
      BY <2>3 DEF p
  <1> QED
    BY <1>1 DEF PutBytes

\* Of an octet the bits of fields in front are kept.
LEMMA UpperFacts ==
    ASSUME NEW old \in 0 .. 255, NEW o \in 0 .. 7
    PROVE  LET h == old \div Pow2[8 - o]
           IN h \in Nat /\ h < Pow2[o] /\ Upper(old, o) = h * Pow2[8 - o] /\ (o = 0 => h = 0)
  <1> DEFINE p == Pow2[8 - o]
             q == Pow2[o]
             h == old \div p
  <1>1. p \in Nat \ {0} /\ q \in Nat \ {0} /\ q * p = 256 /\ (o = 0 => q = 1)
    <2> DEFINE e == 8 - o
    <2>1. e \in Nat /\ o \in Nat /\ o + e = 8
      OBVIOUS
    <2> HIDE DEF e
    <2>2. Pow2[o + e] = Pow2[o] * Pow2[e] /\ Pow2[o] \in Nat \ {0} /\ Pow2[e] \in Nat \ {0}
      BY <2>1, PowSum
    <2> QED
      BY <2>1, <2>2, PowValues, PowFacts DEF e
  <1>2. Upper(old, o) = old - (old % p)
    BY DEF Upper
  <1> HIDE DEF p, q
  <1>3. old \in Nat /\ old \in Int /\ old < q * p
    BY <1>1
  <1>4. h \in Nat /\ h < q
    BY <1>1, <1>3, DivNat, DivBelow
  <1>5. old = p * h + (old % p) /\ old % p \in 0 .. p - 1
    BY <1>1, <1>3, DivMod
  <1> HIDE DEF h
  <1>6. old - (old % p) = h * p
    <2>1. p * h = h * p /\ p * h \in Nat
      BY <1>1, <1>4
    <2> DEFINE x == p * h
               m == old % p
    <2>2. old = x + m /\ x \in Nat /\ m \in Int /\ x = h * p
      BY <1>1, <1>5, <2>1
    <2> HIDE DEF x, m
    <2>3. old - m = x
      BY <2>2
    <2> QED
      BY <2>2, <2>3 DEF m
  <1>7. o = 0 => h = 0
    BY <1>1, <1>4
  <1> QED
    BY <1>2, <1>4, <1>6, <1>7 DEF h, p, q

\* A field with a value that fits, in octets the first of which was "old": the bits
\* in front, the value, and zeros.
LEMMA PlacedFacts ==
    ASSUME NEW f, BitField(f), NEW v \in Nat, NEW old \in 0 .. 255
    PROVE  LET s == Placed(f, v, old)
               n == NumBytes(f)
               h == old \div Pow2[8 - f.offset]
           IN /\ s \in Seq(0 .. 255) /\ Len(s) = n
              /\ v < Pow2[f.bits] =>
                    /\ GetBytes(s) = h * Pow2[8 * n - f.offset] + v * Pow2[Spare(f)]
                    /\ s[1] \div Pow2[8 - f.offset] = h
  <1> DEFINE s == Placed(f, v, old)
             n == NumBytes(f)
             o == f.offset
             c == 8 - o
             sp == Spare(f)
             h == old \div Pow2[c]
             x == v * Pow2[sp]
             new == PutBytes(n, x)
             Q == Pow2[8 * (n - 1)]
             M == Pow2[8 * n - o]
  <1>1. /\ n \in Nat \ {0} /\ sp \in 0 .. 7 /\ o \in 0 .. 7 /\ f.bits \in Nat \ {0}
        /\ 8 * n = o + f.bits + sp
    BY FieldSizes DEF BitField
  <1>2. h \in Nat /\ h < Pow2[o] /\ Upper(old, o) = h * Pow2[c] /\ (o = 0 => h = 0)
    BY <1>1, UpperFacts
  <1>3. s = IF o = 0 THEN new ELSE [new EXCEPT ![1] = Or(new[1], Upper(old, o))]
    BY DEF Placed
  <1> HIDE DEF s, n, o, sp
  <1>4. x \in Nat
    <2>1. Pow2[sp] \in Nat
      BY <1>1, PowFacts
    <2> QED
      BY <2>1
  <1>5. new \in [1 .. n -> 0 .. 255] /\ 1 \in 1 .. n
    <2> HIDE DEF x
    <2>1. n \in Nat /\ 1 \in 1 .. n
      BY <1>1
    <2> QED
      BY <2>1, <1>4, PutBytesType
  <1>6. Upper(old, o) \in Nat
    <2>1. Pow2[c] \in Nat
      BY <1>1, PowFacts
    <2> QED
      BY <2>1, <1>2
  <1> HIDE DEF x, h, c
  <1>7. s \in [1 .. n -> 0 .. 255]
    <2> HIDE DEF new
    <2>1. new[1] \in Nat
      <3>1. new[1] \in 0 .. 255
        BY <1>5
      <3> QED
        BY <3>1
    <2>2. Or(new[1], Upper(old, o)) \in 0 .. 255
      BY <2>1, <1>6, OrOctet
    <2> QED
      BY <1>3, <1>5, <2>2
  <1>8. s \in Seq(0 .. 255) /\ Len(s) = n
    BY <1>1, <1>7, LenProperties
  <1>9. ASSUME v < Pow2[f.bits]
        PROVE  GetBytes(s) = h * M + x /\ s[1] \div Pow2[c] = h
    <2>1. /\ c \in 1 .. 8 /\ c \in Nat /\ o \in Nat /\ sp \in Nat /\ n - 1 \in Nat /\ 8 * (n - 1) \in Nat /\ 8 * n - o \in Nat
          /\ 8 * n - o = f.bits + sp /\ 8 * n - o = c + 8 * (n - 1) /\ o + (8 * n - o) = 8 * n /\ o + c = 8
      BY <1>1 DEF c
    <2>2. M = Pow2[f.bits] * Pow2[sp] /\ M = Pow2[c] * Q /\ Pow2[8 * n] = Pow2[o] * M /\ Pow2[o] * Pow2[c] = 256
      <3>1. Pow2[f.bits + sp] = Pow2[f.bits] * Pow2[sp]
        BY <1>1, <2>1, PowSum
      <3>2. Pow2[c + 8 * (n - 1)] = Pow2[c] * Q
        BY <2>1, PowSum
      <3>3. Pow2[o + (8 * n - o)] = Pow2[o] * M
        BY <2>1, PowSum
      <3>4. Pow2[o + c] = Pow2[o] * Pow2[c]
        BY <2>1, PowSum
      <3> QED
        BY <2>1, <3>1, <3>2, <3>3, <3>4, PowValues
    <2> DEFINE PO == Pow2[o]
               PC == Pow2[c]
               a == x \div Q
               y == h * M + x
    <2>3. PO \in Nat \ {0} /\ PC \in Nat \ {0} /\ Q \in Nat \ {0} /\ M \in Nat \ {0} /\ Pow2[sp] \in Nat \ {0} /\ Pow2[f.bits] \in Nat \ {0}
      BY <1>1, <2>1, PowFacts
    <2>4. x < M
      <3> DEFINE d == Pow2[sp]
                 e == Pow2[f.bits]
      <3>1. d \in Nat \ {0} /\ e \in Nat /\ v < e /\ M = e * d /\ x = v * d
        BY <2>2, <2>3, <1>9 DEF x
      <3> HIDE DEF d, e, M
      <3>2. v * d < e * d
        BY <3>1
      <3> QED
        BY <3>1, <3>2
    <2>5. M = PC * Q /\ PO * PC = 256 /\ Pow2[8 * n] = PO * M /\ h < PO /\ Upper(old, o) = h * PC
      BY <2>2, <1>2
    <2>6. \A k \in 1 .. n : new[k] = (x \div Pow2[8 * (n - k)]) % 256
      BY DEF PutBytes
    <2>7. new[1] = a % 256
      BY <2>6, <1>5
    <2> HIDE DEF Q, M, PO, new
    <2>8. a \in Nat /\ a < PC
      <3>1. x < PC * Q
        BY <2>4, <2>5
      <3> QED
        BY <3>1, <1>4, <2>3, DivNat, DivBelow
    <2> HIDE DEF a
    <2>9. PC <= 256 /\ a % 256 = a
      <3>1. PC <= 256
        BY <2>3, <2>5
      <3>2. a < 256
        BY <2>8, <2>3, <3>1
      <3> QED
        BY <3>1, <3>2, <2>8
    <2>10. Or(a, h * PC) = h * PC + a /\ h * PC + a < 256
      <3>1. c \in 0 .. 8 /\ a < Pow2[c] /\ h < Pow2[8 - c]
        <4>1. 8 - c = o
          BY <1>1 DEF c
        <4> QED
          BY <4>1, <2>1, <2>5, <2>8 DEF PO
      <3>2. Or(a, h * Pow2[c]) = h * Pow2[c] + a /\ h * Pow2[c] + a < 256
        BY <3>1, <2>8, <1>2, OrApart
      <3> QED
        BY <3>2
    <2> HIDE DEF PC
    <2>11. s[1] = h * PC + a
      <3>1. CASE o = 0
        <4>1. h * PC = 0
          BY <3>1, <1>2, <2>3
        <4> QED
          BY <3>1, <4>1, <1>3, <2>7, <2>8, <2>9
      <3>2. CASE o # 0
        BY <3>2, <1>3, <1>5, <2>5, <2>7, <2>9, <2>10
      <3> QED
        BY <3>1, <3>2
    <2>12. s[1] \div PC = h
      <3>1. (h * PC + a) \div PC = h
        BY <1>2, <2>3, <2>8, DivMultiple
      <3> QED
        BY <2>11, <3>1
    <2>13. y \in Nat /\ y < Pow2[8 * n]
      <3>1. h * M \in Nat /\ (h + 1) * M <= PO * M /\ (h + 1) * M = h * M + M
        BY <1>2, <2>3, <2>5
      <3> QED
        BY <3>1, <1>4, <2>3, <2>4, <2>5
    <2>14. ASSUME NEW k \in 1 .. n PROVE s[k] = (y \div Pow2[8 * (n - k)]) % 256
      <3>1. CASE k = 1
        <4>1. y \div Q = h * PC + a
          <5> DEFINE m == x % Q
                     u == h * PC + a
          <5>1. x = Q * a + m /\ m \in 0 .. Q - 1
            BY <1>4, <2>3, DivNat DEF a
          <5>2. u \in Nat
            BY <1>2, <2>3, <2>8
          <5>3. y = u * Q + m
            <6>1. h * (PC * Q) = (h * PC) * Q /\ (h * PC + a) * Q = (h * PC) * Q + Q * a
              BY <1>2, <2>3, <2>8
            <6> DEFINE w == (h * PC) * Q
                       z == Q * a
            <6>2. y = w + x /\ x = z + m /\ u * Q = w + z /\ w \in Nat /\ z \in Nat
              BY <6>1, <5>1, <2>5, <1>2, <2>3, <2>8
            <6> HIDE DEF w, z, y, u
            <6>3. m \in Nat
              BY <5>1, <2>3
            <6> HIDE DEF m
            <6> QED
              BY <6>2, <6>3
          <5> HIDE DEF m, u, y
          <5>4. (u * Q + m) \div Q = u
            <6>1. m \in Nat /\ m < Q
              BY <5>1, <2>3
            <6> QED
              BY <6>1, <5>2, <2>3, DivMultiple
          <5> QED
            BY <5>3, <5>4 DEF u
        <4>2. (h * PC + a) % 256 = h * PC + a
          <5> DEFINE u == h * PC + a
          <5>1. u \in Nat /\ u < 256
            BY <1>2, <2>3, <2>8, <2>10
          <5> HIDE DEF u
          <5>2. u % 256 = u
            BY <5>1
          <5> QED
            BY <5>2 DEF u
        <4> QED
          BY <3>1, <4>1, <4>2, <2>11 DEF Q
      <3>2. CASE k # 1
        <4> DEFINE e == 8 * (n - k)
                   g == 8 * (k - 2)
                   R == Pow2[e]
                   W == Pow2[g]
                   w == (h * PC) * W
                   b == x \div R
        <4>1. e \in Nat /\ g \in Nat /\ 8 * (n - 1) = (g + 8) + e /\ g + 8 \in Nat /\ k \in 1 .. n
          BY <3>2, <1>1
        <4>2. s[k] = b % 256
          <5>1. s[k] = new[k]
            BY <3>2, <1>3, <1>5
          <5> QED
            BY <5>1, <2>6
        <4> HIDE DEF e, g
        <4>3. Q = (W * 256) * R /\ W \in Nat /\ R \in Nat \ {0}
          <5>1. Pow2[(g + 8) + e] = Pow2[g + 8] * Pow2[e] /\ Pow2[g + 8] = Pow2[g] * Pow2[8]
            BY <4>1, PowSum
          <5>2. Pow2[g] \in Nat /\ Pow2[e] \in Nat \ {0}
            BY <4>1, PowFacts
          <5> QED
            BY <4>1, <5>1, <5>2, PowValues DEF Q
        <4> HIDE DEF R, W
        <4>4. w \in Nat
          BY <1>2, <2>3, <4>3
        <4>5. h * M = (256 * w) * R
          <5>1. h * M = h * (PC * ((W * 256) * R))
            BY <2>5, <4>3
          <5>2. h * (PC * ((W * 256) * R)) = (256 * ((h * PC) * W)) * R
            BY <1>2, <2>3, <4>3
          <5> QED
            BY <5>1, <5>2
        <4> HIDE DEF w
        <4>6. b \in Nat /\ y \div R = 256 * w + b
          <5> DEFINE m == x % R
                     u == 256 * w + b
          <5>1. x = R * b + m /\ m \in 0 .. R - 1 /\ b \in Nat
            BY <1>4, <4>3, DivNat
          <5> HIDE DEF b, m
          <5>2. u \in Nat /\ m \in Nat /\ m < R
            BY <5>1, <4>3, <4>4
          <5>3. y = u * R + m
            <6>1. (256 * w + b) * R = (256 * w) * R + R * b
              BY <5>1, <4>3, <4>4
            <6> DEFINE z == (256 * w) * R
                       t == R * b
            <6>2. y = z + x /\ x = t + m /\ u * R = z + t /\ z \in Nat /\ t \in Nat
              BY <6>1, <5>1, <4>3, <4>4, <4>5
            <6> HIDE DEF z, t, y, u
            <6> QED
              BY <6>2, <5>2
          <5> HIDE DEF u, y
          <5>4. (u * R + m) \div R = u
            BY <5>2, <4>3, DivMultiple
          <5> QED
            BY <5>1, <5>3, <5>4 DEF u
        <4> HIDE DEF b, y
        <4>7. (256 * w + b) % 256 = b % 256
          BY <4>4, <4>6
        <4> QED
          BY <4>2, <4>6, <4>7 DEF R, e
      <3> QED
        BY <3>1, <3>2
    <2>15. s = PutBytes(n, y)
      <3>1. s = [k \in 1 .. n |-> s[k]]
        BY <1>7
      <3>2. [k \in 1 .. n |-> s[k]] = [k \in 1 .. n |-> (y \div Pow2[8 * (n - k)]) % 256]
        <4> HIDE DEF y
        <4> QED
          BY <2>14
      <3> QED
        BY <3>1, <3>2 DEF PutBytes
    <2>16. GetBytes(s) = y
      <3> HIDE DEF y
      <3> QED
        BY <1>1, <2>13, <2>15, NumberOfOctets
    <2> QED
      BY <2>12, <2>16 DEF PC
  <1> QED
    BY <1>8, <1>9 DEF s, n, o, c, h, x, sp

LEMMA ExtractedFacts ==
    ASSUME NEW f, BitField(f), NEW v \in Nat, v < Pow2[f.bits], NEW h \in Nat, NEW s,
           GetBytes(s) = h * Pow2[8 * NumBytes(f) - f.offset] + v * Pow2[Spare(f)]
    PROVE  Extracted(f, s) = v
  <1> DEFINE e == 8 * NumBytes(f) - f.offset
             M == Pow2[e]
             P == Pow2[Spare(f)]
             B == Pow2[f.bits]
             x == v * P
  <1>1. e = f.bits + Spare(f) /\ e \in Nat /\ f.bits \in Nat /\ Spare(f) \in Nat
    BY FieldSizes DEF BitField
  <1>2. Extracted(f, s) = (GetBytes(s) % M) \div P /\ GetBytes(s) = h * M + x
    BY DEF Extracted
  <1> HIDE DEF e
  <1>3. M = B * P /\ M \in Nat \ {0} /\ B \in Nat \ {0} /\ P \in Nat \ {0} /\ v < B
    <2>1. Pow2[f.bits + Spare(f)] = Pow2[f.bits] * Pow2[Spare(f)]
      BY <1>1, PowSum
    <2> QED
      BY <1>1, <2>1, PowFacts
  <1> HIDE DEF M, P, B
  <1>4. x \in Nat /\ x < M
    <2>1. v * P < B * P /\ v * P \in Nat
      BY <1>3
    <2> QED
      BY <1>3, <2>1
  <1>5. x \div P = v
    BY <1>3, DivMultiple
  <1> HIDE DEF x
  <1>6. (h * M + x) % M = x
    BY <1>3, <1>4, DivMultiple
  <1> QED
    BY <1>2, <1>5, <1>6

\* What is written behind a field, into the rest of its last octet, is nothing to it.
LEMMA SamePrefix ==
    ASSUME NEW s \in Seq(0 .. 255), NEW t \in Seq(0 .. 255), NEW n \in Nat \ {0},
           Len(s) = n, Len(t) = n, \A k \in 1 .. n - 1 : t[k] = s[k]
    PROVE  \E g \in Nat : GetBytes(s) = 256 * g + s[n] /\ GetBytes(t) = 256 * g + t[n]
  <1>1. PICK f \in [0 .. n -> Nat] : Sums(n, 256, s, f) /\ GetBytes(s) = f[n]
    BY GetBytesSums
  <1>2. PICK g \in [0 .. n -> Nat] : Sums(n, 256, t, g) /\ GetBytes(t) = g[n]
    BY GetBytesSums
  <1> DEFINE T == {k \in 0 .. n - 1 : f[k] # g[k]}
  <1>3. ASSUME T # {} PROVE FALSE
    <2>1. PICK k \in T : \A j \in T : k <= j
      <3>1. T \subseteq Nat
        OBVIOUS
      <3> HIDE DEF T
      <3> QED
        BY <1>3, <3>1, LeastElement
    <2>2. k # 0
      BY <2>1, <1>1, <1>2 DEF Sums
    <2>3. k \in 1 .. n - 1 /\ k \in 1 .. n /\ k - 1 \in 0 .. n - 1 /\ k - 1 \notin T
      BY <2>1, <2>2
    <2>4. f[k - 1] = g[k - 1]
      BY <2>3
    <2>5. f[k] = 256 * f[k - 1] + s[k] /\ g[k] = 256 * g[k - 1] + t[k] /\ s[k] = t[k]
      BY <2>3, <1>1, <1>2 DEF Sums
    <2> QED
      BY <2>1, <2>4, <2>5
  <1>4. n - 1 \in 0 .. n - 1 /\ n - 1 \in 0 .. n /\ n \in 1 .. n
    OBVIOUS
  <1>5. f[n - 1] = g[n - 1] /\ f[n - 1] \in Nat
    BY <1>3, <1>4
  <1>6. GetBytes(s) = 256 * f[n - 1] + s[n] /\ GetBytes(t) = 256 * g[n - 1] + t[n]
    BY <1>1, <1>2, <1>4 DEF Sums
  <1> QED
    BY <1>5, <1>6

LEMMA ExtractedSame ==
    ASSUME NEW f, BitField(f), NEW s \in Seq(0 .. 255), NEW t \in Seq(0 .. 255),
           Len(s) = NumBytes(f), Len(t) = NumBytes(f),
           \A k \in 1 .. NumBytes(f) - 1 : t[k] = s[k],
           t[NumBytes(f)] \div Pow2[Spare(f)] = s[NumBytes(f)] \div Pow2[Spare(f)]
    PROVE  Extracted(f, t) = Extracted(f, s)
  <1> DEFINE n == NumBytes(f)
             e == 8 * n - f.offset
             sp == Spare(f)
             M == Pow2[e]
             P == Pow2[sp]
             B == Pow2[f.bits]
             c == 8 - sp
             C == Pow2[c]
             os == s[n]
             ot == t[n]
  <1>1. n \in Nat \ {0} /\ e = f.bits + sp /\ e \in Nat /\ f.bits \in Nat /\ sp \in 0 .. 7
    <2>1. n \in Nat \ {0} /\ 8 * n = f.offset + f.bits + sp /\ sp \in 0 .. 7
      BY FieldSizes
    <2>2. f.offset \in 0 .. 7 /\ f.bits \in Nat
      BY DEF BitField
    <2> DEFINE o == f.offset
               b == f.bits
    <2>3. e = 8 * n - o /\ b \in Nat /\ o \in 0 .. 7 /\ 8 * n = o + b + sp
      BY <2>1, <2>2
    <2> HIDE DEF n, sp, e, o, b
    <2>4. e = b + sp
      BY <2>1, <2>3
    <2> QED
      BY <2>1, <2>3, <2>4 DEF b
  <1>2. \A r : Extracted(f, r) = (GetBytes(r) % M) \div P
    BY DEF Extracted
  <1>3. PICK g \in Nat : GetBytes(s) = 256 * g + s[n] /\ GetBytes(t) = 256 * g + t[n]
    <2>1. Len(s) = n /\ Len(t) = n /\ \A k \in 1 .. n - 1 : t[k] = s[k]
      OBVIOUS
    <2> HIDE DEF n
    <2> QED
      BY <1>1, <2>1, SamePrefix
  <1>4. os \in 0 .. 255 /\ ot \in 0 .. 255 /\ ot \div P = os \div P
    <2>1. n \in 1 .. Len(s) /\ n \in 1 .. Len(t)
      BY <1>1
    <2> QED
      BY <2>1, LenProperties
  <1> HIDE DEF n, e, sp
  <1>5. M = B * P /\ C * P = 256 /\ M \in Nat \ {0} /\ B \in Nat \ {0} /\ P \in Nat \ {0} /\ C \in Nat \ {0}
    <2>1. sp \in Nat /\ c \in Nat /\ c + sp = 8
      BY <1>1
    <2> HIDE DEF c
    <2>2. Pow2[f.bits + sp] = Pow2[f.bits] * Pow2[sp] /\ Pow2[c + sp] = Pow2[c] * Pow2[sp]
      BY <1>1, <2>1, PowSum
    <2>3. M \in Nat \ {0} /\ B \in Nat \ {0} /\ P \in Nat \ {0} /\ C \in Nat \ {0}
      BY <1>1, <2>1, PowFacts
    <2> QED
      BY <1>1, <2>1, <2>2, <2>3, PowValues
  <1> HIDE DEF M, P, B, C, os, ot
  <1>6. ASSUME NEW o \in 0 .. 255
        PROVE  ((256 * g + o) % M) \div P = (C * g + o \div P) % B
    <2> DEFINE q == o \div P
               m == o % P
               u == C * g + q
    <2>1. q \in Nat /\ m \in 0 .. P - 1 /\ o = P * q + m
      <3>1. o \in Nat /\ P \in Nat \ {0}
        BY <1>5
      <3>2. \A a \in Nat : \A b \in Nat \ {0} : a \div b \in Nat /\ a % b \in 0 .. b - 1 /\ a = b * (a \div b) + (a % b)
        BY DivNat
      <3> QED
        BY <3>1, <3>2
    <2> HIDE DEF q, m
    <2>2. u \in Nat /\ m \in Nat /\ m < P
      BY <2>1, <1>5
    <2>3. 256 * g + o = u * P + m
      <3>1. (C * g + q) * P = (C * P) * g + P * q
        BY <1>5, <2>1
      <3>2. (C * g + q) * P = 256 * g + P * q
        BY <1>5, <3>1
      <3> DEFINE z == P * q
      <3>3. z \in Nat /\ o = z + m /\ u * P = 256 * g + z
        BY <3>2, <2>1, <1>5
      <3> HIDE DEF z, u
      <3> QED
        BY <3>3, <2>2
    <2> HIDE DEF u
    <2>4. (u * P + m) \div P = u
      BY <2>2, <1>5, DivMultiple
    <2> DEFINE N == u * P + m
    <2>5. N \in Nat
      BY <2>2, <1>5
    <2> HIDE DEF N
    <2>6. (N % (B * P)) \div P = (N \div P) % B
      <3>1. B \in Nat \ {0} /\ P \in Nat \ {0}
        BY <1>5
      <3> QED
        BY <2>5, <3>1, ModDiv
    <2> QED
      BY <1>5, <2>3, <2>4, <2>6 DEF N, u, q
  <1>7. GetBytes(s) = 256 * g + os /\ GetBytes(t) = 256 * g + ot
    BY <1>3 DEF os, ot
  <1>8. Extracted(f, s) = (C * g + os \div P) % B
    <2>1. ((256 * g + os) % M) \div P = (C * g + os \div P) % B
      BY <1>4, <1>6
    <2>2. Extracted(f, s) = (GetBytes(s) % M) \div P
      BY <1>2
    <2> QED
      BY <2>1, <2>2, <1>7
  <1>9. Extracted(f, t) = (C * g + ot \div P) % B
    <2>1. ((256 * g + ot) % M) \div P = (C * g + ot \div P) % B
      BY <1>4, <1>6
    <2>2. Extracted(f, t) = (GetBytes(t) % M) \div P
      BY <1>2
    <2> QED
      BY <2>1, <2>2, <1>7
  <1> QED
    BY <1>4, <1>8, <1>9

-----------------------------------------------------------------------------
(* The places of fields.                                                   *)

LEMMA BitsOfFacts ==
    ASSUME NEW lay, NEW n \in Nat, \A i \in 1 .. n : lay[i].bits \in Nat
    PROVE  /\ BitsOf(lay, 0) = 0
           /\ \A k \in 0 .. n : BitsOf(lay, k) \in Nat
           /\ \A k \in 1 .. n : BitsOf(lay, k) = BitsOf(lay, k - 1) + lay[k].bits
  <1> DEFINE d == [i \in 1 .. n |-> lay[i].bits]
             Bitwise(k, f) == f = [j \in 0 .. k |-> IF j = 0 THEN 0 ELSE f[j - 1] + lay[j].bits]
             upto(k) == CHOOSE f : Bitwise(k, f)
  <1>1. d \in [1 .. n -> Nat] /\ \A i \in 1 .. n : d[i] = lay[i].bits
    OBVIOUS
  <1> HIDE DEF d
  <1>2. PICK F \in [0 .. n -> Nat] : Sums(n, 1, d, F)
    <2>1. 1 \in Nat
      OBVIOUS
    <2> QED
      BY <1>1, <2>1, SumsExist
  <1>3. F[0] = 0 /\ \A j \in 1 .. n : F[j] = F[j - 1] + lay[j].bits
    <2>1. ASSUME NEW j \in 1 .. n PROVE F[j] = F[j - 1] + lay[j].bits
      <3>1. j - 1 \in 0 .. n /\ F[j - 1] \in Nat /\ lay[j].bits \in Nat
        BY <1>1
      <3>2. F[j] = 1 * F[j - 1] + lay[j].bits
        BY <1>1, <1>2 DEF Sums
      <3> QED
        BY <3>1, <3>2
    <2> QED
      BY <2>1, <1>2 DEF Sums
  <1>4. ASSUME NEW k \in 0 .. n PROVE BitsOf(lay, k) = F[k]
    <2>1. BitsOf(lay, k) = upto(k)[k]
      BY DEF BitsOf
    <2>2. \E f : Bitwise(k, f)
      <3> DEFINE f == [j \in 0 .. k |-> F[j]]
      <3>1. \A j \in 0 .. k : F[j] = IF j = 0 THEN 0 ELSE f[j - 1] + lay[j].bits
        <4> SUFFICES ASSUME NEW j \in 0 .. k PROVE F[j] = IF j = 0 THEN 0 ELSE f[j - 1] + lay[j].bits
          OBVIOUS
        <4>1. j # 0 => j \in 1 .. n /\ j - 1 \in 0 .. k
          OBVIOUS
        <4> QED
          BY <4>1, <1>3
      <3>2. f = [j \in 0 .. k |-> IF j = 0 THEN 0 ELSE f[j - 1] + lay[j].bits]
        <4>1. f = [j \in 0 .. k |-> F[j]]
          OBVIOUS
        <4> HIDE DEF f
        <4>2. [j \in 0 .. k |-> F[j]] = [j \in 0 .. k |-> IF j = 0 THEN 0 ELSE f[j - 1] + lay[j].bits]
          BY <3>1
        <4> QED
          BY <4>1, <4>2
      <3> HIDE DEF f
      <3>3. Bitwise(k, f)
        BY <3>2
      <3> QED
        BY <3>3
    <2>3. Bitwise(k, upto(k))
      <3> HIDE DEF Bitwise
      <3> QED
        BY <2>2
    <2> DEFINE g == upto(k)
    <2>4. \A j \in 0 .. k : g[j] = IF j = 0 THEN 0 ELSE g[j - 1] + lay[j].bits
      <3> HIDE DEF upto
      <3>1. g = [j \in 0 .. k |-> IF j = 0 THEN 0 ELSE g[j - 1] + lay[j].bits]
        BY <2>3
      <3> HIDE DEF g
      <3> QED
        BY <3>1
    <2>5. BitsOf(lay, k) = g[k]
      BY <2>1
    <2> HIDE DEF g, upto
    <2> DEFINE T == {j \in 0 .. k : g[j] # F[j]}
    <2>6. ASSUME T # {} PROVE FALSE
      <3>1. PICK j \in T : \A i \in T : j <= i
        <4>1. T \subseteq Nat
          OBVIOUS
        <4> HIDE DEF T
        <4> QED
          BY <2>6, <4>1, LeastElement
      <3>2. j # 0
        BY <3>1, <2>4, <1>3
      <3>3. j \in 1 .. n /\ j \in 0 .. k /\ j - 1 \in 0 .. k /\ j - 1 \notin T
        <4>1. j \in 0 .. k
          BY <3>1
        <4>2. j \in 1 .. n /\ j - 1 \in 0 .. k /\ ~(j <= j - 1)
          BY <4>1, <3>2
        <4> HIDE DEF T
        <4> QED
          BY <3>1, <4>1, <4>2
      <3>4. g[j - 1] = F[j - 1]
        BY <3>3
      <3> QED
        BY <3>1, <3>2, <3>3, <3>4, <2>4, <1>3
    <2> QED
      BY <2>5, <2>6
  <1>5. ASSUME NEW k \in 1 .. n PROVE BitsOf(lay, k) = BitsOf(lay, k - 1) + lay[k].bits
    <2>1. k \in 0 .. n /\ k - 1 \in 0 .. n
      OBVIOUS
    <2> QED
      BY <2>1, <1>3, <1>4
  <1>6. BitsOf(lay, 0) = 0
    BY <1>3, <1>4
  <1> QED
    BY <1>4, <1>5, <1>6

\* What is known of a layout of bit fields.
LEMMA LayoutFacts ==
    ASSUME layout \in Layouts, OfBits
    PROVE  /\ Len(layout) \in Nat /\ DOMAIN layout = 1 .. Len(layout)
           /\ BitsOf(layout, 0) = 0
           /\ \A i \in 0 .. Len(layout) : BitsOf(layout, i) \in Nat
           /\ \A i \in 1 .. Len(layout) :
                 /\ BitField(layout[i]) /\ layout[i].codec = "bits" /\ Values(layout[i]) \subseteq Nat
                 /\ layout[i].offset = BitsOf(layout, i - 1) % 8
                 /\ BitsOf(layout, i) = BitsOf(layout, i - 1) + layout[i].bits
  <1>1. layout \in Seq({layout[i] : i \in DOMAIN layout})
    BY LayoutsAssumption
  <1>2. Len(layout) \in Nat /\ DOMAIN layout = 1 .. Len(layout)
    BY <1>1, LenProperties
  <1>3. ASSUME NEW i \in 1 .. Len(layout)
        PROVE  /\ BitField(layout[i]) /\ layout[i].codec = "bits" /\ Values(layout[i]) \subseteq Nat
               /\ layout[i].offset = BitsOf(layout, i - 1) % 8
    <2>1. i \in DOMAIN layout /\ layout[i].codec = "bits"
      BY <1>2 DEF OfBits
    <2>2. GoodField(layout[i]) /\ Gapless(layout)
      BY <2>1, LayoutsAssumption
    <2>3. layout[i].bits \in Nat \ {0} /\ layout[i].offset \in 0 .. 7 /\ Values(layout[i]) \subseteq Nat
      BY <2>1, <2>2 DEF GoodField
    <2>4. layout[i].offset = BitsOf(layout, i - 1) % 8
      BY <2>1, <2>2 DEF Gapless
    <2> QED
      BY <2>1, <2>3, <2>4 DEF BitField
  <1>4. \A i \in 1 .. Len(layout) : layout[i].bits \in Nat
    BY <1>3 DEF BitField
  <1>5. /\ BitsOf(layout, 0) = 0
        /\ \A k \in 0 .. Len(layout) : BitsOf(layout, k) \in Nat
        /\ \A k \in 1 .. Len(layout) : BitsOf(layout, k) = BitsOf(layout, k - 1) + layout[k].bits
    BY <1>2, <1>4, BitsOfFacts
  <1> QED
    BY <1>2, <1>3, <1>5

-----------------------------------------------------------------------------
(* One call of the buffer.                                                 *)

LEMMA FlattenOne ==
    ASSUME NEW s
    PROVE  FlattenSeq(<<s>>) = s /\ FlattenSeq(<<>>) = <<>>
  <1> DEFINE ss == <<s>>
             One(f) == f = [i \in 1 .. Len(ss) |-> IF i = 1 THEN ss[i] ELSE f[i - 1] \o ss[i]]
             flatten == CHOOSE f : One(f)
  <1>1. Len(ss) = 1 /\ ss[1] = s
    OBVIOUS
  <1>2. FlattenSeq(ss) = flatten[1]
    BY <1>1 DEF FlattenSeq
  <1> HIDE DEF ss
  <1>3. \E f : One(f)
    <2> DEFINE f == [i \in 1 .. 1 |-> s]
    <2>1. f = [i \in 1 .. Len(ss) |-> IF i = 1 THEN ss[i] ELSE f[i - 1] \o ss[i]]
      BY <1>1
    <2> HIDE DEF f
    <2>2. One(f)
      BY <2>1
    <2> QED
      BY <2>2
  <1>4. One(flatten)
    <2> HIDE DEF One
    <2> QED
      BY <1>3
  <1> HIDE DEF flatten
  <1>5. flatten[1] = s
    BY <1>1, <1>4
  <1>6. FlattenSeq(<<>>) = <<>>
    BY DEF FlattenSeq
  <1> QED
    BY <1>2, <1>5, <1>6 DEF ss

LEMMA MaxIs ==
    ASSUME NEW T, T \subseteq Nat, NEW m \in T, \A x \in T : x <= m
    PROVE  Max(T) = m
  <1>1. \A x \in T : (\A y \in T : x >= y) <=> x = m
    <2> SUFFICES ASSUME NEW x \in T PROVE (\A y \in T : x >= y) <=> x = m
      OBVIOUS
    <2>1. x \in Nat /\ m \in Nat /\ x <= m
      OBVIOUS
    <2>2. ASSUME \A y \in T : x >= y PROVE x = m
      BY <2>1, <2>2
    <2>3. ASSUME x = m PROVE \A y \in T : x >= y
      BY <2>1, <2>3
    <2> QED
      BY <2>2, <2>3
  <1>2. Max(T) = CHOOSE x \in T : \A y \in T : x >= y
    BY DEF Max
  <1>3. \E x \in T : \A y \in T : x >= y
    BY <1>1
  <1>4. Max(T) \in T /\ \A y \in T : Max(T) >= y
    BY <1>2, <1>3
  <1> QED
    BY <1>1, <1>4

LEMMA FittingOne ==
    ASSUME NEW s \in Seq(0 .. 255), NEW room \in Nat
    PROVE  Fitting(<<s>>, room) = IF Len(s) <= room THEN <<s>> ELSE <<>>
  <1> DEFINE c == <<s>>
             Size(k) == Len(FlattenSeq(SubSeq(c, 1, k)))
             T == {k \in 0 .. Len(c) : Size(k) <= room}
  <1>1. Fitting(<<s>>, room) = SubSeq(c, 1, Max(T))
    BY DEF Fitting
  <1>2. Len(c) = 1 /\ SubSeq(c, 1, 0) = <<>> /\ SubSeq(c, 1, 1) = c
    <2>1. c \in Seq({s}) /\ Len(c) = 1 /\ c[1] = s
      OBVIOUS
    <2> HIDE DEF c
    <2>2. SubSeq(c, 1, 0) = <<>>
      BY SubSeqEmpty
    <2>3. \A i \in 1 .. 1 : c[i] \in {s}
      BY <2>1
    <2>4. /\ SubSeq(c, 1, 1) \in Seq({s}) /\ Len(SubSeq(c, 1, 1)) = 1
          /\ \A i \in 1 .. 1 : SubSeq(c, 1, 1)[i] = c[i]
      BY <2>3, SubSeqProperties
    <2>5. SubSeq(c, 1, 1) = c
      BY <2>1, <2>4, SeqEqual
    <2> QED
      BY <2>1, <2>2, <2>5
  <1>3. Size(0) = 0 /\ Size(1) = Len(s) /\ Len(s) \in Nat
    <2>1. Len(<<>>) = 0 /\ Len(s) \in Nat
      BY LenProperties
    <2>2. Size(0) = Len(FlattenSeq(SubSeq(c, 1, 0))) /\ Size(1) = Len(FlattenSeq(SubSeq(c, 1, 1)))
      OBVIOUS
    <2> HIDE DEF Size
    <2>3. FlattenSeq(c) = s /\ FlattenSeq(<<>>) = <<>>
      BY FlattenOne
    <2> QED
      BY <1>2, <2>1, <2>2, <2>3
  <1> HIDE DEF c, Size
  <1>4. CASE Len(s) <= room
    <2>1. 1 \in T /\ T \subseteq Nat /\ \A x \in T : x <= 1
      BY <1>2, <1>3, <1>4
    <2> HIDE DEF T
    <2>2. Max(T) = 1
      BY <2>1, MaxIs
    <2> QED
      BY <1>1, <1>2, <1>4, <2>2 DEF c
  <1>5. CASE ~(Len(s) <= room)
    <2>1. 0 \in T /\ T \subseteq Nat /\ \A x \in T : x <= 0
      <3>1. \A x \in 0 .. 1 : x = 0 \/ x = 1
        OBVIOUS
      <3> QED
        BY <1>2, <1>3, <1>5, <3>1
    <2> HIDE DEF T
    <2>2. Max(T) = 0
      BY <2>1, MaxIs
    <2> QED
      BY <1>1, <1>2, <1>5, <2>2
  <1> QED
    BY <1>4, <1>5

\* What Overlaid leaves alone and what it writes.
LEMMA OverlaidFacts ==
    ASSUME NEW mem \in Seq(0 .. 255), NEW at \in Nat, NEW s \in Seq(0 .. 255)
    PROVE  LET m == Overlaid(mem, at, s)
           IN /\ m \in Seq(0 .. 255) /\ Len(m) = Len(mem) /\ Len(mem) \in Nat
              /\ \A k \in 1 .. Len(mem) : m[k] = IF k \in at + 1 .. at + Len(s) THEN s[k - at] ELSE mem[k]
              /\ s = <<>> => m = mem
  <1> DEFINE n == Len(mem)
             m == Overlaid(mem, at, s)
  <1>1. n \in Nat /\ mem \in [1 .. n -> 0 .. 255] /\ DOMAIN mem = 1 .. n
    BY LenProperties, ZenonT(30)
  <1>2. Len(s) \in Nat /\ s \in [1 .. Len(s) -> 0 .. 255]
    BY LenProperties
  <1>3. m = [k \in 1 .. n |-> IF k \in at + 1 .. at + Len(s) THEN s[k - at] ELSE mem[k]]
    BY <1>1 DEF Overlaid
  <1> HIDE DEF n, m
  <1>4. m \in [1 .. n -> 0 .. 255]
    <2>1. ASSUME NEW k \in 1 .. n
          PROVE  (IF k \in at + 1 .. at + Len(s) THEN s[k - at] ELSE mem[k]) \in 0 .. 255
      <3>1. CASE k \in at + 1 .. at + Len(s)
        <4>1. k - at \in 1 .. Len(s)
          BY <3>1, <1>2
        <4> QED
          BY <3>1, <4>1, <1>2
      <3>2. CASE k \notin at + 1 .. at + Len(s)
        BY <3>2, <1>1
      <3> QED
        BY <3>1, <3>2
    <2> QED
      BY <1>3, <2>1
  <1>5. m \in Seq(0 .. 255) /\ Len(m) = n
    BY <1>1, <1>4, LenProperties
  <1>6. \A k \in 1 .. n : m[k] = IF k \in at + 1 .. at + Len(s) THEN s[k - at] ELSE mem[k]
    BY <1>3
  <1>7. ASSUME s = <<>> PROVE m = mem
    <2>1. \A k \in 1 .. n : m[k] = mem[k]
      <3>1. Len(s) = 0
        BY <1>7
      <3>2. \A k \in 1 .. n : k \notin at + 1 .. at + 0
        OBVIOUS
      <3> QED
        BY <3>1, <3>2, <1>6
    <2> QED
      BY <2>1, <1>1, <1>4
  <1> QED
    BY <1>1, <1>5, <1>6, <1>7 DEF n, m

\* A part of a sequence of octets, from behind the first a octets up to octet b.
LEMMA Slice ==
    ASSUME NEW s \in Seq(0 .. 255), NEW a \in Nat, NEW b \in Nat, a <= b, b <= Len(s)
    PROVE  /\ SubSeq(s, a + 1, b) \in Seq(0 .. 255) /\ Len(SubSeq(s, a + 1, b)) = b - a
           /\ \A k \in 1 .. b - a : SubSeq(s, a + 1, b)[k] = s[a + k]
  <1>1. Len(s) \in Nat /\ s \in [1 .. Len(s) -> 0 .. 255]
    BY LenProperties
  <1>2. \A i \in a + 1 .. b : i \in 1 .. Len(s)
    BY <1>1
  <1>3. \A i \in 1 .. Len(s) : s[i] \in 0 .. 255
    BY <1>1
  <1>4. \A i \in a + 1 .. b : s[i] \in 0 .. 255
    BY <1>2, <1>3
  <1>5. a + 1 \in Int /\ b \in Int
    OBVIOUS
  <1>6. /\ SubSeq(s, a + 1, b) \in Seq(0 .. 255)
        /\ Len(SubSeq(s, a + 1, b)) = IF a + 1 <= b THEN b - (a + 1) + 1 ELSE 0
        /\ \A i \in 1 .. b - (a + 1) + 1 : SubSeq(s, a + 1, b)[i] = s[(a + 1) + i - 1]
    BY <1>4, <1>5, SubSeqProperties
  <1> DEFINE t == SubSeq(s, a + 1, b)
  <1> HIDE DEF t
  <1>7. t \in Seq(0 .. 255) /\ \A i \in 1 .. b - (a + 1) + 1 : t[i] = s[(a + 1) + i - 1]
    BY <1>6 DEF t
  <1>8. Len(t) = IF a + 1 <= b THEN b - (a + 1) + 1 ELSE 0
    BY <1>6 DEF t
  <1>9. b - (a + 1) + 1 = b - a /\ (~(a + 1 <= b) => b - a = 0) /\ \A i \in Int : (a + 1) + i - 1 = a + i
    OBVIOUS
  <1>10. Len(t) = b - a
    BY <1>8, <1>9
  <1>11. \A k \in 1 .. b - a : t[k] = s[a + k]
    BY <1>7, <1>9
  <1> QED
    BY <1>7, <1>10, <1>11 DEF t

\* The n octets behind octet "at", and what a decoder there has in hand.
Slot(s, at, n) == SubSeq(s, at + 1, at + n)

LEMMA Window ==
    ASSUME NEW s \in Seq(0 .. 255), NEW at \in Nat, NEW n \in Nat, at + n <= Len(s)
    PROVE  /\ Slot(s, at, n) \in Seq(0 .. 255) /\ Len(Slot(s, at, n)) = n
           /\ \A k \in 1 .. n : Slot(s, at, n)[k] = s[at + k]
  <1>1. at + n \in Nat /\ at <= at + n /\ (at + n) - at = n
    OBVIOUS
  <1> DEFINE t == SubSeq(s, at + 1, at + n)
  <1>2. t \in Seq(0 .. 255) /\ Len(t) = (at + n) - at /\ \A k \in 1 .. (at + n) - at : t[k] = s[at + k]
    BY <1>1, Slice
  <1>3. Slot(s, at, n) = t
    BY DEF Slot
  <1> HIDE DEF t
  <1> QED
    BY <1>1, <1>2, <1>3

\* A decoder at octet "at" has the octets from there in hand.
LEMMA InHand ==
    ASSUME NEW s \in Seq(0 .. 255), NEW at \in Nat, NEW n \in Nat, at + n <= Len(s)
    PROVE  /\ SubSeq(SubSeq(s, at + 1, Len(s)), 1, n) = Slot(s, at, n)
           /\ Len(SubSeq(s, at + 1, Len(s))) = Len(s) - at
  <1>1. /\ Len(s) \in Nat /\ at + n \in Nat /\ at <= at + n /\ at <= Len(s) /\ (at + n) - at = n
        /\ at + n <= Len(s) /\ Len(s) - at \in Nat /\ n <= Len(s) - at
    BY LenProperties
  <1> DEFINE t == SubSeq(s, at + 1, at + n)
             u == SubSeq(s, at + 1, Len(s))
             w == SubSeq(u, 1, n)
             w0 == SubSeq(u, 0 + 1, n)
  <1>2. t \in Seq(0 .. 255) /\ Len(t) = (at + n) - at /\ \A k \in 1 .. (at + n) - at : t[k] = s[at + k]
    BY <1>1, Slice, ZenonT(30)
  <1>3. u \in Seq(0 .. 255) /\ Len(u) = Len(s) - at /\ \A k \in 1 .. Len(s) - at : u[k] = s[at + k]
    <2>1. PICK l \in Nat : l = Len(s)
      BY <1>1
    <2>2. at <= l /\ l <= Len(s)
      BY <1>1, <2>1
    <2>3. /\ SubSeq(s, at + 1, l) \in Seq(0 .. 255) /\ Len(SubSeq(s, at + 1, l)) = l - at
          /\ \A k \in 1 .. l - at : SubSeq(s, at + 1, l)[k] = s[at + k]
      BY <2>2, Slice
    <2> QED
      BY <2>1, <2>3
  <1> HIDE DEF t, u
  <1>4. w0 \in Seq(0 .. 255) /\ Len(w0) = n - 0 /\ \A k \in 1 .. n - 0 : w0[k] = u[0 + k]
    <2>1. 0 \in Nat /\ 0 <= n /\ n <= Len(u)
      BY <1>1, <1>3
    <2> QED
      BY <2>1, <1>3, Slice, ZenonT(30)
  <1>5. 0 + 1 = 1 /\ n - 0 = n /\ \A k \in Int : 0 + k = k
    OBVIOUS
  <1>6. w = w0
    BY <1>5
  <1> HIDE DEF w, w0
  <1>7. w \in Seq(0 .. 255) /\ Len(w) = n /\ \A k \in 1 .. n : w[k] = u[k]
    BY <1>4, <1>5, <1>6
  <1>8. \A k \in 1 .. n : k \in 1 .. Len(s) - at
    BY <1>1
  <1>9. Len(t) = n /\ \A k \in 1 .. n : t[k] = s[at + k]
    BY <1>1, <1>2
  <1>10. \A k \in 1 .. n : w[k] = t[k]
    BY <1>3, <1>7, <1>8, <1>9
  <1>11. w = t
    BY <1>2, <1>7, <1>9, <1>10, SeqEqual
  <1> QED
    BY <1>3, <1>11 DEF t, u, w, Slot

-----------------------------------------------------------------------------
(* What the encoder and the decoder of bit fields keep.                    *)

\* The octet that field i begins in, counted from 0, and the octets it touches.
First(i) == BitsOf(layout, i - 1) \div 8
Touched(i) == Slot(octets, First(i), NumBytes(layout[i]))

Written == IF phase = "full" THEN Len(sent) - 1 ELSE Len(sent)

BitsType ==
    /\ layout \in Layouts /\ octets \in Seq(0 .. 255) /\ sent \in Seq(Nat) /\ got \in Seq(Nat)
    /\ Len(sent) <= Len(layout) /\ Len(got) <= Len(layout)
    /\ cursor \in 0 .. Len(octets)

\* The cursor is in the octet that the next field begins in.
CursorInPlace ==
    /\ phase = "encode" => got = <<>> /\ cursor = BitsOf(layout, Len(sent)) \div 8
    /\ phase = "decode" => cursor = BitsOf(layout, Len(got)) \div 8
    /\ phase = "full" => got = <<>> /\ sent # <<>>
    /\ sent # <<>> => phase \in {"encode", "full", "decode"}
    /\ phase = "decode" /\ sent # <<>> => Len(sent) = Len(layout)

\* Every value written so far is found in the octets of its field, unless a later
\* one had too many bits.
ValuesInPlace ==
    \A i \in 1 .. Written :
        /\ First(i) + NumBytes(layout[i]) <= Len(octets)
        /\ (\A j \in i .. Written : FitsBits(j)) => Extracted(layout[i], Touched(i)) = sent[i]

ReadAsSent ==
    phase = "decode" /\ sent # <<>> /\ (\A i \in 1 .. Len(sent) : FitsBits(i)) =>
        \A i \in 1 .. Len(got) : got[i] = sent[i]

BitsInv == OfBits => BitsType /\ CursorInPlace /\ ValuesInPlace /\ ReadAsSent

\* Where fields begin and end.
LEMMA FieldPlaces ==
    ASSUME layout \in Layouts, OfBits, NEW i \in 1 .. Len(layout)
    PROVE  LET f == layout[i]
           IN /\ First(i) \in Nat
              /\ BitsOf(layout, i - 1) = 8 * First(i) + f.offset
              /\ BitsOf(layout, i) \div 8 = First(i) + AdvanceBits(f)
              /\ 8 * (First(i) + NumBytes(f)) = BitsOf(layout, i) + Spare(f)
  <1> DEFINE f == layout[i]
             b == BitsOf(layout, i - 1)
             c == BitsOf(layout, i)
             q == First(i)
             o == f.offset
             n == f.bits
             a == AdvanceBits(f)
             w == NumBytes(f)
             p == Spare(f)
  <1>1. i \in Nat /\ i - 1 \in 0 .. Len(layout)
    BY LayoutFacts
  <1>2. BitField(f) /\ b \in Nat /\ o = b % 8 /\ c = b + n
    BY <1>1, LayoutFacts
  <1>3. q = b \div 8
    BY DEF First
  <1>4. n \in Nat /\ o \in 0 .. 7
    BY <1>2 DEF BitField
  <1>5. w \in Nat /\ p \in 0 .. 7 /\ 8 * w = o + n + p /\ a \in Nat /\ 8 * a <= o + n /\ o + n < 8 * a + 8
    <2> HIDE DEF f
    <2> QED
      BY <1>2, FieldSizes
  <1> HIDE DEF f, b, c, q, o, n, a, w, p
  <1>6. q \in Nat /\ b = 8 * q + o
    BY <1>2, <1>3, <1>4
  <1>7. c \div 8 = q + a
    <2>1. c \in Nat /\ 8 * (q + a) <= c /\ c < 8 * (q + a) + 8
      BY <1>2, <1>4, <1>5, <1>6
    <2> QED
      BY <2>1, <1>5, <1>6
  <1>8. 8 * (q + w) = c + p
    BY <1>2, <1>4, <1>5, <1>6
  <1> QED
    BY <1>6, <1>7, <1>8 DEF f, b, c, q, o, n, a, w, p

LEMMA BitsGrow ==
    ASSUME layout \in Layouts, OfBits, NEW i \in 0 .. Len(layout), NEW k \in i .. Len(layout)
    PROVE  BitsOf(layout, i) <= BitsOf(layout, k)
  <1> DEFINE B(j) == BitsOf(layout, j)
             T == {j \in i .. Len(layout) : ~(B(i) <= B(j))}
  <1>1. /\ Len(layout) \in Nat /\ \A j \in 0 .. Len(layout) : B(j) \in Nat
        /\ \A j \in 1 .. Len(layout) : B(j) = B(j - 1) + layout[j].bits /\ layout[j].bits \in Nat
    BY LayoutFacts DEF BitField
  <1> HIDE DEF B
  <1>2. ASSUME T # {} PROVE FALSE
    <2>1. T \subseteq Nat
      BY <1>1
    <2> HIDE DEF T
    <2>2. PICK j \in T : \A m \in T : j <= m
      BY <1>2, <2>1, LeastElement
    <2> USE DEF T
    <2>3. j \in i .. Len(layout) /\ ~(B(i) <= B(j)) /\ j \in Nat
      BY <2>1, <2>2
    <2>4. CASE j = i
      BY <2>3, <2>4, <1>1
    <2>5. CASE j # i
      <3>1. j - 1 \in i .. Len(layout) /\ j \in 1 .. Len(layout) /\ ~(j <= j - 1) /\ j - 1 \in 0 .. Len(layout)
        BY <2>3, <2>5, <1>1
      <3>2. j - 1 \notin T
        BY <3>1, <2>2
      <3>3. B(i) <= B(j - 1)
        BY <3>1, <3>2
      <3>4. B(j) = B(j - 1) + layout[j].bits /\ layout[j].bits \in Nat /\ B(j - 1) \in Nat /\ B(i) \in Nat
        BY <3>1, <1>1
      <3> QED
        BY <2>3, <3>3, <3>4
    <2> QED
      BY <2>4, <2>5
  <1> QED
    BY <1>2 DEF B

\* A later field begins behind an earlier one, or in bits of its last octet that the
\* earlier one leaves spare.
LEMMA Behind ==
    ASSUME layout \in Layouts, OfBits, NEW k \in 1 .. Len(layout), NEW i \in 1 .. k - 1
    PROVE  LET last == First(i) + NumBytes(layout[i])
           IN \/ last <= First(k)
              \/ last = First(k) + 1 /\ Spare(layout[i]) >= 8 - layout[k].offset
  <1> DEFINE q == First(k)
             o == layout[k].offset
             last == First(i) + NumBytes(layout[i])
             p == Spare(layout[i])
             b == BitsOf(layout, i)
             c == BitsOf(layout, k - 1)
  <1>1. i \in 1 .. Len(layout) /\ k - 1 \in i .. Len(layout) /\ i \in 0 .. Len(layout)
    BY LayoutFacts
  <1>2. b <= c
    BY <1>1, BitsGrow
  <1>3. 8 * last = b + p /\ last \in Nat /\ p \in 0 .. 7 /\ b \in Nat
    <2>1. BitField(layout[i]) /\ b \in Nat
      BY <1>1, LayoutFacts
    <2>2. NumBytes(layout[i]) \in Nat /\ p \in 0 .. 7
      BY <2>1, FieldSizes
    <2>3. First(i) \in Nat /\ 8 * last = b + p
      BY <1>1, FieldPlaces
    <2> QED
      BY <2>1, <2>2, <2>3
  <1>4. q \in Nat /\ c = 8 * q + o /\ o \in 0 .. 7
    <2>1. BitField(layout[k])
      BY LayoutFacts
    <2> QED
      BY <2>1, FieldPlaces DEF BitField
  <1> HIDE DEF q, o, last, p, b, c
  <1>5. last <= q \/ (last = q + 1 /\ p >= 8 - o)
    BY <1>2, <1>3, <1>4
  <1> QED
    BY <1>5 DEF q, o, last, p

\* Writing a field: what it leaves alone, and that it can be read back.
LEMMA FieldWritten ==
    ASSUME NEW f, BitField(f), NEW v \in Nat, NEW mem \in Seq(0 .. 255), NEW at \in Nat,
           at + NumBytes(f) <= Len(mem)
    PROVE  LET m == Overlaid(mem, at, Placed(f, v, mem[at + 1]))
               n == NumBytes(f)
           IN /\ m \in Seq(0 .. 255) /\ Len(m) = Len(mem)
              /\ \A k \in 1 .. at : m[k] = mem[k]
              /\ v < Pow2[f.bits] =>
                    /\ Extracted(f, Slot(m, at, n)) = v
                    /\ m[at + 1] \div Pow2[8 - f.offset] = mem[at + 1] \div Pow2[8 - f.offset]
  <1> DEFINE n == NumBytes(f)
             old == mem[at + 1]
             s == Placed(f, v, old)
             m == Overlaid(mem, at, s)
             h == old \div Pow2[8 - f.offset]
             t == Slot(m, at, n)
  <1>1. /\ Len(mem) \in Nat /\ mem \in [1 .. Len(mem) -> 0 .. 255] /\ n \in Nat \ {0}
        /\ at + n <= Len(mem) /\ f.offset \in 0 .. 7
    BY LenProperties, FieldSizes DEF BitField
  <1>2. old \in 0 .. 255
    <2>1. at + 1 \in 1 .. Len(mem)
      BY <1>1
    <2> QED
      BY <1>1, <2>1
  <1>3. /\ s \in Seq(0 .. 255) /\ Len(s) = n
        /\ v < Pow2[f.bits] => GetBytes(s) = h * Pow2[8 * n - f.offset] + v * Pow2[Spare(f)]
        /\ v < Pow2[f.bits] => s[1] \div Pow2[8 - f.offset] = h
    <2> HIDE DEF old
    <2> QED
      BY <1>2, PlacedFacts, ZenonT(30)
  <1>4. h \in Nat
    <2> HIDE DEF old
    <2>1. 8 - f.offset \in Nat /\ old \in Nat
      BY <1>1, <1>2
    <2>2. Pow2[8 - f.offset] \in Nat \ {0}
      BY <2>1, PowFacts
    <2> QED
      BY <2>1, <2>2, DivNat
  <1> HIDE DEF h, s, old
  <1>5. /\ m \in Seq(0 .. 255) /\ Len(m) = Len(mem)
        /\ \A k \in 1 .. Len(mem) : m[k] = IF k \in at + 1 .. at + Len(s) THEN s[k - at] ELSE mem[k]
    BY <1>3, OverlaidFacts
  <1> HIDE DEF m
  <1>6. \A k \in 1 .. at : m[k] = mem[k]
    <2> SUFFICES ASSUME NEW k \in 1 .. at PROVE m[k] = mem[k]
      OBVIOUS
    <2>1. k \in 1 .. Len(mem) /\ k \notin at + 1 .. at + n
      BY <1>1
    <2> QED
      BY <2>1, <1>3, <1>5
  <1>7. \A k \in 1 .. n : m[at + k] = s[k]
    <2> SUFFICES ASSUME NEW k \in 1 .. n PROVE m[at + k] = s[k]
      OBVIOUS
    <2>1. at + k \in 1 .. Len(mem) /\ at + k \in at + 1 .. at + n /\ (at + k) - at = k
      BY <1>1
    <2> QED
      BY <2>1, <1>3, <1>5
  <1>8. t \in Seq(0 .. 255) /\ Len(t) = n /\ \A k \in 1 .. n : t[k] = m[at + k]
    <2>1. PICK w \in Nat : w = n
      BY <1>1
    <2>2. at + w <= Len(m)
      BY <1>1, <1>5, <2>1
    <2>3. m \in Seq(0 .. 255)
      BY <1>5
    <2>4. /\ Slot(m, at, w) \in Seq(0 .. 255) /\ Len(Slot(m, at, w)) = w
          /\ \A k \in 1 .. w : Slot(m, at, w)[k] = m[at + k]
      BY <2>2, <2>3, Window
    <2> QED
      BY <2>1, <2>4
  <1> HIDE DEF t
  <1>9. t = s
    <2>1. \A k \in 1 .. n : t[k] = s[k]
      BY <1>7, <1>8
    <2> HIDE DEF n
    <2> QED
      BY <1>3, <1>8, <2>1, SeqEqual
  <1>10. ASSUME v < Pow2[f.bits]
         PROVE  Extracted(f, t) = v /\ m[at + 1] \div Pow2[8 - f.offset] = h
    <2>1. Extracted(f, s) = v
      BY <1>3, <1>4, <1>10, ExtractedFacts
    <2>2. m[at + 1] = s[1]
      <3>1. 1 \in 1 .. n
        BY <1>1
      <3> QED
        BY <1>7, <3>1
    <2> QED
      BY <1>3, <1>9, <1>10, <2>1, <2>2
  <1> QED
    BY <1>5, <1>6, <1>10 DEF h, s, t, m, old

\* Octets with the same first o bits have the same first bits of any smaller number.
LEMMA FewerBits ==
    ASSUME NEW x \in 0 .. 255, NEW y \in 0 .. 255, NEW o \in 0 .. 7, NEW p \in 0 .. 7, p >= 8 - o,
           x \div Pow2[8 - o] = y \div Pow2[8 - o]
    PROVE  x \div Pow2[p] = y \div Pow2[p]
  <1>1. 8 - o \in Nat /\ p - (8 - o) \in Nat /\ (8 - o) + (p - (8 - o)) = p /\ x \in Nat /\ y \in Nat
    OBVIOUS
  <1> DEFINE A == Pow2[8 - o]
             B == Pow2[p - (8 - o)]
  <1>2. Pow2[p] = A * B /\ A \in Nat \ {0} /\ B \in Nat \ {0}
    <2>1. Pow2[(8 - o) + (p - (8 - o))] = A * B /\ A \in Nat \ {0} /\ B \in Nat \ {0}
      BY <1>1, PowSum
    <2> QED
      BY <2>1, <1>1
  <1>3. x \div A = y \div A
    OBVIOUS
  <1> HIDE DEF A, B
  <1>4. (x \div A) \div B = x \div (A * B) /\ (y \div A) \div B = y \div (A * B)
    BY <1>1, <1>2, DivDiv
  <1> QED
    BY <1>2, <1>3, <1>4

\* The first c octets of two memories are the same, and the first o bits of the next.
SameInFront(mem, m, c, o) ==
    /\ Len(m) = Len(mem)
    /\ \A k \in 1 .. c : m[k] = mem[k]
    /\ m[c + 1] \div Pow2[8 - o] = mem[c + 1] \div Pow2[8 - o]

\* A field keeps its value when only bits behind it change.
LEMMA FieldKept ==
    ASSUME NEW f, BitField(f), NEW mem \in Seq(0 .. 255), NEW m \in Seq(0 .. 255),
           NEW at \in Nat, at + NumBytes(f) <= Len(mem), NEW c \in Nat, NEW o \in 0 .. 7,
           SameInFront(mem, m, c, o),
           \/ at + NumBytes(f) <= c
           \/ at + NumBytes(f) = c + 1 /\ Spare(f) >= 8 - o
    PROVE  Extracted(f, Slot(m, at, NumBytes(f)))
              = Extracted(f, Slot(mem, at, NumBytes(f)))
  <1> DEFINE n == NumBytes(f)
             p == Spare(f)
             s == Slot(mem, at, n)
             t == Slot(m, at, n)
  <1>1. Len(mem) \in Nat /\ n \in Nat \ {0} /\ p \in 0 .. 7 /\ at + n <= Len(mem) /\ at + n <= Len(m)
    <2>1. Len(mem) \in Nat /\ Len(m) = Len(mem)
      BY LenProperties DEF SameInFront
    <2> QED
      BY <2>1, FieldSizes
  <1>2. s \in Seq(0 .. 255) /\ Len(s) = n /\ \A k \in 1 .. n : s[k] = mem[at + k]
    <2>1. PICK w \in Nat : w = n
      BY <1>1
    <2>2. at + w <= Len(mem)
      BY <1>1, <2>1
    <2>3. /\ Slot(mem, at, w) \in Seq(0 .. 255) /\ Len(Slot(mem, at, w)) = w
          /\ \A k \in 1 .. w : Slot(mem, at, w)[k] = mem[at + k]
      BY <2>2, Window
    <2> QED
      BY <2>1, <2>3
  <1>3. t \in Seq(0 .. 255) /\ Len(t) = n /\ \A k \in 1 .. n : t[k] = m[at + k]
    <2>1. PICK w \in Nat : w = n
      BY <1>1
    <2>2. at + w <= Len(m)
      BY <1>1, <2>1
    <2>3. /\ Slot(m, at, w) \in Seq(0 .. 255) /\ Len(Slot(m, at, w)) = w
          /\ \A k \in 1 .. w : Slot(m, at, w)[k] = m[at + k]
      BY <2>2, Window
    <2> QED
      BY <2>1, <2>3
  <1>4. mem \in [1 .. Len(mem) -> 0 .. 255] /\ m \in [1 .. Len(mem) -> 0 .. 255]
    <2>1. mem \in [1 .. Len(mem) -> 0 .. 255] /\ m \in [1 .. Len(m) -> 0 .. 255]
      BY LenProperties
    <2> QED
      BY <2>1 DEF SameInFront
  <1>5. CASE at + n <= c
    <2>1. \A k \in 1 .. n : at + k \in 1 .. c
      BY <1>1, <1>5
    <2>2. \A k \in 1 .. n : m[at + k] = mem[at + k]
      BY <2>1 DEF SameInFront
    <2> HIDE DEF s, t
    <2>3. \A k \in 1 .. n : t[k] = s[k]
      BY <1>2, <1>3, <2>2
    <2> HIDE DEF n
    <2>4. t = s
      BY <1>2, <1>3, <2>3, SeqEqual
    <2> QED
      BY <2>4 DEF s, t, n
  <1>6. CASE at + n = c + 1 /\ p >= 8 - o
    <2>1. \A k \in 1 .. n - 1 : at + k \in 1 .. c /\ k \in 1 .. n
      BY <1>1, <1>6
    <2>2. \A k \in 1 .. n - 1 : m[at + k] = mem[at + k]
      BY <2>1 DEF SameInFront
    <2>3. n \in 1 .. n /\ at + n = c + 1 /\ c + 1 \in 1 .. Len(mem)
      BY <1>1, <1>6
    <2> HIDE DEF s, t
    <2>4. \A k \in 1 .. n - 1 : t[k] = s[k]
      BY <1>2, <1>3, <2>1, <2>2
    <2>5. t[n] = m[c + 1] /\ s[n] = mem[c + 1] /\ t[n] \in 0 .. 255 /\ s[n] \in 0 .. 255
      BY <1>2, <1>3, <1>4, <2>3
    <2>6. t[n] \div Pow2[p] = s[n] \div Pow2[p]
      <3>1. p >= 8 - o /\ p \in 0 .. 7
        BY <1>1, <1>6
      <3>2. PICK x \in 0 .. 255, y \in 0 .. 255 : x = t[n] /\ y = s[n]
        BY <2>5
      <3>3. x \div Pow2[8 - o] = y \div Pow2[8 - o]
        <4>1. x = m[c + 1] /\ y = mem[c + 1]
          BY <2>5, <3>2
        <4> QED
          BY <4>1 DEF SameInFront
      <3>4. x \div Pow2[p] = y \div Pow2[p]
        <4> HIDE DEF p
        <4> QED
          BY <3>1, <3>3, FewerBits
      <3> QED
        BY <3>2, <3>4
    <2>7. Extracted(f, t) = Extracted(f, s)
      BY <1>2, <1>3, <2>4, <2>6, ExtractedSame
    <2> QED
      BY <2>7 DEF s, t, n
  <1> QED
    BY <1>5, <1>6

\* What encoding a bit field comes to: it is written in the octets it touches, or
\* nothing is.
BitsWritten(v) ==
    LET k == Len(sent) + 1
        f == layout[k]
    IN /\ k \in 1 .. Len(layout) /\ v \in Nat
       /\ layout' = layout /\ got' = got /\ sent' = Append(sent, v)
       /\ \/ /\ First(k) + NumBytes(f) <= Len(octets)
             /\ octets' = Overlaid(octets, First(k), Placed(f, v, octets[First(k) + 1]))
             /\ cursor' = First(k) + AdvanceBits(f) /\ phase' = "encode"
          \/ /\ First(k) + NumBytes(f) > Len(octets)
             /\ octets' = octets /\ cursor' = cursor /\ phase' = "full"

LEMMA EncodesBits ==
    ASSUME OfBits, BitsType, CursorInPlace, Encode
    PROVE  \E v \in Nat : BitsWritten(v)
  <1> DEFINE k == Len(sent) + 1
             f == layout[k]
             n == NumBytes(f)
             room == Len(octets) - cursor
  <1>1. layout \in Layouts /\ octets \in Seq(0 .. 255) /\ Len(sent) \in Nat /\ Len(octets) \in Nat
    BY LenProperties DEF BitsType
  <1>2. Len(layout) \in Nat /\ k \in 1 .. Len(layout) /\ k - 1 = Len(sent)
    <2>1. Len(layout) \in Nat /\ Len(sent) < Len(layout)
      BY <1>1, LayoutFacts DEF Encode
    <2> QED
      BY <1>1, <2>1
  <1>3. BitField(f) /\ f.codec = "bits" /\ Values(f) \subseteq Nat
    BY <1>1, <1>2, LayoutFacts
  <1>4. First(k) \in Nat /\ cursor = First(k) /\ cursor \in 0 .. Len(octets) /\ room \in Nat
    <2>1. First(k) \in Nat
      BY <1>1, <1>2, FieldPlaces
    <2>2. cursor = BitsOf(layout, Len(sent)) \div 8 /\ cursor \in 0 .. Len(octets)
      BY DEF Encode, CursorInPlace, BitsType
    <2>3. cursor = First(k)
      BY <1>2, <2>2 DEF First
    <2> QED
      BY <1>1, <2>1, <2>2, <2>3
  <1>5. n \in Nat \ {0}
    <2> HIDE DEF f
    <2> QED
      BY <1>3, FieldSizes
  <1>6. PICK v \in Values(f) : Writes(f, v, Chunks(f, v, OctetAtCursor), Fitting(Chunks(f, v, OctetAtCursor), room))
    BY DEF Encode
  <1>7. UNCHANGED <<layout, got>> /\ phase = "encode"
    BY DEF Encode
  <1> DEFINE old == OctetAtCursor
             s == Placed(f, v, old)
  <1>8. old \in 0 .. 255 /\ (cursor < Len(octets) => old = octets[First(k) + 1])
    <2>1. octets \in [1 .. Len(octets) -> 0 .. 255]
      BY <1>1, LenProperties
    <2>2. ASSUME cursor < Len(octets) PROVE old = octets[First(k) + 1] /\ octets[First(k) + 1] \in 0 .. 255
      <3>1. First(k) + 1 \in 1 .. Len(octets)
        BY <1>1, <1>4, <2>2
      <3>2. old = octets[cursor + 1]
        BY <2>2 DEF OctetAtCursor
      <3> QED
        BY <1>4, <2>1, <3>1, <3>2
    <2>3. ASSUME ~(cursor < Len(octets)) PROVE old = 0
      BY <2>3 DEF OctetAtCursor
    <2> HIDE DEF old
    <2>4. CASE cursor < Len(octets)
      BY <2>2, <2>4
    <2>5. CASE ~(cursor < Len(octets))
      BY <2>3, <2>5
    <2> QED
      BY <2>4, <2>5
  <1>9. s \in Seq(0 .. 255) /\ Len(s) = n
    <2>1. v \in Nat
      BY <1>3, <1>6
    <2> HIDE DEF f, old
    <2> QED
      BY <1>3, <1>8, <2>1, PlacedFacts
  <1>10. Chunks(f, v, old) = <<s>>
    <2> HIDE DEF old
    <2> QED
      BY <1>3 DEF Chunks
  <1> HIDE DEF s, old
  <1>11. Fitting(<<s>>, room) = IF n <= room THEN <<s>> ELSE <<>>
    <2> HIDE DEF n, room
    <2> QED
      BY <1>4, <1>9, FittingOne
  <1>12. Writes(f, v, <<s>>, Fitting(<<s>>, room))
    BY <1>6, <1>10 DEF old
  <1> HIDE DEF room
  <1>13. FlattenSeq(<<s>>) = s /\ FlattenSeq(<<>>) = <<>> /\ Len(<<s>>) = 1 /\ Len(<<>>) = 0
    <2>1. Len(<<s>>) = 1 /\ Len(<<>>) = 0
      OBVIOUS
    <2>2. FlattenSeq(<<s>>) = s /\ FlattenSeq(<<>>) = <<>>
      BY FlattenOne
    <2> QED
      BY <2>1, <2>2
  <1>14. CASE n <= room
    <2>1. Fitting(<<s>>, room) = <<s>>
      BY <1>11, <1>14
    <2> HIDE DEF f, n
    <2>2. Writes(f, v, <<s>>, <<s>>)
      BY <1>12, <2>1
    <2>3. Advance(f, Len(s)) = AdvanceBits(f) /\ Writable(f, v)
      BY <1>3 DEF Advance, Writable
    <2>4. sent' = Append(sent, v) /\ octets' = Overlaid(octets, cursor, s) /\ cursor' = cursor + AdvanceBits(f) /\ phase' = phase
      BY <1>13, <2>2, <2>3 DEF Writes
    <2>5. First(k) + n <= Len(octets) /\ cursor < Len(octets)
      BY <1>1, <1>4, <1>5, <1>14 DEF room
    <2>6. s = Placed(f, v, octets[First(k) + 1])
      BY <1>8, <2>5 DEF s
    <2>7. octets' = Overlaid(octets, First(k), Placed(f, v, octets[First(k) + 1])) /\ cursor' = First(k) + AdvanceBits(f)
      BY <1>4, <2>4, <2>6
    <2>8. v \in Nat
      BY <1>3, <1>6
    <2> QED
      BY <1>2, <1>7, <2>4, <2>5, <2>7, <2>8 DEF BitsWritten, f, n
  <1>15. CASE ~(n <= room)
    <2>1. Fitting(<<s>>, room) = <<>>
      BY <1>11, <1>15
    <2> HIDE DEF f, n
    <2>2. Writes(f, v, <<s>>, <<>>)
      BY <1>12, <2>1
    <2>3. sent' = Append(sent, v) /\ octets' = Overlaid(octets, cursor, <<>>) /\ cursor' = cursor + 0 /\ phase' = "full"
      BY <1>13, <2>2 DEF Writes
    <2>4. Overlaid(octets, cursor, <<>>) = octets
      <3>1. <<>> \in Seq(0 .. 255) /\ cursor \in Nat
        BY <1>4
      <3> QED
        BY <1>1, <3>1, OverlaidFacts
    <2>5. cursor + 0 = cursor /\ First(k) + n > Len(octets)
      BY <1>1, <1>4, <1>5, <1>15 DEF room
    <2>6. v \in Nat
      BY <1>3, <1>6
    <2> QED
      BY <1>2, <1>7, <2>3, <2>4, <2>5, <2>6 DEF BitsWritten, f, n
  <1> QED
    BY <1>14, <1>15

\* Where the next field is, and what it is.
LEMMA NextField ==
    ASSUME OfBits, BitsType, NEW v, BitsWritten(v)
    PROVE  LET k == Len(sent) + 1
           IN /\ k \in 1 .. Len(layout) /\ Len(sent) \in Nat /\ Len(layout) \in Nat /\ k - 1 = Len(sent)
              /\ BitField(layout[k]) /\ NumBytes(layout[k]) \in Nat \ {0}
              /\ layout[k].offset \in 0 .. 7 /\ First(k) \in Nat /\ Len(octets) \in Nat
              /\ sent' \in Seq(Nat) /\ Len(sent') = k /\ sent'[k] = v /\ v \in Nat
              /\ \A i \in 1 .. Len(sent) : sent'[i] = sent[i]
  <1> DEFINE k == Len(sent) + 1
  <1>1. Len(sent) \in Nat /\ Len(octets) \in Nat /\ layout \in Layouts /\ k \in 1 .. Len(layout) /\ k - 1 = Len(sent)
    BY LenProperties DEF BitsType, BitsWritten
  <1>2. BitField(layout[k]) /\ Len(layout) \in Nat
    BY <1>1, LayoutFacts
  <1>3. NumBytes(layout[k]) \in Nat \ {0} /\ layout[k].offset \in 0 .. 7
    BY <1>2, FieldSizes DEF BitField
  <1>4. First(k) \in Nat
    BY <1>1, FieldPlaces
  <1>5. sent \in Seq(Nat) /\ v \in Nat /\ sent' = Append(sent, v)
    BY DEF BitsType, BitsWritten
  <1>6. sent' \in Seq(Nat) /\ Len(sent') = k /\ sent'[k] = v /\ \A i \in 1 .. Len(sent) : sent'[i] = sent[i]
    BY <1>5, AppendProperties
  <1> QED
    BY <1>1, <1>2, <1>3, <1>4, <1>5, <1>6

\* Writing a field keeps the memory in order, and the bits in front when it fits.
LEMMA WrittenInFront ==
    ASSUME OfBits, BitsType, NEW v, BitsWritten(v)
    PROVE  LET k == Len(sent) + 1
           IN /\ octets' \in Seq(0 .. 255) /\ Len(octets') = Len(octets)
              /\ v < Pow2[layout[k].bits] => SameInFront(octets, octets', First(k), layout[k].offset)
              /\ (phase' # "full" /\ v < Pow2[layout[k].bits])
                    => Extracted(layout[k], Slot(octets', First(k), NumBytes(layout[k]))) = v
  <1> DEFINE k == Len(sent) + 1
             f == layout[k]
             n == NumBytes(f)
  <1>0. PICK at \in Nat : at = First(k)
    BY NextField
  <1>1. BitField(f) /\ n \in Nat \ {0} /\ octets \in Seq(0 .. 255) /\ v \in Nat
    BY NextField DEF BitsType
  <1>2. CASE at + n > Len(octets) /\ octets' = octets /\ phase' = "full"
    BY <1>0, <1>1, <1>2 DEF SameInFront
  <1>3. CASE at + n <= Len(octets) /\ octets' = Overlaid(octets, at, Placed(f, v, octets[at + 1]))
    <2> DEFINE m == Overlaid(octets, at, Placed(f, v, octets[at + 1]))
    <2>0. BitField(f) /\ v \in Nat /\ octets \in Seq(0 .. 255) /\ at + NumBytes(f) <= Len(octets)
      BY <1>1, <1>3
    <2> HIDE DEF f
    <2>1. /\ m \in Seq(0 .. 255) /\ Len(m) = Len(octets)
          /\ \A j \in 1 .. at : m[j] = octets[j]
          /\ v < Pow2[f.bits] =>
                /\ Extracted(f, Slot(m, at, n)) = v
                /\ m[at + 1] \div Pow2[8 - f.offset] = octets[at + 1] \div Pow2[8 - f.offset]
      BY <2>0, FieldWritten, SMTT(30)
    <2>2. octets' = m
      BY <1>3
    <2> HIDE DEF m
    <2>3. v < Pow2[f.bits] => SameInFront(octets, octets', at, f.offset)
      BY <2>1, <2>2 DEF SameInFront
    <2> QED
      BY <1>0, <1>3, <2>1, <2>2, <2>3 DEF f
  <1>4. \/ at + n > Len(octets) /\ octets' = octets /\ phase' = "full"
        \/ at + n <= Len(octets) /\ octets' = Overlaid(octets, at, Placed(f, v, octets[at + 1]))
    BY <1>0 DEF BitsWritten
  <1> QED
    BY <1>2, <1>3, <1>4

LEMMA EncodeKeepsTypes ==
    ASSUME OfBits, BitsType, CursorInPlace, phase = "encode", NEW v, BitsWritten(v)
    PROVE  BitsType' /\ CursorInPlace' /\ ReadAsSent'
  <1> DEFINE k == Len(sent) + 1
             f == layout[k]
             n == NumBytes(f)
             a == AdvanceBits(f)
  <1>1. /\ k \in 1 .. Len(layout) /\ Len(layout) \in Nat /\ Len(sent') = k /\ BitField(f)
        /\ sent' \in Seq(Nat) /\ n \in Nat /\ First(k) \in Nat /\ Len(octets) \in Nat
    BY NextField
  <1>2. octets' \in Seq(0 .. 255) /\ Len(octets') = Len(octets)
    BY WrittenInFront
  <1>3. layout' = layout /\ got' = got /\ got = <<>>
    BY DEF BitsWritten, CursorInPlace
  <1>4. a \in 0 .. n
    <2> HIDE DEF f
    <2> QED
      BY <1>1, FieldSizes
  <1>5. BitsOf(layout, k) \div 8 = First(k) + a
    BY <1>1, FieldPlaces DEF BitsType
  <1>6. \/ First(k) + n <= Len(octets) /\ cursor' = First(k) + a /\ phase' = "encode"
        \/ cursor' = cursor /\ phase' = "full"
    BY DEF BitsWritten
  <1> HIDE DEF f, n, a
  <1>7. cursor' \in 0 .. Len(octets')
    BY <1>1, <1>2, <1>4, <1>6, SMTT(30) DEF BitsType
  <1>8. BitsType'
    <2>1. layout' \in Layouts /\ got' \in Seq(Nat) /\ Len(got') <= Len(layout')
      BY <1>3 DEF BitsType
    <2>2. Len(sent') <= Len(layout')
      BY <1>1, <1>3
    <2> QED
      BY <1>1, <1>2, <1>7, <2>1, <2>2 DEF BitsType
  <1>9. CursorInPlace'
    <2>1. sent' # <<>>
      BY <1>1
    <2>2. CASE cursor' = First(k) + a /\ phase' = "encode"
      <3>1. cursor' = BitsOf(layout', Len(sent')) \div 8
        BY <1>1, <1>3, <1>5, <2>2
      <3> QED
        BY <1>3, <2>2, <3>1 DEF CursorInPlace
    <2>3. CASE phase' = "full"
      BY <1>3, <2>1, <2>3 DEF CursorInPlace
    <2> QED
      BY <1>6, <2>2, <2>3
  <1>10. ReadAsSent'
    BY <1>6 DEF ReadAsSent
  <1> QED
    BY <1>8, <1>9, <1>10

LEMMA EncodeKeepsValues ==
    ASSUME OfBits, BitsType, ValuesInPlace, phase = "encode", NEW v, BitsWritten(v)
    PROVE  ValuesInPlace'
  <1>0. PICK k \in Nat : k = Len(sent) + 1
    BY NextField
  <1> DEFINE o == layout[k].offset
  <1>1. /\ k \in 1 .. Len(layout) /\ Len(sent) \in Nat /\ Len(layout) \in Nat /\ k - 1 = Len(sent)
        /\ First(k) \in Nat /\ o \in 0 .. 7 /\ BitField(layout[k])
        /\ Len(sent') = k /\ sent'[k] = v /\ \A i \in 1 .. Len(sent) : sent'[i] = sent[i]
    BY <1>0, NextField
  <1>2. layout \in Layouts /\ layout' = layout /\ octets \in Seq(0 .. 255)
    BY DEF BitsType, BitsWritten
  <1>3. /\ octets' \in Seq(0 .. 255) /\ Len(octets') = Len(octets)
        /\ v < Pow2[layout[k].bits] => SameInFront(octets, octets', First(k), o)
        /\ (phase' # "full" /\ v < Pow2[layout[k].bits])
              => Extracted(layout[k], Slot(octets', First(k), NumBytes(layout[k]))) = v
    BY <1>0, WrittenInFront
  <1>4. \A i : First(i)' = First(i)
    BY <1>2 DEF First
  <1>5. \A i : Touched(i)' = Slot(octets', First(i), NumBytes(layout[i]))
    BY <1>2, <1>4 DEF Touched
  <1>6. Written = k - 1
    BY <1>1 DEF Written
  <1>7. \A i \in 1 .. k - 1 : FitsBits(i)' <=> FitsBits(i)
    BY <1>1, <1>2 DEF FitsBits
  <1>8. FitsBits(k)' <=> v < Pow2[layout[k].bits]
    BY <1>1, <1>2 DEF FitsBits
  <1> HIDE DEF o
  <1>9. ASSUME NEW i \in 1 .. k - 1
        PROVE  First(i)' + NumBytes(layout'[i]) <= Len(octets')
    BY <1>2, <1>3, <1>4, <1>6, <1>9 DEF ValuesInPlace
  <1>10. CASE phase' = "full"
    <2>1. octets' = octets
      BY <1>10 DEF BitsWritten
    <2>2. Written' = k - 1
      BY <1>1, <1>10 DEF Written
    <2>3. ASSUME NEW i \in 1 .. k - 1, \A j \in i .. k - 1 : FitsBits(j)'
          PROVE  Extracted(layout'[i], Touched(i)') = sent'[i]
      <3>1. \A j \in i .. k - 1 : j \in 1 .. k - 1
        OBVIOUS
      <3>2. \A j \in i .. k - 1 : FitsBits(j)
        BY <1>7, <2>3, <3>1
      <3>3. Extracted(layout[i], Touched(i)) = sent[i]
        BY <1>6, <3>2 DEF ValuesInPlace
      <3>4. Touched(i)' = Touched(i) /\ sent'[i] = sent[i]
        BY <1>1, <1>5, <2>1 DEF Touched
      <3> QED
        BY <1>2, <3>3, <3>4
    <2> QED
      BY <1>9, <2>2, <2>3 DEF ValuesInPlace
  <1>11. CASE phase' # "full"
    <2>1. First(k) + NumBytes(layout[k]) <= Len(octets)
      BY <1>0, <1>11 DEF BitsWritten
    <2>2. Written' = k
      BY <1>1, <1>11 DEF Written
    <2>3. ASSUME FitsBits(k)' PROVE Extracted(layout'[k], Touched(k)') = sent'[k]
      BY <1>1, <1>2, <1>3, <1>5, <1>8, <1>11, <2>3
    <2>4. ASSUME NEW i \in 1 .. k - 1, \A j \in i .. k : FitsBits(j)'
          PROVE  Extracted(layout'[i], Touched(i)') = sent'[i]
      <3>1. k \in i .. k /\ i \in 1 .. Len(layout) /\ i \in 1 .. Len(sent) /\ \A j \in i .. k - 1 : j \in 1 .. k - 1 /\ j \in i .. k
        BY <1>1
      <3>2. \A j \in i .. k - 1 : FitsBits(j)
        BY <1>7, <2>4, <3>1
      <3>3. First(i) + NumBytes(layout[i]) <= Len(octets) /\ Extracted(layout[i], Touched(i)) = sent[i]
        BY <1>6, <3>2 DEF ValuesInPlace
      <3>4. SameInFront(octets, octets', First(k), o)
        BY <1>3, <1>8, <2>4, <3>1
      <3>5. First(i) \in Nat /\ BitField(layout[i])
        BY <1>2, <3>1, FieldPlaces, LayoutFacts
      <3>6. \/ First(i) + NumBytes(layout[i]) <= First(k)
            \/ First(i) + NumBytes(layout[i]) = First(k) + 1 /\ Spare(layout[i]) >= 8 - o
        BY <1>1, <1>2, Behind DEF o
      <3>7. Extracted(layout[i], Slot(octets', First(i), NumBytes(layout[i])))
               = Extracted(layout[i], Slot(octets, First(i), NumBytes(layout[i])))
        <4> HIDE DEF o
        <4> QED
          BY <1>1, <1>2, <1>3, <3>3, <3>4, <3>5, <3>6, FieldKept, SMTT(30)
      <3> QED
        BY <1>1, <1>2, <1>5, <3>1, <3>3, <3>7 DEF Touched
    <2>5. ASSUME NEW i \in 1 .. k
          PROVE  /\ First(i)' + NumBytes(layout'[i]) <= Len(octets')
                 /\ (\A j \in i .. k : FitsBits(j)') => Extracted(layout'[i], Touched(i)') = sent'[i]
      <3>1. CASE i = k
        <4>1. First(k)' + NumBytes(layout'[k]) <= Len(octets')
          BY <1>2, <1>3, <1>4, <2>1
        <4>2. k \in k .. k
          BY <1>1
        <4> QED
          BY <2>3, <3>1, <4>1, <4>2
      <3>2. CASE i # k
        <4>1. i \in 1 .. k - 1
          BY <1>1, <3>2
        <4> QED
          BY <1>9, <2>4, <4>1
      <3> QED
        BY <3>1, <3>2
    <2> QED
      BY <2>2, <2>5 DEF ValuesInPlace
  <1> QED
    BY <1>10, <1>11

\* A value read is a number.
LEMMA ExtractedType ==
    ASSUME NEW f, BitField(f), NEW s \in Seq(0 .. 255)
    PROVE  Extracted(f, s) \in Nat
  <1> DEFINE g == GetBytes(s)
             A == Pow2[8 * NumBytes(f) - f.offset]
             B == Pow2[Spare(f)]
  <1>1. g \in Nat
    <2>1. Len(s) \in Nat
      BY LenProperties
    <2>2. 8 * Len(s) \in Nat
      BY <2>1
    <2>3. Pow2[8 * Len(s)] \in Nat
      BY <2>2, PowFacts
    <2>4. g \in 0 .. Pow2[8 * Len(s)] - 1
      BY OctetsOfNumber
    <2> QED
      BY <2>3, <2>4
  <1>2. 8 * NumBytes(f) - f.offset \in Nat /\ Spare(f) \in Nat
    <2> HIDE DEF g, A, B
    <2> DEFINE w == NumBytes(f)
               o == f.offset
               b == f.bits
               p == Spare(f)
    <2>1. o \in 0 .. 7 /\ b \in Nat
      BY DEF BitField
    <2>2. w \in Nat /\ p \in 0 .. 7 /\ 8 * w = o + b + p
      BY FieldSizes
    <2> HIDE DEF w, o, b, p
    <2>3. 8 * w - o \in Nat /\ p \in Nat
      BY <2>1, <2>2
    <2> QED
      BY <2>3 DEF w, o, p
  <1>3. A \in Nat \ {0} /\ B \in Nat \ {0}
    BY <1>2, PowFacts
  <1>4. Extracted(f, s) = (g % A) \div B
    BY DEF Extracted
  <1> HIDE DEF g, A, B
  <1>5. g % A \in 0 .. A - 1
    BY <1>1, <1>3, DivNat
  <1>6. g % A \in Nat
    BY <1>3, <1>5
  <1>7. (g % A) \div B \in Nat
    BY <1>3, <1>6, DivNat
  <1> QED
    BY <1>4, <1>7

\* What decoding a bit field comes to: the value in the octets it touches, or an
\* overflow when they are not all there.
BitsRead ==
    LET k == Len(got) + 1
        f == layout[k]
    IN /\ k \in 1 .. Len(layout) /\ phase = "decode"
       /\ layout' = layout /\ octets' = octets /\ sent' = sent
       /\ \/ /\ First(k) + NumBytes(f) <= Len(octets)
             /\ got' = Append(got, Extracted(f, Touched(k)))
             /\ cursor' = First(k) + AdvanceBits(f) /\ phase' = "decode"
          \/ /\ First(k) + NumBytes(f) > Len(octets)
             /\ got' = got /\ cursor' = cursor /\ phase' = "overflow"

LEMMA DecodesBits ==
    ASSUME OfBits, BitsType, CursorInPlace, Decode
    PROVE  BitsRead
  <1>0. PICK k \in Nat : k = Len(got) + 1
    BY LenProperties DEF BitsType
  <1> DEFINE f == layout[k]
             n == NumBytes(f)
             s == SubSeq(octets, cursor + 1, Len(octets))
  <1>1. layout \in Layouts /\ octets \in Seq(0 .. 255) /\ Len(got) \in Nat /\ Len(octets) \in Nat
    BY LenProperties DEF BitsType
  <1>2. Len(layout) \in Nat /\ k \in 1 .. Len(layout) /\ k - 1 = Len(got)
    <2>1. Len(layout) \in Nat /\ Len(got) < Len(layout)
      BY <1>1, LayoutFacts DEF Decode
    <2> QED
      BY <1>0, <1>1, <2>1
  <1>3. BitField(f) /\ f.codec = "bits"
    BY <1>1, <1>2, LayoutFacts
  <1>4. First(k) \in Nat /\ cursor = First(k) /\ cursor \in 0 .. Len(octets)
    <2>1. First(k) \in Nat
      BY <1>1, <1>2, FieldPlaces
    <2>2. cursor = BitsOf(layout, Len(got)) \div 8 /\ cursor \in 0 .. Len(octets)
      BY DEF Decode, CursorInPlace, BitsType
    <2>3. cursor = First(k)
      BY <1>2, <2>2 DEF First
    <2> QED
      BY <1>1, <2>1, <2>2, <2>3
  <1>5. PICK wraps \in BOOLEAN :
            LET end == Decoded(f, s, wraps)
            IN IF end.fault = ""
               THEN got' = Append(got, end.value) /\ cursor' = cursor + end.used /\ UNCHANGED phase
               ELSE phase' = end.fault /\ UNCHANGED <<got, cursor>>
    BY <1>0 DEF Decode
  <1>6. UNCHANGED <<layout, octets, sent>> /\ phase = "decode"
    BY DEF Decode
  <1>7. Len(s) = Len(octets) - First(k)
    <2>1. PICK c \in Nat : c = cursor
      BY <1>4
    <2>2. c <= Len(octets) /\ c + 0 <= Len(octets)
      BY <1>1, <1>4, <2>1
    <2>3. Len(SubSeq(octets, c + 1, Len(octets))) = Len(octets) - c
      BY <1>1, <2>2, InHand
    <2> QED
      BY <1>4, <2>1, <2>3
  <1>8. n \in Nat \ {0}
    <2> HIDE DEF f
    <2> QED
      BY <1>3, FieldSizes
  <1>9. Decoded(f, s, wraps) = IF Len(s) < n THEN Bad("overflow")
                               ELSE Good(AdvanceBits(f), Extracted(f, SubSeq(s, 1, n)))
    <2> HIDE DEF f, s
    <2> QED
      BY <1>3 DEF Decoded
  <1>10. CASE Len(s) < n
    <2>1. Decoded(f, s, wraps) = [fault |-> "overflow", used |-> 0, value |-> 0]
      <3> HIDE DEF f, s, n
      <3> QED
        BY <1>9, <1>10 DEF Bad
    <2> HIDE DEF f, s, n
    <2>2. phase' = "overflow" /\ got' = got /\ cursor' = cursor
      BY <1>5, <2>1
    <2>3. First(k) + n > Len(octets)
      BY <1>1, <1>4, <1>7, <1>8, <1>10
    <2> QED
      BY <1>0, <1>2, <1>6, <2>2, <2>3 DEF BitsRead, f, n
  <1>11. CASE ~(Len(s) < n)
    <2>1. First(k) + n <= Len(octets)
      <3> HIDE DEF f, s, n
      <3> QED
        BY <1>1, <1>4, <1>7, <1>8, <1>11
    <2>2. SubSeq(s, 1, n) = Touched(k)
      <3>1. PICK c \in Nat, w \in Nat : c = First(k) /\ w = n
        BY <1>4, <1>8
      <3>2. c + w <= Len(octets)
        BY <2>1, <3>1
      <3>3. SubSeq(SubSeq(octets, c + 1, Len(octets)), 1, w) = Slot(octets, c, w)
        BY <1>1, <3>2, InHand
      <3> QED
        BY <1>4, <3>1, <3>3 DEF Touched
    <2>3. Decoded(f, s, wraps) = Good(AdvanceBits(f), Extracted(f, Touched(k)))
      <3> HIDE DEF f, s, n
      <3> QED
        BY <1>9, <1>11, <2>2
    <2> HIDE DEF f, s, n
    <2>4. phase' = "decode" /\ got' = Append(got, Extracted(f, Touched(k))) /\ cursor' = First(k) + AdvanceBits(f)
      <3> DEFINE end == Decoded(f, s, wraps)
      <3>1. end.fault = "" /\ end.used = AdvanceBits(f) /\ end.value = Extracted(f, Touched(k))
        <4>1. \A u, x : Good(u, x).fault = "" /\ Good(u, x).used = u /\ Good(u, x).value = x
          BY DEF Good
        <4>2. end = Good(AdvanceBits(f), Extracted(f, Touched(k)))
          BY <2>3
        <4> HIDE DEF end
        <4> QED
          BY <4>1, <4>2
      <3>2. got' = Append(got, end.value) /\ cursor' = cursor + end.used /\ UNCHANGED phase
        BY <1>5, <3>1
      <3> HIDE DEF end
      <3> QED
        BY <1>4, <1>6, <3>1, <3>2
    <2> QED
      BY <1>0, <1>2, <1>6, <2>1, <2>4 DEF BitsRead, f, n
  <1> QED
    BY <1>10, <1>11

LEMMA DecodeKeeps ==
    ASSUME OfBits, BitsType, CursorInPlace, ValuesInPlace, ReadAsSent, BitsRead
    PROVE  BitsType' /\ CursorInPlace' /\ ValuesInPlace' /\ ReadAsSent'
  <1>0. PICK k \in Nat : k = Len(got) + 1
    BY LenProperties DEF BitsType
  <1> DEFINE f == layout[k]
             n == NumBytes(f)
             a == AdvanceBits(f)
             v == Extracted(f, Touched(k))
  <1>1. /\ layout \in Layouts /\ octets \in Seq(0 .. 255) /\ Len(got) \in Nat /\ Len(octets) \in Nat
        /\ k \in 1 .. Len(layout) /\ k - 1 = Len(got) /\ got \in Seq(Nat) /\ sent \in Seq(Nat) /\ Len(sent) \in Nat
    BY <1>0, LenProperties DEF BitsType, BitsRead
  <1>2. BitField(f) /\ Len(layout) \in Nat /\ First(k) \in Nat /\ BitsOf(layout, k) \div 8 = First(k) + a
    BY <1>1, LayoutFacts, FieldPlaces
  <1>3. n \in Nat /\ a \in 0 .. n
    <2> HIDE DEF f
    <2> QED
      BY <1>2, FieldSizes
  <1>4. /\ layout' = layout /\ octets' = octets /\ sent' = sent /\ phase = "decode"
        /\ \/ First(k) + n <= Len(octets) /\ got' = Append(got, v) /\ cursor' = First(k) + a /\ phase' = "decode"
           \/ First(k) + n > Len(octets) /\ got' = got /\ cursor' = cursor /\ phase' = "overflow"
    BY <1>0 DEF BitsRead
  <1>5. ValuesInPlace'
    <2>1. Written' = Written /\ \A i : First(i)' = First(i) /\ Touched(i)' = Touched(i) /\ (FitsBits(i)' <=> FitsBits(i))
      BY <1>4 DEF Written, First, Touched, FitsBits
    <2> QED
      BY <1>4, <2>1 DEF ValuesInPlace
  <1>6. CASE First(k) + n > Len(octets) /\ got' = got /\ cursor' = cursor /\ phase' = "overflow"
    <2>1. sent = <<>>
      <3>1. ASSUME sent # <<>> PROVE FALSE
        <4>1. Written = Len(layout)
          BY <1>4, <3>1 DEF Written, CursorInPlace
        <4>2. k \in 1 .. Written
          BY <1>1, <4>1
        <4>3. First(k) + n <= Len(octets)
          BY <4>2 DEF ValuesInPlace
        <4> HIDE DEF n
        <4> QED
          BY <1>1, <1>2, <1>3, <1>6, <4>3
      <3> QED
        BY <3>1
    <2>2. BitsType'
      BY <1>4, <1>6 DEF BitsType
    <2>3. CursorInPlace' /\ ReadAsSent'
      BY <1>4, <1>6, <2>1 DEF CursorInPlace, ReadAsSent
    <2> QED
      BY <1>5, <2>2, <2>3
  <1>7. CASE First(k) + n <= Len(octets) /\ got' = Append(got, v) /\ cursor' = First(k) + a /\ phase' = "decode"
    <2>1. v \in Nat
      <3>1. PICK c \in Nat, w \in Nat : c = First(k) /\ w = n
        BY <1>2, <1>3
      <3>2. c + w <= Len(octets)
        BY <1>7, <3>1
      <3>3. Slot(octets, c, w) \in Seq(0 .. 255)
        BY <1>1, <3>2, Window
      <3>4. Touched(k) \in Seq(0 .. 255)
        BY <3>1, <3>3 DEF Touched
      <3> HIDE DEF f
      <3> QED
        BY <1>2, <3>4, ExtractedType
    <2> HIDE DEF v
    <2>2. /\ got' \in Seq(Nat) /\ Len(got') = k /\ got'[k] = v
          /\ \A i \in 1 .. Len(got) : got'[i] = got[i]
      BY <1>0, <1>1, <1>7, <2>1, AppendProperties
    <2>3. BitsType'
      <3>1. cursor' \in 0 .. Len(octets')
        <4> HIDE DEF n, a
        <4> QED
          BY <1>1, <1>2, <1>3, <1>4, <1>7
      <3>2. Len(got') <= Len(layout') /\ Len(sent') <= Len(layout')
        BY <1>1, <1>2, <1>4, <2>2 DEF BitsType
      <3> QED
        BY <1>1, <1>4, <2>2, <3>1, <3>2 DEF BitsType
    <2>4. CursorInPlace'
      <3>1. cursor' = BitsOf(layout', Len(got')) \div 8
        BY <1>2, <1>4, <1>7, <2>2
      <3>2. sent' # <<>> => Len(sent') = Len(layout')
        BY <1>4 DEF CursorInPlace
      <3> QED
        BY <1>7, <3>1, <3>2 DEF CursorInPlace
    <2>5. ReadAsSent'
      <3> SUFFICES ASSUME sent # <<>>, \A i \in 1 .. Len(sent) : FitsBits(i)', NEW i \in 1 .. k
                   PROVE  got'[i] = sent[i]
        BY <1>4, <2>2 DEF ReadAsSent
      <3>1. \A j \in 1 .. Len(sent) : FitsBits(j)
        BY <1>4 DEF FitsBits
      <3>2. CASE i = k
        <4>1. Written = Len(layout) /\ Len(sent) = Len(layout)
          BY <1>4 DEF Written, CursorInPlace
        <4>2. k \in 1 .. Written /\ \A j \in k .. Written : j \in 1 .. Len(sent)
          BY <1>1, <1>2, <4>1
        <4>3. v = sent[k]
          BY <3>1, <4>2 DEF ValuesInPlace, v
        <4> QED
          BY <2>2, <3>2, <4>3
      <3>3. CASE i # k
        <4>1. i \in 1 .. Len(got)
          BY <1>1, <3>3
        <4>2. got[i] = sent[i]
          BY <1>4, <3>1, <4>1 DEF ReadAsSent
        <4> QED
          BY <2>2, <4>1, <4>2
      <3> QED
        BY <3>2, <3>3
    <2> QED
      BY <1>5, <2>3, <2>4, <2>5
  <1> QED
    BY <1>4, <1>6, <1>7

-----------------------------------------------------------------------------
(* The bits of the memory, one by one: where the properties look for a field. *)

LEMMA SumsUnique ==
    ASSUME NEW n \in Nat, NEW m \in Nat, NEW d \in [1 .. n -> Nat],
           NEW e, Sums(n, m, d, e), NEW g, Sums(n, m, d, g)
    PROVE  g[n] = e[n]
  <1> DEFINE T == {k \in 0 .. n : g[k] # e[k]}
  <1>1. ASSUME T # {} PROVE FALSE
    <2>1. T \subseteq Nat
      OBVIOUS
    <2> HIDE DEF T
    <2>2. PICK k \in T : \A j \in T : k <= j
      BY <1>1, <2>1, LeastElement
    <2> USE DEF T
    <2>3. k \in 0 .. n /\ g[k] # e[k] /\ k \in Nat
      BY <2>1, <2>2
    <2>4. k # 0
      BY <2>3 DEF Sums
    <2>5. k \in 1 .. n /\ k - 1 \in 0 .. n /\ ~(k <= k - 1)
      BY <2>3, <2>4
    <2>6. k - 1 \notin T
      BY <2>2, <2>5
    <2>7. g[k - 1] = e[k - 1]
      BY <2>5, <2>6
    <2>8. g[k] = m * g[k - 1] + d[k] /\ e[k] = m * e[k - 1] + d[k]
      BY <2>5 DEF Sums
    <2> QED
      BY <2>3, <2>7, <2>8
  <1>2. n \in 0 .. n
    OBVIOUS
  <1> QED
    BY <1>1, <1>2

\* Taking one more bit of a number in.
LEMMA BitByBit ==
    ASSUME NEW x \in Nat, NEW j \in Nat, NEW k \in Nat
    PROVE  (x \div Pow2[j]) % Pow2[k + 1] = 2 * ((x \div Pow2[j + 1]) % Pow2[k]) + BitAt(x, j)
  <1> DEFINE y == x \div Pow2[j]
             h == x \div Pow2[j + 1]
             b == BitAt(x, j)
             P == Pow2[k]
             z == y % (P * 2)
  <1>1. b \in {0, 1} /\ y \in Nat /\ y = 2 * h + b
    BY BitAtFacts
  <1>2. h \in Nat
    <2>1. j + 1 \in Nat
      OBVIOUS
    <2> QED
      BY <2>1, BitAtFacts
  <1>3. P \in Nat \ {0} /\ Pow2[k + 1] = P * 2
    <2>1. P \in Nat \ {0} /\ Pow2[k + 1] = 2 * P
      BY PowFacts
    <2> HIDE DEF P
    <2> QED
      BY <2>1
  <1> HIDE DEF y, h, b, P
  <1>4. y \div 2 = h /\ y % 2 = b
    BY <1>1, <1>2
  <1>5. 2 \in Nat \ {0} /\ z \div 2 = (y \div 2) % P /\ z % 2 = y % 2
    <2>1. 2 \in Nat \ {0}
      OBVIOUS
    <2> QED
      BY <1>1, <1>3, <2>1, ModDiv, ZenonT(30)
  <1>6. z \in Nat
    <2> DEFINE c == P * 2
    <2>1. c \in Nat \ {0}
      BY <1>3
    <2> HIDE DEF c
    <2>2. y % c \in 0 .. c - 1
      BY <1>1, <2>1, DivNat
    <2>3. y % c \in Nat
      BY <2>1, <2>2
    <2> QED
      BY <2>3 DEF c
  <1> HIDE DEF z
  <1>7. z = 2 * (z \div 2) + (z % 2)
    BY <1>6
  <1>8. z = 2 * (h % P) + b
    BY <1>4, <1>5, <1>7
  <1> QED
    BY <1>3, <1>8 DEF y, h, b, P, z

\* A bit of an octet is a bit of the number that the octets are.
LEMMA BitInOctet ==
    ASSUME NEW s \in Seq(0 .. 255), NEW q \in 0 .. Len(s) - 1, NEW r \in 0 .. 7
    PROVE  (s[q + 1] \div Pow2[7 - r]) % 2 = BitAt(GetBytes(s), 8 * (Len(s) - (q + 1)) + (7 - r))
  <1> DEFINE N == GetBytes(s)
             w == 8 * (Len(s) - (q + 1))
             u == 7 - r
             A == Pow2[w]
             B == Pow2[u]
             C == Pow2[r]
             y == N \div A
  <1>1. Len(s) \in Nat /\ w \in Nat /\ u \in Nat /\ r \in Nat /\ q + 1 \in 1 .. Len(s) /\ 8 * Len(s) \in Nat
    BY LenProperties
  <1>2. N \in Nat
    <2>1. Pow2[8 * Len(s)] \in Nat
      BY <1>1, PowFacts
    <2>2. N \in 0 .. Pow2[8 * Len(s)] - 1
      BY OctetsOfNumber
    <2> QED
      BY <2>1, <2>2
  <1>3. s[q + 1] = y % 256
    BY <1>1, OctetsOfNumber
  <1>4. A \in Nat \ {0} /\ B \in Nat \ {0} /\ C \in Nat \ {0} /\ Pow2[w + u] = A * B
    <2> HIDE DEF w, u
    <2> QED
      BY <1>1, PowSum
  <1>5. (C * 2) * B = 256
    <2>1. r + 1 \in Nat /\ (r + 1) + u = 8
      BY <1>1
    <2> HIDE DEF u
    <2>2. Pow2[(r + 1) + u] = Pow2[r + 1] * B
      BY <1>1, <2>1, PowSum
    <2>3. Pow2[r + 1] = 2 * C
      BY <1>1, PowFacts
    <2>4. 2 * C = C * 2
      <3> HIDE DEF C
      <3> QED
        BY <1>4
    <2>5. Pow2[8] = 256
      BY PowValues
    <2> QED
      BY <2>1, <2>2, <2>3, <2>4, <2>5
  <1> HIDE DEF N, A, B, C
  <1>6. y \in Nat
    BY <1>2, <1>4, DivNat
  <1> HIDE DEF y
  <1> DEFINE z == y \div B
             D == C * 2
  <1>7. z \in Nat
    BY <1>4, <1>6, DivNat
  <1>8. D \in Nat \ {0}
    BY <1>4
  <1>9. (y % (D * B)) \div B = z % D
    <2> HIDE DEF D
    <2> QED
      BY <1>4, <1>6, <1>8, ModDiv
  <1>10. (z % (C * 2)) % 2 = z % 2
    <2>1. 2 \in Nat \ {0}
      OBVIOUS
    <2> HIDE DEF z
    <2> QED
      BY <1>4, <1>7, <2>1, ModDiv, ZenonT(30)
  <1>11. z = N \div (A * B)
    BY <1>2, <1>4, DivDiv DEF y
  <1>12. (s[q + 1] \div B) % 2 = z % 2
    BY <1>3, <1>5, <1>9, <1>10
  <1>13. BitAt(N, w + u) = (N \div (A * B)) % 2
    BY <1>4 DEF BitAt
  <1>14. (s[q + 1] \div B) % 2 = BitAt(N, w + u)
    BY <1>11, <1>12, <1>13
  <1> QED
    BY <1>14 DEF N, B

\* Bit k of field i is a bit of the number in the octets that the field touches.
LEMMA BitOfField ==
    ASSUME layout \in Layouts, OfBits, octets \in Seq(0 .. 255), NEW i \in 1 .. Len(layout),
           First(i) + NumBytes(layout[i]) <= Len(octets), NEW k \in 1 .. layout[i].bits
    PROVE  Bit(octets, BitsOf(layout, i - 1) + k - 1)
              = BitAt(GetBytes(Touched(i)), 8 * NumBytes(layout[i]) - layout[i].offset - k)
  <1> DEFINE s == Touched(i)
             q == (layout[i].offset + k - 1) \div 8
             r == (layout[i].offset + k - 1) % 8
             b == BitsOf(layout, i - 1) + k - 1
  <1>1. BitField(layout[i])
    BY LayoutFacts
  <1>2. PICK at \in Nat, n \in Nat, o \in 0 .. 7, m \in Nat :
            at = First(i) /\ n = NumBytes(layout[i]) /\ o = layout[i].offset /\ m = layout[i].bits
    BY <1>1, FieldPlaces, FieldSizes DEF BitField
  <1>3. BitsOf(layout, i - 1) = 8 * at + o /\ at + n <= Len(octets)
    BY <1>2, FieldPlaces
  <1>4. o + m <= 8 * n
    <2>1. PICK p \in 0 .. 7 : p = Spare(layout[i])
      BY <1>1, FieldSizes
    <2>2. 8 * n = o + m + p
      BY <1>1, <1>2, <2>1, FieldSizes
    <2> QED
      BY <2>2
  <1>5. k \in Nat /\ 1 <= k /\ k <= m
    BY <1>2
  <1>6. s \in Seq(0 .. 255) /\ Len(s) = n /\ \A j \in 1 .. n : s[j] = octets[at + j]
    <2>1. /\ Slot(octets, at, n) \in Seq(0 .. 255) /\ Len(Slot(octets, at, n)) = n
          /\ \A j \in 1 .. n : Slot(octets, at, n)[j] = octets[at + j]
      BY <1>3, Window
    <2> QED
      BY <1>2, <2>1 DEF Touched
  <1> HIDE DEF s
  <1>7. q = (o + k - 1) \div 8 /\ r = (o + k - 1) % 8 /\ b = 8 * at + o + k - 1
    BY <1>2, <1>3, <1>5
  <1> HIDE DEF q, r, b
  <1>8. q \in 0 .. n - 1 /\ r \in 0 .. 7 /\ o + k - 1 = 8 * q + r
    BY <1>4, <1>5, <1>7, SMTT(30)
  <1>9. b \div 8 = at + q /\ b % 8 = r
    <2>1. b = 8 * (at + q) + r /\ at + q \in Nat
      BY <1>5, <1>7, <1>8
    <2> QED
      BY <2>1, <1>8
  <1>10. Bit(octets, b) = (octets[at + q + 1] \div Pow2[7 - r]) % 2
    BY <1>9 DEF Bit
  <1>11. octets[at + q + 1] = s[q + 1]
    <2>1. q + 1 \in 1 .. n /\ at + (q + 1) = at + q + 1
      BY <1>8
    <2> QED
      BY <1>6, <2>1
  <1>12. q \in 0 .. Len(s) - 1
    BY <1>6, <1>8
  <1>13. (s[q + 1] \div Pow2[7 - r]) % 2 = BitAt(GetBytes(s), 8 * (Len(s) - (q + 1)) + (7 - r))
    BY <1>6, <1>8, <1>12, BitInOctet
  <1>14. 8 * (Len(s) - (q + 1)) + (7 - r) = 8 * n - o - k
    BY <1>5, <1>6, <1>8
  <1>15. Bit(octets, b) = BitAt(GetBytes(s), 8 * n - o - k)
    BY <1>10, <1>11, <1>13, <1>14
  <1> QED
    BY <1>2, <1>15 DEF s, b

\* The number in the bits of a field is what decoding the field returns.
LEMMA InPlaceIsExtracted ==
    ASSUME layout \in Layouts, OfBits, octets \in Seq(0 .. 255), NEW i \in 1 .. Len(layout),
           First(i) + NumBytes(layout[i]) <= Len(octets)
    PROVE  InPlace(i) = Extracted(layout[i], Touched(i))
  <1>1. BitField(layout[i])
    BY LayoutFacts
  <1>2. PICK at \in Nat, n \in Nat, o \in 0 .. 7, m \in Nat, p \in 0 .. 7 :
            /\ at = First(i) /\ n = NumBytes(layout[i]) /\ o = layout[i].offset /\ m = layout[i].bits
            /\ p = Spare(layout[i])
    BY <1>1, FieldPlaces, FieldSizes DEF BitField
  <1>3. 8 * n = o + m + p
    BY <1>1, <1>2, FieldSizes
  <1>4. PICK N \in Nat : N = GetBytes(Touched(i))
    <2>1. Slot(octets, at, n) \in Seq(0 .. 255)
      BY <1>2, Window
    <2>2. Touched(i) \in Seq(0 .. 255) /\ Len(Touched(i)) \in Nat
      BY <1>2, <2>1, LenProperties DEF Touched
    <2>3. 8 * Len(Touched(i)) \in Nat
      BY <2>2
    <2>4. Pow2[8 * Len(Touched(i))] \in Nat
      BY <2>3, PowFacts
    <2>5. GetBytes(Touched(i)) \in 0 .. Pow2[8 * Len(Touched(i))] - 1
      BY <2>2, OctetsOfNumber
    <2> QED
      BY <2>4, <2>5
  <1> DEFINE first == BitsOf(layout, i - 1)
             d == [k \in 1 .. m |-> Bit(octets, first + k - 1)]
             E(k) == (N \div Pow2[p + (m - k)]) % Pow2[k]
             e == [k \in 0 .. m |-> E(k)]
             Solves(f) == f = [k \in 0 .. m |-> IF k = 0 THEN 0 ELSE 2 * f[k - 1] + Bit(octets, first + k - 1)]
             upto == CHOOSE f : Solves(f)
  <1>5. \A k \in 1 .. m : Bit(octets, first + k - 1) = BitAt(N, p + (m - k)) /\ Bit(octets, first + k - 1) \in Nat
    <2> SUFFICES ASSUME NEW k \in 1 .. m
                 PROVE  Bit(octets, first + k - 1) = BitAt(N, p + (m - k)) /\ Bit(octets, first + k - 1) \in Nat
      OBVIOUS
    <2>1. k \in 1 .. layout[i].bits
      BY <1>2
    <2>2. Bit(octets, first + k - 1) = BitAt(N, 8 * n - o - k)
      BY <1>2, <1>4, <2>1, BitOfField
    <2>3. 8 * n - o - k = p + (m - k) /\ p + (m - k) \in Nat
      BY <1>3
    <2>4. BitAt(N, p + (m - k)) \in {0, 1}
      BY <2>3, BitAtFacts
    <2> HIDE DEF first
    <2> QED
      BY <2>2, <2>3, <2>4
  <1>6. d \in [1 .. m -> Nat] /\ \A k \in 1 .. m : d[k] = Bit(octets, first + k - 1)
    BY <1>5
  <1>7. E(0) = 0 /\ \A k \in 1 .. m : E(k) = 2 * E(k - 1) + d[k]
    <2>1. E(0) = 0
      <3> DEFINE y == N \div Pow2[p + (m - 0)]
      <3>1. p + (m - 0) \in Nat
        OBVIOUS
      <3>2. y \in Nat
        BY <3>1, BitAtFacts
      <3> HIDE DEF y
      <3>3. y % 1 = 0
        BY <3>2
      <3> QED
        BY <3>3, PowFacts DEF y
    <2>2. ASSUME NEW k \in 1 .. m PROVE E(k) = 2 * E(k - 1) + d[k]
      <3>1. PICK j \in Nat, l \in Nat : j = p + (m - k) /\ l = k - 1
        OBVIOUS
      <3>2. p + (m - (k - 1)) = j + 1 /\ l + 1 = k
        BY <3>1
      <3>3. (N \div Pow2[j]) % Pow2[l + 1] = 2 * ((N \div Pow2[j + 1]) % Pow2[l]) + BitAt(N, j)
        BY BitByBit
      <3>4. d[k] = BitAt(N, j)
        BY <1>5, <1>6, <3>1
      <3> QED
        BY <3>1, <3>2, <3>3, <3>4
    <2> QED
      BY <2>1, <2>2
  <1> HIDE DEF d, E, first
  <1>8. \A k \in 0 .. m : e[k] = E(k)
    OBVIOUS
  <1>9. Sums(m, 2, d, e)
    <2>1. \A k \in 1 .. m : k - 1 \in 0 .. m /\ k \in 0 .. m
      OBVIOUS
    <2> HIDE DEF e
    <2>2. e[0] = 0
      BY <1>7, <1>8
    <2>3. \A k \in 1 .. m : e[k] = 2 * e[k - 1] + d[k]
      BY <1>7, <1>8, <2>1
    <2> QED
      BY <2>2, <2>3 DEF Sums
  <1>10. \E f : Solves(f)
    <2>1. \A k \in 0 .. m : e[k] = IF k = 0 THEN 0 ELSE 2 * e[k - 1] + Bit(octets, first + k - 1)
      <3> HIDE DEF e
      <3> SUFFICES ASSUME NEW k \in 0 .. m
                   PROVE  e[k] = IF k = 0 THEN 0 ELSE 2 * e[k - 1] + Bit(octets, first + k - 1)
        OBVIOUS
      <3>1. k # 0 => k \in 1 .. m
        OBVIOUS
      <3> QED
        BY <3>1, <1>6, <1>9 DEF Sums
    <2>2. e = [k \in 0 .. m |-> e[k]]
      OBVIOUS
    <2> HIDE DEF e
    <2>3. [k \in 0 .. m |-> e[k]] = [k \in 0 .. m |-> IF k = 0 THEN 0 ELSE 2 * e[k - 1] + Bit(octets, first + k - 1)]
      BY <2>1
    <2>4. Solves(e)
      BY <2>2, <2>3
    <2> QED
      BY <2>4
  <1>11. Solves(upto)
    <2> HIDE DEF Solves
    <2> QED
      BY <1>10
  <1>12. InPlace(i) = upto[m]
    BY <1>2 DEF InPlace, first
  <1> HIDE DEF upto, e
  <1>13. Sums(m, 2, d, upto)
    <2>1. \A k \in 0 .. m : upto[k] = IF k = 0 THEN 0 ELSE 2 * upto[k - 1] + Bit(octets, first + k - 1)
      BY <1>11
    <2>2. upto[0] = 0
      BY <2>1
    <2>3. \A k \in 1 .. m : upto[k] = 2 * upto[k - 1] + d[k]
      BY <1>6, <2>1
    <2> QED
      BY <2>2, <2>3 DEF Sums
  <1>14. InPlace(i) = E(m)
    <2>1. 2 \in Nat /\ m \in 0 .. m
      OBVIOUS
    <2>2. upto[m] = e[m]
      <3>1. m \in Nat /\ 2 \in Nat /\ d \in [1 .. m -> Nat]
        BY <1>6
      <3> QED
        BY <3>1, <1>9, <1>13, SumsUnique, SMTT(60)
    <2> QED
      BY <1>8, <1>12, <2>1, <2>2
  <1>15. E(m) = Extracted(layout[i], Touched(i))
    <2> DEFINE A == Pow2[m]
               B == Pow2[p]
    <2>1. p + (m - m) = p /\ 8 * n - o = m + p /\ p \in Nat
      BY <1>3
    <2>2. A \in Nat \ {0} /\ B \in Nat \ {0} /\ Pow2[m + p] = A * B
      BY <2>1, PowSum
    <2>3. E(m) = (N \div B) % A
      BY <2>1 DEF E
    <2>4. Extracted(layout[i], Touched(i)) = (N % (A * B)) \div B
      BY <1>2, <1>4, <2>1, <2>2 DEF Extracted
    <2> HIDE DEF A, B
    <2>5. (N % (A * B)) \div B = (N \div B) % A
      BY <2>2, ModDiv
    <2> QED
      BY <2>3, <2>4, <2>5
  <1> QED
    BY <1>14, <1>15

-----------------------------------------------------------------------------
(* The invariant, and the properties that follow from it.                  *)

LEMMA InitBits == Init => BitsInv
  <1> SUFFICES ASSUME Init, OfBits PROVE BitsType /\ CursorInPlace /\ ValuesInPlace /\ ReadAsSent
    BY DEF BitsInv
  <1>1. layout \in Layouts /\ cursor = 0 /\ sent = <<>> /\ got = <<>> /\ phase \in {"encode", "decode"}
    BY DEF Init
  <1>2. octets \in Seq(0 .. 255)
    BY <1>1, MemoryAssumption DEF Init
  <1>3. BitsOf(layout, 0) = 0 /\ Len(layout) \in Nat /\ Len(octets) \in Nat
    BY <1>1, <1>2, LayoutFacts, LenProperties
  <1>4. Len(sent) = 0 /\ Len(got) = 0 /\ sent \in Seq(Nat) /\ got \in Seq(Nat)
    BY <1>1
  <1>5. BitsType
    BY <1>1, <1>2, <1>3, <1>4 DEF BitsType
  <1>6. CursorInPlace
    <2>1. 0 = 0 \div 8
      OBVIOUS
    <2> QED
      BY <1>1, <1>3, <1>4, <2>1 DEF CursorInPlace
  <1>7. ValuesInPlace
    <2>1. Written = 0
      BY <1>1, <1>4 DEF Written
    <2> QED
      BY <2>1 DEF ValuesInPlace
  <1>8. ReadAsSent
    BY <1>1 DEF ReadAsSent
  <1> QED
    BY <1>5, <1>6, <1>7, <1>8

LEMMA NextBits == BitsInv /\ [Next]_vars => BitsInv'
  <1> SUFFICES ASSUME BitsInv, [Next]_vars, OfBits' PROVE BitsType' /\ CursorInPlace' /\ ValuesInPlace' /\ ReadAsSent'
    BY DEF BitsInv
  <1>1. layout' = layout
    BY DEF Next, Encode, Turn, Decode, vars
  <1>2. OfBits
    BY <1>1 DEF OfBits
  <1>3. BitsType /\ CursorInPlace /\ ValuesInPlace /\ ReadAsSent
    BY <1>2 DEF BitsInv
  <1>4. CASE Encode
    <2>1. phase = "encode"
      BY <1>4 DEF Encode
    <2>2. PICK v \in Nat : BitsWritten(v)
      BY <1>2, <1>3, <1>4, EncodesBits
    <2>3. BitsType' /\ CursorInPlace' /\ ReadAsSent'
      BY <1>2, <1>3, <2>1, <2>2, EncodeKeepsTypes
    <2>4. ValuesInPlace'
      BY <1>2, <1>3, <2>1, <2>2, EncodeKeepsValues
    <2> QED
      BY <2>3, <2>4
  <1>5. CASE Turn
    <2>1. /\ phase = "encode" /\ sent # <<>> /\ Len(sent) = Len(layout) /\ phase' = "decode" /\ cursor' = 0
          /\ octets' = octets /\ sent' = sent /\ got' = got /\ got = <<>>
      BY <1>3, <1>5 DEF Turn, CursorInPlace
    <2>2. BitsOf(layout, 0) = 0 /\ Len(octets) \in Nat /\ Len(got) = 0
      BY <1>2, <1>3, <2>1, LayoutFacts, LenProperties DEF BitsType
    <2>3. BitsType'
      BY <1>1, <1>3, <2>1, <2>2 DEF BitsType
    <2>4. CursorInPlace'
      <3>1. 0 = 0 \div 8
        OBVIOUS
      <3> QED
        BY <1>1, <2>1, <2>2, <3>1 DEF CursorInPlace
    <2>5. ValuesInPlace'
      <3>1. Written' = Written /\ \A i : First(i)' = First(i) /\ Touched(i)' = Touched(i) /\ (FitsBits(i)' <=> FitsBits(i))
        BY <1>1, <2>1 DEF Written, First, Touched, FitsBits
      <3> QED
        BY <1>1, <1>3, <2>1, <3>1 DEF ValuesInPlace
    <2>6. ReadAsSent'
      BY <2>1, <2>2 DEF ReadAsSent
    <2> QED
      BY <2>3, <2>4, <2>5, <2>6
  <1>6. CASE Decode
    <2>1. BitsRead
      BY <1>2, <1>3, <1>6, DecodesBits
    <2> QED
      BY <1>2, <1>3, <2>1, DecodeKeeps
  <1>7. CASE UNCHANGED vars
    <2>1. /\ layout' = layout /\ octets' = octets /\ cursor' = cursor /\ sent' = sent
          /\ got' = got /\ phase' = phase
      BY <1>7 DEF vars
    <2>2. BitsType' /\ CursorInPlace'
      BY <1>3, <2>1 DEF BitsType, CursorInPlace
    <2>3. Written' = Written /\ \A i : First(i)' = First(i) /\ Touched(i)' = Touched(i) /\ (FitsBits(i)' <=> FitsBits(i))
      BY <2>1 DEF Written, First, Touched, FitsBits
    <2>4. ValuesInPlace'
      BY <1>3, <2>1, <2>3 DEF ValuesInPlace
    <2>5. ReadAsSent'
      BY <1>3, <2>1, <2>3 DEF ReadAsSent
    <2> QED
      BY <2>2, <2>4, <2>5
  <1> QED
    BY <1>4, <1>5, <1>6, <1>7 DEF Next

THEOREM BitsInvariant == Spec => []BitsInv
  <1> QED
    BY InitBits, NextBits, PTL DEF Spec

LEMMA IntactFromInv == BitsInv => FieldsIntact
  <1> SUFFICES ASSUME BitsInv, OfBits, NEW i \in 1 .. Written, \A j \in i .. Written : FitsBits(j)
               PROVE  InPlace(i) = sent[i]
    BY DEF FieldsIntact, Written
  <1>1. BitsType /\ ValuesInPlace
    BY DEF BitsInv
  <1>2. First(i) + NumBytes(layout[i]) <= Len(octets) /\ Extracted(layout[i], Touched(i)) = sent[i]
    BY <1>1 DEF ValuesInPlace
  <1>3. i \in 1 .. Len(layout)
    <2>1. Len(sent) \in Nat /\ Len(layout) \in Nat /\ Len(sent) <= Len(layout)
      BY <1>1, LayoutFacts, LenProperties DEF BitsType
    <2>2. Written \in Int /\ Written <= Len(sent)
      BY <2>1 DEF Written
    <2> QED
      BY <2>1, <2>2
  <1>4. InPlace(i) = Extracted(layout[i], Touched(i))
    BY <1>1, <1>2, <1>3, InPlaceIsExtracted DEF BitsType
  <1> QED
    BY <1>2, <1>4

LEMMA RoundTripFromInv == BitsInv => (OfBits => FieldsRoundTrip)
  <1> SUFFICES ASSUME BitsInv, OfBits, sent # <<>>, \A i \in DOMAIN sent : Sayable(layout[i], sent[i])
               PROVE  got = SubSeq(sent, 1, Len(got)) /\ phase \in {"encode", "full", "decode"}
    BY DEF FieldsRoundTrip
  <1>1. BitsType /\ CursorInPlace /\ ReadAsSent
    BY DEF BitsInv
  <1>2. phase \in {"encode", "full", "decode"}
    BY <1>1 DEF CursorInPlace
  <1>3. /\ layout \in Layouts /\ Len(layout) \in Nat /\ sent \in Seq(Nat) /\ Len(sent) \in Nat /\ DOMAIN sent = 1 .. Len(sent)
        /\ got \in Seq(Nat) /\ Len(got) \in Nat /\ Len(sent) <= Len(layout) /\ Len(got) <= Len(layout)
    BY <1>1, LayoutFacts, LenProperties DEF BitsType
  <1>4. \A i \in 1 .. Len(sent) : FitsBits(i)
    <2> SUFFICES ASSUME NEW i \in 1 .. Len(sent) PROVE FitsBits(i)
      OBVIOUS
    <2>1. i \in 1 .. Len(layout)
      BY <1>3
    <2>2. layout[i].codec = "bits"
      BY <1>3, <2>1, LayoutFacts
    <2>3. Sayable(layout[i], sent[i])
      BY <1>3
    <2> QED
      BY <2>2, <2>3 DEF Sayable, FitsBits
  <1>5. CASE phase # "decode"
    <2>1. got = <<>>
      BY <1>1, <1>2, <1>5 DEF CursorInPlace
    <2>2. SubSeq(sent, 1, 0) = <<>>
      BY SubSeqEmpty
    <2> QED
      BY <1>2, <2>1, <2>2
  <1>6. CASE phase = "decode"
    <2>1. Len(sent) = Len(layout) /\ \A i \in 1 .. Len(got) : got[i] = sent[i]
      BY <1>1, <1>4, <1>6 DEF CursorInPlace, ReadAsSent
    <2>2. PICK n \in Nat : n = Len(got)
      BY <1>3
    <2>3. n <= Len(sent) /\ \A i \in 1 .. n : i \in 1 .. Len(sent)
      BY <1>3, <2>1, <2>2
    <2>4. \A i \in 1 .. n : sent[i] \in Nat
      <3>1. sent \in [1 .. Len(sent) -> Nat]
        BY <1>3, LenProperties
      <3>2. \A i \in 1 .. Len(sent) : sent[i] \in Nat
        BY <3>1
      <3> QED
        BY <2>3, <3>2
    <2>5. /\ SubSeq(sent, 1, n) \in Seq(Nat) /\ Len(SubSeq(sent, 1, n)) = IF 1 <= n THEN n - 1 + 1 ELSE 0
          /\ \A i \in 1 .. n - 1 + 1 : SubSeq(sent, 1, n)[i] = sent[1 + i - 1]
      BY <2>4, SubSeqProperties
    <2> DEFINE t == SubSeq(sent, 1, n)
    <2> HIDE DEF t
    <2>6. t \in Seq(Nat) /\ Len(t) = n /\ \A i \in 1 .. n : t[i] = sent[i]
      <3>1. n - 1 + 1 = n /\ (~(1 <= n) => n = 0) /\ \A i \in 1 .. n : 1 + i - 1 = i
        OBVIOUS
      <3>2. t \in Seq(Nat) /\ Len(t) = (IF 1 <= n THEN n - 1 + 1 ELSE 0) /\ \A i \in 1 .. n - 1 + 1 : t[i] = sent[1 + i - 1]
        BY <2>5 DEF t
      <3>3. Len(t) = n
        BY <3>1, <3>2
      <3> QED
        BY <3>1, <3>2, <3>3
    <2>7. \A i \in 1 .. Len(got) : got[i] = t[i]
      BY <2>1, <2>2, <2>6
    <2>8. got = t
      BY <1>3, <2>2, <2>6, <2>7, SeqEqual
    <2> QED
      BY <1>2, <2>2, <2>8 DEF t
  <1> QED
    BY <1>5, <1>6

\* Where a bit field that did not fit would have ended.
NoRoom == OfBits =>
    /\ phase \in {"encode", "full", "decode", "overflow"}
    /\ phase = "full" => First(Len(sent)) + NumBytes(layout[Len(sent)]) > Len(octets)

LEMMA NextNoRoom == BitsInv /\ NoRoom /\ [Next]_vars => NoRoom'
  <1> SUFFICES ASSUME BitsInv, NoRoom, [Next]_vars, OfBits'
               PROVE  /\ phase' \in {"encode", "full", "decode", "overflow"}
                      /\ phase' = "full" =>
                            (First(Len(sent)) + NumBytes(layout[Len(sent)]) > Len(octets))'
    BY DEF NoRoom
  <1>1. layout' = layout
    BY DEF Next, Encode, Turn, Decode, vars
  <1>2. OfBits
    BY <1>1 DEF OfBits
  <1>3. BitsType /\ CursorInPlace
    BY <1>2 DEF BitsInv
  <1>4. CASE Encode
    <2>1. PICK v \in Nat : BitsWritten(v)
      BY <1>2, <1>3, <1>4, EncodesBits
    <2>2. CASE phase' = "encode"
      BY <2>2
    <2>3. CASE /\ First(Len(sent) + 1) + NumBytes(layout[Len(sent) + 1]) > Len(octets)
               /\ octets' = octets /\ phase' = "full"
      <3>1. sent' = Append(sent, v) /\ sent \in Seq(Nat)
        BY <1>3, <2>1 DEF BitsType, BitsWritten
      <3>2. PICK k \in Nat : k = Len(sent) + 1
        BY <3>1, LenProperties
      <3>3. Len(sent') = k
        BY <3>1, <3>2, AppendProperties
      <3>4. First(k) = BitsOf(layout, k - 1) \div 8
        BY DEF First
      <3>5. (First(Len(sent)))' = First(k)
        BY <1>1, <3>3, <3>4 DEF First
      <3>6. (NumBytes(layout[Len(sent)]))' = NumBytes(layout[k])
        BY <1>1, <3>3
      <3> QED
        BY <2>3, <3>2, <3>5, <3>6
    <2> QED
      BY <2>1, <2>2, <2>3 DEF BitsWritten
  <1>5. CASE Turn
    BY <1>5 DEF Turn
  <1>6. CASE Decode
    <2>1. BitsRead
      BY <1>2, <1>3, <1>6, DecodesBits
    <2>2. phase' \in {"decode", "overflow"}
      BY <2>1 DEF BitsRead
    <2> QED
      BY <2>2
  <1>7. CASE UNCHANGED vars
    <2>1. /\ octets' = octets /\ sent' = sent /\ phase' = phase
      BY <1>7 DEF vars
    <2> QED
      BY <1>1, <1>2, <2>1 DEF NoRoom, First
  <1> QED
    BY <1>4, <1>5, <1>6, <1>7 DEF Next

\* Bit fields have the same size in a message as in its layout.
LEMMA SentIsLaidOut ==
    ASSUME OfBits, BitsType
    PROVE  SentBits(Len(sent)) = BitsOf(layout, Len(sent))
  <1> DEFINE n == Len(sent)
             d == [i \in 1 .. n |-> layout[i].bits]
             B == [j \in 0 .. n |-> BitsOf(layout, j)]
             Sized(f) == f = [j \in 0 .. n |-> IF j = 0 THEN 0 ELSE f[j - 1] + SizeOf(layout[j], sent[j])]
             upto == CHOOSE f : Sized(f)
  <1>1. /\ n \in Nat /\ Len(layout) \in Nat /\ n <= Len(layout) /\ layout \in Layouts
    BY LayoutFacts, LenProperties DEF BitsType
  <1>2. SentBits(n) = upto[n]
    BY DEF SentBits
  <1>3. ASSUME NEW j \in 1 .. n
        PROVE  /\ SizeOf(layout[j], sent[j]) = layout[j].bits /\ layout[j].bits \in Nat
               /\ BitsOf(layout, j) = BitsOf(layout, j - 1) + layout[j].bits
               /\ BitsOf(layout, j - 1) \in Nat
    <2>1. j \in 1 .. Len(layout) /\ j - 1 \in 0 .. Len(layout)
      BY <1>1
    <2>2. BitField(layout[j]) /\ layout[j].codec = "bits"
      BY <1>1, <2>1, LayoutFacts
    <2> QED
      BY <1>1, <2>1, <2>2, LayoutFacts DEF SizeOf, BitField
  <1>4. BitsOf(layout, 0) = 0
    BY <1>1, LayoutFacts
  <1> HIDE DEF n
  <1>5. d \in [1 .. n -> Nat] /\ \A j \in 1 .. n : d[j] = layout[j].bits
    BY <1>3
  <1> HIDE DEF d
  <1>6. B[0] = 0 /\ \A j \in 1 .. n : B[j] = B[j - 1] + layout[j].bits /\ B[j - 1] \in Nat
    <2>1. ASSUME NEW j \in 1 .. n PROVE B[j] = B[j - 1] + layout[j].bits /\ B[j - 1] \in Nat
      <3>1. j \in 0 .. n /\ j - 1 \in 0 .. n
        BY <1>1
      <3>2. B[j] = BitsOf(layout, j) /\ B[j - 1] = BitsOf(layout, j - 1)
        BY <3>1
      <3> HIDE DEF B
      <3> QED
        BY <3>2, <1>3
    <2>2. B[0] = 0
      <3>1. 0 \in 0 .. n
        BY <1>1
      <3>2. B[0] = BitsOf(layout, 0)
        BY <3>1
      <3> HIDE DEF B
      <3> QED
        BY <3>2, <1>4
    <2> HIDE DEF B
    <2> QED
      BY <2>1, <2>2
  <1>7. B = [j \in 0 .. n |-> B[j]] /\ B[n] = BitsOf(layout, n)
    BY <1>1
  <1> HIDE DEF B
  <1>8. \A j \in 0 .. n : B[j] = IF j = 0 THEN 0 ELSE B[j - 1] + SizeOf(layout[j], sent[j])
    <2> SUFFICES ASSUME NEW j \in 0 .. n, j # 0 PROVE B[j] = B[j - 1] + SizeOf(layout[j], sent[j])
      BY <1>6
    <2>1. j \in 1 .. n
      BY <1>1
    <2> QED
      BY <2>1, <1>3, <1>6
  <1>9. [j \in 0 .. n |-> B[j]] = [j \in 0 .. n |-> IF j = 0 THEN 0 ELSE B[j - 1] + SizeOf(layout[j], sent[j])]
    BY <1>8
  <1>10. Sized(B)
    BY <1>7, <1>9
  <1>11. Sized(upto)
    <2> HIDE DEF Sized
    <2> QED
      BY <1>10
  <1> HIDE DEF upto
  <1>12. \A j \in 0 .. n : upto[j] = IF j = 0 THEN 0 ELSE upto[j - 1] + SizeOf(layout[j], sent[j])
    BY <1>11
  <1> HIDE DEF Sized
  <1>13. upto[0] = 0 /\ \A j \in 1 .. n : upto[j] = upto[j - 1] + d[j]
    <2>1. 0 \in 0 .. n
      BY <1>1
    <2>2. ASSUME NEW j \in 1 .. n PROVE upto[j] = upto[j - 1] + d[j]
      <3>1. j \in 0 .. n /\ j # 0
        BY <1>1
      <3> QED
        BY <3>1, <1>3, <1>5, <1>12
    <2> QED
      BY <2>1, <2>2, <1>12
  <1>14. upto[n] = B[n]
    <2> DEFINE T == {j \in 0 .. n : upto[j] # B[j]}
    <2>1. ASSUME T # {} PROVE FALSE
      <3>1. T \subseteq Nat
        BY <1>1
      <3> HIDE DEF T
      <3>2. PICK j \in T : \A i \in T : j <= i
        BY <2>1, <3>1, LeastElement
      <3> USE DEF T
      <3>3. j \in 0 .. n /\ upto[j] # B[j] /\ j \in Nat
        BY <3>1, <3>2
      <3>4. j # 0
        BY <3>3, <1>6, <1>13
      <3>5. j \in 1 .. n /\ j - 1 \in 0 .. n /\ ~(j <= j - 1)
        BY <3>3, <3>4, <1>1
      <3>6. upto[j - 1] = B[j - 1]
        BY <3>2, <3>5
      <3> QED
        BY <3>3, <3>5, <3>6, <1>5, <1>6, <1>13
    <2> QED
      BY <2>1, <1>1
  <1> QED
    BY <1>2, <1>7, <1>14 DEF n

LEMMA RealFromInv == BitsInv /\ NoRoom => (OfBits => OverflowIsReal)
  <1> SUFFICES ASSUME BitsInv, NoRoom, OfBits, phase = "full"
               PROVE  8 * Len(octets) < SentBits(Len(sent))
    BY DEF OverflowIsReal
  <1>1. BitsType /\ CursorInPlace
    BY DEF BitsInv
  <1>2. PICK k \in Nat : k = Len(sent)
    BY <1>1, LenProperties DEF BitsType
  <1>3. layout \in Layouts /\ Len(octets) \in Nat /\ k \in 1 .. Len(layout)
    <2>1. /\ layout \in Layouts /\ Len(octets) \in Nat /\ Len(layout) \in Nat /\ k <= Len(layout)
          /\ sent \in Seq(Nat) /\ sent # <<>>
      BY <1>1, <1>2, LayoutFacts, LenProperties DEF BitsType, CursorInPlace
    <2>2. k # 0
      BY <1>2, <2>1, EmptySeq
    <2> QED
      BY <1>2, <2>1, <2>2
  <1>4. First(k) + NumBytes(layout[k]) > Len(octets)
    BY <1>2 DEF NoRoom
  <1>5. /\ First(k) \in Nat /\ 8 * (First(k) + NumBytes(layout[k])) = BitsOf(layout, k) + Spare(layout[k])
        /\ NumBytes(layout[k]) \in Nat /\ Spare(layout[k]) \in 0 .. 7 /\ BitsOf(layout, k) \in Nat
    <2>1. BitField(layout[k]) /\ BitsOf(layout, k) \in Nat
      <3>1. k \in 0 .. Len(layout)
        BY <1>3
      <3> QED
        BY <1>3, <3>1, LayoutFacts
    <2> QED
      BY <1>3, <2>1, FieldPlaces, FieldSizes
  <1>6. 8 * Len(octets) < BitsOf(layout, k)
    BY <1>3, <1>4, <1>5, SMTT(30)
  <1> QED
    BY <1>1, <1>2, <1>6, SentIsLaidOut

\* Of any number of bit fields of any sizes, in memory that held anything: each value
\* stays in the bits of its field while the ones behind it, in the same octet or not,
\* are written (octet_encoder.hpp:83-131).
THEOREM FieldsStayIntact == Spec => []FieldsIntact
  <1> QED
    BY BitsInvariant, IntactFromInv, PTL

\* What the decoder reads from a message of bit fields is what the encoder was given,
\* and reading it never fails (octet_decoder.hpp:66-106).
THEOREM BitFieldsRoundTrip == Spec => [](OfBits => FieldsRoundTrip)
  <1> QED
    BY BitsInvariant, RoundTripFromInv, PTL

\* Of a message of bit fields, memory keeps octets and the cursor stays in it, at most on
\* the octet behind the last one; and the only exceptions are those of a buffer that is
\* exceeded, by the encoder or by the decoder: never one about a value or a tag.
THEOREM BitFieldTypes == Spec => [](OfBits => TypeOK /\ phase \notin {"invalid_value", "unknown_tag"})
  <1>1. Init => NoRoom
    BY DEF Init, NoRoom
  <1>2. BitsInv /\ NoRoom => (OfBits => TypeOK /\ phase \notin {"invalid_value", "unknown_tag"})
    BY DEF BitsInv, BitsType, NoRoom, TypeOK
  <1> QED
    BY <1>1, <1>2, InitBits, NextBits, NextNoRoom, PTL DEF Spec

\* The room that is missing when the buffer overflows is missing: the bits of the
\* fields up to the one that does not fit are more than the memory has, so that no
\* octet is asked for twice where fields share it (buffer.hpp:194-208,
\* octet_encoder.hpp:83-131).
THEOREM BitFieldOverflowIsReal == Spec => [](OfBits => OverflowIsReal)
  <1>1. Init => NoRoom
    BY DEF Init, NoRoom
  <1> QED
    BY <1>1, InitBits, NextBits, NextNoRoom, RealFromInv, PTL DEF Spec
=============================================================================
