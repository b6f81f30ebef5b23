------------------------------ MODULE Varints ------------------------------
(***************************************************************************)
(* Integers as the protobuf codec writes and reads them                    *)
(* (protobuf/encoder.hpp, protobuf/decoder.hpp): seven bits to an octet,   *)
(* low ones first, the eighth set while more octets follow.                *)
(*                                                                         *)
(* A type is a C++ integer: its number of bits, and whether it is signed.  *)
(* TLC's numbers end at 2^31: it runs types of 8 and 16 bits.              *)
(***************************************************************************)
EXTENDS BitFields, FiniteSetsExt

Unsigned(bits) == [bits |-> bits, signed |-> FALSE]
Signed(bits) == [bits |-> bits, signed |-> TRUE]
IntegerTypes == [bits : {8, 16, 32, 64}, signed : BOOLEAN]

\* The values of a type, and a number as static_cast to the type leaves it.
ValuesOf(T) == IF T.signed THEN -Pow2[T.bits - 1] .. Pow2[T.bits - 1] - 1 ELSE 0 .. Pow2[T.bits] - 1
Cast(T, n) ==
    LET low == n % Pow2[T.bits]
    IN IF low \in ValuesOf(T) THEN low ELSE low - Pow2[T.bits]

MaxVarintBytes == 10                   \* MAX_VARINT_BYTES

\* The rounds of "while (value >= 0x80)", and the octet behind them.  A negative
\* number is less than 0x80.
VarintLength(v) == CHOOSE n \in 1 .. MaxVarintBytes : v < Pow2[7 * n] /\ \A m \in 1 .. n - 1 : v >= Pow2[7 * m]

\* Of a negative number the last octet is written as it is.
VarintOctets(v) ==
    LET n == VarintLength(v)
    IN IF v < 0 THEN <<v % 256>>
       ELSE [i \in 1 .. n |-> ((v \div Pow2[7 * (i - 1)]) % 128) + (IF i < n THEN 128 ELSE 0)]

-----------------------------------------------------------------------------
\* What decoding ends with: a value in the first "used" octets, or an exception.
Good(used, v) == [fault |-> "", used |-> used, value |-> v]
Bad(fault) == [fault |-> fault, used |-> 0, value |-> 0]

\* The octets of the varint that s begins with.  0: s ends before it does.
VarintEnd(s) == IF \E i \in DOMAIN s : s[i] < 128 THEN Min({i \in DOMAIN s : s[i] < 128}) ELSE 0

\* Octets are shifted as numbers of the type, which has at least the bits of an int.
\* A shift by all of its bits or more is undefined: the bits are gone, or the machine
\* shifts by the remainder.
ShiftedBits(T) == IF T.bits < 32 THEN 32 ELSE T.bits
Shift(T, count, wraps) ==
    IF 7 * count < ShiftedBits(T) THEN 7 * count
    ELSE IF wraps THEN (7 * count) % ShiftedBits(T) ELSE ShiftedBits(T)

\* Bit k of the number in the first n octets of s.
VarintBit(T, s, n, k, wraps) ==
    \E i \in 1 .. n : LET b == k - Shift(T, i - 1, wraps)
                      IN b \in 0 .. 6 /\ (s[i] \div Pow2[b]) % 2 = 1

\* The octets are or-ed into a value of the type.
VarintValue(T, s, n, wraps) ==
    LET upto[k \in 0 .. T.bits] ==
            IF k = 0 THEN 0
            ELSE upto[k - 1] + (IF VarintBit(T, s, n, k - 1, wraps) THEN Pow2[k - 1] ELSE 0)
    IN Cast(T, upto[T.bits])

VarintDecoded(T, s, wraps) ==
    LET n == VarintEnd(s)
    IN IF n \in 1 .. MaxVarintBytes THEN Good(n, VarintValue(T, s, n, wraps))
       ELSE Bad(IF Len(s) < MaxVarintBytes THEN "overflow" ELSE "invalid_value")
=============================================================================
