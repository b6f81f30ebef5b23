-------------------------------- MODULE Ber --------------------------------
(***************************************************************************)
(* Tags, lengths and integers as the ASN.1 BER codec writes and reads them *)
(* (asn/ber/ber_tag.hpp, ber_length.hpp, ber_encoder.hpp,                  *)
(* ber_decoder.hpp).                                                       *)
(*                                                                         *)
(* Types of integers are those of Varints; numbers of tags have up to 28   *)
(* bits.                                                                   *)
(***************************************************************************)
EXTENDS Varints

\* What __builtin_clz(0) returns: the number of bits for 0 and -1 of signed types
\* asks for it when compiled by gcc, where it is undefined.  The branch for clang
\* does as if it were 32 (__builtin_clzl: 64, and so on).
CONSTANT Clz0

ASSUME ClzAssumption == Clz0 \in Int

\* The number of binary digits: 32 - __builtin_clz(n), for n > 0.
Digits(n) == IF n = 0 THEN 32 - Clz0
             ELSE CHOOSE d \in 1 .. 64 : n < Pow2[d] /\ Pow2[d - 1] <= n

\* calc_least_bits, an uint8_t.
CalcLeastBits(T, x) ==
    (IF T.signed THEN Digits(IF x >= 0 THEN x ELSE -1 - x) + 1
     ELSE IF x = 0 THEN 1 ELSE Digits(x)) % 256

\* length::bytes and least_bytes_encoded.
Bytes(T, x) == IF x = 0 THEN 1 ELSE BytesOf(CalcLeastBits(T, x))
SizeT == Unsigned(64)
LeastBytesEncoded(n) == (CalcLeastBits(SizeT, n) + 6) \div 7

\* encode_unsigned: seven bits to an octet, high ones first.
EncodeUnsigned(n) ==
    LET k == LeastBytesEncoded(n)
    IN [i \in 1 .. k |-> ((n \div Pow2[7 * (k - i)]) % 128) + (IF i < k THEN 128 ELSE 0)]

\* tag_encoded, as octets.
TagMaxInByte == 31
TagEncoded(class, constructed, number) ==
    LET first == 64 * class + (IF constructed THEN 32 ELSE 0)
    IN IF number < TagMaxInByte THEN <<first + number>>
       ELSE <<first + TagMaxInByte>> \o EncodeUnsigned(number)

-----------------------------------------------------------------------------
\* ber_length of the encoder.
BerLength(len) ==
    IF len < 128 THEN <<len>>
    ELSE <<128 + Bytes(SizeT, len)>> \o PutBytes(Bytes(SizeT, len), len)

\* ber_length of the decoder.
\* An indefinite length is refused, so is one of more octets than a size_t has.  It
\* is stored in an octet: what is left of a longer one is its last octet.
ReadLength(s) ==
    LET n == s[1] % 128
    IN CASE s = <<>> -> Bad("overflow")
         [] s # <<>> /\ s[1] < 128 -> Good(1, s[1])
         [] s # <<>> /\ s[1] = 128 -> Bad("invalid_value")
         [] s # <<>> /\ s[1] > 128 ->
                CASE Len(s) <= n -> Bad("overflow")
                  [] Len(s) > n /\ n > 8 -> Bad("invalid_value")
                  [] Len(s) > n /\ n <= 8 -> Good(1 + n, s[1 + n])

-----------------------------------------------------------------------------
\* Contents: an integer in as few octets as hold it, with its sign; a truth value; a
\* bit string behind the number of bits its last octet has not; an object identifier.
IntegerOctets(T, x) == PutBytes(Bytes(T, x), x)
BooleanOctets(b) == IF b THEN <<255>> ELSE <<0>>
LeastBits(bits) == IF bits % 8 = 0 THEN 8 ELSE bits % 8
BitStringOctets(bits, s) == <<8 - LeastBits(bits)>> \o s
OidOctets(ids) == FlattenSeq([i \in DOMAIN ids |-> EncodeUnsigned(ids[i])])

\* The first two components of an object identifier in one number.
OidRootFactor == 40
OidMake1st(root, subroot) == root * OidRootFactor + subroot

\* How much is behind the length of tag i in front of n octets, as it is counted: a
\* length as one octet, whatever it is (ber_info.hpp:69).
Inside(tags, i, n) ==
    LET behind[k \in 0 .. Len(tags)] == IF k = Len(tags) THEN n ELSE behind[k + 1] + Len(tags[k + 1]) + 1
    IN behind[i]

\* The tags of an element, each with a length, which keeps eight bits.
Headers(tags, n) ==
    FlattenSeq([i \in DOMAIN tags |-> <<tags[i], BerLength(Inside(tags, i, n) % 256)>>])
Element(tags, content) == FlattenSeq(Headers(tags, Len(content))) \o content

\* A slip: no sign extension of what is shorter than the type.
ReadIntegerUnsigned(T, s) == IF Len(s) \in 1 .. T.bits \div 8 THEN {Cast(T, GetBytes(s))} ELSE {}

\* read_bytes and signextend: the value of all octets in the window, if there are
\* some and the type has as many.
ReadInteger(T, s) ==
    IF Len(s) \notin 1 .. T.bits \div 8 THEN {}
    ELSE IF T.signed THEN {Cast(Signed(8 * Len(s)), GetBytes(s))} ELSE {GetBytes(s)}
=============================================================================
