----------------------------- MODULE BitFields -----------------------------
(***************************************************************************)
(* Integers of any number of bits, at any bit of an octet, as the octet    *)
(* codec writes and reads them (octet_encoder.hpp, octet_decoder.hpp,      *)
(* bytes.hpp, value_traits.hpp).  Fields that share octets are written one *)
(* by one: each keeps the bits in front of it.  Codecs puts them together. *)
(*                                                                         *)
(* A field is bits<bits, offset>; an octet is a number 0 .. 255.           *)
(***************************************************************************)
EXTENDS Integers, SequencesExt

\* 1 << n
Pow2[n \in Nat] == IF n = 0 THEN 1 ELSE 2 * Pow2[n - 1]

\* bits_to_bytes; the octets a field touches.
BytesOf(bits) == (bits + 7) \div 8
NumBits(f) == f.bits + f.offset
NumBytes(f) == BytesOf(NumBits(f))
Spare(f) == 8 * NumBytes(f) - NumBits(f)     \* bits behind the field in its last octet

\* get_bytes and put_bytes: big-endian; what does not fit n octets is cut off.
GetBytes(s) ==
    LET upto[k \in 0 .. Len(s)] == IF k = 0 THEN 0 ELSE 256 * upto[k - 1] + s[k]
    IN upto[Len(s)]
PutBytes(n, v) == [k \in 1 .. n |-> (v \div Pow2[8 * (n - k)]) % 256]

\* Bitwise or of two octets, from the first bit on.
OneOf(a, b) == IF a = 1 \/ b = 1 THEN 1 ELSE 0
Or(a, b) ==
    LET upto[k \in 0 .. 8] ==
            IF k = 0 THEN 0
            ELSE 2 * upto[k - 1] + OneOf((a \div Pow2[8 - k]) % 2, (b \div Pow2[8 - k]) % 2)
    IN upto[8]

\* The first bits of an octet, which belong to fields in front.
Upper(octet, offset) == octet - (octet % Pow2[8 - offset])

\* Slips: bits in front are lost; or-ed from an octet that is not masked; added.
PlacedAlone(f, v, old) == PutBytes(NumBytes(f), v * Pow2[Spare(f)])
PlacedAdding(f, v, old) ==
    LET new == PutBytes(NumBytes(f), v * Pow2[Spare(f)])
    IN IF f.offset = 0 THEN new ELSE [new EXCEPT ![1] = @ + Upper(old, f.offset)]

\* The octets of field f with value v, where the first one was "old".  The value
\* is not masked: one with too many bits is or-ed over the field in front.
Placed(f, v, old) ==
    LET new == PutBytes(NumBytes(f), v * Pow2[Spare(f)])
    IN IF f.offset = 0 THEN new ELSE [new EXCEPT ![1] = Or(@, Upper(old, f.offset))]

\* A slip: the bits in front are not masked.
ExtractedUnmasked(f, s) == GetBytes(s) \div Pow2[Spare(f)]

\* The value of field f in the octets it touches.
Extracted(f, s) == (GetBytes(s) % Pow2[8 * NumBytes(f) - f.offset]) \div Pow2[Spare(f)]

\* A slip: the cursor leaves an octet that has bits left.
AdvanceWhole(f) == NumBytes(f)

\* advance_bits: "floor to not include trailing byte".
AdvanceBits(f) == NumBits(f) \div 8

\* The bits of the first k fields of a layout.
BitsOf(lay, k) ==
    LET upto[j \in 0 .. k] == IF j = 0 THEN 0 ELSE upto[j - 1] + lay[j].bits
    IN upto[k]
=============================================================================
