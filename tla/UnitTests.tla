------------------------------ MODULE UnitTests ------------------------------
(***************************************************************************)
(* The unit tests of the repository (src/ut) as data: what is encoded or   *)
(* decoded, and what the test expects of it.  The modules ProtocolTests,   *)
(* LayoutTests and DiameterTests hold the message types and the tests of   *)
(* one part of src/ut each; a test has the name it has there.              *)
(*                                                                         *)
(* The characters of a string are not told apart: the text of n characters *)
(* stands for every string of the tests that has this length.              *)
(***************************************************************************)
EXTENDS FieldTypes, SequencesExt

Text(n) == [i \in 1 .. n |-> 97]

\* A message in pieces, as the tests lay them out.
Flat(pieces) == FlattenSeq(pieces)

\* encode() of a value: the octets it must write or the exception it must throw;
\* decode() of octets: the value it must return or the exception it must throw, in
\* a context with an allocator or without.
Test(way, ty, v, octets, error, allocs) ==
    [way |-> way, type |-> ty, value |-> v, octets |-> octets, error |-> error, allocs |-> allocs]

Encodes(ty, v, octets) == Test("encode", ty, v, octets, "", BOOLEAN)
Refused(ty, v, error) == Test("encode", ty, v, <<>>, error, BOOLEAN)
Decodes(ty, octets, v) == Test("decode", ty, v, octets, "", BOOLEAN)
Throws(ty, octets, error) == Test("decode", ty, <<>>, octets, error, BOOLEAN)
ThrowsWithoutAllocator(ty, octets, error) == Test("decode", ty, <<>>, octets, error, {FALSE})
DecodesWithAllocator(ty, octets, v) == Test("decode", ty, v, octets, "", {TRUE})
Both(ty, v, octets) == {Encodes(ty, v, octets), Decodes(ty, octets, v)}

\* A choice of n cases with the i-th one selected.
Chosen(n, i, v) == [k \in 1 .. n |-> IF k = i THEN <<v>> ELSE <<>>]

HasBit(octet, b) == (octet \div 2 ^ b) % 2 = 1

\* Repeated fields without a bound: more than the tests have items.
Inf == 99
=============================================================================
