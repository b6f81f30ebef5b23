----------------------------- MODULE CodecTests -----------------------------
(***************************************************************************)
(* The unit tests of asn/ber.cpp and of protobuf.cpp, as an assumption     *)
(* about Ber and Varints: what is encoded.  That the tests decode it again *)
(* is not part of it; Codecs is about that.  Tests of the file that are    *)
(* disabled are left out: reals, prefixed choices, strings of 333 octets.  *)
(***************************************************************************)
EXTENDS Codecs

\* asn/ber.cpp, len_size: powers of two and their complements, for each type.
len_size ==
    /\ \A T \in {Signed(8), Signed(16)} :
          /\ CalcLeastBits(T, 0) = 1 /\ CalcLeastBits(T, -1) = 1 /\ Bytes(T, 0) = 1
          /\ \A k \in 0 .. T.bits - 2 : CalcLeastBits(T, 2 ^ k) = k + 2 /\ CalcLeastBits(T, -1 - 2 ^ k) = k + 2
    /\ \A T \in {Unsigned(8), Unsigned(16)} :
          /\ CalcLeastBits(T, 0) = 1 /\ CalcLeastBits(T, 2 ^ T.bits - 1) = T.bits /\ Bytes(T, 0) = 1
          /\ \A k \in 0 .. T.bits - 1 : CalcLeastBits(T, 2 ^ k) = k + 1

len_encode ==
    /\ BerLength(0) = <<0>> /\ BerLength(127) = <<127>>
    /\ BerLength(128) = <<129, 128>> /\ BerLength(333) = <<130, 1, 77>>

\* A length is read into an octet here; the test of 333 reads it as a size_t.
len_decode ==
    \A len \in {<<<<0>>, 0>>, <<<<127>>, 127>>, <<<<129, 128>>, 128>>} :
        ReadLength(len[1]) = Good(Len(len[1]), len[2])

\* Tags of up to 28 bits.
tag ==
    /\ TagEncoded(0, FALSE, 1) = <<1>> /\ TagEncoded(3, TRUE, 30) = <<254>>
    /\ TagEncoded(0, FALSE, 31) = <<31, 31>> /\ TagEncoded(0, FALSE, 127) = <<31, 127>>
    /\ TagEncoded(0, FALSE, 255) = <<31, 129, 127>> /\ TagEncoded(0, FALSE, 2 ^ 14 - 1) = <<31, 255, 127>>
    /\ TagEncoded(0, FALSE, 2 ^ 16 - 1) = <<31, 131, 255, 127>>
    /\ TagEncoded(0, FALSE, 2 ^ 21 - 1) = <<31, 255, 255, 127>>
    /\ TagEncoded(0, FALSE, 2 ^ 24 - 1) = <<31, 135, 255, 255, 127>>
    /\ TagEncoded(0, FALSE, 2 ^ 28 - 1) = <<31, 255, 255, 255, 127>>

-----------------------------------------------------------------------------
\* Types of asn.hpp, and the tags of the tests: "traits<number, class>".
UNIVERSAL == 0
APPLICATION == 1
CONTEXT_SPECIFIC == 2
int == Signed(32)
Tags(traits) == [i \in DOMAIN traits |-> TagEncoded(traits[i][2], i < Len(traits), traits[i][1])]
Universal(number) == Tags(<<<<number, UNIVERSAL>>>>)
Constructed(number) == <<TagEncoded(UNIVERSAL, TRUE, number)>>
Prefixed(number) == Tags(<<<<number, CONTEXT_SPECIFIC>>>>)

boolean == Element(Universal(1), BooleanOctets(TRUE)) = <<1, 1, 255>> /\ Element(Universal(1), BooleanOctets(FALSE)) = <<1, 1, 0>>

prefixed_boolean ==
    LET boolean3 == Tags(<<<<1024, CONTEXT_SPECIFIC>>, <<100, CONTEXT_SPECIFIC>>, <<200, APPLICATION>>>>)
    IN /\ Element(Prefixed(1024), BooleanOctets(TRUE)) = <<159, 136, 0, 1, 255>>
       /\ Element(boolean3, BooleanOctets(TRUE)) = <<191, 136, 0, 8, 191, 100, 5, 95, 129, 72, 1, 255>>
       /\ Element(boolean3, BooleanOctets(FALSE)) = <<191, 136, 0, 8, 191, 100, 5, 95, 129, 72, 1, 0>>

integer ==
    LET Encoded(n) == Element(Universal(2), IntegerOctets(int, n))
    IN /\ Encoded(0) = <<2, 1, 0>> /\ Encoded(127) = <<2, 1, 127>> /\ Encoded(128) = <<2, 2, 0, 128>>
       /\ Encoded(-128) = <<2, 1, 128>> /\ Encoded(-129) = <<2, 2, 255, 127>>

prefixed_integer ==
    /\ Element(Prefixed(1024), IntegerOctets(int, 0)) = <<159, 136, 0, 1, 0>>
    /\ Element(Prefixed(1024), IntegerOctets(int, 128)) = <<159, 136, 0, 2, 0, 128>>

enumerated ==
    /\ Element(Universal(10), IntegerOctets(int, 0)) = <<10, 1, 0>>
    /\ Element(Universal(10), IntegerOctets(int, 2)) = <<10, 1, 2>>
    /\ Element(Prefixed(1961), IntegerOctets(int, 1)) = <<159, 143, 41, 1, 1>>

bit_string ==
    LET small == <<10, 59, 95, 41, 28, 208>>
    IN /\ Element(Universal(3), BitStringOctets(0, <<>>)) = <<3, 1, 0>>
       /\ Element(Universal(3), BitStringOctets(44, small)) = <<3, 7, 4>> \o small

octet_string ==
    /\ Element(Universal(4), <<1, 2, 3>>) = <<4, 3, 1, 2, 3>>
    /\ Element(Tags(<<<<12321, APPLICATION>>>>), <<1, 2, 3>>) = <<95, 224, 33, 3, 1, 2, 3>>

null == Element(Universal(5), <<>>) = <<5, 0>> /\ Element(Prefixed(137), <<>>) = <<159, 129, 9, 0>>

\* The fields of Seq and Set, of type octet string and integer.
moct == Element(Prefixed(0), <<18, 52>>)
ooct == Element(Prefixed(1), <<69, 103, 137>>)
mint == Element(Prefixed(2), IntegerOctets(int, 7))
oint == Element(Prefixed(3), IntegerOctets(int, 987654321))
full == <<128, 2, 18, 52, 129, 3, 69, 103, 137, 130, 1, 7, 131, 4, 58, 222, 104, 177>>

sequence ==
    /\ Element(Constructed(16), moct \o ooct \o mint \o oint) = <<48, 18>> \o full
    /\ Element(Constructed(16), moct \o mint) = <<48, 7, 128, 2, 18, 52, 130, 1, 7>>
set ==
    /\ Element(Constructed(17), moct \o ooct \o mint \o oint) = <<49, 18>> \o full
    /\ Element(Constructed(17), moct \o mint) = <<49, 7, 128, 2, 18, 52, 130, 1, 7>>

items == FlattenSeq([n \in 1 .. 5 |-> Element(Universal(2), IntegerOctets(int, n))])
sequence_of == Element(Constructed(16), items) = <<48, 15, 2, 1, 1, 2, 1, 2, 2, 1, 3, 2, 1, 4, 2, 1, 5>>
set_of == Element(Constructed(17), items) = <<49, 15, 2, 1, 1, 2, 1, 2, 2, 1, 3, 2, 1, 4, 2, 1, 5>>
choice == moct = <<128, 2, 18, 52>> /\ Element(Prefixed(1), IntegerOctets(int, 7)) = <<129, 1, 7>>

\* Subidentifiers of up to 28 bits.
oid ==
    /\ Element(Universal(6), OidOctets(<<OidMake1st(1, 2)>>)) = <<6, 1, 42>>
    /\ Element(Universal(6), OidOctets(<<OidMake1st(2, 2097071)>>)) = <<6, 3, 255, 255, 127>>
    /\ Element(Universal(6), OidOctets(<<OidMake1st(2, 268435375)>>)) = <<6, 4, 255, 255, 255, 127>>
    /\ Element(Universal(6), OidOctets(<<OidMake1st(2, 999), 3>>)) = <<6, 3, 136, 55, 3>>
relative_oid ==
    /\ Element(Universal(13), OidOctets(<<1024, 7>>)) = <<13, 3, 136, 0, 7>>
    /\ Element(Universal(13), OidOctets(<<8571, 3, 2>>)) = <<13, 4, 194, 123, 3, 2>>
    /\ Element(Universal(13), OidOctets(<<2>>)) = <<13, 1, 2>>

-----------------------------------------------------------------------------
\* protobuf.cpp: the values of the message "plain" and their tags.
wire_type_VARINT == 0
field_tag(number, type) == 8 * number + type
plain ==
    \A field \in {<<1, 1, <<8, 1>>>>, <<2, 127, <<16, 127>>>>, <<3, 128, <<24, 128, 1>>>>, <<4, 256, <<32, 128, 2>>>>} :
        /\ VarintOctets(field_tag(field[1], wire_type_VARINT)) \o VarintOctets(field[2]) = field[3]
        /\ VarintDecoded(Unsigned(16), Tail(field[3]), FALSE) = Good(Len(field[3]) - 1, field[2])

ASSUME UnitTestsHold ==
    /\ len_size /\ len_encode /\ len_decode /\ tag
    /\ boolean /\ prefixed_boolean /\ integer /\ prefixed_integer /\ enumerated /\ bit_string /\ octet_string /\ null
    /\ sequence /\ set /\ sequence_of /\ set_of /\ choice /\ oid /\ relative_oid
    /\ plain
=============================================================================
