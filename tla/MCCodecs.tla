------------------------------ MODULE MCCodecs ------------------------------
(* Bit fields that share octets in every way three of them can; integers and *)
(* strings at the edges of their encodings, alone and in pairs.              *)
EXTENDS CodecTests

\* Consecutive bit fields of the given numbers of bits.
Packed(ns) == [i \in DOMAIN ns |->
                   [codec |-> "bits", bits |-> ns[i],
                    offset |-> FoldLeft(LAMBDA sum, n : sum + n, 0, SubSeq(ns, 1, i - 1)) % 8]]

BitLayouts == {Packed(ns) : ns \in [1 .. 3 -> {1, 3, 8, 9}]}
                 \cup {Packed(ns) : ns \in {<<4, 12>>, <<12, 4>>, <<17, 7>>, <<1, 1, 1, 5>>, <<2, 14, 8>>}}

\* [1024], [1] EXPLICIT, and the universal tags of INTEGER and OCTET STRING.
Long == <<159, 136, 0>>
Types == {Unsigned(8), Signed(8), Unsigned(16), Signed(16)}
Varint == {[codec |-> "varint", type |-> T] : T \in Types}
Integer(tagss) == {[codec |-> "integer", type |-> T, tags |-> tags] : T \in Types, tags \in tagss}
Text == {[codec |-> "string", tags |-> tags] : tags \in {<<<<4>>>>, <<Long>>, <<<<161>>, <<4>>>>}}
Single == Varint \cup Integer({<<<<2>>>>, <<Long>>, <<<<161>>, <<2>>>>}) \cup Text

MCLayouts == BitLayouts \cup {<<f>> : f \in Single} \cup Varint \X Varint
                 \cup Integer({<<<<2>>>>}) \X Integer({<<<<2>>>>, <<<<161>>, <<2>>>>})

Edges == UNION {{n, -n, -n - 1} : n \in {0, 1, 127, 128, 255, 256, 16383, 16384, 32767, 65535}}

\* Numbers that fit, and one with a bit too many where the C++ type has room.
MCValues(f) ==
    CASE f.codec = "bits" -> {0, 2 ^ f.bits - 1, 2 ^ (f.bits - 1)}
                                 \cup (IF f.bits \in {8, 16} THEN {} ELSE {2 ^ f.bits + 1})
      [] f.codec = "string" -> {[k \in 1 .. n |-> 97] : n \in {0, 1, 125, 126, 127, 128, 255, 256}}
      [] OTHER -> Edges \cap ValuesOf(f.type)

\* Memory with something in it, as large as the message or a little short.
MCMemory(lay) ==
    LET Filled(n, filler) == [k \in 1 .. n |-> filler]
    IN CASE lay[1].codec = "bits" ->
              {Filled(BytesOf(BitsOf(lay, Len(lay))) - missing, filler) : missing \in {0, 1}, filler \in {0, 255, 165}}
         [] lay[1].codec = "string" -> {Filled(n, 165) : n \in {0, 2, 3, 5, 129, 130, 131, 132, 134, 258, 259, 262}}
         [] OTHER -> {Filled(n, 165) : n \in {0, 1, 2, 3, 4, 6, 8, 10}}

\* Octet strings that a single value arrives as.
UpTo(n, S) == UNION {[1 .. k -> S] : k \in 0 .. n}
MCReceived(lay) ==
    CASE Len(lay) > 1 \/ lay[1].codec = "bits" -> {}
      [] lay[1].codec = "varint" -> UpTo(3, {0, 1, 3, 127, 128, 129, 255}) \cup UpTo(6, {128, 1})
                                       \cup {[k \in 1 .. n |-> IF k < n THEN 128 ELSE o] : n \in 7 .. 11, o \in {1, 129}}
      [] OTHER -> LET tags == lay[1].tags
                  IN IF Len(tags) = 1 THEN {tags[1] \o s : s \in UpTo(4, {0, 1, 2, 3, 127, 128, 129, 130, 137, 255})}
                     ELSE {tags[1] \o s : s \in UpTo(5, {0, 1, 3, 4, 5, 129, tags[2][1]})}
                              \cup {tags[1] \o <<129, n + 3>> \o tags[2] \o <<129, n>> \o [k \in 1 .. n |-> 97] : n \in {127, 128}}
=============================================================================
