------------------------------- MODULE Codecs -------------------------------
(***************************************************************************)
(* Values on the wire: a message is a sequence of values, written one by   *)
(* one to memory and read back from its beginning, by each of the codecs   *)
(* of med: bit fields of the octet codec, varints of the protobuf codec,   *)
(* integers and strings behind their tags and lengths of the BER codec.    *)
(*                                                                         *)
(* A field names its codec: "bits" with bits and offset, "varint" with a   *)
(* type, "integer" with a type and tags, "string" with tags, each of which *)
(* is as many octets.  A message is of one codec.                          *)
(***************************************************************************)
EXTENDS Ber

CONSTANTS Layouts,      \* messages: sequences of fields, bit fields without gaps
          Values(_),    \* field -> values the application may set
          Memory(_),    \* layout -> what the memory of the encoder may be
          Received(_)   \* layout -> octets that may arrive from elsewhere

\* bits<bits, offset>, where the bits in front are shifted as an int (a field that has
\* some is at most as wide, octet_encoder.hpp:114) and numbers have 64 bits; integers of
\* the types of C++; tags are octets.
GoodField(f) ==
    \/ /\ f.codec = "bits" /\ f.bits \in Nat \ {0} /\ f.offset \in 0 .. 7
       /\ NumBytes(f) <= (IF f.offset = 0 THEN 8 ELSE 4)
       /\ Values(f) \subseteq Nat
    \/ f.codec = "varint" /\ f.type \in IntegerTypes /\ Values(f) \subseteq ValuesOf(f.type)
    \/ /\ f.tags \in Seq(Seq(0 .. 255) \ {<<>>}) \ {<<>>}
       /\ \/ f.codec = "integer" /\ f.type \in IntegerTypes /\ Values(f) \subseteq ValuesOf(f.type)
          \/ f.codec = "string" /\ Values(f) \subseteq Seq(0 .. 255)

\* Bit fields follow each other without a gap.
Gapless(lay) ==
    \A i \in DOMAIN lay : lay[i].codec = "bits" /\ lay[i].offset = BitsOf(lay, i - 1) % 8

ASSUME LayoutsAssumption ==
    \A lay \in Layouts :
        /\ lay \in Seq({lay[i] : i \in DOMAIN lay})
        /\ \A i \in DOMAIN lay :
              GoodField(lay[i]) /\ (lay[i].codec = "bits" => Gapless(lay))

ASSUME MemoryAssumption ==
    \A lay \in Layouts : Memory(lay) \subseteq Seq(0 .. 255) /\ Received(lay) \subseteq Seq(0 .. 255)

VARIABLES layout,       \* the message type
          octets,       \* the memory of the buffer
          cursor,       \* octets in front of the cursor
          sent,         \* values given to the encoder so far
          got,          \* values read back so far
          phase         \* "encode", "decode", "full", or the exception thrown

vars == <<layout, octets, cursor, sent, got, phase>>

\* What the encoder asks of the buffer for a value, one call after the other: the
\* octets it writes there.  "old" is the octet at the cursor.
Chunks(f, v, old) ==
    CASE f.codec = "bits" -> <<Placed(f, v, old)>>
      [] f.codec = "varint" -> [i \in 1 .. VarintLength(v) |-> <<VarintOctets(v)[i]>>]
      [] f.codec = "integer" -> Append(Headers(f.tags, Bytes(f.type, v)), IntegerOctets(f.type, v))
      [] f.codec = "string" -> Append(Headers(f.tags, Len(v)), v)

\* The calls that find room, up to the first that does not.
Fitting(chunks, room) ==
    LET Size(k) == Len(FlattenSeq(SubSeq(chunks, 1, k)))
    IN SubSeq(chunks, 1, Max({k \in 0 .. Len(chunks) : Size(k) <= room}))

Advance(f, n) == IF f.codec = "bits" THEN AdvanceBits(f) ELSE n

Overlaid(mem, at, s) ==
    [k \in DOMAIN mem |-> IF k \in at + 1 .. at + Len(s) THEN s[k - at] ELSE mem[k]]

OctetAtCursor == IF cursor < Len(octets) THEN octets[cursor + 1] ELSE 0

\* write_bytes: an integer has one octet at least, and no more than its type.
Writable(f, v) == f.codec = "integer" => Bytes(f.type, v) \in 1 .. f.type.bits \div 8

\* A value is written; or the octets of an integer are refused when there is room made
\* for them behind its tags; or there is no room.
Writes(f, v, chunks, fitting) ==
    /\ sent' = Append(sent, v)
    /\ \/ /\ Len(fitting) = Len(chunks) /\ Writable(f, v)
          /\ octets' = Overlaid(octets, cursor, FlattenSeq(fitting))
          /\ cursor' = cursor + Advance(f, Len(FlattenSeq(fitting))) /\ UNCHANGED phase
       \/ /\ Len(fitting) = Len(chunks) /\ ~Writable(f, v)
          /\ octets' = Overlaid(octets, cursor, FlattenSeq(Front(fitting)))
          /\ cursor' = cursor + Len(FlattenSeq(fitting)) /\ phase' = "invalid_value"
       \/ /\ Len(fitting) # Len(chunks)
          /\ octets' = Overlaid(octets, cursor, FlattenSeq(fitting))
          /\ cursor' = cursor + Len(FlattenSeq(fitting)) /\ phase' = "full"

Encode ==
    /\ phase = "encode" /\ Len(sent) < Len(layout)
    /\ LET f == layout[Len(sent) + 1]
       IN \E v \in Values(f) : \E chunks \in {Chunks(f, v, OctetAtCursor)} :
              Writes(f, v, chunks, Fitting(chunks, Len(octets) - cursor))
    /\ UNCHANGED <<layout, got>>

\* The message is complete, and decoded from its beginning.
Turn ==
    /\ phase = "encode" /\ sent # <<>> /\ Len(sent) = Len(layout)
    /\ phase' = "decode" /\ cursor' = 0
    /\ UNCHANGED <<layout, octets, sent, got>>

-----------------------------------------------------------------------------
\* A tag and a length are read in a window w, and open the next one.
Opened(w, tag, s) ==
    LET n == Len(tag)
        len == ReadLength(SubSeq(s, w.at + n + 1, w.end))
        from == w.at + n + len.used
        Fails(fault) == [w EXCEPT !.fault = fault]
    IN IF w.fault # "" THEN w
       ELSE IF w.end - w.at < n THEN Fails("overflow")
       ELSE IF SubSeq(s, w.at + 1, w.at + n) # tag THEN Fails("unknown_tag")
       ELSE IF len.fault # "" THEN Fails(len.fault)
       ELSE IF from + len.value > w.end THEN Fails("overflow")
       ELSE [fault |-> "", at |-> from, end |-> from + len.value, ends |-> w.ends \cup {from + len.value}]

\* A value behind its tags: it takes the whole of the innermost window, and the
\* others must end there as well.
Windowed(f, w, s) ==
    LET content == SubSeq(s, w.at + 1, w.end)
    IN IF w.fault # "" THEN Bad(w.fault)
       ELSE IF f.codec = "integer" /\ ReadInteger(f.type, content) = {} THEN Bad("invalid_value")
       ELSE IF w.ends # {w.end} THEN Bad("overflow")
       ELSE Good(w.end, IF f.codec = "string" THEN content
                        ELSE CHOOSE v \in ReadInteger(f.type, content) : TRUE)

\* What decoding the octets s ends with.
Decoded(f, s, wraps) ==
    CASE f.codec = "bits" ->
            IF Len(s) < NumBytes(f) THEN Bad("overflow")
            ELSE Good(AdvanceBits(f), Extracted(f, SubSeq(s, 1, NumBytes(f))))
      [] f.codec = "varint" -> VarintDecoded(f.type, s, wraps)
      [] f.codec \in {"integer", "string"} ->
            LET window[k \in 0 .. Len(f.tags)] ==
                    IF k = 0 THEN [fault |-> "", at |-> 0, end |-> Len(s), ends |-> {}]
                    ELSE Opened(window[k - 1], f.tags[k], s)
            IN Windowed(f, window[Len(f.tags)], s)

Decode ==
    /\ phase = "decode" /\ Len(got) < Len(layout)
    /\ LET f == layout[Len(got) + 1]
       IN \E wraps \in BOOLEAN :
          \E end \in {Decoded(f, SubSeq(octets, cursor + 1, Len(octets)), wraps)} :
              IF end.fault = ""
              THEN got' = Append(got, end.value) /\ cursor' = cursor + end.used /\ UNCHANGED phase
              ELSE phase' = end.fault /\ UNCHANGED <<got, cursor>>
    /\ UNCHANGED <<layout, octets, sent>>

-----------------------------------------------------------------------------
\* An empty memory to encode to, or a message from elsewhere.
Init ==
    /\ layout \in Layouts
    /\ \/ octets \in Memory(layout) /\ phase = "encode"
       \/ octets \in Received(layout) /\ phase = "decode"
    /\ cursor = 0 /\ sent = <<>> /\ got = <<>>

Next == Encode \/ Turn \/ Decode

Spec == Init /\ [][Next]_vars

-----------------------------------------------------------------------------
\* What is in memory are octets, the cursor stays in it, and there are at most as
\* many values as fields.
TypeOK ==
    /\ layout \in Layouts
    /\ octets \in Seq(0 .. 255)
    /\ cursor \in 0 .. Len(octets)
    /\ Len(sent) <= Len(layout) /\ Len(got) <= Len(layout)
    /\ phase \in {"encode", "decode", "full", "overflow", "invalid_value", "unknown_tag"}

OfBits == \A i \in DOMAIN layout : layout[i].codec = "bits"

\* Bit b of the memory, counted from its beginning.
Bit(mem, b) == (mem[b \div 8 + 1] \div Pow2[7 - (b % 8)]) % 2

\* The number in the bits of field i, wherever they are.
InPlace(i) ==
    LET n == layout[i].bits
        first == BitsOf(layout, i - 1)
        upto[k \in 0 .. n] == IF k = 0 THEN 0 ELSE 2 * upto[k - 1] + Bit(octets, first + k - 1)
    IN upto[n]

FitsBits(i) == sent[i] < Pow2[layout[i].bits]

\* However fields share octets: every bit field written so far is in the bits that
\* are its own, whatever memory held before and whatever was written behind it.
\* Only a later value with too many bits can reach over an earlier field
\* (octet_encoder.hpp:112-117).
FieldsIntact ==
    OfBits =>
        LET written == IF phase = "full" THEN Len(sent) - 1 ELSE Len(sent)
        IN \A i \in 1 .. written :
               (\A j \in i .. written : FitsBits(j)) => InPlace(i) = sent[i]

\* Elements whose lengths are counted as they are written, and are kept.
Measured(f, n) ==
    \A i \in DOMAIN f.tags : Inside(f.tags, i, n) < (IF i = 1 THEN 256 ELSE 128)

\* Values that a codec can say: numbers of as many bits as the field; of varints
\* those that are not negative, as a negative one is written as a single octet that
\* announces more (protobuf/encoder.hpp:74); contents of less than 256 octets, and
\* behind more than one tag of less than 128 (ber_info.hpp:69).
Sayable(f, v) ==
    CASE f.codec = "bits" -> v < Pow2[f.bits]
      [] f.codec = "varint" -> v >= 0
      [] f.codec = "integer" -> Measured(f, Bytes(f.type, v))
      [] f.codec = "string" -> Measured(f, Len(v))

\* What is decoded so far is what was encoded, and decoding it does not fail: for
\* every codec, integers of either sign and any size, lengths of either form, and
\* values next to each other.
FieldsRoundTrip ==
    (sent # <<>> /\ \A i \in DOMAIN sent : Sayable(layout[i], sent[i])) =>
        got = SubSeq(sent, 1, Len(got)) /\ phase \in {"encode", "full", "decode"}

\* The bits of a value in its message.
SizeOf(f, v) == IF f.codec = "bits" THEN f.bits ELSE 8 * Len(FlattenSeq(Chunks(f, v, 0)))

\* The bits of the first k values.
SentBits(k) ==
    LET upto[j \in 0 .. k] == IF j = 0 THEN 0 ELSE upto[j - 1] + SizeOf(layout[j], sent[j])
    IN upto[k]

\* The buffer overflows only when a field of the message does not fit: a field in
\* the octet of the one before it needs no room of its own, and no codec asks for
\* more room than it writes (buffer.hpp:194-208).
OverflowIsReal == phase = "full" => 8 * Len(octets) < SentBits(Len(sent))

\* What a decoder accepts from elsewhere, its encoder, if it can, says with as many octets or
\* fewer, and the decoder then returns the same: leading zeros, long forms and
\* varints that are too long denote what their shortest form does
\* (ber_decoder.hpp:82-136, 175-210; protobuf/decoder.hpp:61-95).
AcceptedComesBack ==
    (sent = <<>> /\ Len(got) = 1 /\ Len(layout) = 1 /\ Sayable(layout[1], got[1])) =>
        \A s \in {FlattenSeq(Chunks(layout[1], got[1], 0))} :
            /\ Decoded(layout[1], s, FALSE).value = got[1]
            /\ Decoded(layout[1], s, FALSE).fault = ""
            /\ layout[1].codec # "bits" => Len(s) <= cursor
=============================================================================
