# A verification of med

med is a header-only C++ library for messages of binary protocols: the program
declares a message as C++ types, and med encodes and decodes it with a codec of
its choice (octets, protobuf, ASN.1 BER). This directory holds TLA+ modules of
med's run-time core, TLC configurations that check them on small instances, and
proofs checked by TLAPS. Line numbers are those of `src/`; paths without a
directory are in `src/med/`.

## 1. Inventory

med is sequential: no threads and no I/O. What makes it hard is that a codec is
a recursion spread over templates which share a few mutable words (the buffer's
cursor, end, remembered position and stack of ends; a tag read ahead), that any
step may throw, and that contexts and messages are used again afterwards.

| Component | State | Operations | What makes it correct |
| --- | --- | --- | --- |
| buffer (`buffer.hpp`) | `m_start`, cursor, `m_end`, one remembered position, `m_eob[]` with its index; `size_state` objects on the C++ stack | push, pop, advance, fill, push_size / commit / restore, push_state / pop_state, reset | windows nest; closing one brings back the end it was opened under, also while an exception unwinds; a tag can be put back |
| decoder (`decode.hpp`, `octet_decoder.hpp`) | the C++ stack of `ie_decode` / `apply_len`; the buffer | tag, length, value, containers, explicit and dependent length, padding | every encoded message comes back; what is accepted is a message; it ends |
| sequence (`sequence.hpp`) | `vtag`, the tag read ahead | decode and encode field by field | the tag read ahead is used once or given back |
| set, choice (`set.hpp`, `choice.hpp`) | the header just read; the selected case | decode by tag in any order; check presence | arity and presence whatever the order |
| encoder (`encode.hpp`, `length.hpp`, `octet_encoder.hpp`) | the buffer | lengths computed ahead, tags, values | the lengths written are those of what follows |
| fields (`mandatory.hpp`, `optional.hpp`, `count.hpp`, `container.hpp`) | presence | arity, conditions, counters, setters, length, clear, copy | |
| repeated field (`field.hpp`) | a linked list, slots in the object, nodes in an arena | push_back, pop_back, erase, clear, iterators | it is a sequence; a slot is never on it twice |
| allocator (`allocator.hpp`) | the rest of an arena | allocate, release, reset | blocks apart, aligned, inside the arena |
| snapshots (`encoder_context.hpp`, `snapshot.hpp`, `update.hpp`) | a list in the arena | put, get, update | an update writes in its own place |
| values (`value.hpp`, `octet_string.hpp`, `bit_string.hpp`) | value and "is set" | set, clear, copy | |
| codecs of values (`octet_*.hpp`, `bytes.hpp`, `protobuf/`, `asn/`) | the octet at the cursor that bit fields share | bit fields, varints, BER tags, lengths and integers | encoding and decoding are inverse; fields keep out of each other |
| padding (`padding.hpp`) | none | add, skip | the item with its padding has the right size |
| printer, names, traits, metaprogramming | none | formatting; computations at compile time | |

Interactions: codecs call containers, containers call back into the codec for
their fields; both work on the buffer of the context; repeated fields and
snapshots take memory from the context's allocator; exceptions end a codec
anywhere, and only the destructors of `size_state` clean up.

The hazards this gives are listed, each at its line, in `PROJECT.json`.

## 2. Modules

    WindowStack      <- implemented by -  Buffer          BufferProofs
                                            ^ INSTANCE
    FieldTypes <- MessageTypes <-------- MessageDecoder   DecoderProofs <- DecoderFields
                       ^                    ^
                  MessageEncoding <----- RoundTrips, Conformance
        ^ UnitTests <- ProtocolTests, LayoutTests, DiameterTests   (data of Conformance)
    Allocator        <- EXTENDS --------  MultiField      MultiFieldProofs
    ItemLists        <- implemented by -    "
    Snapshots                                             SnapshotsProofs
                                            SequenceLemmas (of the proofs)
    BitFields <- Varints <- Ber <- Codecs <- CodecTests   CodecProofs <- ValueProofs

`MC*` modules hold the constants of the runs only.

**WindowStack** is what a codec may rely on: a position that moves within the
innermost of a stack of nested windows.

**Buffer** has a variable for each member of `buffer` and one action for each
call. `scopes` are the `size_state` objects alive on the C++ stack; with each,
`outer` remembers for the properties the end that was current when it was
opened. `Throw` is any exception; while `throwing`, only `CloseScope` (the
destructors) and `Catch` happen. `looked` states the one thing Buffer asks of
codecs: they go back only to a position remembered in the same message.
MessageDecoder is shown to obey (`UsesBuffer`).

**FieldTypes** is med's notation for message types (`M<>`, `O<>`, `T<>`, `L<>`,
`CNT<>`, `min<>`, `max<>`, setters, padding, lengths that are a field of the item
or depend on one), as operators. **MessageTypes** is what encoder and decoder know
of a program's types: the constant `Types`, arity, the number a length says, the
size of padding. `TypesAssumption` is what the compiler accepts (the static_asserts
and concepts of med), and two bounds: only choices have headers, and the items of
a repeated field are set once they are decoded (`SetOnceDecoded`; see Bounds).
**MessageEncoding** is the encoder as a function: `Encoding(type, value)` with the
lengths it computes ahead, the fields it sets itself, and the exception it throws
instead. **MessageDecoder** is the decoder as a state machine on Buffer: a frame for every container being decoded, a step for
every call of the buffer or decision between two calls. It covers sequences, sets
and choices with headers of one or more fields, tags and lengths of several octets
and with offsets, explicit and dependent lengths, counters, conditions, repeated
fields with and without an allocator, and padding. Messages follow each other
through one context; the first may be any octets, and may end in an exception
anywhere. Every decoding starts from an empty message object. `Deferred` says whether the
types have lengths that are read after their data has begun (`DeferredTypes`). The
decoder takes two things from the encoder, as constants: what arrives from a peer
(`Encoder`), and the presence that the end of a set asks for (`IsPresent`); the
runs give them the operators of MessageEncoding. These are recursive, and
MessageDecoder, which is proved about, must not reach them.
**RoundTrips** states the properties that relate the two.

**Conformance** compares the two with the unit tests of the repository.
**UnitTests** defines what a test is (a value or octets, and the octets, value or
exception expected); **ProtocolTests** (`ut/sequence.cpp`, `set.cpp`, `med.cpp`,
`ut_proto.hpp`), **LayoutTests** (`choice.cpp`, `length.cpp`, `padding.cpp`,
`gtpc.cpp`) and **DiameterTests** hold the message types and the tests under the
names they have there. The functions of an application that a type calls
(conditions, setters, count getters, offsets of lengths) are `Callback`.

**Allocator** is the arena, with addresses as numbers. `blocks` records what was
handed out. **MultiField** extends it with the linked lists of repeated fields
that share the arena, and iterators. **ItemLists** is what the user of repeated
fields is promised: sequences, and an iterator that stays on its item.

**Snapshots** is the encoder context: messages are encoded, element by element,
each leaving a snapshot; later elements are changed and updated in place.

**BitFields**, **Varints** and **Ber** are the conversions of the three codecs as
operators: integers of any number of bits at any bit of an octet; varints and BER
integers of 8, 16, 32 and 64 bits, of either sign (`IntegerTypes`); BER
tags, lengths of both forms, truth values, bit strings, object
identifiers, and elements behind several tags. **Codecs** puts them to use: values
are written one after the other into a memory that may be too small and may hold
anything, call by call of the buffer, and are read back, or octets arrive from
elsewhere. **CodecTests** states the unit tests of `ut/asn/ber.cpp` and
`ut/protobuf.cpp` as an assumption about the operators, which TLC evaluates.

## 3. What the runs check

| Run | Shows | Instance |
| --- | --- | --- |
| `buffer_implicit` | ordinary lengths: windows nest, a remembered tag is behind the cursor, `m_eob` is not overrun, closing restores, and Buffer implements WindowStack | 4 octets of memory, 2 nested windows |
| `buffer_deferred` | explicit and dependent lengths, committed or dropped: no two windows share a slot of `m_eob` | 3 octets, 3 slots |
| `decoder_messages` | encoded messages round-trip, also after any earlier message that failed; whatever is accepted is encodable with the same octets; every field gets the items it promises; a tag is put back whole; the decoder stays inside of the message and leaves no window open | 12 message types (and the types inside them) with every kind of field; all strings of up to 3 octets over 5 values, up to 4 over 3 values for five of the types |
| `unit_tests` | encoder and decoder do what the tests expect, octet by octet and exception by exception; and with octets of these tests broken off or altered, every call of the decoder is one that Buffer allows and decoding ends | the tests of nine files of `src/ut` |
| `multi_field` | repeated fields implement ItemLists; lists are sound; a free slot is found while there are fewer items than slots | 2 fields of 2 slots, 3 items, 1 arena |
| `snapshots` | updates write in their place only, take effect there, and do nothing when refused | 4 octets, 3 snapshots, 3 elements |
| `value_codecs` | values come back; bit fields keep out of each other; the buffer overflows only for what does not fit; what is accepted from elsewhere comes back, in as many octets or fewer | 69 layouts of bit fields, integers of 8 and 16 bits of either sign at the edges of their encodings, strings of 0 to 256 octets, about 200 000 octet strings |

Buffer allows its user a number of things only; `UsesBuffer` says that the decoder
keeps to them, so that the theorems about Buffer are theorems about the decoder's
buffer. It is proved for ordinary lengths (section 4) and checked with all lengths
by `unit_tests`.

Five runs find a counterexample to something the repository says:

- `explicit_length_items`: a window with an explicit length does not give back the
  end it was opened under (`buffer.hpp:304`). At the top level the buffer then ends
  where the element ended, and of two items with a length inside only the first is
  decoded, where `ut/length.cpp:394` expects both.
- `explicit_length_inside`: inside of another window, the end that comes back is the
  one outside of that window. Where an octet follows the outer window, `apply_len`
  then finds the outer window not used up and refuses what med encoded: `03 02 61 62 05`,
  a string in a window of its own length in a window, and one octet behind it.
- `decoder_repeated_tag`: after a *mandatory* repeated field with a tag, the tag
  read ahead is not given back to a mandatory field (`sequence.hpp:246` asks
  `AOptional<PREV_IE>`, the branch for repeated fields does not).
- `multi_field_unset`: `push_back()` twice without setting the first item returns
  the same slot, and `count()` is 2 for a list of one item (`field.hpp:224`).
  Clearing an item that is on the list has the same effect: its slot is handed
  out again, and the items behind it are lost from the list.
- `snapshot_lost`: every snapshot replaces the one before it in the list
  (`encoder_context.hpp:71`), so that only the last element can be updated.

The counterexamples were reproduced with the compiled library.

### Bounds

- Buffer: positions `0 .. MemSize`. `Commit` only follows ends between the cursor
  and the end of memory, `Advance` only positions in memory: `commit_end` does not
  check the end it computes, and beyond the memory the program's behaviour is
  undefined. `PushSize` with deferred lengths is not followed once `m_eob` is full:
  a pending window that is dropped leaves `m_eob_index` one too high
  (`buffer.hpp:277`), for good, and `LEN_DEPTH` of them overrun `m_eob`, which has
  no check (`buffer.hpp:111`). Two nested windows exercise every case of `commit_end`.
- Decoder: three octets hold a tag, a length and a value, or a tagged field and one
  octet too many; four hold two tagged fields; the round trip uses longer messages,
  up to `MemSize`. Only the first message in a context is arbitrary; it can leave
  any state behind that an arbitrary later one could (the remembered position,
  `m_eob`). Types with an explicit length or padding receive encoded messages only,
  since a lying explicit length leads out of the memory or leaves a window open, see
  above. For two types an encoded message also arrives in a context that
  was used before; an object that already holds a message is not modelled.
  The items of a repeated field are told apart by their order, one for
  every `push_back()`. That is so as long as every decoded item is set: `push_back()`
  would link the slot of an item that is not set once more (`field.hpp:224`, the finding
  `multi_field_unset`), which a container with optional fields only can be.
  `GoodContainer` excludes such items.
- Tests: memory for the longest test. The octets that arrive damaged are those of six
  tests of sequences, sets, choices and functors, broken off at every place or with
  one octet set to 100, which no tag or length of theirs is.
- MultiField: three items in two slots force an item into the arena; the arena
  has room for one node, and once two octets precede it for none, because of the
  alignment only. Two fields interfere through the arena only. Fields and values are
  symmetric.
- Snapshots: two types, one with a tag of its own; values of one and two octets in
  four octets; three snapshots fill the allocator. A message has an element of a
  type once: two share the identifier, and only the last could be updated.
- Codecs: integers have 8 and 16 bits, because TLC's numbers end at 2^31; those of 32
  and 64 bits are what the theorems of ValueProofs add. Three bit fields of 1, 3, 8 and 9 bits meet
  at every kind of border within and between octets; messages of integers have two
  fields. Memory is as large as the message or one to a few octets short.

### Assumptions

`Careful` in MultiField: all items of a field are set before another is appended;
without it lists break (`multi_field_unset`). `Recycle`: the arena is released only
when no field holds an item.

`Clz0` in Ber is what `__builtin_clz(0)` gives, so that 0 has `32 - Clz0` digits
(`__builtin_clzl` is taken to give 32 more). It is any integer in the theorems about types and
overflow. That values come back is checked for 32 and proved for 25 to 32, where 0 has up
to seven digits and 0 and -1 take one octet. Beyond, they need not come back: the digits are
counted in an `uint8_t`, and `write_bytes` throws `invalid_value` for no octets or more than
the type has, after the tags and the length are written (`Writable`, `Writes`). The model
takes one value of `Clz0` for both of the encoder's calls, a compiler need not. clang's branch of `ber_length.hpp:30`
does not call it for 0 and -1; gcc's does, where it is undefined. With g++ -O2 a
`value_t<int16_t>` of -1 was seen to be encoded as `02 09 ff`, with a length of nine
in front of one octet, and not to be decodable, although `ut/asn/ber.cpp:57` expects -1 to take one bit.

### Fairness

`WF_vars(Decode)`: `decode()` is one call in a running program, and as long as one
of its steps is possible it takes one. Nothing is assumed of the caller: whether
messages arrive or the context is reset. Other modules have no fairness, and no
liveness is claimed of them.

### What does not round-trip

Beside the counterexamples above, these types and values are left out of the
instances or excluded by a property's hypothesis, as the code plainly does not
support them:

- an optional counted field without items (the encoder writes nothing,
  `sequence.hpp:271`, the decoder reads a counter, `:122`);
- a nested sequence without a length that ends in an optional tagged field (the tag
  read ahead ends with its `vtag`, `:398`; a type with this is inside of windows in
  the instances, where `dropped` counts such messages);
- an unknown tag in the last octet of a length-delimited sequence: an optional field
  reads it ahead, nobody takes it, and the window counts as used up (`decode.hpp:98`
  looks at the cursor only), so that the message is accepted and the tag lost
  (`dropped` counts these as well; no line of the repository claims otherwise);
- a length in front of a container with a counted field (`container.hpp:70` does not
  count the counter);
- a conditional repeated field whose condition looks at another field (it never
  ends but by overflow);
- the tag 0 after an end of data matches a repeated field (`sequence.hpp:82`
  compares a tag that was not read); with tags other than 0 the next read throws;
- a value with more bits than its bit field is or-ed over the field in front
  (`octet_encoder.hpp:114`); `FieldsIntact` states that nothing else is disturbed;
- a bit field with an offset and more than four octets loses the fields in front of it
  (`octet_encoder.hpp:114`, see section 4; left out by `GoodField`);
- a negative varint is one octet that announces another one (`protobuf/encoder.hpp:74`);
- a varint of more than five octets shifts a value of up to 32 bits by more bits
  than it has (`protobuf/decoder.hpp:70`; `MAX_VARINT32_BYTES` is not used): what
  comes of it is one of two outcomes in the model, gone or shifted by the remainder;
- BER contents of more than 255 octets, and of more than 127 behind two tags: the
  length is a value of one octet and counted as one (`ber_info.hpp:69`, with a
  "TODO"; the tests at `ut/asn/ber.cpp:501` and `:522` are disabled for it). The decoder
  accepts such contents, in lengths it reads correctly: 128 octets behind two tags come
  in, and what is written for them is not read back. `AcceptedComesBack` was false
  of them, which the attempt to prove it showed, and is stated for what is `Sayable`;
- a BER bit string with more than 7 unused bits is accepted, though
  `ber_decoder.hpp:141` says 0 to 7 (found by reading; not modelled).

## 4. What is proved

All theorems hold for every value of the constants under the named assumptions
(sizes are naturals, `Nesting <= LenDepth`, requests have a size and an alignment,
markers such as `Plain`, `Null` and `Unset` are none of the things they mark).

**BufferProofs.** The invariant that carries every proof is
`IInv == Bookkeeping /\ (~Deferred => Immediate)`. *Bookkeeping* holds of any mixture
of lengths: types, and open windows with increasing indices below `m_eob_index`.
*Immediate* holds where all lengths are read first: the index counts the windows,
the slot of a window holds the end it was opened under, ends decrease inwards, and
the cursor and the remembered position are in between. Neither nesting nor
restoring is inductive alone: restoring relies on what a slot holds, which relies on no two
windows sharing one. From it follow `TypeCorrect`, `SlotsStayOwned` (all lengths),
and for ordinary lengths `WindowSafety`, `LookAheadSafety`, `IndexInBounds`,
`ClosingRestores` (an action property), and `Refinement`: Buffer implements
WindowStack, each action being mapped to a step of it or a stutter.

**MultiFieldProofs**, of the allocator. `StorageSafety`: blocks in use lie in the arena, aligned and
apart, for any requests; inductive with `UsedInFront`, that every block ends before
`m_begin` and that begin and size add up. `AllocatorTypes`: the size left never
wraps. `AlignUpFacts` is the arithmetic of `salign`.

Of the fields, `ItemsApart`: the same for the items of fields in a shared
arena, by showing every step of MultiField to be a step of the allocator. The other
theorems are about the lists, and hold for a `Careful` application. `ListsSound` is a
statement about a walk along links, which no step preserves by itself; the invariant
is instead that *some* `lists`, one sequence of nodes per field, fit the links
(`Arrangement`: nodes apart, each link leads to the next node of its list or, from
the last one, to the end; head, tail and count are those of the list; its nodes are
slots of the field or blocks in use; the value of a slot that is not on it is not
set; the iterator stands on a node of its list). Each action comes with the lists that fit
afterwards. That `Walk` is then the list (`WalkIsList`) makes `ListSafety` and
`ListTypes` consequences. `SlotsSuffice` is a pigeonhole: a field with a slot
not on its list has one whose value is not set, because `erase` and `pop_back` clear.

`FieldsAreItemLists`: repeated fields implement ItemLists. What `contents` and `at`
become under an action is read off the lists before and after it; one lemma per
action.

**SnapshotsProofs.** The five properties of the run, for any types, messages and
memories. `SnapshotsInPlace` and `UpdatesInPlace` hold between messages and between
the steps of one; inductive is that a snapshot lies inside of the place of
its element (`SnapshotsInside`), that what `update()` has yet to write fits into
the place as well (`UpdateInside`), and that there is never more than one snapshot
(`OneSnapshot`, which `TypeCorrect` states next to the types; the finding `snapshot_lost`, which makes an
update find the place of the newest element or none).

**DecoderProofs** and **DecoderFields** hold for all message types, all memories and
whatever octets arrive, as long as lengths are `Ordinary`: each known before its
window opens, and none counting its own octets. With the others the theorems would
be false: a pending window that is dropped leaves `m_eob_index` too high, an
explicit length can move the end out of the message, and `get_length()` of a length
that counts itself subtracts from an unsigned number.

- The invariant of DecoderProofs is that of the buffer with `DInv`: the state
  machine's modes (`Control`), what a frame may count on where it stands
  (`Frames`: `Shape` and `Placed`), where containers began (`Begins`), that every
  window on the buffer's stack was opened by a length of some frame
  (`WindowsCounted`), and that under all of them lies the end of the message
  (`WholeMessage`). The argument is the same for every step: it is one call of the
  buffer or none, so that the buffer's invariant follows from BufferProofs and not
  again from the code; and the frame it leaves fits its place. `UsesBuffer` needs
  `Begins`: the decoder only goes back to what the buffer remembers while the frame
  that remembered it is at work. It gives `TypeCorrect`, `UsesTheBuffer`,
  `StayingInside` and `WindowsClosed`.
- `TagsPutBack`: the tag in `vtag` is the octets between the remembered position
  and the cursor whenever a step may go back (`TagInv`). The position is one word that
  every length, set and repeated field inside overwrites; inductive is therefore *where*
  a tag may be kept at all (`TagKept`): between fields, by the field that compares
  it, and by a repeated field over its items, where nobody goes back. The hypothesis
  `NoGap` excludes exactly the types of the finding `decoder_repeated_tag`, a
  mandatory repeated field with a tag in front of a field that does not look
  ahead: there a stale tag is carried on.
- `ItemsComplete`: a container ends only with as many items in each field as med
  promises, whichever of the five places checks it (`count.hpp`, the loop over a
  counter, the loop over tags, `set_check`, the case of a choice). `ArityInv` says for
  each place what was established of the fields before it, of the field at hand and
  of those behind (`Around`, `ItemDue`, `ItemBegun`, `ItemDone`, `Singles`, `Chosen`):
  items so far and items still promised by a counter are within the bounds together, and
  a field that is not repeated has none when its item begins. It needs no
  `NoGap`: a tag that is lost costs a message, not an item.

**CodecProofs** is about the octet codec: messages of any number of bit fields of any
widths and any values, in memory that held anything. The lemmas lead from numbers to
fields: powers of two (`PowSum`) and quotients by them (`DivDiv`, `ModDiv`); a number
is its octets (`OctetsOfNumber`, `NumberOfOctets`) and an octet its bits; "or" of
numbers that have no bit in common is their sum (`OrApart`); so a field that was
placed is what is extracted (`PlacedFacts`, `ExtractedFacts`), and a field keeps its
value when only bits behind it change (`FieldKept`). The invariant `BitsInv` adds the
state: the cursor is in the octet that the next field begins in (`CursorInPlace`), and
the octets that a field touches hold its value, as long as no later value had too many
bits (`ValuesInPlace`). It is the octets that are inductive, not the bits: the encoder
writes the whole octet at the cursor, so that the proof of a step is `Behind`: a later
field begins behind the last octet of an earlier one, or in bits of it that the earlier one
leaves spare. From it follow `FieldsStayIntact` and `BitFieldsRoundTrip`, the property
`FieldsRoundTrip` where all fields are bit fields. `BitFieldTypes` (with the types, that
nothing but an exceeded buffer ends a message of bit fields, in the encoder or the
decoder) and `BitFieldOverflowIsReal` need one more invariant, `NoRoom`: where the field that did not
fit would have ended. The bits of the fields so far reach over the end of memory, as
less than an octet of what was asked for is spare.
Assumed of layouts: fields follow each other without gaps, as med's cursor demands,
and a field that shares its first octet is at most four octets wide. A wider one is shifted
as an int (`octet_encoder.hpp:114`): `bits<36, 4>` behind `bits<4, 0>` erases it
(seen with the compiled library).

**ValueProofs** is about the other codecs, and with CodecProofs about all messages:
`CodecTypes` and `CodecOverflowIsReal` (for any memory, any octets from elsewhere and
any `Clz0`), `CodecsRoundTrip` and `WhatIsAcceptedComesBack`, for any layouts of
varints and of integers and strings behind any number of tags of any length. It goes
from values to messages:

- *Varints.* A varint is the sum of its bits; those of an octet are where the shift
  puts them, and a shift that is too wide meets only octets that the encoder never
  writes (`VarintComesBack`), or bits that the type does not have: of what is accepted,
  the number is below 2^(7n), so its own varint is not longer (`VarintAccepted`).
- *Integers.* The number of octets that `calc_least_bits` counts holds the number with
  its sign and is the least that does (`BytesFacts`), so that the sign extension of the
  decoder brings it back (`IntegerComesBack`), and whatever it accepts has no fewer
  octets (`IntegerRead`).
- *Elements.* A window is opened by each tag and its length. Written lengths lead to the
  end of the element, from every window (`MeasuredFacts`), so the windows that the
  decoder opens are those, the innermost shows the contents, and all of them end there
  (`ElementComesBack`). The other way round, each window accepted lies inside of the one
  around it, behind a tag and a length, and these have at least the octets the encoder
  takes for them (`ElementAccepted`).
- *Messages.* `ValueComesBack`, `ValueDecoded` and `ValueAccepted` say this of a value of
  either codec, which is all that the state machine needs. The invariant `PlainInv` says
  that *some* `at`, where each value begins, fits the values given so far (`Laid`), that
  the octets of each value lie there in memory (`InMemory`) while the encoder goes on and
  when the decoder reads, and that a last one that did not fit would end behind memory
  (`InPlaces`); an integer that is refused ends the encoding (`AllWritable`: there
  is none for the values of `Clz0` from 25 to 32); and that the decoder is where the
  value begins that it reads next, after having read the ones before (`ReadBack`).
  `AcceptedFits` compares what came from elsewhere with what is written for it.

The provers lose their way where texts (the exception) and numbers meet, or where a
quantified fact about octets unfolds `0 .. 255`; that is why results are split into
named parts (`Faultless`, `Announces`, `OneBehind`).

**SequenceLemmas.** What the proofs use of sequences and folds. The induction
theorems of the library take an operator and cannot be cited; where a recursive
function has to be evaluated for every input (`FlattenSeq`, the walk along a
list), the proof takes the least counterexample instead (`LeastElement`).

Only model-checked:

- `RoundTrip`, `AcceptedIsEncodable`: they speak of encodings, which are RECURSIVE
  operators that the provers cannot use, and are inductions over messages.
- The decoder with explicit, dependent and deferred lengths, where the invariant of
  the buffer is weaker; `IndexInBounds` and `SlotsStayOwned` are proved of the
  buffer alone.
- `DecodeEnds`, which is liveness, and conformance with the unit tests.

## 5. Not modelled

- Headers of sets with several fields after the first tag (`set.hpp:278`; the one test
  of it, `ut/set.cpp:4`, is disabled), and tags of less than an octet in the header
  of a choice (`ut/choice.cpp:190`).
- The encoder running out of memory in the middle of a message of several
  containers: it is modelled for elements with snapshots (Snapshots) and for values
  (Codecs), where no container changes what is left behind.
- Copying, comparing and clearing of containers.
- Decoding of BER truth values, bit strings, object identifiers and repeated
  elements; reals, which the code does not implement.
- The printer (formatting), exception texts, template metaprogramming (nothing is
  left of it at run time), and the generated code and benchmark in `proto/` and
  `benchmark/`.
- Negative advances and offsets of the buffer are used by no codec.

## 6. Plan

1. *Encoder as a state machine* on Buffer, against `Encoding`, with snapshots and
   overflow at every call.
2. *Containers*: clear, copy and comparison.
3. *BER*: decoding of bit strings, object identifiers and repeated elements.
4. *Proofs*: the decoder with explicit and dependent lengths, which first need
   a weaker invariant of the buffer than `Immediate`.

The core was built first: the buffer and its proofs, the decoder on it, then
allocator, repeated fields and snapshots; then conformance with the unit tests and
the codecs of values; then their proofs.
