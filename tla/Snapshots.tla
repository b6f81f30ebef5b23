----------------------------- MODULE Snapshots -----------------------------
(***************************************************************************)
(* Encoding into a med::encoder_context and updating single elements of    *)
(* the encoded message afterwards (encoder_context.hpp, snapshot.hpp,      *)
(* update.hpp, and what encode.hpp and octet_encoder.hpp add).             *)
(*                                                                         *)
(* While a message is encoded, every element marked with_snapshot leaves a *)
(* record of where its value went.  update() looks the record up by the    *)
(* element's type, compares lengths and encodes the element there.         *)
(***************************************************************************)
EXTENDS Integers, Sequences, SequencesExt

CONSTANTS Ids,         \* types of elements with_snapshot
          Plain,       \* an octet of anything else
          OwnMeta,     \* octets of tag and length that belong to the type itself
          Lengths,     \* octets a value can take
          Values,
          MemSize,     \* octets in the encoder's buffer
          Room,        \* snapshots that fit in the allocator
          MaxItems     \* bound: elements in a message

ASSUME OwnMetaAssumption == OwnMeta \in [Ids -> Nat]
ASSUME LengthsAssumption == Lengths \subseteq Nat \ {0}
ASSUME SizesAssumption == MemSize \in Nat /\ Room \in Nat
ASSUME PlainAssumption == Plain \notin Ids

VARIABLES memory,      \* what was last written to each octet
          cursor,
          snapshots,   \* the list at m_snapshot, newest first
          used,        \* snapshots created since the allocator was released
          ies,         \* the elements as the application holds them
          pending,     \* what the call under way has yet to encode
          updating,    \* the element update() is about, or Plain
          thrown,      \* what ended the last call, "" if it returned
          placed       \* where each element of the message is, for the properties

vars == <<memory, cursor, snapshots, used, ies, pending, updating, thrown, placed>>

Octets == 0 .. MemSize - 1
Extent(at, len) == at .. at + len - 1
NotPlaced == [at |-> 0, len |-> 0]

\* A message has an element of a type once at most: two of one type share
\* their identifier, and update() finds the one that was encoded last.
Messages == {m \in SeqOf(Ids \cup {Plain}, MaxItems) :
                \A i, j \in DOMAIN m : m[i] = m[j] => i = j \/ m[i] = Plain}

\* An element is encoded as its own tag and length and then its value.
Encoding(id) == [k \in 1 .. OwnMeta[id] |-> Plain] \o <<id>>

Idle == pending = <<>>

Init ==
    /\ memory = [o \in Octets |-> Plain]
    /\ cursor = 0
    /\ snapshots = <<>>
    /\ used = 0
    /\ ies \in [Ids -> [len : Lengths, v : Values]]
    /\ pending = <<>>
    /\ updating = Plain
    /\ thrown = ""
    /\ placed = [i \in Ids |-> NotPlaced]

-----------------------------------------------------------------------------
\* The application resets the context and encodes a message.  It may release
\* the allocator first; reset() alone does not.
Encode(m, release) ==
    /\ Idle
    /\ cursor' = 0
    /\ snapshots' = <<>>
    /\ used' = IF release THEN 0 ELSE used
    /\ pending' = FlattenSeq([k \in DOMAIN m |-> IF m[k] = Plain THEN <<Plain>>
                                                 ELSE Encoding(m[k])])
    /\ updating' = Plain
    /\ thrown' = ""
    /\ placed' = [i \in Ids |-> NotPlaced]
    /\ UNCHANGED <<memory, ies>>

\* An exception ends the call and leaves what was written.
Throw(why) ==
    /\ pending' = <<>>
    /\ thrown' = why

\* A slip: room for one octet more than there is.
PutOneOver(n, what) ==
    IF n <= MemSize - cursor + 1
    THEN /\ memory' = [o \in Octets |-> IF o \in Extent(cursor, n) THEN what ELSE memory[o]]
         /\ cursor' = cursor + n
         /\ pending' = Tail(pending)
         /\ UNCHANGED thrown
    ELSE /\ Throw("overflow")
         /\ UNCHANGED <<memory, cursor>>

\* The encoder takes n octets of the buffer (advance), or finds them missing.
Put(n, what) ==
    IF n <= MemSize - cursor
    THEN /\ memory' = [o \in Octets |-> IF o \in Extent(cursor, n) THEN what ELSE memory[o]]
         /\ cursor' = cursor + n
         /\ pending' = Tail(pending)
         /\ UNCHANGED thrown
    ELSE /\ Throw("overflow")
         /\ UNCHANGED <<memory, cursor>>

EncodePlain ==
    /\ ~Idle /\ Head(pending) = Plain
    /\ Put(1, Plain)
    /\ UNCHANGED <<snapshots, used, ies, updating, placed>>

\* put_snapshot(): the new entry takes the place of the newest one instead of
\* going before it (p->next = m_snapshot->next).
Listed(s) == <<s>> \o (IF snapshots = <<>> THEN <<>> ELSE Tail(snapshots))

\* A slip: the snapshot without its length.
SnapshotOfEnd(id) == [id |-> id, size |-> ies[id].len, at |-> cursor + ies[id].len]

Snapshot(id) == [id |-> id, size |-> ies[id].len, at |-> cursor]

\* ie_encode() of an element's value; its snapshot is taken even if it does not fit.
EncodeValue ==
    LET id == Head(pending)
        len == ies[id].len
    IN  /\ ~Idle /\ id # Plain
        /\ IF used < Room
           THEN /\ used' = used + 1
                /\ snapshots' = Listed(Snapshot(id))
                /\ Put(len, <<id, ies[id].v>>)
                /\ placed' = IF updating = Plain
                             THEN [placed EXCEPT ![id] = [at |-> cursor, len |-> len]]
                             ELSE placed
           ELSE /\ Throw("out_of_memory")
                /\ UNCHANGED <<memory, cursor, snapshots, used, placed>>
        /\ UNCHANGED <<ies, updating>>

\* The application gives an element another value.
Change(id, ie) ==
    /\ Idle
    /\ ies[id] # ie
    /\ ies' = [ies EXCEPT ![id] = ie]
    /\ updating' = Plain
    /\ UNCHANGED <<memory, cursor, snapshots, used, pending, thrown, placed>>

\* A slip: the type not compared.
FoundNewest(id) == IF snapshots = <<>> THEN 0 ELSE 1

\* get_snapshot(): the place of the newest entry of the type, 0 if there is none.
Found(id) ==
    LET places == {k \in DOMAIN snapshots : snapshots[k].id = id}
    IN  IF places = {} THEN 0 ELSE Min(places)

\* field_length(): with the tag and length of the type.
FieldLength(id) == OwnMeta[id] + ies[id].len

\* A slip: the length not compared.
SameLengthUnchecked(id) == TRUE

\* validate_length(): the snapshot's length is that of the value alone.
SameLength(id) == snapshots[Found(id)].size = FieldLength(id)

\* A slip: the buffer moved before the length is compared.
UpdateMovingFirst(id) ==
    /\ Idle
    /\ updating' = id
    /\ cursor' = IF Found(id) = 0 THEN cursor ELSE snapshots[Found(id)].at
    /\ IF Found(id) = 0
       THEN Throw("missing_ie")
       ELSE IF ~SameLength(id)
       THEN Throw("invalid_value")
       ELSE /\ pending' = Encoding(id)
            /\ thrown' = ""
    /\ UNCHANGED <<memory, snapshots, used, ies, placed>>

\* update(): the buffer goes back to the snapshot and the element is encoded
\* again, with another snapshot.  The cursor stays behind it.
Update(id) ==
    /\ Idle
    /\ updating' = id
    /\ IF Found(id) = 0
       THEN Throw("missing_ie") /\ UNCHANGED cursor
       ELSE IF ~SameLength(id)
       THEN Throw("invalid_value") /\ UNCHANGED cursor
       ELSE /\ cursor' = snapshots[Found(id)].at
            /\ pending' = Encoding(id)
            /\ thrown' = ""
    /\ UNCHANGED <<memory, snapshots, used, ies, placed>>

Next ==
    \/ \E m \in Messages, release \in BOOLEAN : Encode(m, release)
    \/ EncodePlain
    \/ EncodeValue
    \/ \E id \in Ids : \/ \E ie \in [len : Lengths, v : Values] : Change(id, ie)
                       \/ Update(id)

Spec == Init /\ [][Next]_vars

-----------------------------------------------------------------------------
(* Properties.                                                             *)

TypeOK ==
    /\ memory \in [Octets -> {Plain} \cup (Ids \X Values)]
    /\ cursor \in 0 .. MemSize
    /\ \A k \in DOMAIN snapshots :
          snapshots[k] \in [id : Ids, size : Lengths, at : 0 .. MemSize]
    /\ used \in 0 .. Room
    /\ ies \in [Ids -> [len : Lengths, v : Values]]
    /\ \A k \in DOMAIN pending : pending[k] \in Ids \cup {Plain}
    /\ updating \in Ids \cup {Plain}

\* After update() returned, with its length checked against the snapshot, the
\* octets of the element are those of its new value; with a type that has its
\* own tag or length the snapshot does not say where they begin.
UpdateTakesEffect ==
    Idle /\ updating # Plain /\ thrown = "" /\ OwnMeta[updating] = 0 =>
       LET place == placed[updating] IN
       /\ ies[updating].len = place.len
       /\ \A o \in Extent(place.at, place.len) : memory[o] = <<updating, ies[updating].v>>

\* update() never writes to an octet outside the element it is about, even if
\* values of other lengths were set in between or the call throws half-way.
UpdatesInPlace ==
    [][updating' # Plain =>
         \A o \in Octets : memory'[o] # memory[o] =>
            o \in Extent(placed[updating'].at, placed[updating'].len)]_vars

\* An update() that is refused leaves the encoder where it was, so that what
\* get_offset() and used() say of the message stays true.
RefusalsChangeNothing ==
    [][Idle /\ Idle' /\ thrown' \in {"missing_ie", "invalid_value"} =>
         UNCHANGED <<memory, cursor, snapshots, used>>]_vars

\* The snapshot of an element is where its value went.
SnapshotsInPlace ==
    \A k \in DOMAIN snapshots :
       LET s == snapshots[k] IN
       placed[s.id] # NotPlaced /\ Idle /\ OwnMeta[s.id] = 0
          => s.at = placed[s.id].at /\ s.size = placed[s.id].len

\* Every element of the message that has a snapshot can be updated, as long as
\* its length stays what it was.
EveryElementFound ==
    \A id \in Ids : placed[id] # NotPlaced => Found(id) # 0
=============================================================================
