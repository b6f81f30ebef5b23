--------------------------- MODULE SnapshotsProofs ---------------------------
(***************************************************************************)
(* Proofs about Snapshots: for any types with or without tags and lengths  *)
(* of their own, any messages, and memories of any size, update() writes   *)
(* in its place only, and what it wrote is there when it returned.         *)
(***************************************************************************)
EXTENDS Snapshots, SequenceLemmas

SnapshotType == [id : Ids, size : Lengths, at : 0 .. MemSize]
Place == [at : Nat, len : Nat]
Element == [len : Lengths, v : Values]
Cell == {Plain} \cup (Ids \X Values)

Inside(at, len, place) == place.at <= at /\ at + len <= place.at + place.len

\* The list never grows beyond one entry: the newest one replaces the last.
OneSnapshot == snapshots = <<>> \/ \E s \in SnapshotType : snapshots = <<s>>

\* What a snapshot covers lies where its element was placed, and is the
\* element's place if the type is a bare value.
SnapshotsInside ==
    \A s \in SnapshotType : snapshots = <<s>> =>
       /\ Inside(s.at, s.size, placed[s.id])
       /\ OwnMeta[s.id] = 0 => s.at = placed[s.id].at /\ s.size = placed[s.id].len

\* What an update has yet to write lies there too: octets of tags and lengths,
\* and then the value.
UpdateInside ==
    updating # Plain /\ pending # <<>> =>
       /\ pending[Len(pending)] = updating
       /\ \A k \in 1 .. Len(pending) - 1 : pending[k] = Plain
       /\ Inside(cursor, Len(pending) - 1 + ies[updating].len, placed[updating])
       /\ OwnMeta[updating] = 0 => /\ Len(pending) = 1
                                   /\ cursor = placed[updating].at
                                   /\ ies[updating].len = placed[updating].len

Types ==
    /\ memory \in [Octets -> Cell]
    /\ cursor \in 0 .. MemSize
    /\ used \in 0 .. Room
    /\ ies \in [Ids -> Element]
    /\ pending \in Seq(Ids \cup {Plain})
    /\ updating \in Ids \cup {Plain}
    /\ placed \in [Ids -> Place]
    /\ OneSnapshot

IInv ==
    /\ Types
    /\ SnapshotsInside
    /\ UpdateInside
    /\ UpdateTakesEffect

-----------------------------------------------------------------------------
(* Lemmas about the operators.                                             *)

LEMMA ConstantFacts ==
    /\ \A id \in Ids : OwnMeta[id] \in Nat
    /\ \A n \in Lengths : n \in Nat \ {0}
    /\ MemSize \in Nat /\ Room \in Nat
    /\ Plain \notin Ids
  BY OwnMetaAssumption, LengthsAssumption, SizesAssumption, PlainAssumption

\* What update() encodes: the octets of the type, then the value.
LEMMA EncodingFacts ==
    ASSUME NEW id \in Ids
    PROVE  /\ Encoding(id) \in Seq(Ids \cup {Plain})
           /\ Len(Encoding(id)) = OwnMeta[id] + 1
           /\ Encoding(id)[OwnMeta[id] + 1] = id
           /\ \A k \in 1 .. OwnMeta[id] : Encoding(id)[k] = Plain
  <1> DEFINE n == OwnMeta[id]
             own == [k \in 1 .. n |-> Plain]
             value == <<id>>
  <1>1. n \in Nat
    BY ConstantFacts
  <1> HIDE DEF n
  <1>2. own \in Seq(Ids \cup {Plain}) /\ Len(own) = n /\ \A k \in 1 .. n : own[k] = Plain
    BY <1>1
  <1>3. value \in Seq(Ids \cup {Plain}) /\ Len(value) = 1 /\ value[1] = id
    OBVIOUS
  <1> HIDE DEF own, value
  <1>4. /\ own \o value \in Seq(Ids \cup {Plain})
        /\ Len(own \o value) = n + 1
        /\ \A k \in 1 .. n + 1 : (own \o value)[k] = IF k <= n THEN own[k] ELSE value[k - n]
    <2>1. /\ own \o value \in Seq(Ids \cup {Plain})
          /\ Len(own \o value) = Len(own) + Len(value)
          /\ \A k \in 1 .. Len(own) + Len(value) :
                (own \o value)[k] = IF k <= Len(own) THEN own[k] ELSE value[k - Len(own)]
      BY <1>2, <1>3, ConcatProperties
    <2> QED
      BY <1>1, <1>2, <1>3, <2>1
  <1>5. Encoding(id) = own \o value
    BY DEF Encoding, own, value, n
  <1> QED
    BY <1>1, <1>2, <1>3, <1>4, <1>5 DEF n

\* get_snapshot() finds the one entry there is, if it is of the type.
LEMMA FoundFacts ==
    ASSUME OneSnapshot, NEW id \in Ids, Found(id) # 0
    PROVE  \E s \in SnapshotType :
              snapshots = <<s>> /\ s.id = id /\ snapshots[Found(id)] = s
  <1> DEFINE places == {k \in DOMAIN snapshots : snapshots[k].id = id}
  <1>1. places # {} /\ Found(id) = Min(places)
    BY DEF Found
  <1>2. PICK s \in SnapshotType : snapshots = <<s>>
    BY <1>1 DEF OneSnapshot
  <1>3. places \subseteq {1}
    BY <1>2
  <1>4. places \subseteq Nat
    BY <1>3
  <1> HIDE DEF places
  <1>5. Found(id) = 1 /\ 1 \in places
    BY <1>1, <1>3, <1>4, MinFacts
  <1>6. s.id = id
    BY <1>2, <1>5 DEF places
  <1> QED
    BY <1>2, <1>5, <1>6

\* put_snapshot() leaves the new entry only.
LEMMA ListedFacts ==
    ASSUME OneSnapshot, NEW s \in SnapshotType
    PROVE  Listed(s) = <<s>>
  <1>1. CASE snapshots = <<>>
    BY <1>1 DEF Listed
  <1>2. CASE snapshots # <<>>
    <2>1. PICK t \in SnapshotType : snapshots = <<t>>
      BY <1>2 DEF OneSnapshot
    <2> QED
      BY <2>1 DEF Listed
  <1> QED
    BY <1>1, <1>2

\* A message is a sequence of octets and values.
LEMMA MessageType ==
    ASSUME NEW m \in Messages
    PROVE  FlattenSeq([k \in DOMAIN m |-> IF m[k] = Plain THEN <<Plain>> ELSE Encoding(m[k])])
              \in Seq(Ids \cup {Plain})
  <1> DEFINE S == Ids \cup {Plain}
             parts == [k \in DOMAIN m |-> IF m[k] = Plain THEN <<Plain>> ELSE Encoding(m[k])]
  <1>1. PICK n \in 0 .. MaxItems : m \in [1 .. n -> S]
    BY DEF Messages, SeqOf
  <1>2. \A k \in 1 .. n : parts[k] \in Seq(S)
    <2>1. ASSUME NEW k \in 1 .. n PROVE parts[k] \in Seq(S)
      <3>1. CASE m[k] = Plain
        <4>1. parts[k] = <<Plain>> /\ <<Plain>> \in Seq(S)
          BY <1>1, <3>1
        <4> QED
          BY <4>1
      <3>2. CASE m[k] # Plain
        <4>1. m[k] \in Ids /\ parts[k] = Encoding(m[k])
          BY <1>1, <3>2
        <4> QED
          BY <4>1, EncodingFacts
      <3> QED
        BY <3>1, <3>2
    <2> QED
      BY <2>1
  <1>3. parts \in [1 .. n -> Seq(S)]
    <2>1. parts = [k \in 1 .. n |-> parts[k]]
      BY <1>1
    <2> HIDE DEF parts
    <2> QED
      BY <1>2, <2>1
  <1> HIDE DEF parts
  <1>4. parts \in Seq(Seq(S))
    BY <1>3, <1>1
  <1> QED
    BY <1>4, FlattenType DEF parts

-----------------------------------------------------------------------------
(* The invariant is inductive.                                             *)

LEMMA InitIInv == Init => IInv
  <1> SUFFICES ASSUME Init PROVE IInv
    OBVIOUS
  <1>1. Types
    <2>1. placed \in [Ids -> Place]
      BY DEF Init, Place, NotPlaced
    <2>2. memory \in [Octets -> Cell]
      BY DEF Init, Cell
    <2>3. pending \in Seq(Ids \cup {Plain})
      BY EmptySeq DEF Init
    <2>4. cursor = 0 /\ used = 0
      BY DEF Init
    <2>5. MemSize \in Nat /\ Room \in Nat
      BY ConstantFacts
    <2>6. cursor \in 0 .. MemSize /\ used \in 0 .. Room
      BY <2>4, <2>5
    <2> QED
      BY <2>1, <2>2, <2>3, <2>6 DEF Init, Types, OneSnapshot, Element
  <1>2. SnapshotsInside /\ UpdateInside /\ UpdateTakesEffect
    BY ConstantFacts DEF Init, SnapshotsInside, UpdateInside, UpdateTakesEffect
  <1> QED
    BY <1>1, <1>2 DEF IInv

LEMMA EncodeIInv ==
    ASSUME IInv, NEW m \in Messages, NEW release \in BOOLEAN, Encode(m, release)
    PROVE  IInv'
  <1>1. Types'
    <2>1. pending' \in Seq(Ids \cup {Plain})
      BY MessageType DEF Encode
    <2>2. placed' \in [Ids -> Place]
      BY DEF Encode, Place, NotPlaced
    <2>3. cursor' \in 0 .. MemSize /\ used' \in 0 .. Room
      <3>1. cursor' = 0 /\ used' \in {0, used} /\ used \in 0 .. Room
        BY DEF Encode, IInv, Types
      <3>2. MemSize \in Nat /\ Room \in Nat
        BY ConstantFacts
      <3> QED
        BY <3>1, <3>2
    <2>4. UNCHANGED <<memory, ies>> /\ updating' = Plain /\ snapshots' = <<>>
      BY DEF Encode
    <2> QED
      BY <2>1, <2>2, <2>3, <2>4 DEF IInv, Types, OneSnapshot, Octets
  <1>2. SnapshotsInside' /\ UpdateInside' /\ UpdateTakesEffect'
    BY DEF Encode, SnapshotsInside, UpdateInside, UpdateTakesEffect
  <1> QED
    BY <1>1, <1>2 DEF IInv

\* Taking octets of the memory, or finding them missing.
LEMMA PutTypes ==
    ASSUME IInv, NEW n \in Nat, NEW what \in Cell, Put(n, what), pending # <<>>
    PROVE  /\ memory' \in [Octets -> Cell]
           /\ cursor' \in 0 .. MemSize
           /\ pending' \in Seq(Ids \cup {Plain})
  <1>1. /\ memory \in [Octets -> Cell]
        /\ cursor \in 0 .. MemSize
        /\ pending \in Seq(Ids \cup {Plain})
        /\ MemSize \in Nat
    BY ConstantFacts DEF IInv, Types
  <1>2. CASE n <= MemSize - cursor
    <2>1. /\ memory' = [o \in Octets |-> IF o \in Extent(cursor, n) THEN what ELSE memory[o]]
          /\ cursor' = cursor + n
          /\ pending' = Tail(pending)
      BY <1>2 DEF Put
    <2>2. pending' \in Seq(Ids \cup {Plain})
      BY <2>1, <1>1, HeadTailProperties
    <2> QED
      BY <2>1, <2>2, <1>1, <1>2
  <1>3. CASE ~(n <= MemSize - cursor)
    BY <1>1, <1>3 DEF Put, Throw
  <1> QED
    BY <1>2, <1>3

LEMMA EncodePlainIInv == ASSUME IInv, EncodePlain PROVE IInv'
  <1>1. /\ pending # <<>> /\ Head(pending) = Plain
        /\ Put(1, Plain)
        /\ UNCHANGED <<snapshots, used, ies, updating, placed>>
    BY DEF EncodePlain, Idle
  <1>2. Types'
    <2>1. Plain \in Cell
      BY DEF Cell
    <2>2. /\ memory' \in [Octets -> Cell]
          /\ cursor' \in 0 .. MemSize
          /\ pending' \in Seq(Ids \cup {Plain})
      BY <1>1, <2>1, PutTypes
    <2> QED
      BY <1>1, <2>2 DEF IInv, Types, OneSnapshot
  <1>3. SnapshotsInside'
    BY <1>1 DEF IInv, SnapshotsInside
  <1>4. CASE ~(1 <= MemSize - cursor)
    <2>1. pending' = <<>> /\ thrown' = "overflow"
      BY <1>1, <1>4 DEF Put, Throw
    <2>2. UpdateInside' /\ UpdateTakesEffect'
      BY <2>1 DEF UpdateInside, UpdateTakesEffect
    <2> QED
      BY <1>2, <1>3, <2>2 DEF IInv
  <1>5. CASE 1 <= MemSize - cursor
    <2>1. cursor' = cursor + 1 /\ pending' = Tail(pending) /\ UNCHANGED thrown
      BY <1>1, <1>5 DEF Put
    <2>2. ASSUME updating # Plain
          PROVE  /\ Len(pending) > 1 /\ OwnMeta[updating] # 0
                 /\ UpdateInside'
                 /\ pending' # <<>>
      <3>1. /\ pending \in Seq(Ids \cup {Plain}) /\ Len(pending) \in Nat \ {0}
            /\ updating \in Ids /\ pending[1] = Plain
            /\ cursor \in Nat /\ ies[updating].len \in Nat
            /\ placed[updating].at \in Nat /\ placed[updating].len \in Nat
        BY <1>1, <2>2, ConstantFacts, EmptySeq, LenProperties DEF IInv, Types, Element, Place
      <3>2. /\ pending[Len(pending)] = updating
            /\ \A k \in 1 .. Len(pending) - 1 : pending[k] = Plain
            /\ Inside(cursor, Len(pending) - 1 + ies[updating].len, placed[updating])
            /\ OwnMeta[updating] = 0 => Len(pending) = 1
        BY <1>1, <2>2 DEF IInv, UpdateInside
      <3>3. Len(pending) > 1 /\ OwnMeta[updating] # 0
        BY <3>1, <3>2, <2>2
      <3>4. /\ pending' \in Seq(Ids \cup {Plain})
            /\ Len(pending') = Len(pending) - 1
            /\ \A k \in 1 .. Len(pending) - 1 : pending'[k] = pending[k + 1]
        BY <2>1, <3>1, <1>1, HeadTailProperties
      <3>5. /\ pending'[Len(pending')] = updating
            /\ \A k \in 1 .. Len(pending') - 1 : pending'[k] = Plain
        <4>1. Len(pending) - 1 \in 1 .. Len(pending) - 1
          BY <3>1, <3>3
        <4>2. pending'[Len(pending) - 1] = pending[Len(pending) - 1 + 1]
          BY <4>1, <3>4
        <4>3. Len(pending) - 1 + 1 = Len(pending)
          BY <3>1
        <4>4. ASSUME NEW k \in 1 .. Len(pending) - 2 PROVE pending'[k] = Plain
          <5>1. k \in 1 .. Len(pending) - 1 /\ k + 1 \in 1 .. Len(pending) - 1
            BY <3>1
          <5> QED
            BY <5>1, <3>2, <3>4
        <4>5. Len(pending') - 1 = Len(pending) - 2
          BY <3>1, <3>4
        <4> QED
          BY <4>2, <4>3, <4>4, <4>5, <3>2, <3>4
      <3>6. Inside(cursor', Len(pending') - 1 + ies[updating].len, placed[updating])
        BY <3>1, <3>2, <3>4, <2>1 DEF Inside
      <3>7. UpdateInside'
        BY <3>3, <3>5, <3>6, <1>1 DEF UpdateInside
      <3>8. pending' # <<>>
        BY <3>3, <3>4, <3>1
      <3> QED
        BY <3>3, <3>7, <3>8
    <2>3. UpdateInside' /\ UpdateTakesEffect'
      BY <2>2, <1>1 DEF UpdateInside, UpdateTakesEffect, Idle
    <2> QED
      BY <1>2, <1>3, <2>3 DEF IInv
  <1> QED
    BY <1>4, <1>5

\* The one octet sequence left of an update when its value is next.
LEMMA ValueOfUpdate ==
    ASSUME IInv, updating # Plain, pending # <<>>, Head(pending) # Plain
    PROVE  /\ Len(pending) = 1
           /\ Head(pending) = updating
           /\ Inside(cursor, ies[updating].len, placed[updating])
           /\ OwnMeta[updating] = 0 => /\ cursor = placed[updating].at
                                       /\ ies[updating].len = placed[updating].len
  <1>1. /\ pending \in Seq(Ids \cup {Plain}) /\ Len(pending) \in Nat \ {0}
        /\ Head(pending) = pending[1]
        /\ updating \in Ids /\ ies[updating].len \in Nat
    BY ConstantFacts, EmptySeq DEF IInv, Types, Element
  <1>2. /\ pending[Len(pending)] = updating
        /\ \A k \in 1 .. Len(pending) - 1 : pending[k] = Plain
        /\ Inside(cursor, Len(pending) - 1 + ies[updating].len, placed[updating])
        /\ OwnMeta[updating] = 0 => /\ cursor = placed[updating].at
                                    /\ ies[updating].len = placed[updating].len
    BY DEF IInv, UpdateInside
  <1>3. Len(pending) = 1
    <2>1. ASSUME Len(pending) > 1 PROVE FALSE
      <3>1. 1 \in 1 .. Len(pending) - 1
        BY <1>1, <2>1
      <3>2. pending[1] = Plain
        BY <1>2, <3>1
      <3> QED
        BY <1>1, <3>2
    <2>2. Len(pending) \in Nat \ {0}
      BY <1>1
    <2> QED
      BY <2>1, <2>2
  <1>4. Len(pending) - 1 + ies[updating].len = ies[updating].len
    BY <1>1, <1>3
  <1> QED
    BY <1>1, <1>2, <1>3, <1>4

LEMMA EncodeValueIInv == ASSUME IInv, EncodeValue PROVE IInv'
  <1> DEFINE id == Head(pending)
             len == ies[id].len
  <1>1. /\ pending # <<>> /\ id \in Ids /\ id # Plain
        /\ ies[id] \in Element /\ len \in Lengths /\ len \in Nat /\ ies[id].v \in Values
        /\ UNCHANGED <<ies, updating>>
    <2>1. pending # <<>> /\ id # Plain /\ UNCHANGED <<ies, updating>>
      BY DEF EncodeValue, Idle
    <2>2. id \in Ids
      BY <2>1, HeadTailProperties DEF IInv, Types
    <2>3. ies[id] \in Element
      BY <2>2 DEF IInv, Types
    <2> QED
      BY <2>1, <2>2, <2>3, ConstantFacts DEF Element
  <1>2. CASE ~(used < Room)
    <2>1. /\ pending' = <<>> /\ thrown' = "out_of_memory"
          /\ UNCHANGED <<memory, cursor, snapshots, used, placed, ies, updating>>
      BY <1>2, <1>1 DEF EncodeValue, Throw
    <2>2. pending' \in Seq(Ids \cup {Plain})
      BY <2>1, EmptySeq
    <2>3. Types'
      BY <2>1, <2>2 DEF IInv, Types, OneSnapshot, Octets
    <2>4. SnapshotsInside' /\ UpdateInside' /\ UpdateTakesEffect'
      BY <2>1 DEF IInv, SnapshotsInside, UpdateInside, UpdateTakesEffect
    <2> QED
      BY <2>3, <2>4 DEF IInv
  <1>3. CASE used < Room
    <2> DEFINE s == Snapshot(id)
    <2>1. /\ used' = used + 1
          /\ snapshots' = Listed(s)
          /\ Put(len, <<id, ies[id].v>>)
          /\ placed' = IF updating = Plain
                       THEN [placed EXCEPT ![id] = [at |-> cursor, len |-> len]]
                       ELSE placed
      BY <1>3 DEF EncodeValue
    <2>2. s \in SnapshotType /\ s.id = id /\ s.at = cursor /\ s.size = len
      BY <1>1 DEF Snapshot, SnapshotType, IInv, Types
    <2>3. snapshots' = <<s>>
      <3> HIDE DEF s
      <3> QED
        BY <2>1, <2>2, ListedFacts DEF IInv, Types
    <2>4. cursor \in Nat /\ MemSize \in Nat /\ Room \in Nat /\ used \in Nat
      BY ConstantFacts DEF IInv, Types
    <2>5. placed' \in [Ids -> Place]
      <3>1. [at |-> cursor, len |-> len] \in Place
        BY <1>1, <2>4 DEF Place
      <3> QED
        BY <2>1, <3>1 DEF IInv, Types
    <2>6. Types'
      <3>1. <<id, ies[id].v>> \in Cell
        BY <1>1 DEF Cell
      <3>2. /\ memory' \in [Octets -> Cell]
            /\ cursor' \in 0 .. MemSize
            /\ pending' \in Seq(Ids \cup {Plain})
        BY <1>1, <2>1, <3>1, PutTypes
      <3>3. used' \in 0 .. Room
        BY <1>3, <2>1, <2>4
      <3>4. OneSnapshot'
        BY <2>2, <2>3 DEF OneSnapshot, SnapshotType
      <3> QED
        BY <3>2, <3>3, <3>4, <2>5, <1>1 DEF IInv, Types, Octets
    <2>7. updating = Plain => placed'[id] = [at |-> cursor, len |-> len]
      BY <2>1, <1>1 DEF IInv, Types
    <2>8. updating # Plain => /\ placed' = placed /\ updating = id /\ Len(pending) = 1
                              /\ Inside(cursor, len, placed[id])
                              /\ OwnMeta[id] = 0 => /\ cursor = placed[id].at
                                                    /\ len = placed[id].len
      BY <2>1, <1>1, ValueOfUpdate
    <2>9. SnapshotsInside'
      <3>1. /\ Inside(cursor, len, placed'[id])
            /\ OwnMeta[id] = 0 => cursor = placed'[id].at /\ len = placed'[id].len
        BY <2>4, <2>7, <2>8, <1>1 DEF Inside
      <3>2. ASSUME NEW t \in SnapshotType, snapshots' = <<t>>
            PROVE  t = s
        BY <3>2, <2>3
      <3> HIDE DEF s, id, len
      <3> QED
        BY <3>1, <3>2, <2>2 DEF SnapshotsInside, SnapshotType, Inside
    <2>10. UpdateInside' /\ UpdateTakesEffect'
      <3>1. CASE updating = Plain
        BY <3>1, <1>1 DEF UpdateInside, UpdateTakesEffect
      <3>2. CASE ~(len <= MemSize - cursor)
        <4>1. pending' = <<>> /\ thrown' = "overflow"
          BY <3>2, <2>1 DEF Put, Throw
        <4> QED
          BY <4>1 DEF UpdateInside, UpdateTakesEffect
      <3>3. CASE updating # Plain /\ len <= MemSize - cursor
        <4>1. /\ memory' = [o \in Octets |-> IF o \in Extent(cursor, len)
                                             THEN <<id, ies[id].v>> ELSE memory[o]]
              /\ pending' = Tail(pending)
          BY <3>3, <2>1 DEF Put
        <4>2. pending' = <<>>
          <5>1. pending \in Seq(Ids \cup {Plain})
            BY DEF IInv, Types
          <5>2. Tail(pending) \in Seq(Ids \cup {Plain}) /\ Len(Tail(pending)) = Len(pending) - 1
            BY <5>1, <1>1, HeadTailProperties
          <5>3. Len(Tail(pending)) = 0
            BY <5>2, <2>8, <3>3
          <5> QED
            BY <5>2, <5>3, <4>1, EmptySeq
        <4>3. UpdateInside'
          BY <4>2 DEF UpdateInside
        <4>4. UpdateTakesEffect'
          <5>1. SUFFICES ASSUME OwnMeta[id] = 0
                         PROVE  /\ len = placed[id].len
                                /\ \A o \in Extent(placed[id].at, placed[id].len) :
                                      memory'[o] = <<id, ies[id].v>>
            BY <2>8, <3>3, <1>1 DEF UpdateTakesEffect
          <5>2. cursor = placed[id].at /\ len = placed[id].len
            BY <5>1, <2>8, <3>3
          <5>3. Extent(cursor, len) \subseteq Octets
            BY <2>4, <3>3, <1>1 DEF Extent, Octets
          <5> QED
            BY <5>2, <5>3, <4>1
        <4> QED
          BY <4>3, <4>4
      <3> QED
        BY <3>1, <3>2, <3>3
    <2> QED
      BY <2>6, <2>9, <2>10 DEF IInv
  <1> QED
    BY <1>2, <1>3

LEMMA ChangeIInv ==
    ASSUME IInv, NEW id \in Ids, NEW ie \in Element, Change(id, ie)
    PROVE  IInv'
  <1>1. /\ ies' = [ies EXCEPT ![id] = ie]
        /\ updating' = Plain
        /\ UNCHANGED <<memory, cursor, snapshots, used, pending, thrown, placed>>
    BY DEF Change
  <1>2. ies' \in [Ids -> Element]
    BY <1>1 DEF IInv, Types
  <1>3. Types'
    BY <1>1, <1>2 DEF IInv, Types, OneSnapshot, Octets
  <1>4. SnapshotsInside' /\ UpdateInside' /\ UpdateTakesEffect'
    BY <1>1 DEF IInv, SnapshotsInside, UpdateInside, UpdateTakesEffect
  <1> QED
    BY <1>3, <1>4 DEF IInv

\* The length of the snapshot is compared with that of the type's own octets and
\* the value, so that the update stays inside of what the snapshot covers.
LEMMA UpdateIInv == ASSUME IInv, NEW id \in Ids, Update(id) PROVE IInv'
  <1>1. updating' = id /\ UNCHANGED <<memory, snapshots, used, ies, placed>>
    BY DEF Update
  <1>2. CASE Found(id) = 0 \/ ~SameLength(id)
    <2>1. pending' = <<>> /\ thrown' \in {"missing_ie", "invalid_value"} /\ UNCHANGED cursor
      BY <1>2 DEF Update, Throw
    <2>2. pending' \in Seq(Ids \cup {Plain})
      BY <2>1, EmptySeq
    <2>3. Types'
      BY <1>1, <2>1, <2>2 DEF IInv, Types, OneSnapshot, Octets
    <2>4. SnapshotsInside' /\ UpdateInside' /\ UpdateTakesEffect'
      BY <1>1, <2>1 DEF IInv, SnapshotsInside, UpdateInside, UpdateTakesEffect
    <2> QED
      BY <2>3, <2>4 DEF IInv
  <1>3. CASE Found(id) # 0 /\ SameLength(id)
    <2>1. PICK s \in SnapshotType : /\ snapshots = <<s>>
                                    /\ s.id = id
                                    /\ snapshots[Found(id)] = s
      BY <1>3, FoundFacts DEF IInv, Types
    <2>2. cursor' = s.at /\ pending' = Encoding(id)
      BY <1>3, <2>1 DEF Update
    <2>3. s.size = OwnMeta[id] + ies[id].len
      BY <1>3, <2>1 DEF SameLength, FieldLength
    <2>4. /\ Inside(s.at, s.size, placed[id])
          /\ OwnMeta[id] = 0 => s.at = placed[id].at /\ s.size = placed[id].len
      BY <2>1 DEF IInv, SnapshotsInside
    <2>5. /\ s.at \in 0 .. MemSize /\ OwnMeta[id] \in Nat
          /\ ies[id].len \in Nat /\ id # Plain
      BY ConstantFacts DEF SnapshotType, IInv, Types, Element
    <2>6. /\ pending' \in Seq(Ids \cup {Plain})
          /\ Len(pending') = OwnMeta[id] + 1
          /\ pending'[OwnMeta[id] + 1] = id
          /\ \A k \in 1 .. OwnMeta[id] : pending'[k] = Plain
      BY <2>2, EncodingFacts
    <2>7. pending' # <<>>
      BY <2>6, <2>5, EmptySeq
    <2>8. Types'
      BY <1>1, <2>2, <2>5, <2>6 DEF IInv, Types, OneSnapshot, Octets
    <2>9. SnapshotsInside' /\ UpdateTakesEffect'
      BY <1>1, <2>7 DEF IInv, SnapshotsInside, UpdateTakesEffect, Idle
    <2>10. UpdateInside'
      <3>1. Len(pending') - 1 = OwnMeta[id]
        BY <2>5, <2>6
      <3>2. Inside(cursor', Len(pending') - 1 + ies[id].len, placed[id])
        BY <2>2, <2>3, <2>4, <3>1
      <3>3. OwnMeta[id] = 0 => /\ Len(pending') = 1
                               /\ cursor' = placed[id].at
                               /\ ies[id].len = placed[id].len
        BY <2>2, <2>3, <2>4, <2>5, <2>6
      <3> QED
        BY <1>1, <2>5, <2>6, <3>1, <3>2, <3>3 DEF UpdateInside
    <2> QED
      BY <2>8, <2>9, <2>10 DEF IInv
  <1> QED
    BY <1>2, <1>3

LEMMA NextIInv == IInv /\ [Next]_vars => IInv'
  <1> SUFFICES ASSUME IInv, [Next]_vars PROVE IInv'
    OBVIOUS
  <1>1. ASSUME NEW m \in Messages, NEW release \in BOOLEAN, Encode(m, release) PROVE IInv'
    BY <1>1, EncodeIInv
  <1>2. CASE EncodePlain
    BY <1>2, EncodePlainIInv
  <1>3. CASE EncodeValue
    BY <1>3, EncodeValueIInv
  <1>4. ASSUME NEW id \in Ids, NEW ie \in Element, Change(id, ie) PROVE IInv'
    BY <1>4, ChangeIInv
  <1>5. ASSUME NEW id \in Ids, Update(id) PROVE IInv'
    BY <1>5, UpdateIInv
  <1>6. CASE UNCHANGED vars
    BY <1>6 DEF vars, IInv, Types, OneSnapshot, Octets, SnapshotsInside, UpdateInside,
       UpdateTakesEffect, Idle
  <1> QED
    BY <1>1, <1>2, <1>3, <1>4, <1>5, <1>6 DEF Next, Element

LEMMA Invariance == Spec => []IInv
  BY InitIInv, NextIInv, PTL DEF Spec

-----------------------------------------------------------------------------
\* Every variable keeps its type, and the list never holds more than one
\* snapshot: a snapshot is of a type, no longer than the longest element, and
\* begins in the memory (snapshot.hpp, encoder_context.hpp).
THEOREM TypeCorrect == Spec => [](TypeOK /\ Len(snapshots) <= 1)
  <1>1. IInv => TypeOK /\ Len(snapshots) <= 1
    <2> SUFFICES ASSUME IInv PROVE TypeOK /\ Len(snapshots) <= 1
      OBVIOUS
    <2>1. Types /\ OneSnapshot
      BY DEF IInv, Types
    <2>4. Len(snapshots) <= 1
      BY <2>1 DEF OneSnapshot
    <2>2. \A k \in DOMAIN snapshots : snapshots[k] \in SnapshotType
      BY <2>1 DEF OneSnapshot
    <2>3. \A k \in DOMAIN pending : pending[k] \in Ids \cup {Plain}
      BY <2>1, LenProperties, ElementOfSeq DEF Types
    <2> QED
      BY <2>1, <2>2, <2>3, <2>4 DEF TypeOK, Types, Cell, Element, SnapshotType
  <1> QED
    BY <1>1, Invariance, PTL

\* A snapshot of a bare value is where its value went, also after updates and
\* after calls that threw (encode.hpp, put_snapshot).
THEOREM SnapshotsStayInPlace == Spec => []SnapshotsInPlace
  <1>1. IInv => SnapshotsInPlace
    <2> SUFFICES ASSUME IInv, NEW k \in DOMAIN snapshots, OwnMeta[snapshots[k].id] = 0
                 PROVE  /\ snapshots[k].at = placed[snapshots[k].id].at
                        /\ snapshots[k].size = placed[snapshots[k].id].len
      BY DEF SnapshotsInPlace
    <2>1. PICK s \in SnapshotType : snapshots = <<s>> /\ snapshots[k] = s
      BY DEF IInv, Types, OneSnapshot
    <2> QED
      BY <2>1 DEF IInv, SnapshotsInside
  <1> QED
    BY <1>1, Invariance, PTL

\* When update() has returned, the element's octets are those of its new value
\* (update.hpp).
THEOREM UpdatesTakeEffect == Spec => []UpdateTakesEffect
  <1>1. IInv => UpdateTakesEffect
    BY DEF IInv
  <1> QED
    BY <1>1, Invariance, PTL

\* What one octet or one value writes during an update lies in the element.
LEMMA WritesInside ==
    ASSUME IInv, [Next]_vars, updating' # Plain,
           NEW o \in Octets, memory'[o] # memory[o]
    PROVE  o \in Extent(placed'[updating'].at, placed'[updating'].len)
  <1>1. ASSUME UNCHANGED memory PROVE FALSE
    BY <1>1
  <1>2. ASSUME NEW n \in Nat, NEW what, Put(n, what)
        PROVE  o \in Extent(cursor, n)
    <2>1. n <= MemSize - cursor
      BY <1>2, <1>1 DEF Put
    <2>2. memory' = [q \in Octets |-> IF q \in Extent(cursor, n) THEN what ELSE memory[q]]
      BY <1>2, <2>1 DEF Put
    <2> QED
      BY <2>2
  <1>3. ASSUME NEW n \in Nat, cursor \in Nat, o \in Extent(cursor, n),
               NEW place \in Place, NEW k \in Nat, Inside(cursor, n + k, place)
        PROVE  o \in Extent(place.at, place.len)
    BY <1>3 DEF Extent, Inside, Place
  <1>4. cursor \in Nat
    BY ConstantFacts DEF IInv, Types
  <1>5. CASE EncodePlain
    <2>1. /\ pending # <<>> /\ Put(1, Plain)
          /\ UNCHANGED <<updating, placed>> /\ Head(pending) = Plain
      BY <1>5 DEF EncodePlain, Idle
    <2>2. updating \in Ids /\ updating # Plain /\ placed[updating] \in Place
      BY <2>1 DEF IInv, Types
    <2>3. /\ pending \in Seq(Ids \cup {Plain}) /\ Len(pending) \in Nat \ {0}
          /\ Head(pending) = pending[1] /\ ies[updating].len \in Nat
      BY <2>1, <2>2, ConstantFacts, EmptySeq DEF IInv, Types, Element
    <2>4. /\ pending[Len(pending)] = updating
          /\ Inside(cursor, Len(pending) - 1 + ies[updating].len, placed[updating])
      BY <2>1, <2>2 DEF IInv, UpdateInside
    <2>5. Len(pending) > 1
      BY <2>1, <2>2, <2>3, <2>4
    <2> DEFINE k == Len(pending) - 2 + ies[updating].len
    <2>6. k \in Nat /\ Len(pending) - 1 + ies[updating].len = 1 + k
      BY <2>3, <2>5
    <2> HIDE DEF k
    <2>7. Inside(cursor, 1 + k, placed[updating])
      BY <2>4, <2>6
    <2>8. o \in Extent(cursor, 1)
      BY <2>1, <1>2
    <2> QED
      BY <2>1, <2>2, <2>6, <2>7, <2>8, <1>3, <1>4
  <1>6. CASE EncodeValue
    <2> DEFINE id == Head(pending)
               len == ies[id].len
    <2>1. pending # <<>> /\ id # Plain /\ updating' = updating
      BY <1>6 DEF EncodeValue, Idle
    <2>2. /\ Len(pending) = 1 /\ id = updating
          /\ Inside(cursor, len, placed[updating])
      BY <2>1, ValueOfUpdate
    <2>3. updating \in Ids /\ updating # Plain /\ placed[updating] \in Place /\ len \in Nat
      BY <2>1, <2>2, ConstantFacts DEF IInv, Types, Element
    <2>4. Put(len, <<id, ies[id].v>>) /\ placed' = placed
      BY <1>6, <1>1, <2>1, <2>3 DEF EncodeValue, Throw
    <2>5. o \in Extent(cursor, len)
      <3> HIDE DEF id, len
      <3> QED
        BY <2>3, <2>4, <1>2
    <2>6. Inside(cursor, len + 0, placed[updating])
      BY <2>2, <2>3
    <2> HIDE DEF len
    <2>7. o \in Extent(placed[updating].at, placed[updating].len)
      BY <2>3, <2>5, <2>6, <1>3, <1>4
    <2> QED
      BY <2>1, <2>4, <2>7
  <1>7. CASE \/ \E m \in Messages, release \in BOOLEAN : Encode(m, release)
             \/ \E id \in Ids : Update(id) \/ \E ie \in Element : Change(id, ie)
             \/ UNCHANGED vars
    BY <1>7, <1>1 DEF Encode, Update, Change, vars
  <1> QED
    BY <1>5, <1>6, <1>7 DEF Next, Element

\* update() writes in its place only: whatever was changed, updated before or
\* thrown on the way (update.hpp, validate_length).
THEOREM UpdatesStayInPlace == Spec => UpdatesInPlace
  <1>1. ASSUME IInv, [Next]_vars
        PROVE  [updating' # Plain =>
                  \A o \in Octets : memory'[o] # memory[o] =>
                     o \in Extent(placed[updating'].at, placed[updating'].len)]_vars
    <2> SUFFICES ASSUME updating' # Plain, NEW o \in Octets, memory'[o] # memory[o]
                 PROVE  o \in Extent(placed[updating'].at, placed[updating'].len)
      OBVIOUS
    <2>1. placed' = placed
      <3>1. CASE EncodeValue
        BY <3>1 DEF EncodeValue
      <3>2. CASE EncodePlain \/ UNCHANGED vars
        BY <3>2 DEF EncodePlain, vars
      <3>3. CASE \/ \E m \in Messages, release \in BOOLEAN : Encode(m, release)
                 \/ \E id \in Ids : Update(id) \/ \E ie \in Element : Change(id, ie)
        BY <3>3 DEF Encode, Update, Change
      <3> QED
        BY <1>1, <3>1, <3>2, <3>3 DEF Next, Element
    <2> QED
      BY <1>1, <2>1, WritesInside
  <1> QED
    BY <1>1, Invariance, PTL DEF Spec, UpdatesInPlace

\* An update() that is refused leaves the encoder as it was (update.hpp).
THEOREM RefusalsAreHarmless == Spec => RefusalsChangeNothing
  <1>1. ASSUME [Next]_vars
        PROVE  [Idle /\ Idle' /\ thrown' \in {"missing_ie", "invalid_value"} =>
                  UNCHANGED <<memory, cursor, snapshots, used>>]_vars
    <2> SUFFICES ASSUME Idle, Idle', thrown' \in {"missing_ie", "invalid_value"}
                 PROVE  UNCHANGED <<memory, cursor, snapshots, used>>
      OBVIOUS
    <2>1. CASE \E m \in Messages, release \in BOOLEAN : Encode(m, release)
      BY <2>1 DEF Encode
    <2>2. CASE EncodePlain \/ EncodeValue
      BY <2>2 DEF EncodePlain, EncodeValue
    <2>3. CASE \E id \in Ids : \E ie \in Element : Change(id, ie)
      BY <2>3 DEF Change
    <2>4. ASSUME NEW id \in Ids, Update(id)
          PROVE  UNCHANGED <<memory, cursor, snapshots, used>>
      <3>1. CASE Found(id) # 0 /\ SameLength(id)
        <4>1. pending' = Encoding(id) /\ thrown' = ""
          BY <2>4, <3>1 DEF Update
        <4> QED
          BY <4>1
      <3>2. CASE Found(id) = 0 \/ ~SameLength(id)
        BY <2>4, <3>2 DEF Update
      <3> QED
        BY <3>1, <3>2
    <2>5. CASE UNCHANGED vars
      BY <2>5 DEF vars
    <2> QED
      BY <1>1, <2>1, <2>2, <2>3, <2>4, <2>5 DEF Next, Element
  <1> QED
    BY <1>1, PTL DEF Spec, RefusalsChangeNothing
=============================================================================
