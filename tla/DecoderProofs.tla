---------------------------- MODULE DecoderProofs ----------------------------
(***************************************************************************)
(* Theorems about MessageDecoder for all message types with ordinary       *)
(* lengths, all memories, and whatever octets arrive: the types of its     *)
(* state, how it uses the buffer, and that it stays inside of the message. *)
(* DecoderFields goes on with the tags it puts back and the items of       *)
(* fields.                                                                 *)
(***************************************************************************)
EXTENDS MessageDecoder, SequenceLemmas

BP == INSTANCE BufferProofs

\* Every length is known before its window opens, and none counts its own octets:
\* get_length() of one that does subtracts from an unsigned number.
Ordinary ==
    /\ ~Deferred
    /\ \A ty \in Containers : \A i \in DOMAIN Fields(ty) :
          LET meta == Fields(ty)[i].meta
          IN \A k \in DOMAIN meta : meta[k].kind = "len" => meta[k].plus >= 0

-----------------------------------------------------------------------------
(* Sequences of whatever they hold.                                        *)

Listed(s) == s \in Seq({s[k] : k \in DOMAIN s})

LEMMA ListedFacts ==
    ASSUME NEW S, NEW s \in Seq(S)
    PROVE  Listed(s) /\ Len(s) \in Nat /\ DOMAIN s = 1 .. Len(s) /\ (s = <<>> <=> Len(s) = 0)
  <1>1. Len(s) \in Nat /\ DOMAIN s = 1 .. Len(s) /\ s \in [1 .. Len(s) -> S]
    BY LenProperties
  <1>2. s \in [1 .. Len(s) -> {s[k] : k \in DOMAIN s}]
    BY <1>1
  <1>3. s \in Seq({s[k] : k \in DOMAIN s})
    BY <1>1, <1>2, SeqDef
  <1> QED
    BY <1>1, <1>3, EmptySeq DEF Listed

\* With another last element,
LEMMA Replaced ==
    ASSUME NEW s, Listed(s), s # <<>>, NEW e
    PROVE  LET t == [s EXCEPT ![Len(s)] = e]
           IN /\ Listed(t) /\ Len(t) = Len(s) /\ t # <<>>
              /\ DOMAIN t = 1 .. Len(s) /\ DOMAIN s = 1 .. Len(s) /\ Len(s) \in Nat \ {0}
              /\ t[Len(s)] = e
              /\ \A i \in 1 .. Len(s) - 1 : t[i] = s[i]
  <1> DEFINE S == {s[k] : k \in DOMAIN s} \cup {e}
             t == [s EXCEPT ![Len(s)] = e]
  <1>1. Len(s) \in Nat \ {0} /\ DOMAIN s = 1 .. Len(s) /\ s \in [1 .. Len(s) -> S]
    BY ListedFacts, LenProperties DEF Listed
  <1>2. t \in [1 .. Len(s) -> S]
    BY <1>1
  <1>3. t \in Seq(S) /\ Len(t) = Len(s)
    BY <1>1, <1>2, SeqDef, LenProperties
  <1> HIDE DEF S
  <1>4. Listed(t) /\ t # <<>>
    BY <1>1, <1>3, ListedFacts
  <1>5. t[Len(s)] = e /\ \A i \in 1 .. Len(s) - 1 : t[i] = s[i]
    BY <1>1
  <1>6. DOMAIN t = 1 .. Len(s)
    BY <1>1
  <1> HIDE DEF t
  <1>7. Listed(t) /\ Len(t) = Len(s) /\ t # <<>> /\ DOMAIN t = 1 .. Len(s) /\ t[Len(s)] = e
    BY <1>3, <1>4, <1>5, <1>6
  <1> QED
    BY <1>1, <1>5, <1>7 DEF t

\* one more element at the end,
LEMMA Pushed ==
    ASSUME NEW s, Listed(s), NEW e
    PROVE  LET t == Append(s, e)
           IN /\ Listed(t) /\ Len(t) = Len(s) + 1 /\ t # <<>>
              /\ DOMAIN t = 1 .. Len(s) + 1 /\ DOMAIN s = 1 .. Len(s) /\ Len(s) \in Nat
              /\ t[Len(s) + 1] = e
              /\ \A i \in 1 .. Len(s) : t[i] = s[i]
  <1> DEFINE S == {s[k] : k \in DOMAIN s} \cup {e}
             t == Append(s, e)
  <1>1. Len(s) \in Nat /\ DOMAIN s = 1 .. Len(s) /\ s \in Seq(S)
    <2>1. s \in [1 .. Len(s) -> S] /\ Len(s) \in Nat /\ DOMAIN s = 1 .. Len(s)
      BY LenProperties DEF Listed
    <2> QED
      BY <2>1, SeqDef
  <1>2. t \in Seq(S) /\ Len(t) = Len(s) + 1 /\ t[Len(s) + 1] = e /\ \A i \in 1 .. Len(s) : t[i] = s[i]
    BY <1>1, AppendProperties
  <1> HIDE DEF S, t
  <1>3. Listed(t) /\ t # <<>> /\ DOMAIN t = 1 .. Len(s) + 1
    BY <1>1, <1>2, ListedFacts
  <1> QED
    BY <1>1, <1>2, <1>3 DEF t

\* without the last element.
LEMMA Popped ==
    ASSUME NEW s, Listed(s), s # <<>>
    PROVE  LET t == SubSeq(s, 1, Len(s) - 1)
           IN /\ Listed(t) /\ Len(t) = Len(s) - 1 /\ (t = <<>> <=> Len(s) = 1)
              /\ DOMAIN t = 1 .. Len(s) - 1 /\ DOMAIN s = 1 .. Len(s) /\ Len(s) \in Nat \ {0}
              /\ \A i \in 1 .. Len(s) - 1 : t[i] = s[i]
  <1> DEFINE S == {s[k] : k \in DOMAIN s}
             t == SubSeq(s, 1, Len(s) - 1)
  <1>1. Len(s) \in Nat \ {0} /\ DOMAIN s = 1 .. Len(s) /\ s \in Seq(S)
    BY ListedFacts DEF Listed
  <1>2. t \in Seq(S) /\ Len(t) = Len(s) - 1 /\ \A i \in 1 .. Len(s) - 1 : t[i] = s[i]
    BY <1>1, SubSeqProperties
  <1> HIDE DEF S, t
  <1>3. Listed(t) /\ (t = <<>> <=> Len(s) = 1) /\ DOMAIN t = 1 .. Len(s) - 1
    BY <1>1, <1>2, ListedFacts
  <1> QED
    BY <1>1, <1>2, <1>3 DEF t

-----------------------------------------------------------------------------
(* What the types allow.                                                   *)

LEMMA ContainerFacts ==
    ASSUME NEW ty \in Containers
    PROVE  /\ ty \in DOMAIN Types
           /\ Kind(ty) \in {"sequence", "set", "choice"}
           /\ GoodContainer(Types[ty])
           /\ Listed(Fields(ty)) /\ Len(Fields(ty)) \in Nat \ {0}
           /\ DOMAIN Fields(ty) = 1 .. Len(Fields(ty))
           /\ Kind(ty) # "choice" => ~HasHeader(Types[ty])
  <1>1. ty \in DOMAIN Types /\ Kind(ty) \in {"sequence", "set", "choice"}
    BY DEF Containers, IsContainer, Kind
  <1>2. GoodContainer(Types[ty])
    BY <1>1, TypesAssumption
  <1> QED
    BY <1>1, <1>2, ListedFacts DEF GoodContainer, Fields, Kind

\* A field, and each piece of meta-information of its items.
LEMMA FieldFacts ==
    ASSUME Ordinary, NEW ty \in Containers, NEW i \in DOMAIN Fields(ty)
    PROVE  LET G == Fields(ty)[i]
           IN /\ GoodField(G)
              /\ Types[ty].lenField # i
              /\ Len(G.meta) \in Nat /\ DOMAIN G.meta = 1 .. Len(G.meta)
              /\ \A k \in DOMAIN G.meta :
                    LET info == G.meta[k]
                    IN /\ GoodInfo(info) /\ Len(info.of) \in Nat
                       /\ \/ info.kind = "tag"
                          \/ /\ info.kind = "len" /\ ~info.explicit /\ info.depends = ""
                             /\ info.plus >= 0
  <1> DEFINE G == Fields(ty)[i]
  <1>1. GoodField(G)
    BY ContainerFacts DEF GoodContainer, Fields
  <1>2. Types[ty].lenField # i
    <2>1. Types[ty].lenField = 0
      BY DeferredTypes DEF Ordinary
    <2>2. i # 0
      BY ContainerFacts
    <2> QED
      BY <2>1, <2>2
  <1>3. Len(G.meta) \in Nat /\ DOMAIN G.meta = 1 .. Len(G.meta)
    BY <1>1, ListedFacts DEF GoodField
  <1>4. ASSUME NEW k \in DOMAIN G.meta
        PROVE  /\ GoodInfo(G.meta[k]) /\ Len(G.meta[k].of) \in Nat
               /\ \/ G.meta[k].kind = "tag"
                  \/ /\ G.meta[k].kind = "len" /\ ~G.meta[k].explicit /\ G.meta[k].depends = ""
                     /\ G.meta[k].plus >= 0
    <2>1. GoodInfo(G.meta[k])
      BY <1>1 DEF GoodField
    <2>2. G.meta[k].kind = "len" => ~G.meta[k].explicit /\ G.meta[k].depends = "" /\ G.meta[k].plus >= 0
      BY DeferredTypes DEF Ordinary
    <2> QED
      BY <2>1, <2>2, LenProperties DEF GoodInfo
  <1> QED
    BY <1>1, <1>2, <1>3, <1>4

-----------------------------------------------------------------------------
(* Numbers.                                                                *)

LEMMA UptoExists ==
    ASSUME NEW s \in Seq(AnyOctet)
    PROVE  \E u \in [0 .. Len(s) -> Nat] :
              \A k \in 0 .. Len(s) : u[k] = IF k = 0 THEN 0 ELSE 256 * u[k - 1] + s[k]
  <1> DEFINE Good(n) == \E u \in [0 .. n -> Nat] :
                           \A k \in 0 .. n : u[k] = IF k = 0 THEN 0 ELSE 256 * u[k - 1] + s[k]
             N == {n \in 0 .. Len(s) : ~Good(n)}
  <1>1. Len(s) \in Nat /\ \A k \in 1 .. Len(s) : s[k] \in 0 .. 255
    BY LenProperties, ElementOfSeq DEF AnyOctet
  <1>2. ASSUME N # {} PROVE FALSE
    <2>1. PICK n \in N : \A m \in N : n <= m
      <3>1. N \subseteq Nat
        BY <1>1
      <3> HIDE DEF N
      <3> QED
        BY <1>2, <3>1, LeastElement
    <2>2. CASE n = 0
      <3>1. [k \in 0 .. 0 |-> 0] \in [0 .. 0 -> Nat]
        OBVIOUS
      <3>2. \A k \in 0 .. 0 : [j \in 0 .. 0 |-> 0][k] = IF k = 0 THEN 0 ELSE 256 * [j \in 0 .. 0 |-> 0][k - 1] + s[k]
        OBVIOUS
      <3>3. Good(0)
        BY <3>1, <3>2, ZenonT(60)
      <3> QED
        BY <2>1, <2>2, <3>3
    <2>3. CASE n # 0
      <3>1. n \in 1 .. Len(s) /\ n - 1 \in 0 .. Len(s) /\ Good(n - 1)
        <4> HIDE DEF Good
        <4> QED
          BY <1>1, <2>1, <2>3
      <3>2. PICK u \in [0 .. n - 1 -> Nat] :
                    \A k \in 0 .. n - 1 : u[k] = IF k = 0 THEN 0 ELSE 256 * u[k - 1] + s[k]
        BY <3>1
      <3> HIDE DEF N, Good
      <3> DEFINE v == [k \in 0 .. n |-> IF k = n THEN 256 * u[n - 1] + s[n] ELSE u[k]]
      <3>3. v \in [0 .. n -> Nat]
        <4>0. n - 1 \in 0 .. n - 1 /\ n \in 1 .. Len(s)
          BY <1>1, <3>1
        <4> DEFINE x == u[n - 1]
                   y == s[n]
        <4>1. x \in Nat /\ y \in Nat
          <5>1. x \in Nat
            BY <4>0
          <5>2. y \in 0 .. 255
            BY <4>0, <1>1
          <5> HIDE DEF x, y
          <5> QED
            BY <5>1, <5>2
        <4> HIDE DEF x, y
        <4>2. 256 * x + y \in Nat
          BY <4>1
        <4>3. \A k \in 0 .. n : k # n => k \in 0 .. n - 1
          BY <1>1, <3>1
        <4> QED
          BY <3>2, <4>2, <4>3 DEF x, y
      <3>4. \A k \in 0 .. n : v[k] = IF k = 0 THEN 0 ELSE 256 * v[k - 1] + s[k]
        <4>1. ASSUME NEW k \in 0 .. n, k = n
              PROVE  v[k] = IF k = 0 THEN 0 ELSE 256 * v[k - 1] + s[k]
          BY <4>1, <1>1, <3>1
        <4>2. ASSUME NEW k \in 0 .. n, k # n
              PROVE  v[k] = IF k = 0 THEN 0 ELSE 256 * v[k - 1] + s[k]
          BY <4>2, <1>1, <3>1, <3>2
        <4> QED
          BY <4>1, <4>2
      <3> HIDE DEF v
      <3>5. Good(n)
        BY <3>3, <3>4 DEF Good
      <3> QED
        BY <2>1, <3>5 DEF N
    <2> QED
      BY <2>2, <2>3
  <1>3. Good(Len(s))
    <2> HIDE DEF Good
    <2> QED
      BY <1>1, <1>2
  <1> QED
    BY <1>3

\* The octets of a message are a number, and its lengths are numbers.
LEMMA NumberType ==
    ASSUME NEW s \in Seq(AnyOctet)
    PROVE  Number(s) \in Nat
  <1> DEFINE u == CHOOSE u : u = [k \in 0 .. Len(s) |-> IF k = 0 THEN 0 ELSE 256 * u[k - 1] + s[k]]
  <1>1. PICK w \in [0 .. Len(s) -> Nat] :
               \A k \in 0 .. Len(s) : w[k] = IF k = 0 THEN 0 ELSE 256 * w[k - 1] + s[k]
    BY UptoExists
  <1>2. w = [k \in 0 .. Len(s) |-> IF k = 0 THEN 0 ELSE 256 * w[k - 1] + s[k]]
    BY <1>1
  <1>3. u = [k \in 0 .. Len(s) |-> IF k = 0 THEN 0 ELSE 256 * u[k - 1] + s[k]]
    BY <1>2, ZenonT(60)
  <1> HIDE DEF u
  <1>4. Len(s) \in Nat
    OBVIOUS
  <1>5. \A k \in 0 .. Len(s) : u[k] = IF k = 0 THEN 0 ELSE 256 * u[k - 1] + s[k]
    BY <1>3
  <1> DEFINE Wrong == {k \in 0 .. Len(s) : u[k] # w[k]}
  <1>6. ASSUME Wrong # {} PROVE FALSE
    <2>1. PICK n \in Wrong : \A m \in Wrong : n <= m
      <3>1. Wrong \subseteq Nat
        BY <1>4
      <3> HIDE DEF Wrong
      <3> QED
        BY <1>6, <3>1, LeastElement
    <2>2. n # 0 /\ n - 1 \in 0 .. Len(s) /\ u[n - 1] = w[n - 1]
      BY <1>1, <1>4, <1>5, <2>1
    <2> QED
      BY <1>1, <1>5, <2>1, <2>2
  <1>7. u[Len(s)] = w[Len(s)]
    BY <1>4, <1>6
  <1>8. Number(s) = u[Len(s)]
    BY DEF Number, u
  <1> QED
    BY <1>1, <1>4, <1>7, <1>8

LEMMA LengthType ==
    ASSUME NEW info, GoodInfo(info), info.kind = "len", info.plus >= 0, NEW s \in Seq(AnyOctet)
    PROVE  GetLength(info, s) \in Nat
  <1> DEFINE v == Number(SubSeq(s, info.lead + 1, Len(s)))
  <1>1. info.lead \in Nat /\ info.mod \in Nat /\ info.unit \in Nat /\ info.plus \in Nat
    BY DEF GoodInfo
  <1>2. SubSeq(s, info.lead + 1, Len(s)) \in Seq(AnyOctet)
    BY <1>1, SubSeqProperties, LenProperties
  <1>3. v \in Nat
    BY <1>2, NumberType
  <1> HIDE DEF v
  <1> DEFINE x == IF info.mod = 0 THEN v ELSE v % info.mod
  <1>4. x \in Nat
    BY <1>1, <1>3
  <1> HIDE DEF x
  <1>5. info.unit * x \in Nat
    BY <1>1, <1>4
  <1>6. GetLength(info, s) = info.unit * x + info.plus
    BY DEF GetLength, v, x
  <1> QED
    BY <1>1, <1>5, <1>6

LEMMA PadSizeType ==
    ASSUME NEW info, GoodInfo(info), info.kind = "len", NEW n \in Int
    PROVE  PadSize(info.pad, n) \in Nat
  <1>1. info.pad.to \in Nat \ {0} /\ info.pad.offset \in Int /\ info.pad.delta \in Int
    BY DEF GoodInfo
  <1> DEFINE m == (n + info.pad.offset) % info.pad.to
  <1>2. m \in Nat
    BY <1>1
  <1> HIDE DEF m
  <1>3. PadSize(info.pad, n) = (info.pad.to - m + info.pad.delta) % info.pad.to
    BY DEF PadSize, m
  <1> QED
    BY <1>1, <1>2, <1>3

-----------------------------------------------------------------------------
(* Frames.                                                                 *)

\* The places of a decoder: in a sequence, in a set or a choice, and in an item.
OfSequences == {"field", "ahead", "again", "peek", "match", "more", "count", "quota", "loop", "arity"}
OfOthers == {"scan", "header", "find", "found", "complete"}
Begun == {"tag", "expect", "length", "open", "value", "invalid"}
InItem == Begun \cup {"close", "pad"}
Places == OfSequences \cup OfOthers \cup InItem \cup {"item", "return"}

FrameType(f) ==
    [con : Containers, at : Nat, step : Nat, open : Seq([step : Nat, from : Nat]),
     vtag : [set : BOOLEAN, val : {f.vtag.val}], octets : {f.octets}, left : {f.left}, begin : Nat,
     out : {f.out}, pc : Places]

\* The windows that are open in an item belong to its lengths; only sequences keep
\* the tag they have read.
Shape(f) ==
    /\ f \in FrameType(f)
    /\ f.at \in DOMAIN Fields(f.con)
    /\ \A w \in DOMAIN f.open :
          /\ f.open[w].step \in DOMAIN Field(f).meta
          /\ Field(f).meta[f.open[w].step].kind = "len"
    /\ f.vtag.set => Kind(f.con) = "sequence"

\* What a decoder may count on at each place.
Placed(f) ==
    /\ f.open # <<>> => f.pc \in InItem
    /\ f.pc \in {"close", "pad"} => f.open # <<>>
    /\ f.pc \in {"tag", "expect"} =>
          f.step \in DOMAIN Field(f).meta /\ Field(f).meta[f.step].kind = "tag"
    /\ f.pc \in {"length", "open"} =>
          f.step \in DOMAIN Field(f).meta /\ Field(f).meta[f.step].kind = "len"
    /\ f.pc = "open" => f.octets \in Seq(AnyOctet)
    /\ f.pc \in {"ahead", "again", "peek", "match"} => Tagged(Field(f))
    /\ f.pc \in OfSequences => Kind(f.con) = "sequence"
    /\ f.pc \in OfOthers => Kind(f.con) # "sequence"
    /\ f.left \in Nat \/ f.pc = "quota"

FrameOK(f) == Shape(f) /\ Placed(f)

\* A frame that waits for the container inside; one that may go back to the
\* position the buffer remembers; the windows it has open.
Waits(f) == f.pc = "value" \/ (f.pc = "header" /\ HasHeader(Types[f.con]))
Looks(f) == f.vtag.set \/ f.pc = "peek" \/ (f.pc \in {"header", "find"} /\ Kind(f.con) = "set")
Opens(f) == IF f.pc = "pad" THEN Len(f.open) - 1 ELSE Len(f.open)

\* What an operator on frames leaves as it is.
Same(f, g) ==
    g.con = f.con /\ g.begin = f.begin /\ g.vtag = f.vtag /\ g.open = f.open

LEMMA ShapeFacts ==
    ASSUME NEW f, Shape(f)
    PROVE  /\ f \in FrameType(f) /\ f.con \in Containers
           /\ f.at \in DOMAIN Fields(f.con) /\ f.at \in Nat /\ f.step \in Nat /\ f.begin \in Nat
           /\ f.open \in Seq([step : Nat, from : Nat]) /\ f.vtag.set \in BOOLEAN
           /\ Len(f.open) \in Nat /\ DOMAIN f.open = 1 .. Len(f.open) /\ (f.open = <<>> <=> Len(f.open) = 0)
  <1>1. f \in FrameType(f)
    BY DEF Shape
  <1>2. f.open \in Seq([step : Nat, from : Nat])
    BY <1>1 DEF FrameType
  <1>3. Len(f.open) \in Nat /\ DOMAIN f.open = 1 .. Len(f.open) /\ (f.open = <<>> <=> Len(f.open) = 0)
    BY <1>2, ListedFacts
  <1> QED
    BY <1>1, <1>2, <1>3 DEF FrameType, Shape

\* Another place of the same frame.
LEMMA AtPlace ==
    ASSUME NEW f, Shape(f), NEW p \in Places
    PROVE  LET g == [f EXCEPT !.pc = p]
           IN Shape(g) /\ Same(f, g) /\ g.pc = p /\ g.at = f.at /\ g.step = f.step /\ g.out = f.out
              /\ g.left = f.left /\ g.octets = f.octets
  BY DEF Shape, FrameType, Same, Field

\* Another field of the same container, between items.
LEMMA AtField ==
    ASSUME NEW f, Shape(f), f.open = <<>>, NEW i \in DOMAIN Fields(f.con)
    PROVE  LET g == [f EXCEPT !.at = i]
           IN Shape(g) /\ Same(f, g) /\ g.at = i /\ g.out = f.out /\ g.left = f.left
  <1> DEFINE g == [f EXCEPT !.at = i]
  <1>1. i \in Nat
    BY ShapeFacts, ContainerFacts
  <1>2. g \in FrameType(g) /\ Same(f, g) /\ g.at = i /\ g.out = f.out /\ g.left = f.left
    BY <1>1 DEF Shape, FrameType, Same
  <1>3. DOMAIN g.open = {}
    BY <1>2 DEF Same
  <1> HIDE DEF g
  <1>4. Shape(g)
    BY <1>2, <1>3 DEF Shape, Same
  <1> QED
    BY <1>2, <1>4 DEF g

LEMMA SkippingOK ==
    ASSUME Ordinary, NEW f, Shape(f), f.open = <<>>, Kind(f.con) = "sequence", f.left \in Nat
    PROVE  LET g == Skipping(f)
           IN FrameOK(g) /\ Same(f, g) /\ g.out = f.out
              /\ IF f.at = Len(Fields(f.con)) THEN g.pc = "return" /\ g.at = f.at
                 ELSE g.pc = "field" /\ g.at = f.at + 1
  <1>1. f.con \in Containers /\ f.at \in DOMAIN Fields(f.con)
    BY ShapeFacts
  <1>2. CASE f.at = Len(Fields(f.con))
    <2>1. Skipping(f) = [f EXCEPT !.pc = "return"]
      BY <1>2 DEF Skipping
    <2>2. "return" \in Places
      BY DEF Places
    <2> QED
      BY <1>2, <2>1, <2>2, AtPlace DEF FrameOK, Placed, Same, OfSequences, OfOthers
  <1>3. CASE f.at # Len(Fields(f.con))
    <2> DEFINE i == f.at + 1
               h == [f EXCEPT !.at = i]
               g == [h EXCEPT !.pc = "field"]
    <2>1. i \in DOMAIN Fields(f.con)
      BY <1>1, <1>3, ContainerFacts
    <2>2. Skipping(f) = g
      BY <1>3, ShapeFacts DEF Skipping, FrameType
    <2>3. "field" \in Places
      BY DEF Places, OfSequences
    <2> HIDE DEF i
    <2>h. Shape(h) /\ Same(f, h) /\ h.at = i /\ h.out = f.out /\ h.left = f.left
      BY <2>1, AtField
    <2> HIDE DEF h
    <2>4. Shape(g) /\ Same(f, g) /\ g.pc = "field" /\ g.at = i /\ g.out = f.out /\ g.left = f.left
      BY <2>3, <2>h, AtPlace DEF Same
    <2> HIDE DEF g
    <2>5. Placed(g)
      BY <2>4 DEF Placed, Same, OfSequences, OfOthers
    <2> QED
      BY <1>3, <2>2, <2>4, <2>5 DEF FrameOK, h, i, g
  <1> QED
    BY <1>2, <1>3

\* The meta-information of an item, one after the other.
LEMMA AtStepOK ==
    ASSUME Ordinary, NEW f, Shape(f), f.left \in Nat, NEW k \in Nat \ {0}
    PROVE  LET g == AtStep(f, k)
           IN FrameOK(g) /\ Same(f, g) /\ g.pc \in {"tag", "length", "value"}
              /\ g.at = f.at /\ g.out = f.out /\ g.left = f.left
  <1> DEFINE meta == Field(f).meta
             p == IF k > Len(meta) THEN "value"
                  ELSE IF meta[k].kind = "tag" THEN "tag"
                  ELSE IF meta[k].explicit THEN "pending" ELSE "length"
             h == [f EXCEPT !.step = k]
  <1>1. f.con \in Containers /\ f.at \in DOMAIN Fields(f.con)
    BY ShapeFacts
  <1>2. /\ Len(meta) \in Nat /\ DOMAIN meta = 1 .. Len(meta)
        /\ \A j \in DOMAIN meta : meta[j].kind = "tag" \/ (meta[j].kind = "len" /\ ~meta[j].explicit)
    BY <1>1, FieldFacts DEF Field
  <1>3. \/ p = "value"
        \/ k \in DOMAIN meta /\ meta[k].kind = "tag" /\ p = "tag"
        \/ k \in DOMAIN meta /\ meta[k].kind = "len" /\ p = "length"
    <2> HIDE DEF meta
    <2>1. CASE k > Len(meta)
      BY <2>1
    <2>2. CASE ~(k > Len(meta))
      <3>1. k \in DOMAIN meta
        BY <1>2, <2>2
      <3> QED
        BY <1>2, <2>2, <3>1
    <2> QED
      BY <2>1, <2>2
  <1>4. Shape(h) /\ Same(f, h) /\ h.step = k /\ h.at = f.at /\ h.out = f.out /\ h.left = f.left
    BY ShapeFacts DEF Shape, FrameType, Same, Field
  <1>5. AtStep(f, k) = [h EXCEPT !.pc = p]
    BY ShapeFacts DEF AtStep, FrameType
  <1>6. p \in Places /\ p \in {"tag", "length", "value"}
    BY <1>3 DEF Places, InItem, Begun
  <1> HIDE DEF p, h
  <1> DEFINE g == [h EXCEPT !.pc = p]
  <1>7. Shape(g) /\ Same(h, g) /\ g.pc = p /\ g.step = k /\ g.at = f.at /\ g.out = f.out /\ g.left = f.left
    BY <1>4, <1>6, AtPlace
  <1> HIDE DEF g
  <1>8. Field(g).meta = meta /\ Same(f, g)
    BY <1>4, <1>7 DEF Field, Same
  <1> HIDE DEF meta
  <1>9. Placed(g)
    BY <1>3, <1>6, <1>7, <1>8 DEF Placed, OfSequences, OfOthers, InItem, Begun
  <1> QED
    BY <1>5, <1>6, <1>7, <1>8, <1>9 DEF g, FrameOK

LEMMA AfterItemOK ==
    ASSUME Ordinary, NEW f, Shape(f), f.open = <<>>, f.left \in Nat
    PROVE  LET g == AfterItem(f)
           IN FrameOK(g) /\ Same(f, g) /\ g.out = f.out /\ g.pc \in {"scan", "return", "field", "again", "loop"}
  <1>1. f.con \in Containers /\ Kind(f.con) \in {"sequence", "set", "choice"}
    BY ShapeFacts, ContainerFacts
  <1>2. {"scan", "return", "again", "loop"} \subseteq Places
    BY DEF Places, OfSequences, OfOthers
  <1>3. CASE Kind(f.con) = "set"
    <2>1. AfterItem(f) = [f EXCEPT !.pc = "scan"]
      BY <1>3 DEF AfterItem
    <2> QED
      BY <1>2, <1>3, <2>1, AtPlace DEF FrameOK, Placed, Same, OfSequences, OfOthers
  <1>4. CASE Kind(f.con) = "choice"
    <2>1. AfterItem(f) = [f EXCEPT !.pc = "return"]
      BY <1>4 DEF AfterItem
    <2> QED
      BY <1>2, <1>4, <2>1, AtPlace DEF FrameOK, Placed, Same, OfSequences, OfOthers
  <1>5. CASE Kind(f.con) = "sequence" /\ ~Field(f).multi
    <2>1. AfterItem(f) = Skipping(f)
      BY <1>5 DEF AfterItem
    <2> QED
      BY <1>5, <2>1, SkippingOK
  <1>6. CASE Kind(f.con) = "sequence" /\ Field(f).multi
    <2> DEFINE p == IF Tagged(Field(f)) THEN "again" ELSE "loop"
               g == [f EXCEPT !.pc = p]
    <2>1. AfterItem(f) = g
      BY <1>6 DEF AfterItem
    <2>2. Shape(g) /\ Same(f, g) /\ g.pc = p /\ g.at = f.at /\ g.out = f.out /\ g.left = f.left
      BY <1>2, AtPlace
    <2>3. Field(g) = Field(f)
      BY <2>2 DEF Field, Same
    <2> HIDE DEF g
    <2>4. Placed(g)
      BY <1>6, <2>2, <2>3 DEF Placed, Same, OfSequences, OfOthers
    <2> QED
      BY <2>1, <2>2, <2>4 DEF FrameOK
  <1> QED
    BY <1>1, <1>3, <1>4, <1>5, <1>6

LEMMA ClosingOK ==
    ASSUME Ordinary, NEW f, Shape(f), f.left \in Nat
    PROVE  LET g == Closing(f)
           IN FrameOK(g) /\ Same(f, g) /\ g.out = f.out
              /\ g.pc \in {"close", "scan", "return", "field", "again", "loop"}
  <1>1. CASE f.open # <<>>
    <2>1. Closing(f) = [f EXCEPT !.pc = "close"]
      BY <1>1 DEF Closing
    <2>2. "close" \in Places
      BY DEF Places, InItem
    <2> QED
      BY <1>1, <2>1, <2>2, AtPlace DEF FrameOK, Placed, Same, OfSequences, OfOthers, InItem
  <1>2. CASE f.open = <<>>
    <2>1. Closing(f) = AfterItem(f)
      BY <1>2 DEF Closing
    <2> QED
      BY <1>2, <2>1, AfterItemOK
  <1> QED
    BY <1>1, <1>2

LEMMA GotOK ==
    ASSUME Ordinary, NEW f, Shape(f), f.left \in Nat, NEW v
    PROVE  LET g == Got(f, v)
           IN FrameOK(g) /\ Same(f, g) /\ g.out = [f.out EXCEPT ![f.at] = Append(@, v)]
              /\ g.pc \in {"close", "scan", "return", "field", "again", "loop"}
  <1> DEFINE h == [f EXCEPT !.out[f.at] = Append(@, v)]
  <1>1. f.con \in Containers /\ f.at \in DOMAIN Fields(f.con)
    BY ShapeFacts
  <1>2. Shape(h) /\ Same(f, h) /\ h.left = f.left /\ h.out = [f.out EXCEPT ![f.at] = Append(@, v)]
    BY ShapeFacts DEF Shape, FrameType, Same, Field
  <1>3. Types[f.con].lenField # f.at
    BY <1>1, FieldFacts
  <1>4. Got(f, v) = Closing(h)
    BY <1>3 DEF Got
  <1> HIDE DEF h
  <1>5. FrameOK(Closing(h)) /\ Same(h, Closing(h)) /\ Closing(h).out = h.out
        /\ Closing(h).pc \in {"close", "scan", "return", "field", "again", "loop"}
    BY <1>2, ClosingOK
  <1> QED
    BY <1>2, <1>4, <1>5 DEF Same

-----------------------------------------------------------------------------
(* The inductive invariant.                                                *)

Control ==
    /\ status \in {"idle", "running", "ok", "failed", "refused"}
    /\ root \in Roots \cup {NoRoot}
    /\ wire \in Seq(AnyOctet) /\ start = 0
    /\ dropped \in Nat /\ fresh \in BOOLEAN /\ alloc \in Allocators
    /\ status = "running" <=> frames # <<>>
    /\ status # "running" => scopes = <<>> /\ ~throwing
    /\ error # "" <=> throwing \/ status \in {"failed", "refused"}

Frames ==
    /\ Listed(frames)
    /\ \A k \in DOMAIN frames : FrameOK(frames[k])
    /\ \A k \in 1 .. Len(frames) - 1 : Waits(frames[k])

\* Whatever a frame may go back to is behind its begin, and so behind the begin of
\* every frame below.
Begins ==
    /\ \A k \in DOMAIN frames :
          /\ frames[k].begin <= cursor
          /\ Looks(frames[k]) /\ store # NoState => frames[k].begin <= store
    /\ \A j, k \in DOMAIN frames : j <= k => frames[j].begin <= frames[k].begin

\* Every window belongs to an item of a frame: base[k] of them to frames below k.
Counts(base, fs, n) ==
    /\ base \in [1 .. Len(fs) + 1 -> Nat]
    /\ base[1] = 0 /\ base[Len(fs) + 1] = n
    /\ \A k \in 1 .. Len(fs) : base[k + 1] = base[k] + Opens(fs[k])

WindowsCounted ==
    status = "running" /\ ~throwing => \E base : Counts(base, frames, Len(scopes))

\* The outermost window is the message.
MessageEnds == IF scopes = <<>> THEN end = Len(wire) ELSE scopes[1].outer = Len(wire)
WholeMessage == status \in {"running", "ok", "failed"} => MessageEnds

DInv == Control /\ Frames /\ Begins /\ WindowsCounted /\ WholeMessage
IInv == BP!IInv /\ DInv

\* A step of the decoder is one of the buffer, or none.
BufferStep == [B!Next]_(B!vars)

-----------------------------------------------------------------------------
(* What is known of the buffer.                                            *)

LEMMA BufferFacts ==
    ASSUME Ordinary, BP!IInv
    PROVE  /\ MemSize \in Nat
           /\ cursor \in Nat /\ end \in Nat /\ store \in Nat \cup {NoState}
           /\ cursor <= end /\ end <= MemSize /\ start <= cursor
           /\ throwing \in BOOLEAN
           /\ Listed(scopes) /\ Len(scopes) \in Nat /\ (scopes = <<>> <=> Len(scopes) = 0)
           /\ looked /\ store # NoState => store <= cursor
  <1>1. BP!TypeOK /\ BP!WindowsNested /\ BP!LookAheadBehind /\ MemSize \in Nat
    BY BufferAssumption DEF BP!IInv, BP!Bookkeeping, BP!Immediate, Ordinary, B!MemAssumption
  <1>2. Listed(scopes) /\ Len(scopes) \in Nat /\ (scopes = <<>> <=> Len(scopes) = 0)
    BY <1>1, ListedFacts DEF BP!TypeOK
  <1>3. /\ cursor \in 0 .. MemSize /\ end \in 0 .. MemSize /\ store \in (0 .. MemSize) \cup {NoState}
        /\ cursor <= end /\ start <= cursor /\ throwing \in BOOLEAN
        /\ looked /\ store # NoState => store <= cursor
    BY <1>1 DEF BP!TypeOK, BP!WindowsNested, BP!LookAheadBehind, BP!Mem
  <1> QED
    BY <1>1, <1>2, <1>3

\* Every window was committed, and its slot keeps the end to go back to.
LEMMA ScopeFacts ==
    ASSUME Ordinary, BP!IInv, scopes # <<>>
    PROVE  B!CloseScope => end' = scopes[Len(scopes)].outer
  <1>1. BP!TypeOK /\ BP!SlotsKeepOuter
    BY DEF BP!IInv, BP!Bookkeeping, BP!Immediate, Ordinary
  <1>2. Len(scopes) \in DOMAIN scopes
    BY <1>1, ListedFacts DEF BP!TypeOK
  <1> QED
    BY <1>1, <1>2 DEF BP!SlotsKeepOuter, B!CloseScope, B!Innermost

\* The steps of the buffer the decoder makes.
LEMMA AdvanceStep ==
    ASSUME Ordinary, BP!IInv, NEW n \in Nat, B!Advance(n, n)
    PROVE  /\ BufferStep
           /\ IF Lacks(n) THEN B!Throw
              ELSE /\ cursor' = cursor + n
                   /\ UNCHANGED <<start, end, store, eob, eobIndex, scopes, looked, throwing>>
  <1>1. CASE Lacks(n)
    <2>1. B!Throw /\ ~throwing
      BY <1>1 DEF B!Advance, Lacks
    <2> QED
      BY <1>1, <2>1 DEF BufferStep, B!Next, B!Raise
  <1>2. CASE ~Lacks(n)
    <2>1. /\ cursor' = cursor + n /\ cursor + n \in B!Mem
          /\ UNCHANGED <<start, end, store, eob, eobIndex, scopes, looked, throwing>>
      BY <1>2 DEF B!Advance, Lacks
    <2>2. n \in B!Mem
      BY <2>1, BufferFacts DEF B!Mem
    <2>3. \E need \in B!Mem : \E move \in {need, need - 1} \cap B!Mem : B!Advance(need, move)
      BY <2>2
    <2> QED
      BY <1>2, <2>1, <2>3 DEF BufferStep, B!Next
  <1> QED
    BY <1>1, <1>2

LEMMA PushSizeStep ==
    ASSUME Ordinary, BP!IInv, NEW n \in Nat, B!PushSize(n, TRUE)
    PROVE  /\ BufferStep
           /\ IF cursor + n <= end
              THEN /\ scopes' = Append(scopes, scopes'[Len(scopes) + 1])
                   /\ scopes'[Len(scopes) + 1].outer = end
                   /\ UNCHANGED <<start, cursor, store, looked, throwing>>
              ELSE B!Throw /\ ~throwing
  <1>1. CASE ~(cursor + n <= end)
    <2>1. B!Throw /\ ~throwing
      BY <1>1 DEF B!PushSize
    <2> QED
      BY <1>1, <2>1 DEF BufferStep, B!Next, B!Raise
  <1>2. CASE cursor + n <= end
    <2>1. n \in B!Mem
      BY <1>2, BufferFacts DEF B!Mem
    <2> DEFINE e == [index |-> eobIndex, commited |-> TRUE, outer |-> end]
    <2>2. scopes' = Append(scopes, e) /\ UNCHANGED <<start, cursor, store, looked, throwing>>
      BY <1>2 DEF B!PushSize
    <2>3. scopes'[Len(scopes) + 1] = e /\ e.outer = end
      BY <2>2, BufferFacts, Pushed
    <2> QED
      BY <1>2, <2>1, <2>2, <2>3 DEF BufferStep, B!Next
  <1> QED
    BY <1>1, <1>2

LEMMA OtherSteps ==
    \/ B!Raise \/ B!CloseScope \/ B!Catch \/ B!PushState \/ B!PopState \/ B!Reset \/ UNCHANGED bvars
    => BufferStep
  BY DEF BufferStep, B!Next, B!vars, bvars

\* The message still ends where it did.
LEMMA EndsAfterPush ==
    ASSUME Ordinary, BP!IInv, MessageEnds, NEW n \in Nat, B!PushSize(n, TRUE), cursor + n <= end, wire' = wire
    PROVE  MessageEnds' /\ Len(scopes') = Len(scopes) + 1 /\ Len(scopes') \in Nat
  <1>1. scopes' = Append(scopes, scopes'[Len(scopes) + 1]) /\ scopes'[Len(scopes) + 1].outer = end
    BY PushSizeStep
  <1>2. /\ scopes' # <<>> /\ Len(scopes') = Len(scopes) + 1
        /\ \A i \in 1 .. Len(scopes) : scopes'[i] = scopes[i]
    BY <1>1, BufferFacts, Pushed
  <1> QED
    BY <1>1, <1>2, BufferFacts DEF MessageEnds

LEMMA EndsAfterClose ==
    ASSUME Ordinary, BP!IInv, MessageEnds, B!CloseScope, wire' = wire
    PROVE  MessageEnds' /\ Len(scopes') = Len(scopes) - 1 /\ Len(scopes') \in Nat
  <1>1. scopes # <<>> /\ scopes' = SubSeq(scopes, 1, Len(scopes) - 1)
    BY DEF B!CloseScope, B!Inner
  <1>2. /\ Len(scopes') = Len(scopes) - 1 /\ (scopes' = <<>> <=> Len(scopes) = 1)
        /\ Len(scopes) \in Nat \ {0}
        /\ \A i \in 1 .. Len(scopes) - 1 : scopes'[i] = scopes[i]
    BY <1>1, BufferFacts, Popped
  <1>3. end' = scopes[Len(scopes)].outer
    BY <1>1, ScopeFacts
  <1> QED
    BY <1>1, <1>2, <1>3 DEF MessageEnds

-----------------------------------------------------------------------------
(* Steps of the frame on top.                                              *)

LEMMA TopFacts ==
    ASSUME Ordinary, IInv, status = "running"
    PROVE  /\ Listed(frames) /\ frames # <<>> /\ Len(frames) \in Nat \ {0} /\ DOMAIN frames = 1 .. Len(frames)
           /\ FrameOK(Top) /\ Shape(Top) /\ Placed(Top) /\ Top.begin <= cursor
           /\ Looks(Top) /\ store # NoState => Top.begin <= store
           /\ F = Field(Top) /\ MessageEnds
  <1>1. Listed(frames) /\ frames # <<>>
    BY DEF IInv, DInv, Control, Frames
  <1>2. Len(frames) \in Nat \ {0} /\ DOMAIN frames = 1 .. Len(frames)
    BY <1>1, ListedFacts DEF Listed
  <1>3. Len(frames) \in DOMAIN frames
    BY <1>2
  <1> QED
    BY <1>1, <1>2, <1>3 DEF IInv, DInv, Frames, Begins, Top, FrameOK, F, Field, WholeMessage

\* Another frame g on top, and whatever the buffer does with it.
LEMMA TopChanges ==
    ASSUME Ordinary, IInv, status = "running", ~throwing, ~throwing', UNCHANGED <<ctl, error, start>>,
           NEW g, Become(g), FrameOK(g), g.begin = Top.begin,
           cursor' \in Nat, Top.begin <= cursor',
           store' \in {store, cursor, NoState}, Looks(g) /\ store' # NoState => g.begin <= store',
           Len(scopes') \in Nat, Len(scopes') + Opens(Top) = Len(scopes) + Opens(g), MessageEnds'
    PROVE  DInv'
  <1> DEFINE n == Len(frames)
  <1>1. /\ n \in Nat \ {0} /\ Listed(frames) /\ frames # <<>> /\ DOMAIN frames = 1 .. n
        /\ FrameOK(frames[n]) /\ g.begin = frames[n].begin
    BY TopFacts DEF Top
  <1>2. /\ Listed(frames') /\ Len(frames') = n /\ frames' # <<>> /\ DOMAIN frames' = 1 .. n
        /\ frames'[n] = g /\ \A i \in 1 .. n - 1 : frames'[i] = frames[i]
    <2> DEFINE t == [frames EXCEPT ![Len(frames)] = g]
    <2>1. /\ Listed(t) /\ Len(t) = Len(frames) /\ t # <<>> /\ DOMAIN t = 1 .. Len(frames)
          /\ t[Len(frames)] = g /\ \A i \in 1 .. Len(frames) - 1 : t[i] = frames[i]
      <3>1. Listed(frames) /\ frames # <<>>
        BY <1>1
      <3> QED
        BY <3>1, Replaced
    <2>2. frames' = t
      BY DEF Become
    <2> HIDE DEF t
    <2> QED
      BY <2>1, <2>2
  <1> HIDE DEF n
  <1>3. Control'
    BY <1>1, <1>2 DEF IInv, DInv, Control, ctl, msg
  <1>4. Frames'
    <2>1. \A k \in 1 .. n : FrameOK(frames[k])
      BY <1>1 DEF IInv, DInv, Frames
    <2>2. \A k \in 1 .. n - 1 : Waits(frames[k])
      BY DEF IInv, DInv, Frames, n
    <2>3. ASSUME NEW k \in 1 .. n PROVE FrameOK(frames'[k])
      <3>1. CASE k = n
        BY <3>1, <1>2
      <3>2. CASE k # n
        <4>1. k \in 1 .. n - 1
          BY <3>2, <1>1
        <4> QED
          BY <4>1, <2>1, <1>2, <1>1
      <3> QED
        BY <3>1, <3>2
    <2>4. \A k \in 1 .. n - 1 : Waits(frames'[k])
      BY <2>2, <1>2
    <2> QED
      BY <2>3, <2>4, <1>2 DEF Frames
  <1>5. \A k \in 1 .. n : frames'[k].begin = frames[k].begin /\ frames[k].begin \in Nat
    <2>1. ASSUME NEW k \in 1 .. n PROVE frames'[k].begin = frames[k].begin
      <3>1. CASE k = n
        BY <3>1, <1>1, <1>2
      <3>2. CASE k # n
        <4>1. k \in 1 .. n - 1
          BY <3>2, <1>1
        <4> QED
          BY <4>1, <1>2
      <3> QED
        BY <3>1, <3>2
    <2>2. ASSUME NEW k \in 1 .. n PROVE frames[k].begin \in Nat
      BY <1>1, ShapeFacts DEF IInv, DInv, Frames, FrameOK
    <2> QED
      BY <2>1, <2>2
  <1>6. /\ \A j, k \in 1 .. n : j <= k => frames[j].begin <= frames[k].begin
        /\ \A k \in 1 .. n : frames[k].begin <= cursor
        /\ \A k \in 1 .. n : Looks(frames[k]) /\ store # NoState => frames[k].begin <= store
    BY <1>1 DEF IInv, DInv, Begins
  <1>7. Begins'
    <2>1. \A j, k \in 1 .. n : j <= k => frames'[j].begin <= frames'[k].begin
      BY <1>5, <1>6
    <2>2. ASSUME NEW k \in 1 .. n PROVE frames'[k].begin <= cursor'
      <3>1. n \in 1 .. n /\ k <= n
        BY <1>1
      <3>2. frames[k].begin <= frames[n].begin /\ frames[n].begin <= cursor'
        BY <3>1, <1>6, <1>1
      <3> QED
        BY <3>1, <3>2, <1>5
    <2>3. ASSUME NEW k \in 1 .. n, Looks(frames'[k]), store' # NoState PROVE frames'[k].begin <= store'
      <3>1. CASE k = n
        BY <3>1, <2>3, <1>2
      <3>2. CASE k # n
        <4>1. k \in 1 .. n - 1 /\ frames'[k] = frames[k]
          BY <3>2, <1>1, <1>2
        <4>2. store' = store \/ store' = cursor
          BY <2>3
        <4> QED
          BY <4>1, <4>2, <2>3, <1>6
      <3> QED
        BY <3>1, <3>2
    <2> QED
      BY <2>1, <2>2, <2>3, <1>2 DEF Begins
  <1>8. WindowsCounted'
    <2>1. PICK base : Counts(base, frames, Len(scopes))
      BY DEF IInv, DInv, WindowsCounted
    <2> DEFINE other == [base EXCEPT ![n + 1] = Len(scopes')]
    <2>2. /\ base \in [1 .. n + 1 -> Nat] /\ base[1] = 0 /\ base[n + 1] = Len(scopes)
          /\ \A k \in 1 .. n : base[k + 1] = base[k] + Opens(frames[k])
      BY <2>1 DEF Counts, n
    <2>3. Opens(g) \in Int /\ Opens(frames[n]) \in Int
      BY <1>1, ShapeFacts DEF Opens, FrameOK
    <2>4. Len(scopes) = base[n] + Opens(frames[n]) /\ base[n] \in Nat /\ Len(scopes) \in Nat
      BY <1>1, <2>2
    <2>5. Len(scopes') + Opens(frames[n]) = Len(scopes) + Opens(g)
      BY DEF Top, n
    <2>6. Len(scopes') = base[n] + Opens(g)
      BY <2>3, <2>4, <2>5
    <2>7. /\ other \in [1 .. n + 1 -> Nat] /\ other[1] = 0 /\ other[n + 1] = Len(scopes')
          /\ \A k \in 1 .. n : other[k] = base[k]
      BY <1>1, <2>2
    <2>8. ASSUME NEW k \in 1 .. n PROVE other[k + 1] = other[k] + Opens(frames'[k])
      <3>1. CASE k = n
        BY <3>1, <2>6, <2>7, <1>2
      <3>2. CASE k # n
        <4>1. k \in 1 .. n - 1 /\ k + 1 \in 1 .. n /\ frames'[k] = frames[k]
          BY <3>2, <1>1, <1>2
        <4> QED
          BY <4>1, <2>2, <2>7
      <3> QED
        BY <3>1, <3>2
    <2> HIDE DEF other
    <2>9. Counts(other, frames', Len(scopes'))
      BY <2>7, <2>8, <1>2 DEF Counts
    <2> QED
      BY <2>9 DEF WindowsCounted
  <1>9. WholeMessage'
    BY DEF WholeMessage
  <1> QED
    BY <1>3, <1>4, <1>7, <1>8, <1>9 DEF DInv

\* ... with the buffer as it was,
LEMMA GoOK ==
    ASSUME Ordinary, IInv, status = "running", ~throwing, UNCHANGED ctl,
           NEW g, Go(g), FrameOK(g), g.begin = Top.begin, Opens(g) = Opens(Top), Looks(g) => Looks(Top)
    PROVE  BufferStep /\ DInv'
  <1>1. UNCHANGED bvars /\ Become(g) /\ error' = error
    BY DEF Go, Quiet
  <1>2. BufferStep
    BY <1>1, OtherSteps
  <1>3. /\ cursor \in Nat /\ Top.begin <= cursor /\ MessageEnds /\ Len(scopes) \in Nat
        /\ Looks(Top) /\ store # NoState => Top.begin <= store
    BY TopFacts, BufferFacts DEF IInv
  <1>4. MessageEnds'
    BY <1>1, <1>3 DEF bvars, ctl, msg, MessageEnds
  <1>5. /\ ~throwing' /\ start' = start /\ cursor' = cursor /\ store' = store /\ scopes' = scopes
    BY <1>1 DEF bvars
  <1>6. DInv'
    <2>1. Opens(g) \in Int
      BY ShapeFacts DEF Opens, FrameOK
    <2> QED
      BY <1>1, <1>3, <1>4, <1>5, <2>1, TopChanges
  <1> QED
    BY <1>2, <1>6

\* with an exception,
LEMMA ThrowOK ==
    ASSUME Ordinary, IInv, status = "running", ~throwing, UNCHANGED <<ctl, frames>>, B!Throw, error' # ""
    PROVE  BufferStep /\ DInv'
  <1>1. BufferStep
    BY OtherSteps DEF B!Raise
  <1>2. throwing' /\ UNCHANGED <<start, cursor, end, store, eob, eobIndex, scopes>>
    BY DEF B!Throw
  <1>3. DInv'
    BY <1>2 DEF IInv, DInv, Control, Frames, Begins, WindowsCounted, WholeMessage, MessageEnds, ctl, msg
  <1> QED
    BY <1>1, <1>3

LEMMA FailOK ==
    ASSUME Ordinary, IInv, status = "running", ~throwing, UNCHANGED ctl, NEW kind, Fail(kind), kind # ""
    PROVE  BufferStep /\ DInv'
  BY ThrowOK DEF Fail, B!Raise

\* with octets read.
LEMMA ReadOK ==
    ASSUME Ordinary, IInv, status = "running", ~throwing, UNCHANGED ctl, NEW n \in Nat, NEW g, Read(n, g),
           ~Lacks(n) => FrameOK(g) /\ g.begin = Top.begin /\ Opens(g) = Opens(Top) /\ (Looks(g) => Looks(Top))
    PROVE  BufferStep /\ DInv'
  <1>1. B!Advance(n, n) /\ BP!IInv
    BY DEF Read, IInv
  <1>2. CASE Lacks(n)
    <2>1. B!Throw /\ UNCHANGED frames /\ error' = "overflow"
      BY <1>1, <1>2, AdvanceStep DEF Read
    <2> QED
      BY <2>1, ThrowOK
  <1>3. CASE ~Lacks(n)
    <2>1. /\ cursor' = cursor + n
          /\ UNCHANGED <<start, end, store, eob, eobIndex, scopes, looked, throwing>>
      BY <1>1, <1>3, AdvanceStep
    <2>2. Become(g) /\ error' = error
      BY <1>3 DEF Read, Quiet
    <2>3. /\ cursor \in Nat /\ Top.begin <= cursor /\ Top.begin \in Nat /\ MessageEnds /\ Len(scopes) \in Nat
          /\ Looks(Top) /\ store # NoState => Top.begin <= store
      BY TopFacts, BufferFacts, ShapeFacts DEF IInv
    <2>4. MessageEnds'
      BY <2>1, <2>3 DEF ctl, msg, MessageEnds
    <2>5. Opens(g) \in Int
      BY <1>3, ShapeFacts DEF Opens, FrameOK
    <2>6. cursor' \in Nat /\ Top.begin <= cursor'
      BY <2>1, <2>3
    <2>7. DInv'
      BY <1>3, <2>1, <2>2, <2>3, <2>4, <2>5, <2>6, TopChanges
    <2> QED
      BY <1>1, <2>7, AdvanceStep
  <1> QED
    BY <1>2, <1>3

-----------------------------------------------------------------------------
(* Every step of the decoder keeps the invariant: sequences.               *)

\* To another place of the field, between its items.
LEMMA MoveOK ==
    ASSUME Ordinary, IInv, status = "running", ~throwing, UNCHANGED ctl, Top.pc \notin InItem,
           NEW p \in {"field", "ahead", "again", "match", "more", "count", "quota", "loop", "arity",
                      "complete", "found", "item", "return"},
           Move(p),
           p \in {"ahead", "again", "match"} => Tagged(F),
           p \in OfSequences => Kind(Top.con) = "sequence",
           p \in OfOthers => Kind(Top.con) # "sequence",
           Top.left \in Nat
    PROVE  BufferStep /\ DInv'
  <1> DEFINE f == Top
             g == [f EXCEPT !.pc = p]
  <1>1. Shape(f) /\ Placed(f) /\ F = Field(f) /\ f.open = <<>>
    BY TopFacts DEF Placed
  <1>2. Go(g)
    BY DEF Move
  <1>3. p \in Places
    BY DEF Places, OfSequences, OfOthers
  <1> HIDE DEF f
  <1>4. Shape(g) /\ Same(f, g) /\ g.pc = p /\ g.at = f.at /\ g.left = f.left
    BY <1>1, <1>3, AtPlace
  <1> HIDE DEF g
  <1>5. Field(g) = Field(f)
    BY <1>4 DEF Same, Field
  <1>6. Placed(g)
    BY <1>1, <1>4, <1>5 DEF Placed, Same, OfSequences, OfOthers, InItem, Begun, f
  <1>7. Opens(g) = Opens(f) /\ (Looks(g) => Looks(f))
    BY <1>1, <1>4 DEF Opens, Looks, Same, InItem, Begun, f
  <1> QED
    BY <1>2, <1>4, <1>6, <1>7, GoOK DEF f, FrameOK, Same

LEMMA NextFieldOK ==
    ASSUME Ordinary, IInv, status = "running", ~throwing, UNCHANGED ctl, Top.pc \notin InItem,
           Kind(Top.con) = "sequence", Top.left \in Nat, NextField
    PROVE  BufferStep /\ DInv'
  <1> DEFINE f == Top
             g == Skipping(f)
  <1>1. Shape(f) /\ f.open = <<>>
    BY TopFacts DEF Placed
  <1>2. FrameOK(g) /\ Same(f, g) /\ g.pc \in {"return", "field"}
    BY <1>1, SkippingOK
  <1>3. Go(g)
    BY DEF NextField
  <1> HIDE DEF g, f
  <1>4. Opens(g) = Opens(f) /\ (Looks(g) => Looks(f))
    BY <1>1, <1>2 DEF Opens, Looks, Same, InItem, f
  <1> QED
    BY <1>2, <1>3, <1>4, GoOK DEF f, Same

\* The tag read ahead is done with.
LEMMA ClearedOK ==
    ASSUME NEW f, Shape(f), NEW p \in Places
    PROVE  LET g == [f EXCEPT !.vtag = Cleared(@), !.pc = p]
           IN /\ Shape(g) /\ g.con = f.con /\ g.begin = f.begin /\ g.open = f.open /\ g.pc = p
              /\ g.at = f.at /\ g.left = f.left /\ g.vtag.set = FALSE /\ g.vtag.val = f.vtag.val /\ g.out = f.out
  BY DEF Shape, FrameType, Field, Cleared

LEMMA EnterFieldOK ==
    ASSUME Ordinary, IInv, EnterField
    PROVE  BufferStep /\ DInv'
  <1> DEFINE f == Top
  <1>1. status = "running" /\ ~throwing /\ f.pc = "field" /\ UNCHANGED ctl
    BY DEF EnterField, Here, At
  <1>2. Shape(f) /\ Placed(f) /\ F = Field(f) /\ f.open = <<>> /\ f.left \in Nat /\ Kind(f.con) = "sequence"
    BY <1>1, TopFacts DEF Placed, InItem, Begun, OfSequences
  <1>3. /\ FirstStep \in {"match", "ahead", "count", "loop", "more", "item"}
        /\ FirstStep \in {"match", "ahead"} => Tagged(F)
    BY DEF FirstStep
  <1>4. CASE Discards /\ f.vtag.set
    <2> DEFINE g == [f EXCEPT !.vtag = Cleared(@), !.pc = FirstStep]
    <2>1. B!PopState /\ error' = error /\ Become(g)
      BY <1>4 DEF EnterField, Quiet
    <2>2. FirstStep \in Places
      BY <1>3 DEF Places, OfSequences
    <2>3. /\ Shape(g) /\ g.con = f.con /\ g.begin = f.begin /\ g.open = f.open /\ g.pc = FirstStep
          /\ g.at = f.at /\ g.left = f.left /\ ~g.vtag.set
      BY <1>2, <2>2, ClearedOK
    <2> HIDE DEF g
    <2>4. Field(g) = F
      BY <1>2, <2>3 DEF Field
    <2>5. Placed(g) /\ ~Looks(g) /\ Opens(g) = Opens(f)
      BY <1>1, <1>2, <1>3, <2>3, <2>4 DEF Placed, Looks, Opens, OfSequences, OfOthers
    <2>6. /\ cursor' = (IF store # NoState THEN store ELSE cursor) /\ store' = NoState
          /\ UNCHANGED <<start, end, eob, eobIndex, scopes, looked, throwing>>
      BY <2>1 DEF B!PopState
    <2>7. /\ cursor \in Nat /\ f.begin <= cursor /\ MessageEnds /\ Len(scopes) \in Nat /\ store \in Nat \cup {NoState}
          /\ store # NoState => f.begin <= store
      BY <1>1, <1>4, TopFacts, BufferFacts DEF IInv, Looks
    <2>8. MessageEnds'
      BY <1>1, <2>6, <2>7 DEF ctl, msg, MessageEnds
    <2>9. Opens(f) \in Int
      BY <1>2, ShapeFacts DEF Opens
    <2>10. DInv'
      <3>1. cursor' \in Nat /\ f.begin <= cursor'
        BY <2>6, <2>7
      <3> QED
        BY <1>1, <2>1, <2>3, <2>5, <2>6, <2>7, <2>8, <2>9, <3>1, TopChanges DEF FrameOK
    <2> QED
      BY <2>1, <2>10, OtherSteps
  <1>5. CASE ~(Discards /\ f.vtag.set)
    <2>1. Move(FirstStep)
      BY <1>5 DEF EnterField
    <2> QED
      BY <1>1, <1>2, <1>3, <2>1, MoveOK DEF InItem, Begun, OfSequences, OfOthers
  <1> QED
    BY <1>4, <1>5

\* A place between items.
LEMMA PlaceOK ==
    ASSUME NEW f, Shape(f), f.open = <<>>, f.left \in Nat, NEW p \in OfSequences \cup OfOthers \cup {"item", "return"},
           p \in {"ahead", "again", "peek", "match"} => Tagged(Field(f)),
           p \in OfSequences => Kind(f.con) = "sequence", p \in OfOthers => Kind(f.con) # "sequence"
    PROVE  LET g == [f EXCEPT !.pc = p] IN FrameOK(g) /\ Same(f, g) /\ g.pc = p /\ g.out = f.out /\ g.at = f.at
  <1> DEFINE g == [f EXCEPT !.pc = p]
  <1>1. p \in Places
    BY DEF Places
  <1>2. Shape(g) /\ Same(f, g) /\ g.pc = p /\ g.at = f.at /\ g.left = f.left /\ g.out = f.out
    BY <1>1, AtPlace
  <1> HIDE DEF g
  <1>3. Placed(g)
    BY <1>2 DEF Placed, Same, Field, OfSequences, OfOthers, InItem, Begun
  <1> QED
    BY <1>2, <1>3 DEF g, FrameOK

\* What the decoder looks at may have been remembered, or gone back to.
LEMMA PushStateOK ==
    ASSUME Ordinary, IInv, status = "running", ~throwing, UNCHANGED <<ctl, error>>, B!PushState,
           NEW g, Become(g), FrameOK(g), g.begin = Top.begin, Opens(g) = Opens(Top)
    PROVE  BufferStep /\ DInv'
  <1>1. /\ store' \in {cursor, NoState}
        /\ UNCHANGED <<start, cursor, end, eob, eobIndex, scopes, throwing>>
    BY DEF B!PushState
  <1>2. cursor \in Nat /\ Top.begin <= cursor /\ MessageEnds /\ Len(scopes) \in Nat
    BY TopFacts, BufferFacts DEF IInv
  <1>3. MessageEnds'
    BY <1>1, <1>2 DEF ctl, msg, MessageEnds
  <1>4. Opens(g) \in Int
    BY ShapeFacts DEF Opens, FrameOK
  <1>5. DInv'
    BY <1>1, <1>2, <1>3, <1>4, TopChanges
  <1> QED
    BY <1>5, OtherSteps

LEMMA PopStateOK ==
    ASSUME Ordinary, IInv, status = "running", ~throwing, UNCHANGED <<ctl, error>>, B!PopState, Looks(Top),
           NEW g, Become(g), FrameOK(g), g.begin = Top.begin, Opens(g) = Opens(Top)
    PROVE  BufferStep /\ DInv'
  <1>1. /\ cursor' = (IF store # NoState THEN store ELSE cursor) /\ store' = NoState
        /\ UNCHANGED <<start, end, eob, eobIndex, scopes, looked, throwing>>
    BY DEF B!PopState
  <1>2. /\ cursor \in Nat /\ Top.begin <= cursor /\ MessageEnds /\ Len(scopes) \in Nat /\ store \in Nat \cup {NoState}
        /\ store # NoState => Top.begin <= store
    BY TopFacts, BufferFacts DEF IInv
  <1>3. MessageEnds'
    BY <1>1, <1>2 DEF ctl, msg, MessageEnds
  <1>4. Opens(g) \in Int /\ cursor' \in Nat /\ Top.begin <= cursor'
    BY <1>1, <1>2, ShapeFacts DEF Opens, FrameOK
  <1>5. DInv'
    BY <1>1, <1>2, <1>3, <1>4, TopChanges
  <1> QED
    BY <1>5, OtherSteps

LEMMA LookAheadOK ==
    ASSUME Ordinary, IInv, LookAhead
    PROVE  BufferStep /\ DInv'
  <1> DEFINE f == Top
  <1>1. /\ status = "running" /\ ~throwing /\ f.pc = "ahead" /\ UNCHANGED ctl /\ B!PushState /\ error' = error
    BY DEF LookAhead, Here, At, Quiet
  <1>2. /\ Shape(f) /\ F = Field(f) /\ f.open = <<>> /\ f.left \in Nat /\ Kind(f.con) = "sequence" /\ Tagged(Field(f))
    BY <1>1, TopFacts DEF Placed, InItem, Begun, OfSequences
  <1>3. PICK g : Become(g) /\ (g = [f EXCEPT !.pc = "peek"] \/ g = [f EXCEPT !.pc = "match"] \/ g = Skipping(f))
    BY DEF LookAhead, Goto
  <1> HIDE DEF f
  <1>4. FrameOK(g) /\ Same(f, g) /\ g.pc # "pad"
    <2>0. {"peek", "match"} \subseteq OfSequences /\ "peek" \notin OfOthers /\ "match" \notin OfOthers
      BY DEF OfSequences, OfOthers
    <2>1. CASE g = [f EXCEPT !.pc = "peek"]
      BY <2>0, <2>1, <1>2, PlaceOK
    <2>2. CASE g = [f EXCEPT !.pc = "match"]
      BY <2>0, <2>2, <1>2, PlaceOK
    <2>3. CASE g = Skipping(f)
      BY <2>3, <1>2, SkippingOK
    <2> QED
      BY <1>3, <2>1, <2>2, <2>3
  <1> QED
    BY <1>1, <1>3, <1>4, PushStateOK DEF f, Same, Opens

LEMMA LookAgainOK ==
    ASSUME Ordinary, IInv, LookAgain
    PROVE  BufferStep /\ DInv'
  <1> DEFINE f == Top
  <1>1. /\ status = "running" /\ ~throwing /\ f.pc = "again" /\ UNCHANGED ctl /\ B!PushState /\ error' = error
    BY DEF LookAgain, Here, At, Quiet
  <1>2. /\ Shape(f) /\ F = Field(f) /\ f.open = <<>> /\ f.left \in Nat /\ Kind(f.con) = "sequence" /\ Tagged(Field(f))
    BY <1>1, TopFacts DEF Placed, InItem, Begun, OfSequences
  <1>3. PICK g : Become(g) /\ (g = [f EXCEPT !.pc = "peek"] \/ g = [f EXCEPT !.vtag = Cleared(@), !.pc = "arity"])
    BY DEF LookAgain, Goto
  <1> HIDE DEF f
  <1>4. FrameOK(g) /\ g.open = f.open /\ g.begin = f.begin /\ g.pc # "pad"
    <2>1. CASE g = [f EXCEPT !.pc = "peek"]
      <3>1. "peek" \in OfSequences /\ "peek" \notin OfOthers
        BY DEF OfSequences, OfOthers
      <3>2. FrameOK(g) /\ Same(f, g) /\ g.pc = "peek"
        BY <2>1, <3>1, <1>2, PlaceOK
      <3> QED
        BY <3>2 DEF Same
    <2>2. CASE g = [f EXCEPT !.vtag = Cleared(@), !.pc = "arity"]
      <3>1. "arity" \in Places
        BY DEF Places, OfSequences
      <3>2. /\ Shape(g) /\ g.con = f.con /\ g.begin = f.begin /\ g.open = f.open /\ g.pc = "arity"
            /\ g.at = f.at /\ g.left = f.left
        BY <1>2, <2>2, <3>1, ClearedOK
      <3> QED
        BY <1>2, <3>2 DEF FrameOK, Placed, OfSequences, OfOthers
    <2> QED
      BY <1>3, <2>1, <2>2
  <1> QED
    BY <1>1, <1>3, <1>4, PushStateOK DEF f, Opens

\* The size of what is read.
LEMMA TagSize ==
    ASSUME Ordinary, NEW f, Shape(f), Tagged(Field(f))
    PROVE  1 \in DOMAIN Field(f).meta /\ Len(Field(f).meta[1].of) \in Nat
  <1>1. /\ Len(Field(f).meta) \in Nat /\ DOMAIN Field(f).meta = 1 .. Len(Field(f).meta)
        /\ \A k \in DOMAIN Field(f).meta : Len(Field(f).meta[k].of) \in Nat
    BY ShapeFacts, FieldFacts DEF Field
  <1>2. Field(f).meta # <<>> /\ GoodField(Field(f))
    BY ShapeFacts, FieldFacts DEF Field, Tagged
  <1>3. Len(Field(f).meta) # 0
    BY <1>2, ListedFacts DEF GoodField
  <1> QED
    BY <1>1, <1>3

LEMMA PeekOK ==
    ASSUME Ordinary, IInv, Peek
    PROVE  BufferStep /\ DInv'
  <1> DEFINE f == Top
             n == Len(F.meta[1].of)
             v == Ahead(n)
             g == [f EXCEPT !.vtag = [set |-> TRUE, val |-> v], !.pc = "match"]
  <1>1. /\ status = "running" /\ ~throwing /\ f.pc = "peek" /\ UNCHANGED ctl /\ Read(n, g)
    BY DEF Peek, Here, At
  <1>2. /\ Shape(f) /\ F = Field(f) /\ f.open = <<>> /\ f.left \in Nat /\ Kind(f.con) = "sequence" /\ Tagged(Field(f))
    BY <1>1, TopFacts DEF Placed, InItem, Begun, OfSequences
  <1>3. n \in Nat
    BY <1>2, TagSize
  <1> HIDE DEF f, n, v
  <1>4. "match" \in Places
    BY DEF Places, OfSequences
  <1> DEFINE h == [[f EXCEPT !.vtag = [set |-> TRUE, val |-> v]] EXCEPT !.pc = "match"]
  <1>5. g = h
    BY <1>2, ShapeFacts DEF FrameType
  <1> HIDE DEF g
  <1>6. /\ Shape(h) /\ h.con = f.con /\ h.begin = f.begin /\ h.open = f.open /\ h.pc = "match"
        /\ h.at = f.at /\ h.left = f.left /\ h.vtag.set /\ h.vtag.val = v /\ h.out = f.out
    <2>1. Shape(f) /\ Kind(f.con) = "sequence"
      BY <1>2
    <2> QED
      BY <2>1, <1>4 DEF Shape, FrameType, Field
  <1> HIDE DEF h
  <1>7. FrameOK(g) /\ Opens(g) = Opens(f) /\ Looks(f)
    BY <1>1, <1>2, <1>5, <1>6 DEF FrameOK, Placed, Field, Opens, Looks, OfSequences, OfOthers
  <1> QED
    BY <1>1, <1>3, <1>5, <1>6, <1>7, ReadOK DEF f

\* Facts about the frame on top at the places of a sequence, and of the others.
LEMMA AtPlaceOfSequence ==
    ASSUME Ordinary, IInv, NEW p \in OfSequences, Here(p)
    PROVE  /\ status = "running" /\ ~throwing /\ UNCHANGED ctl /\ Top.pc = p
           /\ Shape(Top) /\ F = Field(Top) /\ Top.open = <<>> /\ Top.pc \notin InItem
           /\ p # "quota" => Top.left \in Nat
           /\ Kind(Top.con) = "sequence"
           /\ p \in {"ahead", "again", "peek", "match"} => Tagged(F)
           /\ GoodField(F)
  <1>1. status = "running" /\ ~throwing /\ UNCHANGED ctl /\ Top.pc = p
    BY DEF Here, At
  <1>2. Placed(Top) /\ Shape(Top) /\ F = Field(Top)
    BY <1>1, TopFacts
  <1>3. p \notin InItem
    BY DEF OfSequences, InItem, Begun
  <1>4. GoodField(F)
    BY <1>2, ShapeFacts, FieldFacts DEF Field
  <1> QED
    BY <1>1, <1>2, <1>3, <1>4 DEF Placed

\* An exception is thrown when the arity is not as promised.
LEMMA ArityFault ==
    ASSUME NEW G, NEW n, ~ArityOK(G, n)
    PROVE  Arity(G, n).fault # ""
  BY DEF Arity, Fault

LEMMA MatchesOK ==
    ASSUME Ordinary, IInv, Match
    PROVE  BufferStep /\ DInv'
  <1> DEFINE f == Top
             g == [f EXCEPT !.vtag = Cleared(@), !.pc = "item"]
  <1>1. Here("match") /\ "match" \in OfSequences /\ {"arity", "item"} \subseteq Places
    BY DEF Match, OfSequences, Places
  <1>2. /\ status = "running" /\ ~throwing /\ UNCHANGED ctl /\ f.pc = "match"
        /\ Shape(f) /\ f.open = <<>> /\ f.pc \notin InItem /\ f.left \in Nat /\ Kind(f.con) = "sequence"
    BY <1>1, AtPlaceOfSequence
  <1>3. CASE Move("arity")
    BY <1>2, <1>3, MoveOK DEF OfSequences, OfOthers
  <1>4. CASE NextField
    BY <1>2, <1>4, NextFieldOK
  <1>5. CASE Move("item")
    BY <1>2, <1>5, MoveOK DEF OfSequences, OfOthers
  <1>6. CASE Go(g)
    <2>1. Shape(g) /\ g.con = f.con /\ g.begin = f.begin /\ g.open = f.open /\ g.pc = "item"
          /\ g.at = f.at /\ g.left = f.left /\ ~g.vtag.set
      <3>1. "item" \in Places /\ Shape(f)
        BY <1>1, <1>2
      <3> HIDE DEF f
      <3> QED
        BY <3>1, ClearedOK
    <2> HIDE DEF g, f
    <2>2. FrameOK(g) /\ Opens(g) = Opens(f) /\ ~Looks(g)
      BY <1>2, <2>1 DEF FrameOK, Placed, Opens, Looks, OfSequences, OfOthers
    <2> QED
      BY <1>2, <1>6, <2>1, <2>2, GoOK DEF f
  <1> QED
    BY <1>3, <1>4, <1>5, <1>6 DEF Match

LEMMA MoreOK ==
    ASSUME Ordinary, IInv, More
    PROVE  BufferStep /\ DInv'
  <1>1. Here("more") /\ "more" \in OfSequences /\ "item" \notin OfSequences \cup OfOthers
    BY DEF More, OfSequences, OfOthers
  <1>2. /\ status = "running" /\ ~throwing /\ UNCHANGED ctl
        /\ Top.pc \notin InItem /\ Top.left \in Nat /\ Kind(Top.con) = "sequence"
    BY <1>1, AtPlaceOfSequence
  <1>3. CASE Move("item")
    BY <1>1, <1>2, <1>3, MoveOK
  <1>4. CASE NextField
    BY <1>2, <1>4, NextFieldOK
  <1> QED
    BY <1>3, <1>4 DEF More

\* The number of items promised.
LEMMA ReadCountOK ==
    ASSUME Ordinary, IInv, ReadCount
    PROVE  BufferStep /\ DInv'
  <1> DEFINE f == Top
             g(n) == [f EXCEPT !.left = n, !.pc = "quota"]
             m == Number(Ahead(F.counter))
             k == Callback(F.countOf, f.out)
  <1>1. Here("count") /\ "count" \in OfSequences
    BY DEF ReadCount, OfSequences
  <1>2. /\ status = "running" /\ ~throwing /\ UNCHANGED ctl /\ f.pc = "count"
        /\ Shape(f) /\ f.open = <<>> /\ Kind(f.con) = "sequence" /\ GoodField(F)
    BY <1>1, AtPlaceOfSequence
  <1>3. F.counter \in Nat /\ (Read(F.counter, g(m)) \/ Go(g(k)))
    BY <1>2 DEF ReadCount, GoodField
  <1> HIDE DEF f, m, k
  <1>4. ASSUME NEW n PROVE FrameOK(g(n)) /\ g(n).begin = f.begin /\ Opens(g(n)) = Opens(f) /\ (Looks(g(n)) => Looks(f))
    <2> DEFINE h == g(n)
    <2>1. /\ FrameOK(h) /\ h.con = f.con /\ h.begin = f.begin /\ h.open = f.open /\ h.vtag = f.vtag
          /\ h.pc = "quota"
      <3>1. "quota" \in Places
        BY DEF Places, OfSequences
      <3>2. /\ Shape(h) /\ h.con = f.con /\ h.begin = f.begin /\ h.open = f.open /\ h.vtag = f.vtag
            /\ h.pc = "quota"
        BY <1>2, <3>1 DEF Shape, FrameType, Field
      <3> HIDE DEF h
      <3>3. Placed(h)
        BY <1>2, <3>2 DEF Placed, OfSequences, OfOthers
      <3> QED
        BY <3>2, <3>3 DEF FrameOK
    <2> HIDE DEF h
    <2>2. FrameOK(h) /\ h.begin = f.begin /\ Opens(h) = Opens(f) /\ (Looks(h) => Looks(f))
      BY <1>2, <2>1 DEF Opens, Looks
    <2> QED
      BY <2>2 DEF h
  <1> HIDE DEF g
  <1>5. CASE Read(F.counter, g(m))
    BY <1>2, <1>3, <1>4, <1>5, ReadOK DEF f
  <1>6. CASE Go(g(k))
    BY <1>2, <1>4, <1>6, GoOK DEF f
  <1> QED
    BY <1>3, <1>5, <1>6

LEMMA QuotaOK ==
    ASSUME Ordinary, IInv, Quota
    PROVE  BufferStep /\ DInv'
  <1>1. Here("quota") /\ "quota" \in OfSequences /\ "loop" \notin OfOthers
    BY DEF Quota, OfSequences, OfOthers
  <1>2. /\ status = "running" /\ ~throwing /\ UNCHANGED ctl
        /\ Top.pc \notin InItem /\ Kind(Top.con) = "sequence" /\ GoodField(F)
    BY <1>1, AtPlaceOfSequence
  <1>3. CASE ArityOK(F, Top.left)
    <2>1. Top.left \in Nat
      BY <1>2, <1>3 DEF ArityOK, GoodField
    <2>2. Move("loop")
      BY <1>3 DEF Quota
    <2> QED
      BY <1>1, <1>2, <2>1, <2>2, MoveOK
  <1>4. CASE ~ArityOK(F, Top.left)
    <2>1. Fail(Arity(F, Top.left).fault) /\ Arity(F, Top.left).fault # ""
      BY <1>4, ArityFault DEF Quota
    <2> QED
      BY <1>2, <2>1, FailOK
  <1> QED
    BY <1>3, <1>4

LEMMA LoopOK ==
    ASSUME Ordinary, IInv, Loop
    PROVE  BufferStep /\ DInv'
  <1> DEFINE f == Top
             g == [f EXCEPT !.left = @ - 1, !.pc = "item"]
  <1>1. Here("loop") /\ "loop" \in OfSequences /\ "arity" \notin OfOthers /\ "item" \notin OfSequences \cup OfOthers
    BY DEF Loop, OfSequences, OfOthers
  <1>2. /\ status = "running" /\ ~throwing /\ UNCHANGED ctl /\ f.pc = "loop"
        /\ Shape(f) /\ f.open = <<>> /\ f.pc \notin InItem /\ f.left \in Nat /\ Kind(f.con) = "sequence"
    BY <1>1, AtPlaceOfSequence
  <1>3. CASE Move("item")
    BY <1>1, <1>2, <1>3, MoveOK
  <1>4. CASE NextField
    BY <1>2, <1>4, NextFieldOK
  <1>5. CASE Move("arity")
    BY <1>1, <1>2, <1>5, MoveOK
  <1>6. CASE f.left > 0 /\ Go(g)
    <2>1. "item" \in Places
      BY DEF Places
    <2>2. Go(g)
      BY <1>6
    <2>3. f.left - 1 \in Nat
      BY <1>2, <1>6
    <2> HIDE DEF f
    <2>4. /\ Shape(g) /\ g.con = f.con /\ g.begin = f.begin /\ g.open = f.open /\ g.vtag = f.vtag
          /\ g.pc = "item" /\ g.left = f.left - 1
      BY <1>2, <2>1 DEF Shape, FrameType, Field
    <2> HIDE DEF g
    <2>5. FrameOK(g) /\ Opens(g) = Opens(f) /\ (Looks(g) => Looks(f))
      BY <1>2, <2>3, <2>4 DEF FrameOK, Placed, Opens, Looks, OfSequences, OfOthers
    <2> QED
      BY <1>2, <2>2, <2>4, <2>5, GoOK DEF f
  <1> QED
    BY <1>3, <1>4, <1>5, <1>6 DEF Loop

LEMMA CheckArityOK ==
    ASSUME Ordinary, IInv, CheckArity
    PROVE  BufferStep /\ DInv'
  <1>1. Here("arity") /\ "arity" \in OfSequences
    BY DEF CheckArity, OfSequences
  <1>2. /\ status = "running" /\ ~throwing /\ UNCHANGED ctl
        /\ Top.pc \notin InItem /\ Kind(Top.con) = "sequence" /\ Top.left \in Nat
    BY <1>1, AtPlaceOfSequence
  <1>3. CASE NextField
    BY <1>2, <1>3, NextFieldOK
  <1>4. CASE ~ArityOK(F, Len(Items)) /\ Fail(Arity(F, Len(Items)).fault)
    BY <1>2, <1>4, ArityFault, FailOK
  <1> QED
    BY <1>3, <1>4 DEF CheckArity

-----------------------------------------------------------------------------
(* ... sets and choices.                                                   *)

LEMMA AtPlaceOfOther ==
    ASSUME Ordinary, IInv, NEW p \in OfOthers, Here(p)
    PROVE  /\ status = "running" /\ ~throwing /\ UNCHANGED ctl /\ Top.pc = p
           /\ Shape(Top) /\ F = Field(Top) /\ Top.open = <<>> /\ Top.pc \notin InItem /\ Top.left \in Nat
           /\ Top.con \in Containers /\ Kind(Top.con) \in {"set", "choice"} /\ ~Top.vtag.set
  <1>1. status = "running" /\ ~throwing /\ UNCHANGED ctl /\ Top.pc = p
    BY DEF Here, At
  <1>2. Placed(Top) /\ Shape(Top) /\ F = Field(Top)
    BY <1>1, TopFacts
  <1>3. p \notin InItem /\ p # "quota"
    BY DEF OfOthers, InItem, Begun
  <1>4. Top.con \in Containers /\ Kind(Top.con) \in {"set", "choice"}
    BY <1>1, <1>2, ShapeFacts, ContainerFacts DEF Placed
  <1>5. ~Top.vtag.set
    BY <1>2, <1>4 DEF Shape
  <1> QED
    BY <1>1, <1>2, <1>3, <1>4, <1>5 DEF Placed

LEMMA ScanOK ==
    ASSUME Ordinary, IInv, Scan
    PROVE  BufferStep /\ DInv'
  <1> DEFINE f == Top
             p == IF AtEnd THEN "complete" ELSE "header"
             g == [f EXCEPT !.pc = p]
  <1>1. Here("scan") /\ "scan" \in OfOthers /\ p \in OfOthers /\ p \notin OfSequences /\ p # "pad"
    BY DEF Scan, OfOthers, OfSequences
  <1>2. /\ status = "running" /\ ~throwing /\ UNCHANGED ctl /\ f.pc = "scan"
        /\ Shape(f) /\ f.open = <<>> /\ f.left \in Nat /\ Kind(f.con) # "sequence"
    BY <1>1, AtPlaceOfOther
  <1>3. B!PushState /\ error' = error /\ Become(g)
    BY DEF Scan, Quiet, Goto
  <1> HIDE DEF f, p
  <1>4. FrameOK(g) /\ Same(f, g) /\ g.pc = p
    <2>1. p \notin {"ahead", "again", "peek", "match"}
      BY <1>1 DEF OfSequences
    <2> QED
      BY <1>1, <1>2, <2>1, PlaceOK
  <1> HIDE DEF g
  <1>5. g.begin = f.begin /\ Opens(g) = Opens(f)
    BY <1>1, <1>2, <1>4 DEF Same, Opens
  <1> QED
    BY <1>2, <1>3, <1>4, <1>5, PushStateOK DEF f

\* A container begins: its frame,
LEMMA FrameOKOf ==
    ASSUME Ordinary, IInv, NEW ty \in Containers
    PROVE  LET g == Frame(ty)
           IN /\ FrameOK(g) /\ g.con = ty /\ g.begin = cursor /\ g.open = <<>> /\ ~g.vtag.set /\ g.left = 0
              /\ g.pc = (IF Kind(ty) = "sequence" THEN "field" ELSE IF Kind(ty) = "set" THEN "scan" ELSE "header")
              /\ g.out = [i \in DOMAIN Fields(ty) |-> <<>>] /\ g.at = 1
  <1> DEFINE g == Frame(ty)
             p == IF Kind(ty) = "sequence" THEN "field" ELSE IF Kind(ty) = "set" THEN "scan" ELSE "header"
  <1>1. cursor \in Nat /\ 1 \in DOMAIN Fields(ty) /\ Kind(ty) \in {"sequence", "set", "choice"}
    BY BufferFacts, ContainerFacts DEF IInv
  <1>2. p \in Places /\ p = (CASE Kind(ty) = "sequence" -> "field" [] Kind(ty) = "set" -> "scan" [] Kind(ty) = "choice" -> "header")
    BY <1>1 DEF Places, OfSequences, OfOthers
  <1> HIDE DEF p
  <1>3. g = [con |-> ty, at |-> 1, step |-> 1, open |-> <<>>, vtag |-> NoVtag, octets |-> <<>>,
             left |-> 0, begin |-> cursor, out |-> [i \in DOMAIN Fields(ty) |-> <<>>], pc |-> p]
    BY <1>2 DEF Frame
  <1> HIDE DEF g
  <1>4. /\ g.con = ty /\ g.at = 1 /\ g.step = 1 /\ g.open = <<>> /\ g.vtag = NoVtag /\ g.left = 0
        /\ g.begin = cursor /\ g.out = [i \in DOMAIN Fields(ty) |-> <<>>] /\ g.pc = p
        /\ NoVtag.set = FALSE /\ NoVtag.val = <<0>>
    BY <1>3 DEF NoVtag
  <1>5. g.open \in Seq([step : Nat, from : Nat]) /\ DOMAIN g.open = {}
    BY <1>4, EmptySeq
  <1>6. g.vtag \in [set : BOOLEAN, val : {g.vtag.val}]
    BY <1>4 DEF NoVtag
  <1>7. Shape(g)
    <2>1. g \in FrameType(g)
      BY <1>1, <1>2, <1>3, <1>4, <1>5, <1>6 DEF FrameType
    <2> QED
      BY <2>1, <1>1, <1>4, <1>5 DEF Shape
  <1>8. Placed(g)
    BY <1>1, <1>4 DEF Placed, p, OfSequences, OfOthers, InItem, Begun
  <1> QED
    BY <1>4, <1>7, <1>8 DEF FrameOK, g, p

\* and that frame on top.
LEMMA FramePushed ==
    ASSUME Ordinary, IInv, status = "running", ~throwing, UNCHANGED <<ctl, error, bvars>>,
           NEW g, frames' = Append(frames, g), Waits(Top),
           FrameOK(g), g.begin = cursor, g.open = <<>>, g.pc # "pad", ~Looks(g)
    PROVE  BufferStep /\ DInv'
  <1> DEFINE n == Len(frames)
  <1>1. /\ n \in Nat \ {0} /\ Listed(frames) /\ frames # <<>> /\ DOMAIN frames = 1 .. n /\ Waits(frames[n])
    BY TopFacts DEF Top
  <1>2. /\ Listed(frames') /\ Len(frames') = n + 1 /\ frames' # <<>> /\ DOMAIN frames' = 1 .. n + 1
        /\ frames'[n + 1] = g /\ \A i \in 1 .. n : frames'[i] = frames[i]
    <2> DEFINE t == Append(frames, g)
    <2>1. /\ Listed(t) /\ Len(t) = Len(frames) + 1 /\ t # <<>> /\ DOMAIN t = 1 .. Len(frames) + 1
          /\ t[Len(frames) + 1] = g /\ \A i \in 1 .. Len(frames) : t[i] = frames[i]
      <3>1. Listed(frames)
        BY <1>1
      <3> QED
        BY <3>1, Pushed
    <2>2. frames' = t
      OBVIOUS
    <2> HIDE DEF t
    <2> QED
      BY <2>1, <2>2
  <1>3. /\ \A k \in 1 .. n : FrameOK(frames[k]) /\ frames[k].begin \in Nat
        /\ \A k \in 1 .. n : Waits(frames[k])
    <2>1. \A k \in 1 .. n : FrameOK(frames[k])
      BY <1>1 DEF IInv, DInv, Frames
    <2>2. \A k \in 1 .. n - 1 : Waits(frames[k])
      BY DEF IInv, DInv, Frames
    <2>3. \A k \in 1 .. n : k = n \/ k \in 1 .. n - 1
      <3> HIDE DEF n
      <3> QED
        BY <1>1
    <2>4. \A k \in 1 .. n : frames[k].begin \in Nat
      BY <2>1, ShapeFacts DEF FrameOK
    <2> HIDE DEF n
    <2> QED
      BY <1>1, <2>1, <2>2, <2>3, <2>4
  <1>4. /\ \A j, k \in 1 .. n : j <= k => frames[j].begin <= frames[k].begin
        /\ \A k \in 1 .. n : frames[k].begin <= cursor
        /\ \A k \in 1 .. n : Looks(frames[k]) /\ store # NoState => frames[k].begin <= store
    BY <1>1 DEF IInv, DInv, Begins
  <1>5. cursor \in Nat
    BY BufferFacts DEF IInv
  <1>6. UNCHANGED <<start, cursor, end, store, eob, eobIndex, scopes, looked, throwing>>
    BY DEF bvars
  <1>7. Control'
    BY <1>1, <1>2, <1>6 DEF IInv, DInv, Control, ctl, msg
  <1>8. \A k \in 1 .. n + 1 : k = n + 1 \/ k \in 1 .. n
    BY <1>1
  <1>n. n + 1 \in 1 .. n + 1 /\ (n + 1) - 1 = n
    BY <1>1
  <1>9. Frames'
    <2>1. \A k \in 1 .. n + 1 : FrameOK(frames'[k])
      <3> HIDE DEF n
      <3> QED
        BY <1>2, <1>3, <1>8
    <2>2. \A k \in 1 .. n : Waits(frames'[k])
      BY <1>2, <1>3
    <2>3. Len(frames') - 1 = n
      BY <1>2, <1>n
    <2> HIDE DEF n
    <2> QED
      BY <1>2, <2>1, <2>2, <2>3 DEF Frames
  <1>10. Begins'
    <2> HIDE DEF n
    <2>1. ASSUME NEW j \in 1 .. n + 1, NEW k \in 1 .. n + 1, j <= k
          PROVE  frames'[j].begin <= frames'[k].begin
      <3>1. CASE k \in 1 .. n
        <4>1. j \in 1 .. n
          BY <1>1, <2>1, <3>1
        <4> QED
          BY <4>1, <3>1, <2>1, <1>2, <1>4
      <3>2. CASE k = n + 1 /\ j \in 1 .. n
        BY <3>2, <1>2, <1>4
      <3>3. CASE k = n + 1 /\ j = n + 1
        BY <3>3, <1>2, <1>5
      <3> QED
        BY <1>8, <3>1, <3>2, <3>3
    <2>2. ASSUME NEW k \in 1 .. n + 1
          PROVE  frames'[k].begin <= cursor' /\ (Looks(frames'[k]) /\ store' # NoState => frames'[k].begin <= store')
      <3>1. CASE k \in 1 .. n
        BY <3>1, <1>2, <1>4, <1>6
      <3>2. CASE k = n + 1
        BY <3>2, <1>2, <1>5, <1>6
      <3> QED
        BY <1>8, <3>1, <3>2
    <2> QED
      BY <2>1, <2>2, <1>2 DEF Begins
  <1>11. WindowsCounted'
    <2>1. PICK base : Counts(base, frames, Len(scopes))
      BY DEF IInv, DInv, WindowsCounted
    <2>2. /\ base \in [1 .. n + 1 -> Nat] /\ base[1] = 0 /\ base[n + 1] = Len(scopes)
          /\ \A k \in 1 .. n : base[k + 1] = base[k] + Opens(frames[k])
      BY <2>1 DEF Counts
    <2> DEFINE other == [k \in 1 .. n + 2 |-> IF k = n + 2 THEN Len(scopes) ELSE base[k]]
    <2>3. Len(scopes) \in Nat /\ Opens(g) = 0
      BY BufferFacts DEF IInv, Opens
    <2>4. /\ other \in [1 .. n + 2 -> Nat] /\ other[1] = 0 /\ other[n + 2] = Len(scopes)
          /\ \A k \in 1 .. n + 1 : other[k] = base[k]
      <3>1. \A k \in 1 .. n + 2 : k = n + 2 \/ k \in 1 .. n + 1
        BY <1>1
      <3>2. \A k \in 1 .. n + 1 : k \in 1 .. n + 2 /\ k # n + 2
        BY <1>1
      <3>3. 1 \in 1 .. n + 1 /\ n + 2 \in 1 .. n + 2
        BY <1>1
      <3> HIDE DEF n
      <3> QED
        BY <2>2, <2>3, <3>1, <3>2, <3>3
    <2> HIDE DEF other
    <2>5. ASSUME NEW k \in 1 .. n + 1 PROVE other[k + 1] = other[k] + Opens(frames'[k])
      <3>1. CASE k = n + 1
        <4>1. k + 1 = n + 2
          BY <3>1, <1>1
        <4> QED
          BY <4>1, <3>1, <1>2, <2>2, <2>3, <2>4
      <3>2. CASE k \in 1 .. n
        <4>1. k + 1 \in 1 .. n + 1
          BY <3>2, <1>1
        <4> QED
          BY <4>1, <3>2, <1>2, <2>2, <2>4
      <3> QED
        BY <1>8, <3>1, <3>2
    <2>6. Len(frames') + 1 = n + 2
      BY <1>1, <1>2
    <2>7. Counts(other, frames', Len(scopes'))
      BY <1>2, <1>6, <2>4, <2>5, <2>6 DEF Counts
    <2> QED
      BY <2>7 DEF WindowsCounted
  <1>12. WholeMessage'
    BY <1>6 DEF IInv, DInv, WholeMessage, MessageEnds, ctl, msg
  <1> QED
    BY <1>7, <1>9, <1>10, <1>11, <1>12, OtherSteps DEF DInv

LEMMA ReadHeaderOK ==
    ASSUME Ordinary, IInv, ReadHeader
    PROVE  BufferStep /\ DInv'
  <1> DEFINE f == Top
             D == Types[f.con]
  <1>1. Here("header") /\ "header" \in OfOthers
    BY DEF ReadHeader, OfOthers
  <1>2. /\ status = "running" /\ ~throwing /\ UNCHANGED ctl /\ f.pc = "header"
        /\ Shape(f) /\ f.open = <<>> /\ f.left \in Nat
        /\ f.con \in Containers /\ Kind(f.con) \in {"set", "choice"} /\ ~f.vtag.set
    BY <1>1, AtPlaceOfOther
  <1>3. GoodContainer(D) /\ D.fields = Fields(f.con) /\ Kind(f.con) = D.kind /\ 1 \in DOMAIN Fields(f.con)
    BY <1>2, ContainerFacts DEF Fields, Kind
  <1>4. CASE HasHeader(D)
    <2> DEFINE ty == D.header
               g == Frame(ty)
    <2>1. ty \in Containers
      BY <1>3, <1>4 DEF GoodContainer, HasHeader
    <2>2. error' = error /\ UNCHANGED bvars /\ frames' = Append(frames, g)
      BY <1>4 DEF ReadHeader, Quiet
    <2>3. Waits(f)
      BY <1>2, <1>4 DEF Waits
    <2> HIDE DEF f, D, ty
    <2>4. /\ FrameOK(g) /\ g.con = ty /\ g.begin = cursor /\ g.open = <<>> /\ ~g.vtag.set
          /\ g.pc = (IF Kind(ty) = "sequence" THEN "field" ELSE IF Kind(ty) = "set" THEN "scan" ELSE "header")
      BY <2>1, FrameOKOf
    <2> HIDE DEF g
    <2>5. g.pc # "pad" /\ ~Looks(g)
      BY <2>4 DEF Looks
    <2> QED
      BY <1>2, <2>2, <2>3, <2>4, <2>5, FramePushed DEF f
  <1>5. CASE ~HasHeader(D)
    <2> DEFINE n == Len(Fields(f.con)[1].meta[1].of)
               v == Ahead(n)
               g == [f EXCEPT !.vtag.val = v, !.pc = "find"]
    <2>1. n \in Nat
      <3>1. 1 \in CasesOf(D)
        BY <1>3, <1>5 DEF CasesOf
      <3>2. Tagged(Fields(f.con)[1])
        BY <1>2, <1>3, <3>1 DEF GoodContainer, GoodCases
      <3>3. /\ GoodField(Fields(f.con)[1])
            /\ Len(Fields(f.con)[1].meta) \in Nat /\ DOMAIN Fields(f.con)[1].meta = 1 .. Len(Fields(f.con)[1].meta)
            /\ \A k \in DOMAIN Fields(f.con)[1].meta : Len(Fields(f.con)[1].meta[k].of) \in Nat
        BY <1>2, <1>3, FieldFacts
      <3>4. Len(Fields(f.con)[1].meta) # 0
        BY <3>2, <3>3, ListedFacts DEF Tagged, GoodField
      <3> QED
        BY <3>3, <3>4, SMTT(60)
    <2>2. Read(n, g)
      BY <1>5 DEF ReadHeader
    <2> HIDE DEF f, n, v
    <2>3. "find" \in Places
      BY DEF Places, OfOthers
    <2>4. /\ Shape(g) /\ g.con = f.con /\ g.begin = f.begin /\ g.open = f.open /\ g.pc = "find" /\ g.left = f.left
          /\ g.vtag.set = f.vtag.set
      BY <1>2, <2>3 DEF Shape, FrameType, Field
    <2> HIDE DEF g
    <2>5. FrameOK(g) /\ Opens(g) = Opens(f) /\ (Looks(g) => Looks(f))
      BY <1>2, <2>4 DEF FrameOK, Placed, Opens, Looks, OfSequences, OfOthers
    <2> QED
      BY <1>2, <2>1, <2>2, <2>4, <2>5, ReadOK DEF f
  <1> QED
    BY <1>4, <1>5

\* A field of a set, or a case of a choice, was found.
LEMMA TheCaseFacts ==
    ASSUME Top.con \in Containers, Cases # {}
    PROVE  TheCase \in Cases /\ TheCase \in DOMAIN Fields(Top.con) /\ TheCase \in CasesOf(Types[Top.con])
           /\ \A j \in Cases : TheCase <= j
  <1>1. CasesOf(Types[Top.con]) \subseteq DOMAIN Fields(Top.con) /\ DOMAIN Fields(Top.con) \subseteq Nat
    BY ContainerFacts DEF CasesOf, Fields
  <1>2. Cases \subseteq CasesOf(Types[Top.con])
    BY DEF Cases
  <1>3. \E i \in Cases : \A j \in Cases : i <= j
    <2>1. Cases \subseteq Nat
      BY <1>1, <1>2
    <2> QED
      BY <2>1, LeastElement
  <1>4. TheCase \in Cases /\ \A j \in Cases : TheCase <= j
    BY <1>3 DEF TheCase
  <1> QED
    BY <1>1, <1>2, <1>4

LEMMA FoundAt ==
    ASSUME NEW f, Shape(f), f.open = <<>>, f.left \in Nat, Kind(f.con) # "sequence", NEW i \in DOMAIN Fields(f.con)
    PROVE  LET g == [f EXCEPT !.at = i, !.pc = "found"]
           IN /\ FrameOK(g) /\ Same(f, g) /\ g.pc = "found" /\ g.at = i /\ g.out = f.out
  <1> DEFINE h == [f EXCEPT !.at = i]
             g == [h EXCEPT !.pc = "found"]
  <1>1. [f EXCEPT !.at = i, !.pc = "found"] = g
    BY ShapeFacts DEF FrameType
  <1>2. Shape(h) /\ Same(f, h) /\ h.at = i /\ h.out = f.out /\ h.left = f.left
    BY AtField
  <1> HIDE DEF h
  <1>3. "found" \in OfOthers /\ "found" \notin OfSequences
    BY DEF OfOthers, OfSequences
  <1>4. FrameOK(g) /\ Same(h, g) /\ g.pc = "found" /\ g.out = h.out /\ g.at = h.at
    BY <1>2, <1>3, PlaceOK DEF Same
  <1> QED
    BY <1>1, <1>2, <1>4 DEF Same

LEMMA FindOK ==
    ASSUME Ordinary, IInv, Find
    PROVE  BufferStep /\ DInv'
  <1> DEFINE f == Top
             i == TheCase
             g == [f EXCEPT !.at = i, !.pc = "found"]
  <1>1. Here("find") /\ "find" \in OfOthers
    BY DEF Find, OfOthers
  <1>2. /\ status = "running" /\ ~throwing /\ UNCHANGED ctl /\ f.pc = "find"
        /\ Shape(f) /\ f.open = <<>> /\ f.left \in Nat
        /\ f.con \in Containers /\ Kind(f.con) \in {"set", "choice"} /\ ~f.vtag.set
    BY <1>1, AtPlaceOfOther
  <1>3. CASE Fail("unknown_tag")
    BY <1>2, <1>3, FailOK
  <1>4. CASE Cases # {} /\ ((PutBack /\ B!PopState /\ error' = error /\ Become(g)) \/ Go(g))
    <2>1. i \in DOMAIN Fields(f.con)
      BY <1>2, <1>4, TheCaseFacts
    <2>2. PutBack => Kind(f.con) = "set"
      BY DEF PutBack
    <2> HIDE DEF f, i
    <2>3. /\ FrameOK(g) /\ Same(f, g) /\ g.pc = "found"
      BY <1>2, <2>1, FoundAt
    <2> HIDE DEF g
    <2>4. ~Looks(g) /\ Opens(g) = Opens(f) /\ g.begin = f.begin
      BY <1>2, <2>3 DEF Same, Looks, Opens
    <2>5. CASE Go(g)
      BY <1>2, <2>3, <2>4, <2>5, GoOK DEF f
    <2>6. CASE PutBack /\ B!PopState /\ error' = error /\ Become(g)
      <3>1. Looks(f)
        BY <1>2, <2>2, <2>6 DEF Looks
      <3> QED
        BY <1>2, <2>3, <2>4, <2>6, <3>1, PopStateOK DEF f
    <2> QED
      BY <1>4, <2>5, <2>6
  <1> QED
    BY <1>3, <1>4 DEF Find, Quiet

LEMMA FoundOK ==
    ASSUME Ordinary, IInv, Found
    PROVE  BufferStep /\ DInv'
  <1>1. Here("found") /\ "found" \in OfOthers /\ "item" \notin OfSequences \cup OfOthers
    BY DEF Found, OfOthers, OfSequences
  <1>2. /\ status = "running" /\ ~throwing /\ UNCHANGED ctl /\ Top.pc \notin InItem /\ Top.left \in Nat
    BY <1>1, AtPlaceOfOther
  <1>3. CASE Fail("extra_ie")
    BY <1>2, <1>3, FailOK
  <1>4. CASE Move("item")
    BY <1>1, <1>2, <1>4, MoveOK
  <1> QED
    BY <1>3, <1>4 DEF Found

LEMMA CompleteOK ==
    ASSUME Ordinary, IInv, Complete
    PROVE  BufferStep /\ DInv'
  <1> DEFINE G == Fields(Top.con)
             fault == [i \in DOMAIN G |-> Fault1(G[i], Len(Top.out[i]), IsSet1(G[i], Top.out[i]))]
             bad == {i \in DOMAIN G : fault[i] # ""}
  <1>1. Here("complete") /\ "complete" \in OfOthers /\ "return" \notin OfSequences \cup OfOthers
    BY DEF Complete, OfOthers, OfSequences
  <1>2. /\ status = "running" /\ ~throwing /\ UNCHANGED ctl /\ Top.pc \notin InItem /\ Top.left \in Nat
        /\ Top.con \in Containers
    BY <1>1, AtPlaceOfOther
  <1>3. IF bad = {} THEN Move("return") ELSE Fail(fault[Min(bad)])
    BY DEF Complete
  <1>4. CASE bad = {}
    <2>1. Move("return")
      BY <1>3, <1>4
    <2> HIDE DEF bad, fault, G
    <2> QED
      BY <1>1, <1>2, <2>1, MoveOK
  <1>5. CASE bad # {}
    <2>1. bad \subseteq Nat
      <3>1. DOMAIN G \subseteq Nat
        BY <1>2, ContainerFacts
      <3> HIDE DEF fault, G
      <3> QED
        BY <3>1
    <2>2. Fail(fault[Min(bad)])
      BY <1>3, <1>5
    <2> HIDE DEF fault, G
    <2>3. fault[Min(bad)] # ""
      <3>1. Min(bad) \in bad
        <4> HIDE DEF bad
        <4> QED
          BY <1>5, <2>1, MinFacts
      <3> QED
        BY <3>1
    <2> HIDE DEF bad
    <2> QED
      BY <1>2, <2>2, <2>3, FailOK
  <1> QED
    BY <1>4, <1>5

-----------------------------------------------------------------------------
(* ... items.                                                              *)

LEMMA AtPlaceInItem ==
    ASSUME Ordinary, IInv, NEW p \in InItem \cup {"item"}, Here(p)
    PROVE  /\ status = "running" /\ ~throwing /\ UNCHANGED ctl /\ Top.pc = p
           /\ Shape(Top) /\ Placed(Top) /\ F = Field(Top) /\ Top.left \in Nat
           /\ Top.con \in Containers /\ Top.at \in DOMAIN Fields(Top.con) /\ GoodField(F)
  <1>1. status = "running" /\ ~throwing /\ UNCHANGED ctl /\ Top.pc = p
    BY DEF Here, At
  <1>2. Placed(Top) /\ Shape(Top) /\ F = Field(Top)
    BY <1>1, TopFacts
  <1>3. p # "quota"
    BY DEF InItem, Begun
  <1>4. Top.con \in Containers /\ Top.at \in DOMAIN Fields(Top.con)
    BY <1>2, ShapeFacts
  <1>5. GoodField(F)
    BY <1>2, <1>4, FieldFacts DEF Field
  <1> QED
    BY <1>1, <1>2, <1>3, <1>4, <1>5 DEF Placed

\* Where an item goes on.
Onward == {"tag", "length", "value", "close", "scan", "return", "field", "again", "loop"}

LEMMA OnwardOK ==
    ASSUME NEW f, NEW g, Same(f, g), g.pc \in Onward, f.pc # "pad"
    PROVE  g.begin = f.begin /\ Opens(g) = Opens(f) /\ (Looks(g) => Looks(f))
  BY DEF Same, Onward, Opens, Looks

\* What is read lies inside of the message.
LEMMA StandsInside ==
    ASSUME Ordinary, IInv, status = "running"
    PROVE  /\ cursor \in Nat /\ end \in Nat /\ cursor <= end /\ end <= Len(wire) /\ Len(wire) \in Nat
           /\ wire \in Seq(AnyOctet)
  <1>1. cursor \in Nat /\ end \in Nat /\ cursor <= end /\ MessageEnds /\ wire \in Seq(AnyOctet)
    BY TopFacts, BufferFacts DEF IInv, DInv, Control
  <1>2. CASE scopes = <<>>
    BY <1>1, <1>2, LenProperties DEF MessageEnds
  <1>3. CASE scopes # <<>>
    <2>1. 1 \in DOMAIN scopes
      BY <1>3, BufferFacts, ListedFacts DEF IInv, Listed
    <2>2. \A i \in DOMAIN scopes : end <= scopes[i].outer
      BY DEF IInv, BP!IInv, BP!Immediate, BP!WindowsNested, Ordinary
    <2> QED
      BY <1>1, <1>3, <2>1, <2>2, LenProperties DEF MessageEnds
  <1> QED
    BY <1>1, <1>2, <1>3

LEMMA AheadType ==
    ASSUME Ordinary, IInv, status = "running", NEW n \in Nat, ~Lacks(n)
    PROVE  Ahead(n) \in Seq(AnyOctet) /\ cursor + n <= end /\ cursor + n <= Len(wire)
  <1>1. /\ cursor \in Nat /\ end \in Nat /\ cursor <= end /\ end <= Len(wire) /\ Len(wire) \in Nat
        /\ wire \in Seq(AnyOctet)
    BY StandsInside
  <1>2. cursor + n <= end /\ cursor + n <= Len(wire)
    BY <1>1 DEF Lacks
  <1>3. cursor + 1 \in 1 .. Len(wire) + 1 /\ cursor + n \in (cursor + 1) - 1 .. Len(wire)
    BY <1>1, <1>2
  <1> QED
    BY <1>1, <1>2, <1>3, SubSeqProperties DEF Ahead

LEMMA BeginItemOK ==
    ASSUME Ordinary, IInv, BeginItem
    PROVE  BufferStep /\ DInv'
  <1> DEFINE f == Top
             k == IF Tagged(F) /\ (F.multi \/ F.presence = "O" \/ Kind(f.con) # "sequence") THEN 2 ELSE 1
             h == [f EXCEPT !.out[f.at] = IF F.multi THEN @ ELSE <<>>]
             g == AtStep(h, k)
  <1>1. Here("item")
    BY DEF BeginItem
  <1>2. /\ status = "running" /\ ~throwing /\ UNCHANGED ctl /\ f.pc = "item"
        /\ Shape(f) /\ f.left \in Nat
    BY <1>1, AtPlaceInItem
  <1>3. CASE Fail("out_of_memory")
    BY <1>2, <1>3, FailOK
  <1>4. CASE Go(g)
    <2>1. Shape(h) /\ Same(f, h) /\ h.left = f.left
      <3> HIDE DEF f
      <3> QED
        BY <1>2, ShapeFacts DEF Shape, FrameType, Same, Field
    <2>2. k \in Nat \ {0}
      OBVIOUS
    <2> HIDE DEF h, k
    <2>3. FrameOK(g) /\ Same(h, g) /\ g.pc \in {"tag", "length", "value"}
      BY <1>2, <2>1, <2>2, AtStepOK
    <2> HIDE DEF f, g
    <2>4. Same(f, g) /\ g.pc \in Onward /\ f.pc # "pad"
      BY <1>2, <2>1, <2>3 DEF Same, Onward
    <2>5. g.begin = f.begin /\ Opens(g) = Opens(f) /\ (Looks(g) => Looks(f))
      BY <2>4, OnwardOK
    <2> QED
      BY <1>2, <1>4, <2>3, <2>5, GoOK DEF f
  <1> QED
    BY <1>3, <1>4 DEF BeginItem

\* The meta-information that is next.
LEMMA InfoFacts ==
    ASSUME Ordinary, IInv, NEW p \in {"tag", "expect", "length", "open"}, Here(p)
    PROVE  /\ GoodInfo(Info) /\ Len(Info.of) \in Nat
           /\ Info.kind = (IF p \in {"tag", "expect"} THEN "tag" ELSE "len")
           /\ Info.kind = "len" => Info.depends = "" /\ Info.plus >= 0
           /\ Top.step \in DOMAIN F.meta /\ Top.step \in Nat
  <1>1. p \in InItem \cup {"item"}
    BY DEF InItem, Begun
  <1>2. /\ Top.pc = p /\ Shape(Top) /\ Placed(Top) /\ F = Field(Top)
        /\ Top.con \in Containers /\ Top.at \in DOMAIN Fields(Top.con)
    BY <1>1, AtPlaceInItem
  <1>3. Top.step \in DOMAIN F.meta /\ F.meta[Top.step].kind = (IF p \in {"tag", "expect"} THEN "tag" ELSE "len")
    BY <1>2 DEF Placed
  <1>4. /\ \A j \in DOMAIN F.meta :
              /\ GoodInfo(F.meta[j]) /\ Len(F.meta[j].of) \in Nat
              /\ F.meta[j].kind = "tag" \/ (F.meta[j].depends = "" /\ F.meta[j].plus >= 0)
    BY <1>2, FieldFacts DEF Field
  <1>5. Top.step \in Nat
    BY <1>2, ShapeFacts
  <1> QED
    BY <1>3, <1>4, <1>5 DEF Info

LEMMA ReadTagOK ==
    ASSUME Ordinary, IInv, ReadTag
    PROVE  BufferStep /\ DInv'
  <1> DEFINE f == Top
             n == Len(Info.of)
             v == Ahead(n)
             g == [f EXCEPT !.octets = v, !.pc = "expect"]
  <1>1. Here("tag") /\ "tag" \in InItem \cup {"item"} /\ Read(n, g)
    BY DEF ReadTag, InItem, Begun
  <1>2. /\ status = "running" /\ ~throwing /\ UNCHANGED ctl /\ f.pc = "tag"
        /\ Shape(f) /\ Placed(f) /\ f.left \in Nat
    BY <1>1, AtPlaceInItem
  <1>3. n \in Nat
    BY <1>1, InfoFacts
  <1> HIDE DEF f, n, v
  <1>4. "expect" \in Places
    BY DEF Places, InItem, Begun
  <1>5. Shape(g) /\ Same(f, g) /\ g.pc = "expect" /\ g.step = f.step /\ g.left = f.left /\ Field(g) = Field(f)
    BY <1>2, <1>4 DEF Shape, FrameType, Same, Field
  <1> HIDE DEF g
  <1>6. FrameOK(g) /\ g.begin = f.begin /\ Opens(g) = Opens(f) /\ (Looks(g) => Looks(f))
    BY <1>2, <1>5 DEF FrameOK, Placed, Same, Opens, Looks, InItem, Begun, OfSequences, OfOthers
  <1> QED
    BY <1>1, <1>2, <1>3, <1>6, ReadOK DEF f

LEMMA ExpectOK ==
    ASSUME Ordinary, IInv, Expect
    PROVE  BufferStep /\ DInv'
  <1> DEFINE f == Top
             k == f.step + 1
             g == AtStep(f, k)
  <1>1. Here("expect") /\ "expect" \in InItem \cup {"item"}
    BY DEF Expect, InItem, Begun
  <1>2. /\ status = "running" /\ ~throwing /\ UNCHANGED ctl /\ f.pc = "expect"
        /\ Shape(f) /\ f.left \in Nat
    BY <1>1, AtPlaceInItem
  <1>3. CASE Fail("unknown_tag")
    BY <1>2, <1>3, FailOK
  <1>4. CASE Go(g)
    <2>1. k \in Nat \ {0}
      BY <1>2, ShapeFacts
    <2> HIDE DEF k
    <2>2. FrameOK(g) /\ Same(f, g) /\ g.pc \in {"tag", "length", "value"}
      BY <1>2, <2>1, AtStepOK
    <2> HIDE DEF f, g
    <2>3. g.pc \in Onward /\ f.pc # "pad"
      BY <1>2, <2>2 DEF Onward
    <2>4. g.begin = f.begin /\ Opens(g) = Opens(f) /\ (Looks(g) => Looks(f))
      BY <2>2, <2>3, OnwardOK
    <2> QED
      BY <1>2, <1>4, <2>2, <2>4, GoOK DEF f
  <1> QED
    BY <1>3, <1>4 DEF Expect

LEMMA ReadLengthOK ==
    ASSUME Ordinary, IInv, ReadLength
    PROVE  BufferStep /\ DInv'
  <1> DEFINE f == Top
             n == Len(Info.of)
             v == Ahead(n)
             g == [f EXCEPT !.octets = v, !.pc = "open"]
  <1>1. Here("length") /\ "length" \in InItem \cup {"item"} /\ Read(n, g)
    BY DEF ReadLength, InItem, Begun
  <1>2. /\ status = "running" /\ ~throwing /\ UNCHANGED ctl /\ f.pc = "length"
        /\ Shape(f) /\ Placed(f) /\ f.left \in Nat
    BY <1>1, AtPlaceInItem
  <1>3. n \in Nat
    BY <1>1, InfoFacts
  <1>v. ~Lacks(n) => v \in Seq(AnyOctet)
    <2> HIDE DEF n
    <2> QED
      BY <1>2, <1>3, AheadType
  <1> HIDE DEF f, n, v
  <1>4. "open" \in Places
    BY DEF Places, InItem, Begun
  <1>5. /\ Shape(g) /\ Same(f, g) /\ g.pc = "open" /\ g.step = f.step /\ g.left = f.left /\ Field(g) = Field(f)
        /\ g.octets = v
    BY <1>2, <1>4 DEF Shape, FrameType, Same, Field
  <1> HIDE DEF g
  <1>6. g.begin = f.begin /\ Opens(g) = Opens(f) /\ (Looks(g) => Looks(f))
    BY <1>2, <1>5 DEF Same, Opens, Looks
  <1>7. ~Lacks(n) => FrameOK(g)
    BY <1>2, <1>5, <1>v DEF FrameOK, Placed, Same, InItem, Begun, OfSequences, OfOthers
  <1> QED
    BY <1>1, <1>2, <1>3, <1>6, <1>7, ReadOK DEF f

\* A window opened in the frame f, or its innermost one closed.
LEMMA MoreOpen ==
    ASSUME NEW f, Shape(f), NEW k \in DOMAIN Field(f).meta, k \in Nat, Field(f).meta[k].kind = "len", NEW c \in Nat
    PROVE  LET h == [f EXCEPT !.open = Append(@, [step |-> k, from |-> c])]
           IN /\ Shape(h) /\ h.con = f.con /\ h.begin = f.begin /\ h.vtag = f.vtag /\ h.left = f.left /\ h.out = f.out
              /\ h.at = f.at /\ Len(h.open) = Len(f.open) + 1 /\ Len(f.open) \in Nat
  <1> DEFINE e == [step |-> k, from |-> c]
             s == Append(f.open, e)
             h == [f EXCEPT !.open = s]
  <1>1. e \in [step : Nat, from : Nat] /\ e.step = k
    OBVIOUS
  <1>2. f.open \in Seq([step : Nat, from : Nat]) /\ Len(f.open) \in Nat /\ DOMAIN f.open = 1 .. Len(f.open)
    BY ShapeFacts
  <1> HIDE DEF e
  <1>3. /\ s \in Seq([step : Nat, from : Nat]) /\ Len(s) = Len(f.open) + 1 /\ s[Len(f.open) + 1] = e
        /\ \A i \in 1 .. Len(f.open) : s[i] = f.open[i]
    BY <1>1, <1>2, AppendProperties
  <1> HIDE DEF s
  <1>4. DOMAIN s = 1 .. Len(f.open) + 1
    BY <1>3, LenProperties
  <1>5. ASSUME NEW w \in DOMAIN s
        PROVE  s[w].step \in DOMAIN Field(f).meta /\ Field(f).meta[s[w].step].kind = "len"
    <2>1. CASE w = Len(f.open) + 1
      BY <2>1, <1>1, <1>3
    <2>2. CASE w # Len(f.open) + 1
      <3>1. w \in DOMAIN f.open
        BY <2>2, <1>2, <1>4
      <3> QED
        BY <3>1, <1>2, <1>3 DEF Shape
    <2> QED
      BY <2>1, <2>2
  <1>6. /\ h \in FrameType(h) /\ h.con = f.con /\ h.begin = f.begin /\ h.vtag = f.vtag /\ h.left = f.left /\ h.out = f.out
        /\ h.at = f.at /\ h.open = s /\ Field(h) = Field(f)
    BY <1>3 DEF Shape, FrameType, Field
  <1> HIDE DEF h
  <1>7. Shape(h)
    BY <1>5, <1>6 DEF Shape
  <1> QED
    BY <1>2, <1>3, <1>6, <1>7 DEF h, s, e

LEMMA FewerOpen ==
    ASSUME NEW f, Shape(f), f.open # <<>>
    PROVE  LET h == [f EXCEPT !.open = SubSeq(@, 1, Len(@) - 1)]
           IN /\ Shape(h) /\ h.con = f.con /\ h.begin = f.begin /\ h.vtag = f.vtag /\ h.left = f.left /\ h.out = f.out
              /\ h.at = f.at /\ Len(h.open) = Len(f.open) - 1 /\ Len(f.open) \in Nat
  <1> DEFINE o == f.open
             s == SubSeq(o, 1, Len(o) - 1)
             h == [f EXCEPT !.open = s]
  <1>1. o \in Seq([step : Nat, from : Nat]) /\ o # <<>> /\ Len(o) \in Nat
    BY ShapeFacts
  <1> HIDE DEF o
  <1>2. Len(o) \in Nat \ {0} /\ DOMAIN o = 1 .. Len(o)
    BY <1>1, ListedFacts
  <1>3. /\ s \in Seq([step : Nat, from : Nat]) /\ Len(s) = Len(o) - 1 /\ DOMAIN s = 1 .. Len(o) - 1
        /\ \A i \in 1 .. Len(o) - 1 : s[i] = o[i]
    <2>1. 1 \in 1 .. Len(o) + 1 /\ Len(o) - 1 \in 1 - 1 .. Len(o)
      BY <1>2
    <2>2. /\ s \in Seq([step : Nat, from : Nat]) /\ Len(s) = Len(o) - 1
          /\ \A i \in 1 .. Len(o) - 1 : s[i] = o[i]
      <3> DEFINE R == [step : Nat, from : Nat]
      <3>1. o \in Seq(R)
        BY <1>1
      <3> HIDE DEF R, s
      <3>2. /\ SubSeq(o, 1, Len(o) - 1) \in Seq(R) /\ Len(SubSeq(o, 1, Len(o) - 1)) = Len(o) - 1
            /\ \A i \in 1 .. Len(o) - 1 : SubSeq(o, 1, Len(o) - 1)[i] = o[i]
        BY <1>2, <3>1, SubSeqProperties
      <3> QED
        BY <3>2 DEF s, R
    <2> HIDE DEF s
    <2> QED
      BY <2>2, LenProperties
  <1> HIDE DEF s
  <1>4. ASSUME NEW w \in DOMAIN s
        PROVE  s[w].step \in DOMAIN Field(f).meta /\ Field(f).meta[s[w].step].kind = "len"
    <2>1. w \in DOMAIN o /\ s[w] = o[w]
      BY <1>2, <1>3
    <2> QED
      BY <2>1 DEF Shape, o
  <1>5. /\ h \in FrameType(h) /\ h.con = f.con /\ h.begin = f.begin /\ h.vtag = f.vtag /\ h.left = f.left /\ h.out = f.out
        /\ h.at = f.at /\ h.open = s /\ Field(h) = Field(f)
    BY <1>3 DEF Shape, FrameType, Field
  <1> HIDE DEF h
  <1>6. Shape(h)
    BY <1>4, <1>5 DEF Shape
  <1> QED
    BY <1>1, <1>2, <1>3, <1>5, <1>6 DEF h, s, o

LEMMA OpenWindowOK ==
    ASSUME Ordinary, IInv, OpenWindow
    PROVE  BufferStep /\ DInv'
  <1> DEFINE f == Top
             n == GetLength(Info, f.octets)
             e == [step |-> f.step, from |-> cursor]
             h == [f EXCEPT !.open = Append(@, e)]
             k == f.step + 1
             g == AtStep(h, k)
  <1>1. Here("open") /\ "open" \in InItem \cup {"item"}
    BY DEF OpenWindow, InItem, Begun
  <1>2. /\ status = "running" /\ ~throwing /\ UNCHANGED ctl /\ f.pc = "open"
        /\ Shape(f) /\ Placed(f) /\ f.left \in Nat /\ F = Field(f)
    BY <1>1, AtPlaceInItem
  <1>3. GoodInfo(Info) /\ Info.kind = "len" /\ Info.depends = "" /\ Info.plus >= 0 /\ f.step \in DOMAIN F.meta /\ f.step \in Nat
        /\ F.meta[f.step] = Info
    BY <1>1, InfoFacts DEF Info
  <1>4. n \in Nat
    <2>1. f.octets \in Seq(AnyOctet)
      BY <1>2 DEF Placed
    <2> HIDE DEF f
    <2> QED
      BY <1>3, <2>1, LengthType
  <1>5. B!PushSize(n, TRUE) /\ BP!IInv
    BY <1>3 DEF OpenWindow, IInv
  <1>6. IF cursor + n <= end THEN Become(g) /\ error' = error ELSE error' = "overflow" /\ UNCHANGED frames
    BY DEF OpenWindow, Opened, Quiet
  <1> HIDE DEF n
  <1>7. CASE ~(cursor + n <= end)
    <2>1. B!Throw /\ error' = "overflow" /\ UNCHANGED frames
      BY <1>4, <1>5, <1>6, <1>7, PushSizeStep
    <2> HIDE DEF f, g
    <2> QED
      BY <1>2, <2>1, ThrowOK
  <1>8. CASE cursor + n <= end
    <2>1. UNCHANGED <<start, cursor, store, looked, throwing>> /\ BufferStep
      BY <1>4, <1>5, <1>8, PushSizeStep
    <2>2. MessageEnds /\ f.begin <= cursor /\ cursor \in Nat /\ (Looks(f) /\ store # NoState => f.begin <= store)
          /\ Len(scopes) \in Nat
      BY <1>2, TopFacts, BufferFacts DEF IInv
    <2>3. MessageEnds' /\ Len(scopes') = Len(scopes) + 1 /\ Len(scopes') \in Nat
      BY <1>2, <1>4, <1>5, <1>8, <2>2, EndsAfterPush DEF ctl, msg
    <2>4. k \in Nat \ {0}
      <3> DEFINE i == f.step
      <3>1. i \in Nat
        BY <1>3
      <3> HIDE DEF i
      <3>2. i + 1 \in Nat \ {0}
        BY <3>1
      <3> QED
        BY <3>2 DEF i
    <2> HIDE DEF f, k
    <2>5. /\ Shape(h) /\ h.con = f.con /\ h.begin = f.begin /\ h.vtag = f.vtag /\ h.left = f.left
          /\ Len(h.open) = Len(f.open) + 1 /\ Len(f.open) \in Nat
      <3>1. f.step \in DOMAIN Field(f).meta /\ f.step \in Nat /\ Field(f).meta[f.step].kind = "len"
        BY <1>2, <1>3
      <3> QED
        BY <1>2, <2>2, <3>1, MoreOpen
    <2> HIDE DEF h
    <2>6. FrameOK(g) /\ Same(h, g) /\ g.pc \in {"tag", "length", "value"}
      BY <1>2, <2>4, <2>5, AtStepOK
    <2> HIDE DEF g
    <2>7. g.begin = f.begin /\ Opens(g) = Len(f.open) + 1 /\ Opens(f) = Len(f.open) /\ (Looks(g) => Looks(f))
      BY <1>2, <2>5, <2>6 DEF Same, Opens, Looks
    <2>8. Len(scopes') + Opens(f) = Len(scopes) + Opens(g)
      <3> DEFINE a == Len(scopes)
                 b == Len(f.open)
      <3>1. a \in Nat /\ b \in Nat /\ Len(scopes') = a + 1 /\ Opens(f) = b /\ Opens(g) = b + 1
        BY <2>2, <2>3, <2>5, <2>7
      <3> HIDE DEF a, b
      <3>2. (a + 1) + b = a + (b + 1)
        BY <3>1
      <3> QED
        BY <3>1, <3>2 DEF a
    <2>9. DInv'
      <3>1. Become(g) /\ error' = error
        BY <1>6, <1>8
      <3>2. ~throwing' /\ cursor' \in Nat /\ f.begin <= cursor' /\ store' = store /\ start' = start
        BY <1>2, <2>1, <2>2
      <3>3. Looks(g) /\ store' # NoState => g.begin <= store'
        BY <2>1, <2>2, <2>7
      <3> QED
        BY <1>2, <2>3, <2>6, <2>7, <2>8, <3>1, <3>2, <3>3, TopChanges DEF f
    <2> QED
      BY <2>1, <2>9
  <1> QED
    BY <1>7, <1>8

\* Lengths inside of their data are not ordinary.
LEMMA NotDeferred ==
    ASSUME Ordinary, IInv, OpenPending \/ CommitLength
    PROVE  FALSE
  <1>1. status = "running" /\ Top.pc \in {"pending", "commit"}
    BY DEF OpenPending, CommitLength, Here, At
  <1>2. Top.pc \in Places
    BY <1>1, TopFacts, ShapeFacts DEF FrameType
  <1> QED
    BY <1>1, <1>2 DEF Places, OfSequences, OfOthers, InItem, Begun

LEMMA GotGoesOn ==
    ASSUME Ordinary, NEW f, Shape(f), f.left \in Nat, f.pc # "pad", NEW v
    PROVE  LET g == Got(f, v)
           IN FrameOK(g) /\ g.begin = f.begin /\ Opens(g) = Opens(f) /\ (Looks(g) => Looks(f))
  <1> DEFINE g == Got(f, v)
  <1>1. /\ FrameOK(g) /\ Same(f, g) /\ g.out = [f.out EXCEPT ![f.at] = Append(@, v)]
        /\ g.pc \in {"close", "scan", "return", "field", "again", "loop"}
    BY GotOK
  <1> HIDE DEF g
  <1>2. g.pc \in Onward
    BY <1>1 DEF Onward
  <1>3. g.begin = f.begin /\ Opens(g) = Opens(f) /\ (Looks(g) => Looks(f))
    BY <1>1, <1>2, OnwardOK
  <1> QED
    BY <1>1, <1>3 DEF g

\* A case that has read its tag already.
LEMMA FrameWithTagOK ==
    ASSUME Ordinary, IInv, NEW ty \in Containers, Kind(ty) = "sequence", Len(Fields(ty)) > 1, NEW tag
    PROVE  LET g == FrameWithTag(ty, tag)
           IN /\ FrameOK(g) /\ g.con = ty /\ g.begin = cursor /\ g.open = <<>> /\ ~g.vtag.set
              /\ g.pc = "field" /\ g.at = 2 /\ g.out = [[i \in DOMAIN Fields(ty) |-> <<>>] EXCEPT ![1] = <<tag>>]
  <1> DEFINE f == Frame(ty)
             t == <<tag>>
             g == [f EXCEPT !.at = 2, !.out[1] = t]
  <1>1. /\ FrameOK(f) /\ f.con = ty /\ f.begin = cursor /\ f.open = <<>> /\ ~f.vtag.set /\ f.left = 0
        /\ f.pc = (IF Kind(ty) = "sequence" THEN "field" ELSE IF Kind(ty) = "set" THEN "scan" ELSE "header")
        /\ f.out = [i \in DOMAIN Fields(ty) |-> <<>>] /\ f.at = 1
    BY FrameOKOf
  <1>2. 2 \in DOMAIN Fields(ty) /\ DOMAIN f.open = {}
    BY <1>1, ContainerFacts, EmptySeq
  <1>3. FrameWithTag(ty, tag) = g
    BY DEF FrameWithTag
  <1> HIDE DEF f, t
  <1>4. /\ g \in FrameType(g) /\ g.con = ty /\ g.begin = cursor /\ g.open = f.open /\ g.vtag = f.vtag /\ g.left = 0
        /\ g.pc = "field" /\ g.at = 2 /\ g.out = [f.out EXCEPT ![1] = t]
    BY <1>1 DEF FrameOK, Shape, FrameType
  <1> HIDE DEF g
  <1>5. Shape(g)
    BY <1>1, <1>2, <1>4 DEF FrameOK, Shape
  <1>6. Placed(g)
    BY <1>1, <1>4 DEF Placed, OfSequences, OfOthers
  <1> QED
    BY <1>1, <1>3, <1>4, <1>5, <1>6 DEF FrameOK, g, t

LEMMA DecodeValueOK ==
    ASSUME Ordinary, IInv, DecodeValue
    PROVE  BufferStep /\ DInv'
  <1> DEFINE f == Top
             ty == Types[F.type]
  <1>1. Here("value") /\ "value" \in InItem \cup {"item"}
    BY DEF DecodeValue, InItem, Begun
  <1>2. /\ status = "running" /\ ~throwing /\ UNCHANGED ctl /\ f.pc = "value"
        /\ Shape(f) /\ Placed(f) /\ f.left \in Nat /\ F = Field(f)
        /\ f.con \in Containers /\ f.at \in DOMAIN Fields(f.con) /\ GoodField(F)
    BY <1>1, AtPlaceInItem
  <1>3. \/ ty.kind = "value" /\ Len(ty.of) \in Nat
        \/ ty.kind \in {"string", "empty"}
        \/ F.type \in Containers /\ ty.kind \in {"sequence", "set", "choice"}
    <2>1. F.type \in DOMAIN Types
      BY <1>2 DEF GoodField
    <2>2. \/ ty.kind = "value" /\ ty.of \in Seq(SUBSET AnyOctet)
          \/ ty.kind \in {"string", "empty"}
          \/ F.type \in Containers
      BY <2>1, TypesAssumption DEF Kind
    <2>3. F.type \in Containers => ty.kind \in {"sequence", "set", "choice"}
      BY ContainerFacts DEF Kind
    <2> QED
      BY <2>2, <2>3, LenProperties
  <1>4. CASE ty.kind = "value"
    <2> DEFINE n == Len(ty.of)
               v == Ahead(n)
               ok == Accepts(ty.of, v)
               bad == [f EXCEPT !.pc = "invalid"]
               g == IF Lacks(n) THEN f ELSE IF ok THEN Got(f, v) ELSE bad
    <2>1. Read(n, g) /\ n \in Nat
      BY <1>3, <1>4 DEF DecodeValue
    <2> HIDE DEF n, v, f, ok
    <2>2. "invalid" \in Places
      BY DEF Places, InItem, Begun
    <2>3. Shape(bad) /\ Same(f, bad) /\ bad.pc = "invalid" /\ bad.left = f.left
      BY <1>2, <2>2, AtPlace
    <2> HIDE DEF bad
    <2>4. FrameOK(bad) /\ bad.begin = f.begin /\ Opens(bad) = Opens(f) /\ (Looks(bad) => Looks(f))
      BY <1>2, <2>3 DEF FrameOK, Placed, Same, Opens, Looks, InItem, Begun, OfSequences, OfOthers
    <2> DEFINE good == Got(f, v)
    <2>5. FrameOK(good) /\ good.begin = f.begin /\ Opens(good) = Opens(f) /\ (Looks(good) => Looks(f))
      BY <1>2, GotGoesOn
    <2> HIDE DEF good
    <2>6. ~Lacks(n) => FrameOK(g) /\ g.begin = f.begin /\ Opens(g) = Opens(f) /\ (Looks(g) => Looks(f))
      <3>1. ~Lacks(n) => g = good \/ g = bad
        BY DEF good
      <3> HIDE DEF g
      <3> QED
        BY <2>4, <2>5, <3>1
    <2> HIDE DEF g
    <2> QED
      BY <1>2, <2>1, <2>6, ReadOK DEF f
  <1>5. CASE ty.kind = "string"
    <2>1. CASE Fail("invalid_value")
      BY <1>2, <2>1, FailOK
    <2>2. CASE B!Advance(end - cursor, end - cursor) /\ error' = error /\ Become(Got(f, Ahead(end - cursor)))
      <3> DEFINE n == end - cursor
                 v == Ahead(n)
                 g == Got(f, v)
      <3>1. n \in Nat
        BY <1>2, StandsInside
      <3>2. B!Advance(n, n) /\ error' = error /\ Become(g)
        BY <2>2
      <3>3. ~Lacks(n)
        BY <3>1 DEF Lacks
      <3> HIDE DEF n, v, f
      <3>4. FrameOK(g) /\ g.begin = f.begin /\ Opens(g) = Opens(f) /\ (Looks(g) => Looks(f))
        BY <1>2, GotGoesOn
      <3> HIDE DEF g
      <3>5. Read(n, g)
        BY <3>2, <3>3 DEF Read, Quiet
      <3> QED
        BY <1>2, <3>1, <3>4, <3>5, ReadOK DEF f
    <2> QED
      BY <1>5, <2>1, <2>2 DEF DecodeValue, Quiet
  <1>6. CASE ty.kind = "empty"
    <2> DEFINE g == Got(f, <<>>)
    <2>1. Go(g)
      BY <1>6 DEF DecodeValue
    <2> HIDE DEF f
    <2>2. FrameOK(g) /\ g.begin = f.begin /\ Opens(g) = Opens(f) /\ (Looks(g) => Looks(f))
      BY <1>2, GotGoesOn
    <2> HIDE DEF g
    <2> QED
      BY <1>2, <2>1, <2>2, GoOK DEF f
  <1>7. CASE F.type \in Containers /\ ty.kind \in {"sequence", "set", "choice"}
    <2> DEFINE con == F.type
               tag == f.vtag.val
               g == IF ExplicitTag THEN FrameWithTag(con, tag) ELSE Frame(con)
    <2>1. UNCHANGED bvars /\ error' = error /\ frames' = Append(frames, g)
      BY <1>7 DEF DecodeValue, Quiet
    <2>2. ExplicitTag => Kind(con) = "sequence" /\ Len(Fields(con)) > 1
      <3>1. ASSUME ExplicitTag PROVE Kind(con) = "sequence" /\ Len(Fields(con)) > 1
        <4>1. Types[f.con].kind = "choice" /\ ~HasHeader(Types[f.con]) /\ F.meta[1].explicit
          BY <3>1 DEF ExplicitTag, Kind
        <4>2. f.at \in CasesOf(Types[f.con])
          BY <1>2, <4>1 DEF CasesOf, Fields
        <4>3. GoodCases(Types[f.con]) /\ F = Types[f.con].fields[f.at]
          BY <1>2, <4>1, ContainerFacts DEF GoodContainer, Field, Fields
        <4> QED
          BY <1>7, <4>1, <4>2, <4>3 DEF GoodCases
      <3> QED
        BY <3>1
    <2>3. Waits(f)
      BY <1>2 DEF Waits
    <2>4. con \in Containers
      BY <1>7
    <2> HIDE DEF f, con, tag, ty
    <2>5. FrameOK(g) /\ g.begin = cursor /\ g.open = <<>> /\ ~g.vtag.set /\ g.pc \in {"field", "scan", "header"}
          /\ (g.pc = "header" => Kind(g.con) # "set")
      <3>1. CASE ExplicitTag
        <4> DEFINE w == FrameWithTag(con, tag)
        <4>0. con \in Containers /\ Kind(con) = "sequence" /\ Len(Fields(con)) > 1
          BY <2>2, <2>4, <3>1
        <4>1. /\ FrameOK(w) /\ w.con = con /\ w.begin = cursor /\ w.open = <<>> /\ ~w.vtag.set
              /\ w.pc = "field" /\ w.at = 2 /\ w.out = [[i \in DOMAIN Fields(con) |-> <<>>] EXCEPT ![1] = <<tag>>]
          BY <4>0, FrameWithTagOK
        <4>2. g = w
          BY <3>1
        <4> HIDE DEF w, g
        <4> QED
          BY <4>1, <4>2
      <3>2. CASE ~ExplicitTag
        <4> DEFINE w == Frame(con)
        <4>1. /\ FrameOK(w) /\ w.con = con /\ w.begin = cursor /\ w.open = <<>> /\ ~w.vtag.set
              /\ w.pc = (IF Kind(con) = "sequence" THEN "field" ELSE IF Kind(con) = "set" THEN "scan" ELSE "header")
          BY <2>4, FrameOKOf
        <4>2. g = w
          BY <3>2
        <4> HIDE DEF w, g
        <4> QED
          BY <4>1, <4>2
      <3> QED
        BY <3>1, <3>2
    <2> HIDE DEF g
    <2>6. g.pc # "pad" /\ ~Looks(g)
      BY <2>5 DEF Looks
    <2> QED
      BY <1>2, <2>1, <2>3, <2>5, <2>6, FramePushed DEF f
  <1> QED
    BY <1>3, <1>4, <1>5, <1>6, <1>7

LEMMA InvalidOK ==
    ASSUME Ordinary, IInv, Invalid
    PROVE  BufferStep /\ DInv'
  <1>1. Here("invalid") /\ "invalid" \in InItem \cup {"item"} /\ Fail("invalid_value")
    BY DEF Invalid, InItem, Begun
  <1>2. status = "running" /\ ~throwing /\ UNCHANGED ctl
    BY <1>1, AtPlaceInItem
  <1> QED
    BY <1>1, <1>2, FailOK

\* The innermost window of the item.
LEMMA InnermostFacts ==
    ASSUME Ordinary, IInv, NEW p \in {"close", "pad"}, Here(p)
    PROVE  /\ GoodInfo(Window) /\ Window.kind = "len" /\ Innermost.from \in Nat
           /\ Top.open # <<>> /\ Len(Top.open) \in Nat \ {0}
  <1>1. p \in InItem \cup {"item"}
    BY DEF InItem
  <1>2. /\ Top.pc = p /\ Shape(Top) /\ Placed(Top) /\ F = Field(Top)
        /\ Top.con \in Containers /\ Top.at \in DOMAIN Fields(Top.con)
    BY <1>1, AtPlaceInItem
  <1>3. Top.open # <<>> /\ Len(Top.open) \in Nat \ {0} /\ DOMAIN Top.open = 1 .. Len(Top.open)
    <2> DEFINE f == Top
    <2>1. f.open # <<>> /\ Shape(f)
      BY <1>2 DEF Placed
    <2> HIDE DEF f
    <2>2. Len(f.open) \in Nat /\ DOMAIN f.open = 1 .. Len(f.open) /\ Len(f.open) # 0
      BY <2>1, ShapeFacts
    <2> QED
      BY <2>1, <2>2 DEF f
  <1> DEFINE n == Len(Top.open)
  <1>4. n \in DOMAIN Top.open
    <2>1. n \in Nat \ {0} /\ DOMAIN Top.open = 1 .. n
      BY <1>3
    <2> HIDE DEF n
    <2> QED
      BY <2>1
  <1> HIDE DEF n
  <1>5. Innermost = Top.open[n]
    BY DEF Innermost, n
  <1>6. Innermost.step \in DOMAIN F.meta /\ F.meta[Innermost.step].kind = "len"
    BY <1>2, <1>4, <1>5 DEF Shape
  <1>7. GoodInfo(F.meta[Innermost.step])
    BY <1>2, <1>6, FieldFacts DEF Field
  <1>8. Innermost.from \in Nat
    <2>1. Top.open \in Seq([step : Nat, from : Nat])
      BY <1>2, ShapeFacts
    <2>2. Top.open[n] \in [step : Nat, from : Nat]
      BY <1>4, <2>1, ElementOfSeq, LenProperties
    <2> QED
      BY <1>5, <2>2
  <1> QED
    BY <1>3, <1>6, <1>7, <1>8 DEF Window

\* The frame without its innermost window.
LEMMA UnpaddedOK ==
    ASSUME Ordinary, NEW f, Shape(f), f.left \in Nat, f.open # <<>>
    PROVE  LET g == Closing([f EXCEPT !.open = SubSeq(@, 1, Len(@) - 1)])
           IN /\ FrameOK(g) /\ g.con = f.con /\ g.begin = f.begin /\ g.vtag = f.vtag /\ g.out = f.out
              /\ g.pc \in Onward /\ Len(g.open) = Len(f.open) - 1
  <1> DEFINE h == [f EXCEPT !.open = SubSeq(@, 1, Len(@) - 1)]
             g == Closing(h)
  <1>1. /\ Shape(h) /\ h.con = f.con /\ h.begin = f.begin /\ h.vtag = f.vtag /\ h.left = f.left /\ h.out = f.out
        /\ h.at = f.at /\ Len(h.open) = Len(f.open) - 1 /\ Len(f.open) \in Nat
    BY FewerOpen
  <1> HIDE DEF h
  <1>2. /\ FrameOK(g) /\ Same(h, g) /\ g.out = h.out
        /\ g.pc \in {"close", "scan", "return", "field", "again", "loop"}
    BY <1>1, ClosingOK
  <1> HIDE DEF g
  <1>3. g.pc \in Onward
    BY <1>2 DEF Onward
  <1> QED
    BY <1>1, <1>2, <1>3 DEF Same, g, h

LEMMA CloseOK ==
    ASSUME Ordinary, IInv, Close
    PROVE  BufferStep /\ DInv'
  <1> DEFINE f == Top
             o == [f EXCEPT !.open = SubSeq(@, 1, Len(@) - 1)]
             c == Closing(o)
             w == [f EXCEPT !.pc = "pad"]
  <1>1. Here("close") /\ "close" \in InItem \cup {"item"}
    BY DEF Close, InItem
  <1>2. /\ status = "running" /\ ~throwing /\ UNCHANGED ctl /\ f.pc = "close"
        /\ Shape(f) /\ Placed(f) /\ f.left \in Nat
    BY <1>1, AtPlaceInItem
  <1>3. f.open # <<>> /\ Len(f.open) \in Nat \ {0}
    BY <1>1, InnermostFacts
  <1>4. CASE Fail("overflow")
    BY <1>2, <1>4, FailOK
  <1>5. CASE B!CloseScope /\ error' = error /\ Become(Closed)
    <2>1. Closed = c \/ Closed = w
      BY DEF Closed, Unpadded
    <2>2. UNCHANGED <<start, cursor, store, throwing>> /\ BufferStep
      BY <1>5, OtherSteps DEF B!CloseScope
    <2>3. MessageEnds /\ f.begin <= cursor /\ cursor \in Nat /\ (Looks(f) /\ store # NoState => f.begin <= store)
          /\ Len(scopes) \in Nat
      BY <1>2, TopFacts, BufferFacts DEF IInv
    <2>4. MessageEnds' /\ Len(scopes') = Len(scopes) - 1 /\ Len(scopes') \in Nat
      <3>1. BP!IInv /\ wire' = wire
        BY <1>2 DEF IInv, ctl, msg
      <3> QED
        BY <1>5, <2>3, <3>1, EndsAfterClose
    <2> HIDE DEF f
    <2>5. /\ FrameOK(c) /\ c.con = f.con /\ c.begin = f.begin /\ c.vtag = f.vtag /\ c.out = f.out
          /\ c.pc \in Onward /\ Len(c.open) = Len(f.open) - 1
      BY <1>2, <1>3, UnpaddedOK
    <2>6. "pad" \in Places
      BY DEF Places, InItem
    <2>7. Shape(w) /\ Same(f, w) /\ w.pc = "pad" /\ w.left = f.left
      BY <1>2, <2>6, AtPlace
    <2> DEFINE g == Closed
    <2> HIDE DEF c, w, g
    <2>8. FrameOK(w)
      BY <1>2, <1>3, <2>7 DEF FrameOK, Placed, Same, InItem, OfSequences, OfOthers
    <2>9. FrameOK(g) /\ g.begin = f.begin /\ Opens(g) = Len(f.open) - 1 /\ Opens(f) = Len(f.open) /\ (Looks(g) => Looks(f))
      <3>1. CASE g = c
        <4>1. g.pc # "pad" /\ g.pc # "peek" /\ g.pc # "header" /\ g.pc # "find"
          BY <2>5, <3>1 DEF Onward
        <4> QED
          BY <1>2, <2>5, <3>1, <4>1 DEF Opens, Looks
      <3>2. CASE g = w
        BY <1>2, <2>7, <2>8, <3>2 DEF Opens, Looks, Same
      <3> QED
        BY <2>1, <3>1, <3>2 DEF g
    <2>10. Len(scopes') + Opens(f) = Len(scopes) + Opens(g)
      <3> DEFINE a == Len(scopes)
                 b == Len(f.open)
      <3>1. a \in Nat /\ b \in Nat /\ Len(scopes') = a - 1 /\ Opens(f) = b /\ Opens(g) = b - 1
        BY <1>3, <2>3, <2>4, <2>9
      <3> HIDE DEF a, b
      <3>2. (a - 1) + b = a + (b - 1)
        BY <3>1
      <3> QED
        BY <3>1, <3>2 DEF a
    <2>11. DInv'
      <3>1. Become(g) /\ error' = error
        BY <1>5 DEF g
      <3>2. ~throwing' /\ cursor' \in Nat /\ f.begin <= cursor' /\ store' = store /\ start' = start
        BY <1>2, <2>2, <2>3
      <3>3. Looks(g) /\ store' # NoState => g.begin <= store'
        BY <2>2, <2>3, <2>9
      <3> QED
        BY <1>2, <2>4, <2>9, <2>10, <3>1, <3>2, <3>3, TopChanges DEF f
    <2> QED
      BY <2>2, <2>11
  <1> QED
    BY <1>4, <1>5 DEF Close, Quiet

LEMMA PadOK ==
    ASSUME Ordinary, IInv, Pad
    PROVE  BufferStep /\ DInv'
  <1> DEFINE f == Top
             n == PadSize(Window.pad, cursor - Innermost.from)
             g == Closing([f EXCEPT !.open = SubSeq(@, 1, Len(@) - 1)])
  <1>1. Here("pad") /\ "pad" \in InItem \cup {"item"} /\ Read(n, g)
    BY DEF Pad, InItem, Unpadded
  <1>2. /\ status = "running" /\ ~throwing /\ UNCHANGED ctl /\ f.pc = "pad"
        /\ Shape(f) /\ f.left \in Nat
    BY <1>1, AtPlaceInItem
  <1>3. /\ f.open # <<>> /\ Len(f.open) \in Nat \ {0}
        /\ GoodInfo(Window) /\ Window.kind = "len" /\ Innermost.from \in Nat
    BY <1>1, InnermostFacts
  <1>4. n \in Nat
    <2>1. cursor - Innermost.from \in Int
      BY <1>3, BufferFacts DEF IInv
    <2> QED
      BY <1>3, <2>1, PadSizeType
  <1> HIDE DEF f, n
  <1>5. /\ FrameOK(g) /\ g.con = f.con /\ g.begin = f.begin /\ g.vtag = f.vtag
        /\ g.pc \in Onward /\ Len(g.open) = Len(f.open) - 1
    BY <1>2, <1>3, UnpaddedOK
  <1> HIDE DEF g
  <1>6. g.pc # "pad" /\ g.pc # "peek" /\ g.pc # "header" /\ g.pc # "find"
    BY <1>5 DEF Onward
  <1>7. Opens(g) = Opens(f) /\ (Looks(g) => Looks(f))
    BY <1>2, <1>5, <1>6 DEF Opens, Looks
  <1> QED
    BY <1>1, <1>2, <1>4, <1>5, <1>7, ReadOK DEF f

-----------------------------------------------------------------------------
(* ... the ends of containers, and of messages.                            *)

\* The frame below goes on as g with what the container on top has decoded.
LEMMA FramePopped ==
    ASSUME Ordinary, IInv, status = "running", ~throwing, UNCHANGED <<bvars, msg, error, status>>, dropped' \in Nat,
           Len(frames) # 1, Opens(Top) = 0,
           NEW g, frames' = [SubSeq(frames, 1, Len(frames) - 1) EXCEPT ![Len(SubSeq(frames, 1, Len(frames) - 1))] = g],
           FrameOK(g), g.begin = frames[Len(frames) - 1].begin,
           Opens(g) = Opens(frames[Len(frames) - 1]), Looks(g) => Looks(frames[Len(frames) - 1])
    PROVE  BufferStep /\ DInv'
  <1> DEFINE n == Len(frames)
             m == n - 1
             below == SubSeq(frames, 1, Len(frames) - 1)
  <1>1. /\ n \in Nat \ {0} /\ Listed(frames) /\ frames # <<>> /\ DOMAIN frames = 1 .. n
    BY TopFacts
  <1>2. m \in Nat \ {0} /\ n = m + 1
    <2>1. n # 1
      OBVIOUS
    <2> HIDE DEF n
    <2> QED
      BY <1>1, <2>1
  <1>3. /\ Listed(below) /\ Len(below) = m /\ below # <<>>
        /\ \A i \in 1 .. m : below[i] = frames[i]
    <2>1. /\ Listed(below) /\ Len(below) = Len(frames) - 1 /\ (below = <<>> <=> Len(frames) = 1)
          /\ DOMAIN below = 1 .. Len(frames) - 1 /\ DOMAIN frames = 1 .. Len(frames) /\ Len(frames) \in Nat \ {0}
          /\ \A i \in 1 .. Len(frames) - 1 : below[i] = frames[i]
      <3>1. Listed(frames) /\ frames # <<>>
        BY <1>1
      <3> QED
        BY <3>1, Popped
    <2> QED
      BY <2>1
  <1>4. frames' = [below EXCEPT ![Len(below)] = g]
    OBVIOUS
  <1> HIDE DEF below
  <1>5. /\ Listed(frames') /\ Len(frames') = m /\ frames' # <<>> /\ DOMAIN frames' = 1 .. m
        /\ frames'[m] = g /\ \A i \in 1 .. m - 1 : frames'[i] = frames[i]
    <2> DEFINE t == [below EXCEPT ![Len(below)] = g]
    <2>1. /\ Listed(t) /\ Len(t) = Len(below) /\ t # <<>>
          /\ DOMAIN t = 1 .. Len(below) /\ DOMAIN below = 1 .. Len(below) /\ Len(below) \in Nat \ {0}
          /\ t[Len(below)] = g
          /\ \A i \in 1 .. Len(below) - 1 : t[i] = below[i]
      <3>1. Listed(below) /\ below # <<>>
        BY <1>3
      <3> QED
        BY <3>1, Replaced, SMTT(60)
    <2>2. frames' = t
      BY <1>4
    <2> HIDE DEF t
    <2>3. \A i \in 1 .. m - 1 : i \in 1 .. m
      <3> HIDE DEF m
      <3> QED
        BY <1>2
    <2> HIDE DEF m
    <2> QED
      BY <2>1, <2>2, <2>3, <1>3
  <1>6. g.begin = frames[m].begin /\ Opens(g) = Opens(frames[m]) /\ (Looks(g) => Looks(frames[m])) /\ Opens(frames[n]) = 0
    BY DEF Top
  <1> HIDE DEF m
  <1>i. /\ m \in 1 .. m /\ m \in 1 .. n /\ n \in 1 .. n /\ m <= n
        /\ \A k \in 1 .. m : k \in 1 .. n /\ k <= m /\ (k = m \/ k \in 1 .. m - 1)
        /\ \A k \in 1 .. m - 1 : k \in 1 .. m /\ k \in 1 .. n - 1 /\ k + 1 \in 1 .. m
    <2> HIDE DEF n
    <2> QED
      BY <1>2
  <1>7. /\ \A k \in 1 .. n : FrameOK(frames[k]) /\ frames[k].begin \in Nat
        /\ \A k \in 1 .. n - 1 : Waits(frames[k])
    <2>1. \A k \in 1 .. n : FrameOK(frames[k])
      BY <1>1 DEF IInv, DInv, Frames
    <2>2. \A k \in 1 .. n - 1 : Waits(frames[k])
      BY DEF IInv, DInv, Frames
    <2>3. \A k \in 1 .. n : frames[k].begin \in Nat
      BY <2>1, ShapeFacts DEF FrameOK
    <2> HIDE DEF n
    <2> QED
      BY <2>1, <2>2, <2>3
  <1>8. /\ \A j, k \in 1 .. n : j <= k => frames[j].begin <= frames[k].begin
        /\ \A k \in 1 .. n : frames[k].begin <= cursor
        /\ \A k \in 1 .. n : Looks(frames[k]) /\ store # NoState => frames[k].begin <= store
    BY <1>1 DEF IInv, DInv, Begins
  <1>9. UNCHANGED <<start, cursor, end, store, eob, eobIndex, scopes, looked, throwing>>
    BY DEF bvars
  <1>10. Control'
    BY <1>1, <1>5, <1>9 DEF IInv, DInv, Control, msg
  <1>11. PICK base : Counts(base, frames, Len(scopes))
    BY DEF IInv, DInv, WindowsCounted
  <1>12. /\ base \in [1 .. n + 1 -> Nat] /\ base[1] = 0 /\ base[n + 1] = Len(scopes)
         /\ \A k \in 1 .. n : base[k + 1] = base[k] + Opens(frames[k])
    BY <1>11 DEF Counts
  <1> HIDE DEF n
  <1>13. \A k \in 1 .. m : frames'[k] = frames[k] \/ (k = m /\ frames'[k] = g)
    BY <1>5, <1>i
  <1>14. Frames'
    <2>1. \A k \in 1 .. m : FrameOK(frames'[k])
      BY <1>7, <1>13, <1>i
    <2>2. \A k \in 1 .. m - 1 : Waits(frames'[k])
      BY <1>5, <1>7, <1>i
    <2> QED
      BY <1>5, <2>1, <2>2 DEF Frames
  <1>15. Begins'
    <2>1. \A k \in 1 .. m : frames'[k].begin = frames[k].begin /\ (Looks(frames'[k]) => Looks(frames[k]))
      BY <1>6, <1>13
    <2>2. \A j, k \in 1 .. m : j <= k => frames'[j].begin <= frames'[k].begin
      BY <1>8, <1>i, <2>1
    <2>3. \A k \in 1 .. m : frames'[k].begin <= cursor' /\ (Looks(frames'[k]) /\ store' # NoState => frames'[k].begin <= store')
      BY <1>8, <1>9, <1>i, <2>1
    <2> QED
      BY <1>5, <2>2, <2>3, SMTT(60) DEF Begins
  <1>16. WindowsCounted'
    <2> DEFINE other == [k \in 1 .. m + 1 |-> base[k]]
    <2>1. base[n + 1] = base[n] + Opens(frames[n]) /\ base[n] \in Nat
      <3>1. n \in 1 .. n + 1
        BY <1>1
      <3> QED
        BY <1>12, <1>i, <3>1
    <2>2. base[m + 1] = Len(scopes)
      BY <1>2, <1>6, <1>12, <2>1
    <2>3. \A k \in 1 .. m + 1 : k \in 1 .. n + 1
      BY <1>2
    <2>4. 1 \in 1 .. m + 1 /\ m + 1 \in 1 .. m + 1 /\ \A k \in 1 .. m : k \in 1 .. m + 1 /\ k + 1 \in 1 .. m + 1
      BY <1>2
    <2>5. /\ other \in [1 .. m + 1 -> Nat] /\ other[1] = 0 /\ other[m + 1] = Len(scopes)
          /\ \A k \in 1 .. m : other[k] = base[k] /\ other[k + 1] = base[k + 1]
      BY <1>12, <2>2, <2>3, <2>4
    <2> HIDE DEF other
    <2>6. \A k \in 1 .. m : Opens(frames'[k]) = Opens(frames[k])
      BY <1>6, <1>13
    <2>7. \A k \in 1 .. m : other[k + 1] = other[k] + Opens(frames'[k])
      BY <1>12, <1>i, <2>5, <2>6
    <2>8. Counts(other, frames', Len(scopes'))
      BY <1>5, <1>9, <2>5, <2>7 DEF Counts
    <2> QED
      BY <2>8 DEF WindowsCounted
  <1>17. WholeMessage'
    BY <1>9 DEF IInv, DInv, WholeMessage, MessageEnds, msg
  <1> QED
    BY <1>10, <1>14, <1>15, <1>16, <1>17, OtherSteps DEF DInv

\* The header of a choice.
LEMMA GotHeaderOK ==
    ASSUME Ordinary, NEW f, Shape(f), f.open = <<>>, f.left \in Nat, Kind(f.con) = "choice", ~f.vtag.set, NEW v
    PROVE  LET g == GotHeader(f, v)
           IN /\ FrameOK(g) /\ g.begin = f.begin /\ g.open = f.open /\ g.pc = "find" /\ g.con = f.con
              /\ ~Looks(g) /\ g.at = f.at /\ g.out = [f.out EXCEPT ![1] = <<v>>]
  <1> DEFINE t == Callback(Types[f.con].header \o "::get_tag", v)
             g == [f EXCEPT !.out[1] = <<v>>, !.vtag.val = t, !.pc = "find"]
  <1>1. GotHeader(f, v) = g
    BY DEF GotHeader
  <1> HIDE DEF t
  <1>2. "find" \in Places /\ "find" \in OfOthers
    BY DEF Places, OfOthers
  <1>3. /\ Shape(g) /\ g.con = f.con /\ g.begin = f.begin /\ g.open = f.open /\ g.pc = "find" /\ g.left = f.left
        /\ ~g.vtag.set /\ g.at = f.at /\ g.out = [f.out EXCEPT ![1] = <<v>>]
    BY <1>2 DEF Shape, FrameType, Field
  <1> HIDE DEF g
  <1>4. Placed(g) /\ ~Looks(g)
    BY <1>2, <1>3 DEF Placed, Looks, OfSequences
  <1> QED
    BY <1>1, <1>3, <1>4 DEF FrameOK

LEMMA ReturnOK ==
    ASSUME Ordinary, IInv, Return
    PROVE  BufferStep /\ DInv'
  <1>1. /\ status = "running" /\ ~throwing /\ Top.pc = "return" /\ UNCHANGED <<bvars, msg, error>>
        /\ dropped' \in Nat
    <2>1. status = "running" /\ ~throwing /\ Top.pc = "return" /\ UNCHANGED <<bvars, msg, error>>
      BY DEF Return, At
    <2>2. dropped' = (IF Top.vtag.set THEN dropped + 1 ELSE dropped) /\ dropped \in Nat
      BY DEF Return, IInv, DInv, Control
    <2> QED
      BY <2>1, <2>2
  <1>2. /\ Listed(frames) /\ frames # <<>> /\ Len(frames) \in Nat \ {0} /\ DOMAIN frames = 1 .. Len(frames)
        /\ FrameOK(Top)
    BY <1>1, TopFacts
  <1>3. Opens(Top) = 0
    <2>1. Top.open = <<>>
      BY <1>1, <1>2 DEF FrameOK, Placed, InItem, Begun
    <2> QED
      BY <1>1, <2>1 DEF Opens
  <1>4. CASE Len(frames) = 1
    <2>1. frames' = <<>> /\ status' = "ok"
      BY <1>4 DEF Return
    <2>2. PICK base : Counts(base, frames, Len(scopes))
      BY <1>1 DEF IInv, DInv, WindowsCounted
    <2>3. Len(scopes) = 0
      <3>1. base[1] = 0 /\ base[2] = Len(scopes) /\ base[2] = base[1] + Opens(frames[1])
        BY <1>4, <2>2 DEF Counts
      <3> QED
        BY <1>3, <1>4, <3>1 DEF Top
    <2>4. scopes = <<>>
      BY <2>3, BufferFacts DEF IInv
    <2>5. Listed(frames') /\ Len(frames') = 0 /\ DOMAIN frames' = {}
      BY <2>1, EmptySeq DEF Listed
    <2>6. Control'
      BY <1>1, <2>1, <2>4 DEF IInv, DInv, Control, msg, bvars
    <2>8. Frames' /\ Begins' /\ WindowsCounted'
      BY <2>1, <2>5 DEF Frames, Begins, WindowsCounted
    <2>7. WholeMessage'
      BY <1>1, <2>1 DEF IInv, DInv, WholeMessage, MessageEnds, msg, bvars
    <2> QED
      BY <1>1, <2>6, <2>7, <2>8, OtherSteps DEF DInv
  <1>5. CASE Len(frames) # 1
    <2> DEFINE n == Len(frames)
               f == frames[n - 1]
               v == Top.out
               g == IF f.pc = "header" THEN GotHeader(f, v) ELSE Got(f, v)
               below == SubSeq(frames, 1, Len(frames) - 1)
    <2>1. UNCHANGED status
      BY <1>5 DEF Return
    <2>2. n - 1 \in 1 .. n - 1 /\ n - 1 \in 1 .. n /\ n \in Nat \ {0, 1}
      <3>1. n \in Nat \ {0} /\ n # 1
        BY <1>2, <1>5
      <3> HIDE DEF n
      <3> QED
        BY <3>1
    <2>3. Waits(f) /\ FrameOK(f) /\ f.con \in Containers
      <3>1. Waits(f) /\ FrameOK(f)
        BY <1>2, <2>2 DEF IInv, DInv, Frames
      <3> QED
        BY <3>1, ShapeFacts DEF FrameOK
    <2>4. below[Len(below)] = f
      <3>1. /\ Listed(below) /\ Len(below) = Len(frames) - 1 /\ (below = <<>> <=> Len(frames) = 1)
            /\ DOMAIN below = 1 .. Len(frames) - 1 /\ DOMAIN frames = 1 .. Len(frames) /\ Len(frames) \in Nat \ {0}
            /\ \A i \in 1 .. Len(frames) - 1 : below[i] = frames[i]
        BY <1>2, Popped
      <3> QED
        BY <2>2, <3>1
    <2>5. frames' = [below EXCEPT ![Len(below)] = g]
      <3>1. frames' = [below EXCEPT ![Len(below)] =
                          IF below[Len(below)].pc = "header" THEN GotHeader(below[Len(below)], v) ELSE Got(below[Len(below)], v)]
        BY <1>5 DEF Return
      <3> QED
        BY <3>1, <2>4
    <2>6. frames' = [SubSeq(frames, 1, Len(frames) - 1) EXCEPT ![Len(SubSeq(frames, 1, Len(frames) - 1))] = g]
      BY <2>5
    <2> DEFINE w == f
    <2> HIDE DEF v
    <2>7. FrameOK(g) /\ g.begin = w.begin /\ Opens(g) = Opens(w) /\ (Looks(g) => Looks(w))
      <3>1. Waits(w) /\ FrameOK(w) /\ w.con \in Containers
        BY <2>3
      <3> DEFINE h == GotHeader(w, v)
                 i == Got(w, v)
      <3>2. g = IF w.pc = "header" THEN h ELSE i
        OBVIOUS
      <3> HIDE DEF w, g
      <3>3. CASE w.pc = "header"
        <4>1. Kind(w.con) = "choice" /\ ~w.vtag.set /\ Shape(w)
          BY <3>1, <3>3, ContainerFacts DEF Waits, FrameOK, Shape
        <4>2. w.open = <<>> /\ w.left \in Nat
          BY <3>1, <3>3 DEF FrameOK, Placed, InItem, Begun
        <4>3. /\ FrameOK(h) /\ h.begin = w.begin /\ h.open = w.open /\ h.pc = "find" /\ h.con = w.con
              /\ ~Looks(h) /\ h.at = w.at /\ h.out = [w.out EXCEPT ![1] = <<v>>]
          BY <4>1, <4>2, GotHeaderOK
        <4> HIDE DEF h
        <4> QED
          BY <3>2, <3>3, <4>3 DEF Opens
      <3>4. CASE w.pc = "value"
        <4>1. Shape(w) /\ w.left \in Nat /\ w.pc # "pad"
          BY <3>1, <3>4 DEF FrameOK, Placed
        <4>2. FrameOK(i) /\ i.begin = w.begin /\ Opens(i) = Opens(w) /\ (Looks(i) => Looks(w))
          BY <4>1, GotGoesOn
        <4> HIDE DEF i
        <4> QED
          BY <3>2, <3>4, <4>2
      <3> QED
        BY <3>1, <3>3, <3>4 DEF Waits
    <2> HIDE DEF g
    <2> QED
      BY <1>1, <1>3, <1>5, <2>1, <2>6, <2>7, FramePopped
  <1> QED
    BY <1>4, <1>5

LEMMA UnwindOK ==
    ASSUME Ordinary, IInv, Unwind
    PROVE  BufferStep /\ DInv'
  <1>1. throwing /\ B!CloseScope /\ UNCHANGED <<ctl, error, frames>>
    BY DEF Unwind
  <1>2. UNCHANGED <<start, cursor, store, throwing>> /\ BufferStep
    BY <1>1, OtherSteps DEF B!CloseScope
  <1>3. status = "running" /\ MessageEnds
    BY <1>1 DEF IInv, DInv, Control, WholeMessage
  <1>4. MessageEnds'
    <2>1. BP!IInv /\ wire' = wire
      BY <1>1 DEF IInv, ctl, msg
    <2> QED
      BY <1>1, <1>3, <2>1, EndsAfterClose
  <1>5. Control'
    BY <1>1, <1>2, <1>3 DEF IInv, DInv, Control, ctl, msg
  <1>6. Frames' /\ Begins' /\ WindowsCounted'
    BY <1>1, <1>2 DEF IInv, DInv, Frames, Begins, WindowsCounted
  <1> QED
    BY <1>2, <1>4, <1>5, <1>6 DEF DInv, WholeMessage

\* No message is being decoded.
LEMMA NoFrames ==
    ASSUME frames' = <<>>
    PROVE  Frames' /\ Begins' /\ (status' # "running" => WindowsCounted')
  <1>1. Listed(frames') /\ Len(frames') = 0 /\ DOMAIN frames' = {}
    BY EmptySeq DEF Listed
  <1> QED
    BY <1>1 DEF Frames, Begins, WindowsCounted

LEMMA GiveUpOK ==
    ASSUME Ordinary, IInv, GiveUp
    PROVE  BufferStep /\ DInv'
  <1>1. /\ throwing /\ scopes = <<>> /\ ~throwing' /\ B!Catch
        /\ UNCHANGED <<start, cursor, end, store, eob, eobIndex, scopes, looked>>
        /\ status' = "failed" /\ frames' = <<>> /\ UNCHANGED <<msg, error, result, dropped>>
    BY DEF GiveUp, B!Catch
  <1>2. status = "running" /\ error # ""
    BY <1>1 DEF IInv, DInv, Control
  <1>3. Control' /\ WholeMessage'
    BY <1>1, <1>2 DEF IInv, DInv, Control, WholeMessage, MessageEnds, msg
  <1> QED
    BY <1>1, <1>3, NoFrames, OtherSteps DEF DInv

LEMMA ReleaseOK ==
    ASSUME Ordinary, IInv, Release
    PROVE  BufferStep /\ DInv'
  <1>1. /\ status \in {"ok", "failed", "refused"} /\ B!Reset /\ status' = "idle" /\ error' = ""
        /\ root' = NoRoot /\ wire' = <<>> /\ dropped' = 0 /\ UNCHANGED <<frames, alloc, fresh>>
    BY DEF Release
  <1>2. scopes = <<>> /\ ~throwing /\ UNCHANGED <<start, scopes, throwing>>
    BY <1>1 DEF B!Reset
  <1>3. frames = <<>> /\ wire' \in Seq(AnyOctet)
    BY <1>1, EmptySeq DEF IInv, DInv, Control
  <1>4. Control' /\ WholeMessage'
    BY <1>1, <1>2, <1>3 DEF IInv, DInv, Control, WholeMessage
  <1> QED
    BY <1>1, <1>3, <1>4, NoFrames, OtherSteps DEF DInv

LEMMA BeginOK ==
    ASSUME Ordinary, IInv, NEW ty \in Roots, NEW octets \in Seq(AnyOctet), NEW m, Begin(ty, octets, m)
    PROVE  BufferStep /\ DInv'
  <1> DEFINE f == Frame(ty)
             g == [f EXCEPT !.begin = 0]
  <1>1. /\ status = "idle" /\ B!ResetTo(0, Len(octets)) /\ status' = "running" /\ root' = ty /\ wire' = octets
        /\ frames' = <<g>> /\ fresh' = FALSE /\ UNCHANGED <<error, alloc, dropped>>
    BY DEF Begin
  <1>2. /\ ~throwing /\ scopes = <<>> /\ Len(octets) <= MemSize
        /\ start' = 0 /\ cursor' = 0 /\ end' = Len(octets) /\ UNCHANGED <<store, scopes, throwing>>
    <2>1. Len(octets) \in Nat
      BY LenProperties
    <2> QED
      BY <1>1, <2>1 DEF B!ResetTo
  <1>3. BufferStep
    <2>1. Len(octets) \in B!Mem /\ 0 \in B!Mem
      BY <1>2, LenProperties, BufferFacts DEF IInv, B!Mem
    <2> QED
      BY <1>1, <2>1 DEF BufferStep, B!Next
  <1>4. ty \in Containers
    BY RootAssumption
  <1>5. /\ FrameOK(f) /\ f.con = ty /\ f.begin = cursor /\ f.open = <<>> /\ ~f.vtag.set
        /\ f.pc = (IF Kind(ty) = "sequence" THEN "field" ELSE IF Kind(ty) = "set" THEN "scan" ELSE "header")
    BY <1>4, FrameOKOf
  <1> HIDE DEF f
  <1>6. /\ Shape(g) /\ g.con = ty /\ g.begin = 0 /\ g.open = <<>> /\ ~g.vtag.set /\ g.pc = f.pc /\ g.left = f.left
        /\ Field(g) = Field(f) /\ g.step = f.step /\ g.octets = f.octets
    BY <1>5 DEF FrameOK, Shape, FrameType, Field
  <1> HIDE DEF g
  <1>7. Placed(g)
    BY <1>5, <1>6 DEF FrameOK, Placed
  <1>8. g.pc # "pad" /\ ~Looks(g) /\ Opens(g) = 0
    BY <1>5, <1>6 DEF Looks, Opens
  <1>9. /\ Listed(frames') /\ Len(frames') = 1 /\ frames'[1] = g /\ DOMAIN frames' = {1} /\ frames' # <<>>
    <2>1. <<g>> \in Seq({g}) /\ Len(<<g>>) = 1 /\ <<g>>[1] = g
      OBVIOUS
    <2>2. DOMAIN <<g>> = {1} /\ <<g>> # <<>>
      <3>1. DOMAIN <<g>> = 1 .. 1
        BY <2>1, LenProperties
      <3> QED
        BY <2>1, <3>1, EmptySeq
    <2>3. {<<g>>[k] : k \in DOMAIN <<g>>} = {g}
      BY <2>1, <2>2
    <2> QED
      BY <1>1, <2>1, <2>2, <2>3 DEF Listed
  <1>10. Control'
    BY <1>1, <1>2, <1>9 DEF IInv, DInv, Control
  <1>11. Frames'
    BY <1>6, <1>7, <1>9 DEF Frames, FrameOK
  <1>12. Begins'
    BY <1>2, <1>6, <1>8, <1>9 DEF Begins
  <1>13. WindowsCounted'
    <2> DEFINE base == [k \in 1 .. 2 |-> 0]
    <2>1. scopes' = <<>> /\ Len(scopes') = 0
      BY <1>2, EmptySeq
    <2>2. base \in [1 .. 2 -> Nat] /\ base[1] = 0 /\ base[2] = 0
      OBVIOUS
    <2> HIDE DEF base
    <2>3. Counts(base, frames', Len(scopes'))
      BY <1>8, <1>9, <2>1, <2>2 DEF Counts
    <2> QED
      BY <2>3 DEF WindowsCounted
  <1>14. WholeMessage'
    BY <1>1, <1>2 DEF WholeMessage, MessageEnds
  <1> QED
    BY <1>3, <1>10, <1>11, <1>12, <1>13, <1>14 DEF DInv

LEMMA ReceiveOK ==
    ASSUME Ordinary, IInv, Receive \/ ReceiveAny
    PROVE  BufferStep /\ DInv'
  <1>1. CASE Receive
    <2>0. PICK ty \in Roots : \E e \in Encoded[ty] : Begin(ty, e[2].octets, e[1])
      BY <1>1 DEF Receive
    <2>1. PICK e \in Encoded[ty] : Begin(ty, e[2].octets, e[1])
      BY <2>0
    <2>2. PICK m \in Messages[ty] : e = <<m, Encoder(ty, m)>>
      BY <2>1 DEF Encoded
    <2>3. e[2].octets \in Seq(AnyOctet)
      BY <2>2, OctetsAssumption
    <2> QED
      BY <2>1, <2>3, BeginOK
  <1>2. CASE ReceiveAny
    <2>0. PICK ty \in Roots : \E octets \in Wires[ty] : Begin(ty, octets, NotSent)
      BY <1>2 DEF ReceiveAny
    <2>1. PICK octets \in Wires[ty] : Begin(ty, octets, NotSent)
      BY <2>0
    <2>2. octets \in Seq(AnyOctet)
      BY <2>1, OctetsAssumption
    <2> QED
      BY <2>1, <2>2, BeginOK
  <1> QED
    BY <1>1, <1>2

LEMMA RefuseOK ==
    ASSUME Ordinary, IInv, Refuse
    PROVE  BufferStep /\ DInv'
  <1>0. PICK ty \in Roots : \E e \in Encoded[ty] :
               /\ status = "idle" /\ e[2].fault # ""
               /\ status' = "refused" /\ error' = e[2].fault
               /\ root' = ty /\ wire' = e[2].octets /\ fresh' = FALSE
               /\ UNCHANGED <<bvars, frames, alloc, dropped>>
    BY DEF Refuse
  <1>1. PICK e \in Encoded[ty] :
               /\ status = "idle" /\ e[2].fault # ""
               /\ status' = "refused" /\ error' = e[2].fault
               /\ root' = ty /\ wire' = e[2].octets /\ fresh' = FALSE
               /\ UNCHANGED <<bvars, frames, alloc, dropped>>
    BY <1>0
  <1>2. PICK m \in Messages[ty] : e = <<m, Encoder(ty, m)>>
    BY DEF Encoded
  <1>3. wire' \in Seq(AnyOctet)
    BY <1>1, <1>2, OctetsAssumption
  <1>4. frames = <<>>
    BY <1>1 DEF IInv, DInv, Control
  <1>5. Control' /\ WholeMessage'
    BY <1>1, <1>3, <1>4 DEF IInv, DInv, Control, WholeMessage, bvars
  <1> QED
    BY <1>1, <1>4, <1>5, NoFrames, OtherSteps DEF DInv

-----------------------------------------------------------------------------
(* The invariant holds.                                                    *)

LEMMA SameBuffer ==
    /\ B!Init => BP!Init
    /\ BufferStep => [BP!Next]_(BP!vars)
  BY DEF BufferStep, B!Init, BP!Init, B!Next, BP!Next, B!vars, BP!vars, B!PushSize, BP!PushSize, B!Commit, BP!Commit,
         B!CloseScope, BP!CloseScope, B!Raise, BP!Raise, B!Throw, BP!Throw, B!Catch, BP!Catch,
         B!Pop, BP!Pop, B!Advance, BP!Advance, B!PushState, BP!PushState, B!PopState, BP!PopState,
         B!Reset, BP!Reset, B!ResetTo, BP!ResetTo, B!SetSlot, BP!SetSlot,
         B!Mem, BP!Mem, B!Slots, BP!Slots, B!Innermost, BP!Innermost, B!Inner, BP!Inner

LEMMA BufferInvariance ==
    /\ BP!Init => BP!IInv
    /\ BP!IInv /\ [BP!Next]_(BP!vars) => BP!IInv'
  BY BP!InitIInv, BP!NextIInv, BufferAssumption
     DEF B!MemAssumption, B!DepthAssumption, B!DeferredAssumption, B!NoStateAssumption, B!Mem,
         BP!MemAssumption, BP!DepthAssumption, BP!DeferredAssumption, BP!NoStateAssumption, BP!Mem

LEMMA InitIInv ==
    ASSUME Ordinary, Init
    PROVE  IInv
  <1>1. BP!IInv
    BY SameBuffer, BufferInvariance DEF Init
  <1>2. /\ status = "idle" /\ error = "" /\ root = NoRoot /\ wire = <<>> /\ frames = <<>> /\ start = 0
        /\ dropped = 0 /\ fresh = TRUE /\ alloc \in Allocators /\ scopes = <<>> /\ throwing = FALSE
    BY DEF Init, B!Init
  <1>3. Listed(frames) /\ Len(frames) = 0 /\ DOMAIN frames = {}
    <2>1. frames = <<>>
      BY <1>2
    <2> QED
      BY <2>1, EmptySeq DEF Listed
  <1>4. Control
    <2>1. wire \in Seq(AnyOctet)
      BY <1>2, EmptySeq
    <2> QED
      BY <1>2, <2>1 DEF Control
  <1>5. Frames /\ Begins
    BY <1>3 DEF Frames, Begins
  <1>6. WindowsCounted /\ WholeMessage
    BY <1>2 DEF WindowsCounted, WholeMessage
  <1> QED
    BY <1>1, <1>4, <1>5, <1>6 DEF IInv, DInv

LEMMA NextIInv ==
    ASSUME Ordinary, IInv, [Next]_vars
    PROVE  IInv' /\ BufferStep
  <1>1. BufferStep /\ DInv'
    <2>1. CASE EnterField \/ LookAhead \/ LookAgain \/ Peek \/ Match \/ More
      BY <2>1, EnterFieldOK, LookAheadOK, LookAgainOK, PeekOK, MatchesOK, MoreOK
    <2>2. CASE ReadCount \/ Quota \/ Loop \/ CheckArity
      BY <2>2, ReadCountOK, QuotaOK, LoopOK, CheckArityOK
    <2>3. CASE Scan \/ ReadHeader \/ Find \/ Found \/ Complete
      BY <2>3, ScanOK, ReadHeaderOK, FindOK, FoundOK, CompleteOK
    <2>4. CASE BeginItem \/ ReadTag \/ Expect \/ ReadLength \/ OpenWindow
      BY <2>4, BeginItemOK, ReadTagOK, ExpectOK, ReadLengthOK, OpenWindowOK
    <2>5. CASE DecodeValue \/ Invalid \/ Close \/ Pad
      BY <2>5, DecodeValueOK, InvalidOK, CloseOK, PadOK
    <2>6. CASE OpenPending \/ CommitLength
      BY <2>6, NotDeferred
    <2>7. CASE Return \/ Unwind \/ GiveUp
      BY <2>7, ReturnOK, UnwindOK, GiveUpOK
    <2>8. CASE Release \/ Receive \/ Refuse \/ ReceiveAny
      BY <2>8, ReleaseOK, ReceiveOK, RefuseOK
    <2>9. CASE UNCHANGED vars
      <3>1. DInv'
        BY <2>9 DEF vars, bvars, ctl, msg, IInv, DInv, Control, Frames, Begins, WindowsCounted, WholeMessage, MessageEnds
      <3>2. UNCHANGED bvars
        BY <2>9 DEF vars
      <3> QED
        BY <3>1, <3>2, OtherSteps
    <2> QED
      BY <2>1, <2>2, <2>3, <2>4, <2>5, <2>6, <2>7, <2>8, <2>9 DEF Next, Decode
  <1>2. BP!IInv'
    BY <1>1, SameBuffer, BufferInvariance DEF IInv
  <1> QED
    BY <1>1, <1>2 DEF IInv

LEMMA Invariance ==
    ASSUME Ordinary
    PROVE  Spec => []IInv /\ B!Spec
  <1>1. Init => IInv /\ B!Init
    BY InitIInv DEF Init
  <1>2. IInv /\ [Next]_vars => IInv' /\ [B!Next]_(B!vars)
    BY NextIInv DEF BufferStep
  <1> QED
    BY <1>1, <1>2, PTL DEF Spec, B!Spec

-----------------------------------------------------------------------------
\* The state of the decoder is of its types, at every place of every container: a
\* frame stands at a field of its container, the windows of its item belong to
\* lengths of the field (sequence.hpp, set.hpp, choice.hpp, decode.hpp).
THEOREM TypeCorrect ==
    ASSUME Ordinary
    PROVE  Spec => []TypeOK
  <1>1. IInv => TypeOK
    <2> SUFFICES ASSUME IInv PROVE TypeOK
      OBVIOUS
    <2>1. B!TypeOK
      BY DEF IInv, BP!IInv, BP!Bookkeeping, BP!TypeOK, B!TypeOK, BP!Mem, B!Mem, BP!Slots, B!Slots, BP!Scope, B!Scope
    <2>2. ASSUME NEW k \in DOMAIN frames
          PROVE  LET f == frames[k]
                 IN /\ f.con \in DOMAIN Types /\ f.at \in DOMAIN Fields(f.con)
                    /\ f.vtag.set \in BOOLEAN
                    /\ f.left \in Nat \/ f.pc = "quota"
                    /\ f.begin \in 0 .. cursor
                    /\ \A w \in DOMAIN f.open : f.open[w].step \in DOMAIN Field(f).meta
      <3> DEFINE f == frames[k]
      <3>1. Shape(f) /\ Placed(f) /\ f.begin <= cursor /\ cursor \in Nat
        BY BufferFacts DEF IInv, DInv, Frames, Begins, FrameOK
      <3> HIDE DEF f
      <3>2. f.con \in DOMAIN Types /\ f.at \in DOMAIN Fields(f.con) /\ f.vtag.set \in BOOLEAN /\ f.begin \in Nat
        BY <3>1, ShapeFacts, ContainerFacts
      <3>3. f.begin \in 0 .. cursor
        BY <3>1, <3>2
      <3> QED
        BY <3>1, <3>2, <3>3 DEF Shape, Placed, f
    <2> QED
      BY <2>1, <2>2 DEF TypeOK, IInv, DInv, Control
  <1> QED
    BY <1>1, Invariance, PTL

\* Every step of the decoder is a call of the buffer as Buffer has it, or none, so
\* that what is proved of the buffer holds under the decoder: the nesting of the
\* windows, their slots, and the position remembered for a tag.
THEOREM UsesTheBuffer ==
    ASSUME Ordinary
    PROVE  Spec => UsesBuffer
  BY Invariance, PTL DEF UsesBuffer

\* Whatever octets arrive and whatever lengths they claim, the decoder stays inside
\* of the message (decode.hpp, buffer.hpp).
THEOREM StayingInside ==
    ASSUME Ordinary
    PROVE  Spec => []StaysInside
  <1>1. IInv => StaysInside
    BY StandsInside DEF StaysInside
  <1> QED
    BY <1>1, Invariance, PTL

\* No window is left behind by a message, whatever became of it: however many were
\* open, in however many containers, the exception has closed them (size_state).
THEOREM WindowsClosed ==
    ASSUME Ordinary
    PROVE  Spec => []WindowsGone
  <1>1. IInv => WindowsGone
    <2> SUFFICES ASSUME IInv, status \in {"ok", "failed"}
                 PROVE  scopes = <<>> /\ eobIndex = 0 /\ ~throwing /\ end = Len(wire)
      BY DEF WindowsGone
    <2>1. scopes = <<>> /\ ~throwing /\ end = Len(wire)
      BY DEF IInv, DInv, Control, WholeMessage, MessageEnds
    <2>2. eobIndex = Len(scopes)
      BY DEF IInv, BP!IInv, BP!Immediate, BP!IndexCountsScopes, Ordinary
    <2> QED
      BY <2>1, <2>2, BufferFacts DEF IInv
  <1> QED
    BY <1>1, Invariance, PTL
=============================================================================
