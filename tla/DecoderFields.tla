---------------------------- MODULE DecoderFields ----------------------------
(***************************************************************************)
(* Proofs about MessageDecoder, on the invariant of DecoderProofs: what    *)
(* the fields of a container do with the tag that was read ahead, and how  *)
(* many items each of them has at its end.                                 *)
(***************************************************************************)
EXTENDS DecoderProofs

-----------------------------------------------------------------------------
(* The tag read ahead.                                                     *)

\* No mandatory repeated field with a tag in front of a field that does not go on
\* with a tag it has read: seq_dec does not give it back there (sequence.hpp:246).
NoGap ==
    \A ty \in Containers : Kind(ty) = "sequence" =>
        \A i \in DOMAIN Fields(ty) \ {1} :
            LET P == Fields(ty)[i - 1]
                G == Fields(ty)[i]
            IN P.multi /\ Tagged(P) /\ P.presence = "M" => G.multi \/ (Tagged(G) /\ G.presence = "O")

\* A tag is kept between fields, by the field that compares it, by a repeated field
\* over its items, and into the end of the sequence.
TagKept(f) ==
    f.vtag.set =>
        IF f.pc = "field"
        THEN f.at > 1 /\ LET P == Fields(f.con)[f.at - 1] IN Tagged(P) /\ (P.multi \/ P.presence = "O")
        ELSE f.pc \in {"match", "return"} \/ (Tagged(Field(f)) /\ Field(f).multi)

TagPlaces(f) ==
    /\ f.pc \in {"ahead", "again", "peek", "match"} => Field(f).multi \/ Field(f).presence = "O"
    /\ f.pc = "ahead" => ~f.vtag.set
    /\ f.pc \in {"more", "count", "quota", "loop"} => ~(Tagged(Field(f)) /\ Field(f).multi)

TagFrame(f) == TagKept(f) /\ TagPlaces(f)

\* The tag is the octets behind the position s the buffer remembers, up to c.
AtHand(f) ==
    (f.vtag.set /\ f.pc \in {"field", "match", "arity"}) \/ (f.pc = "find" /\ Kind(f.con) = "set")

Ready(f, s, c, w) ==
    /\ AtHand(f) => s # NoState /\ SubSeq(w, s + 1, c) = f.vtag.val
    /\ f.pc = "peek" \/ (f.pc = "header" /\ Kind(f.con) = "set") => s = c

TagInv ==
    /\ \A k \in DOMAIN frames : TagFrame(frames[k])
    /\ status = "running" /\ ~throwing => Ready(Top, store, cursor, wire)

PutBackStep == status = "running" /\ cursor' < cursor => SubSeq(wire, cursor' + 1, cursor) = Top.vtag.val
TagStep == TagInv' /\ PutBackStep

\* In an item only a repeated field with a tag keeps the one it has read.
Keeps(f) == f.vtag.set => Tagged(Field(f)) /\ Field(f).multi

\* A frame that does not need the position.
Calm(f) == f.pc \notin {"peek", "header", "find"} /\ (f.vtag.set => f.pc \notin {"field", "match", "arity"})

LEMMA CalmReady ==
    ASSUME NEW f, Calm(f), NEW s, NEW c, NEW w
    PROVE  Ready(f, s, c, w)
  BY DEF Calm, Ready, AtHand

\* What becomes of the frames.
LEMMA LastOrNot ==
    ASSUME NEW n \in Nat
    PROVE  \A k \in 1 .. n : k = n \/ k \in 1 .. n - 1
  OBVIOUS

LEMMA FramesAfter ==
    ASSUME Ordinary, IInv, status = "running",
           NEW g,
           \/ Become(g)
           \/ frames' = Append(frames, g)
           \/ /\ Len(frames) # 1
              /\ frames' = [SubSeq(frames, 1, Len(frames) - 1) EXCEPT ![Len(SubSeq(frames, 1, Len(frames) - 1))] = g]
    PROVE  /\ Top' = g
           /\ \A k \in DOMAIN frames' : frames'[k] = g \/ (k \in DOMAIN frames /\ frames'[k] = frames[k])
  <1>1. Listed(frames) /\ frames # <<>> /\ Len(frames) \in Nat \ {0} /\ DOMAIN frames = 1 .. Len(frames)
    BY TopFacts
  <1>2. CASE Become(g)
    <2> DEFINE t == [frames EXCEPT ![Len(frames)] = g]
    <2>1. /\ Listed(t) /\ Len(t) = Len(frames) /\ t # <<>>
          /\ DOMAIN t = 1 .. Len(frames) /\ DOMAIN frames = 1 .. Len(frames) /\ Len(frames) \in Nat \ {0}
          /\ t[Len(frames)] = g /\ \A i \in 1 .. Len(frames) - 1 : t[i] = frames[i]
      BY <1>1, Replaced
    <2>2. frames' = t
      BY <1>2 DEF Become
    <2> HIDE DEF t
    <2>3. \A k \in 1 .. Len(frames) : k = Len(frames) \/ k \in 1 .. Len(frames) - 1
      BY <1>1, LastOrNot
    <2> QED
      BY <2>1, <2>2, <2>3 DEF Top
  <1>3. CASE frames' = Append(frames, g)
    <2> DEFINE t == Append(frames, g)
    <2>1. /\ Listed(t) /\ Len(t) = Len(frames) + 1 /\ t # <<>>
          /\ DOMAIN t = 1 .. Len(frames) + 1 /\ DOMAIN frames = 1 .. Len(frames) /\ Len(frames) \in Nat
          /\ t[Len(frames) + 1] = g /\ \A i \in 1 .. Len(frames) : t[i] = frames[i]
      BY <1>1, Pushed
    <2>2. frames' = t
      BY <1>3
    <2> HIDE DEF t
    <2>3. \A k \in 1 .. Len(frames) + 1 : k = Len(frames) + 1 \/ k \in 1 .. Len(frames)
      BY <1>1
    <2> QED
      BY <2>1, <2>2, <2>3 DEF Top
  <1>4. CASE /\ Len(frames) # 1
             /\ frames' = [SubSeq(frames, 1, Len(frames) - 1) EXCEPT ![Len(SubSeq(frames, 1, Len(frames) - 1))] = g]
    <2> DEFINE b == SubSeq(frames, 1, Len(frames) - 1)
               t == [b EXCEPT ![Len(b)] = g]
    <2>1. /\ Listed(b) /\ Len(b) = Len(frames) - 1 /\ (b = <<>> <=> Len(frames) = 1)
          /\ DOMAIN b = 1 .. Len(frames) - 1 /\ DOMAIN frames = 1 .. Len(frames) /\ Len(frames) \in Nat \ {0}
          /\ \A i \in 1 .. Len(frames) - 1 : b[i] = frames[i]
      BY <1>1, Popped
    <2>2. frames' = t
      BY <1>4
    <2> HIDE DEF b
    <2>3. /\ Listed(t) /\ Len(t) = Len(b) /\ t # <<>>
          /\ DOMAIN t = 1 .. Len(b) /\ DOMAIN b = 1 .. Len(b) /\ Len(b) \in Nat \ {0}
          /\ t[Len(b)] = g /\ \A i \in 1 .. Len(b) - 1 : t[i] = b[i]
      <3>1. Listed(b) /\ b # <<>>
        BY <1>4, <2>1
      <3> QED
        BY <3>1, Replaced
    <2> HIDE DEF t
    <2>4. \A k \in 1 .. Len(b) : k = Len(b) \/ k \in 1 .. Len(b) - 1
      BY <2>3, LastOrNot
    <2>5. \A k \in 1 .. Len(b) : k \in 1 .. Len(frames) - 1 /\ k \in 1 .. Len(frames)
      BY <1>1, <2>1
    <2> QED
      BY <1>1, <2>1, <2>2, <2>3, <2>4, <2>5 DEF Top
  <1> QED
    BY <1>2, <1>3, <1>4

LEMMA TagTop ==
    ASSUME Ordinary, IInv, TagInv, status = "running",
           NEW g,
           \/ Become(g)
           \/ frames' = Append(frames, g)
           \/ /\ Len(frames) # 1
              /\ frames' = [SubSeq(frames, 1, Len(frames) - 1) EXCEPT ![Len(SubSeq(frames, 1, Len(frames) - 1))] = g],
           TagFrame(g), Ready(g, store', cursor', wire')
    PROVE  TagInv'
  <1>1. /\ Top' = g
        /\ \A k \in DOMAIN frames' : frames'[k] = g \/ (k \in DOMAIN frames /\ frames'[k] = frames[k])
    BY FramesAfter
  <1> QED
    BY <1>1 DEF TagInv

LEMMA TagGo ==
    ASSUME Ordinary, IInv, TagInv, status = "running", UNCHANGED ctl,
           NEW g, Go(g), TagFrame(g), Ready(g, store, cursor, wire)
    PROVE  TagStep
  <1>1. Become(g) /\ store' = store /\ cursor' = cursor /\ wire' = wire
    BY DEF Go, bvars, ctl, msg
  <1>2. TagInv'
    BY <1>1, TagTop
  <1>3. ~(cursor' < cursor)
    BY <1>1, BufferFacts DEF IInv
  <1> QED
    BY <1>2, <1>3 DEF TagStep, PutBackStep

LEMMA TagThrow ==
    ASSUME Ordinary, IInv, TagInv, B!Throw, UNCHANGED frames
    PROVE  TagStep
  <1>1. throwing' /\ cursor' = cursor
    BY DEF B!Throw
  <1>2. ~(cursor' < cursor)
    BY <1>1, BufferFacts DEF IInv
  <1> QED
    BY <1>1, <1>2 DEF TagStep, PutBackStep, TagInv

LEMMA TagFail ==
    ASSUME Ordinary, IInv, TagInv, NEW kind, Fail(kind)
    PROVE  TagStep
  BY TagThrow DEF Fail, B!Raise

LEMMA TagRead ==
    ASSUME Ordinary, IInv, TagInv, status = "running", ~throwing, UNCHANGED ctl,
           NEW n \in Nat, NEW g, Read(n, g),
           ~Lacks(n) => TagFrame(g) /\ Ready(g, store, cursor + n, wire)
    PROVE  TagStep
  <1>1. B!Advance(n, n) /\ BP!IInv
    BY DEF Read, IInv
  <1>2. CASE Lacks(n)
    <2>1. B!Throw /\ UNCHANGED frames
      BY <1>1, <1>2, AdvanceStep DEF Read
    <2> QED
      BY <2>1, TagThrow
  <1>3. CASE ~Lacks(n)
    <2>1. cursor' = cursor + n /\ store' = store /\ wire' = wire /\ Become(g)
      BY <1>1, <1>3, AdvanceStep DEF Read, ctl, msg
    <2>2. ~(cursor' < cursor)
      BY <2>1, BufferFacts DEF IInv
    <2>3. TagInv'
      BY <1>3, <2>1, TagTop
    <2> QED
      BY <2>2, <2>3 DEF TagStep, PutBackStep
  <1> QED
    BY <1>2, <1>3

LEMMA TagPushState ==
    ASSUME Ordinary, IInv, TagInv, status = "running", UNCHANGED ctl, B!PushState,
           NEW g, Become(g), TagFrame(g), Ready(g, IF AtEnd THEN NoState ELSE cursor, cursor, wire)
    PROVE  TagStep
  <1>1. cursor \in Nat /\ end \in Nat
    BY BufferFacts DEF IInv
  <1>2. /\ cursor' = cursor /\ wire' = wire /\ store' = IF AtEnd THEN NoState ELSE cursor
    BY <1>1 DEF B!PushState, AtEnd, ctl, msg
  <1>3. Ready(g, store', cursor', wire')
    BY <1>2
  <1>4. TagInv' /\ ~(cursor' < cursor)
    BY <1>1, <1>2, <1>3, TagTop
  <1> QED
    BY <1>4 DEF TagStep, PutBackStep

\* Tags are the octets they were read from.
LEMMA JustRead ==
    ASSUME Ordinary, IInv, NEW n \in Nat, store = cursor
    PROVE  store # NoState /\ SubSeq(wire, store + 1, cursor + n) = Ahead(n)
  <1>1. cursor \in 0 .. MemSize
    BY BufferFacts DEF IInv
  <1>2. NoState \notin 0 .. MemSize
    BY BufferAssumption DEF B!NoStateAssumption, B!Mem
  <1> QED
    BY <1>1, <1>2 DEF Ahead

-----------------------------------------------------------------------------
(* Frames that need no position.                                           *)

QuietPlaces == InItem \cup {"item", "scan", "found", "complete", "return"}

LEMMA TagCalm ==
    ASSUME NEW g, Keeps(g), g.pc \in QuietPlaces
    PROVE  TagFrame(g) /\ Calm(g)
  BY DEF Keeps, QuietPlaces, InItem, Begun, TagFrame, TagKept, TagPlaces, Calm

LEMMA TagNone ==
    ASSUME NEW g, ~g.vtag.set, g.pc \in QuietPlaces \cup {"field", "arity"}
    PROVE  TagFrame(g) /\ Calm(g)
  BY DEF QuietPlaces, InItem, Begun, TagFrame, TagKept, TagPlaces, Calm

\* The next field, with the tag that the last one has not taken.
LEMMA SkippingTag ==
    ASSUME Ordinary, NEW f, Shape(f), f.open = <<>>, Kind(f.con) = "sequence", f.left \in Nat,
           f.vtag.set => Tagged(Field(f)) /\ (Field(f).multi \/ Field(f).presence = "O")
    PROVE  LET g == Skipping(f)
           IN TagFrame(g) /\ g.vtag = f.vtag /\ g.pc \in {"field", "return"}
  <1> DEFINE g == Skipping(f)
  <1>1. /\ FrameOK(g) /\ Same(f, g) /\ g.out = f.out
        /\ IF f.at = Len(Fields(f.con)) THEN g.pc = "return" /\ g.at = f.at
           ELSE g.pc = "field" /\ g.at = f.at + 1
    BY SkippingOK
  <1>2. f.at \in Nat /\ f.at \in DOMAIN Fields(f.con) /\ f.con \in Containers
    BY ShapeFacts
  <1>3. f.at >= 1
    BY <1>2, ContainerFacts
  <1> HIDE DEF g
  <1>4. g.vtag = f.vtag /\ g.con = f.con /\ g.pc \in {"field", "return"}
    BY <1>1 DEF Same
  <1>5. TagPlaces(g)
    BY <1>4 DEF TagPlaces
  <1>6. TagKept(g)
    <2>1. CASE g.pc = "return"
      BY <2>1 DEF TagKept
    <2>2. CASE g.pc = "field"
      <3>1. g.at = f.at + 1
        BY <1>1, <2>2
      <3>2. g.at > 1 /\ g.at - 1 = f.at
        BY <1>2, <1>3, <3>1
      <3>3. Fields(g.con)[g.at - 1] = Field(f)
        BY <1>4, <3>2 DEF Field
      <3> QED
        BY <1>4, <2>2, <3>2, <3>3 DEF TagKept
    <2> QED
      BY <1>4, <2>1, <2>2
  <1> QED
    BY <1>4, <1>5, <1>6 DEF TagFrame, g

\* The item at hand complete,
LEMMA AfterItemTag ==
    ASSUME Ordinary, NEW f, Shape(f), f.open = <<>>, f.left \in Nat, Keeps(f)
    PROVE  LET g == AfterItem(f) IN TagFrame(g) /\ Calm(g)
  <1>1. Kind(f.con) \in {"sequence", "set", "choice"}
    BY ShapeFacts, ContainerFacts
  <1>2. {"scan", "return", "again", "loop"} \subseteq Places /\ {"scan", "return"} \subseteq QuietPlaces
    BY DEF Places, OfSequences, OfOthers, QuietPlaces
  <1>3. ASSUME NEW p \in {"scan", "return"}, AfterItem(f) = [f EXCEPT !.pc = p]
        PROVE  TagFrame(AfterItem(f)) /\ Calm(AfterItem(f))
    <2> DEFINE h == [f EXCEPT !.pc = p]
    <2>1. Shape(h) /\ Same(f, h) /\ h.pc = p /\ h.at = f.at
      BY <1>2, AtPlace
    <2> HIDE DEF h
    <2>2. Keeps(h)
      BY <2>1 DEF Keeps, Same, Field
    <2>3. h.pc \in QuietPlaces
      BY <1>2, <2>1
    <2> QED
      BY <1>3, <2>2, <2>3, TagCalm DEF h
  <1>4. CASE Kind(f.con) \in {"set", "choice"}
    BY <1>3, <1>4 DEF AfterItem
  <1>5. CASE Kind(f.con) = "sequence" /\ ~Field(f).multi
    <2>1. AfterItem(f) = Skipping(f) /\ ~f.vtag.set
      BY <1>5 DEF AfterItem, Keeps
    <2> DEFINE h == Skipping(f)
    <2>2. TagFrame(h) /\ h.vtag = f.vtag /\ h.pc \in {"field", "return"}
      BY <1>5, <2>1, SkippingTag
    <2> HIDE DEF h
    <2>3. ~h.vtag.set /\ h.pc \in QuietPlaces \cup {"field", "arity"}
      BY <2>1, <2>2 DEF QuietPlaces
    <2> QED
      BY <2>1, <2>3, TagNone DEF h
  <1>6. CASE Kind(f.con) = "sequence" /\ Field(f).multi
    <2> DEFINE p == IF Tagged(Field(f)) THEN "again" ELSE "loop"
               h == [f EXCEPT !.pc = p]
    <2>1. AfterItem(f) = h
      BY <1>6 DEF AfterItem
    <2>2. Shape(h) /\ Same(f, h) /\ h.pc = p /\ h.at = f.at
      BY <1>2, AtPlace
    <2> HIDE DEF h
    <2>3. Field(h) = Field(f) /\ h.vtag = f.vtag
      BY <2>2 DEF Field, Same
    <2> QED
      BY <1>6, <2>1, <2>2, <2>3 DEF Keeps, TagFrame, TagKept, TagPlaces, Calm
  <1> QED
    BY <1>1, <1>4, <1>5, <1>6

LEMMA ClosingTag ==
    ASSUME Ordinary, NEW f, Shape(f), f.left \in Nat, Keeps(f)
    PROVE  LET g == Closing(f) IN TagFrame(g) /\ Calm(g)
  <1>1. CASE f.open = <<>>
    BY <1>1, AfterItemTag DEF Closing
  <1>2. CASE f.open # <<>>
    <2> DEFINE h == [f EXCEPT !.pc = "close"]
    <2>1. Closing(f) = h /\ "close" \in Places /\ "close" \in QuietPlaces
      BY <1>2 DEF Closing, Places, InItem, QuietPlaces
    <2>2. Shape(h) /\ Same(f, h) /\ h.pc = "close" /\ h.at = f.at
      BY <2>1, AtPlace
    <2> HIDE DEF h
    <2>3. Keeps(h) /\ h.pc \in QuietPlaces
      BY <2>1, <2>2 DEF Keeps, Same, Field
    <2>4. TagFrame(h) /\ Calm(h)
      BY <2>3, TagCalm
    <2> QED
      BY <2>1, <2>4
  <1> QED
    BY <1>1, <1>2

LEMMA GotTag ==
    ASSUME Ordinary, NEW f, Shape(f), f.left \in Nat, Keeps(f), NEW v
    PROVE  LET g == Got(f, v) IN TagFrame(g) /\ Calm(g)
  <1> DEFINE h == [f EXCEPT !.out[f.at] = Append(@, v)]
  <1>1. f.con \in Containers /\ f.at \in DOMAIN Fields(f.con)
    BY ShapeFacts
  <1>2. Shape(h) /\ Same(f, h) /\ h.left = f.left /\ h.at = f.at
    BY ShapeFacts DEF Shape, FrameType, Same, Field
  <1>3. Got(f, v) = Closing(h)
    BY <1>1, FieldFacts DEF Got
  <1> HIDE DEF h
  <1>4. Keeps(h) /\ h.left \in Nat
    BY <1>2 DEF Keeps, Same, Field
  <1>5. TagFrame(Closing(h)) /\ Calm(Closing(h))
    BY <1>2, <1>4, ClosingTag
  <1> QED
    BY <1>3, <1>5

\* another step of the item.
LEMMA AtStepTag ==
    ASSUME Ordinary, NEW f, Shape(f), f.left \in Nat, Keeps(f), NEW k \in Nat \ {0}
    PROVE  LET g == AtStep(f, k) IN TagFrame(g) /\ Calm(g)
  <1> DEFINE g == AtStep(f, k)
  <1>1. /\ FrameOK(g) /\ Same(f, g) /\ g.pc \in {"tag", "length", "value"}
        /\ g.at = f.at /\ g.out = f.out /\ g.left = f.left
    BY AtStepOK
  <1> HIDE DEF g
  <1>2. Keeps(g) /\ g.pc \in QuietPlaces
    BY <1>1 DEF Keeps, Same, Field, QuietPlaces, InItem, Begun
  <1>3. TagFrame(g) /\ Calm(g)
    BY <1>2, TagCalm
  <1> QED
    BY <1>3 DEF g

-----------------------------------------------------------------------------
(* Every step keeps the tags: sequences.                                   *)

LEMMA TopTag ==
    ASSUME Ordinary, IInv, TagInv, status = "running"
    PROVE  /\ TagFrame(Top) /\ TagKept(Top) /\ TagPlaces(Top)
           /\ ~throwing => Ready(Top, store, cursor, wire)
  <1>1. Len(frames) \in Nat \ {0} /\ DOMAIN frames = 1 .. Len(frames)
    BY TopFacts
  <1>2. Len(frames) \in DOMAIN frames
    BY <1>1
  <1> QED
    BY <1>2 DEF TagInv, TagFrame, Top

LEMMA QuietGo ==
    ASSUME Ordinary, IInv, TagInv, status = "running", UNCHANGED ctl, NEW g, Go(g), TagFrame(g), Calm(g)
    PROVE  TagStep
  BY CalmReady, TagGo

LEMMA QuietMove ==
    ASSUME Ordinary, IInv, TagInv, status = "running", UNCHANGED ctl, NEW p \in QuietPlaces, Move(p), Keeps(Top)
    PROVE  TagStep
  <1> DEFINE f == Top
             g == [f EXCEPT !.pc = p]
  <1>1. Go(g) /\ Shape(f) /\ Keeps(f)
    BY TopFacts DEF Move
  <1>2. p \in Places
    BY DEF QuietPlaces, Places, OfOthers
  <1> HIDE DEF f
  <1>3. Shape(g) /\ Same(f, g) /\ g.pc = p /\ g.at = f.at
    BY <1>1, <1>2, AtPlace
  <1> HIDE DEF g
  <1>4. Keeps(g) /\ g.pc \in QuietPlaces
    BY <1>1, <1>3 DEF Keeps, Same, Field
  <1>5. TagFrame(g) /\ Calm(g)
    BY <1>4, TagCalm
  <1> QED
    BY <1>1, <1>5, QuietGo

\* The tag goes on to the next field.
LEMMA NextFieldTag ==
    ASSUME Ordinary, IInv, TagInv, NEW p \in OfSequences \ {"quota"}, Here(p), NextField,
           Top.vtag.set => AtHand(Top) /\ Tagged(F) /\ (F.multi \/ F.presence = "O")
    PROVE  TagStep
  <1> DEFINE f == Top
             g == Skipping(f)
  <1>1. /\ status = "running" /\ ~throwing /\ UNCHANGED ctl
        /\ Shape(f) /\ F = Field(f) /\ f.open = <<>> /\ f.left \in Nat /\ Kind(f.con) = "sequence"
    BY AtPlaceOfSequence
  <1>2. Go(g)
    BY DEF NextField
  <1>3. f.vtag.set => AtHand(f) /\ Tagged(Field(f)) /\ (Field(f).multi \/ Field(f).presence = "O")
    BY <1>1
  <1>4. Ready(f, store, cursor, wire)
    BY <1>1, TopTag
  <1> HIDE DEF f
  <1>5. TagFrame(g) /\ g.vtag = f.vtag /\ g.pc \in {"field", "return"}
    BY <1>1, <1>3, SkippingTag
  <1> HIDE DEF g
  <1>6. Ready(g, store, cursor, wire)
    BY <1>3, <1>4, <1>5 DEF Ready, AtHand
  <1> QED
    BY <1>1, <1>2, <1>5, <1>6, TagGo

\* The field decides what becomes of the tag: it goes on with it, or gives it back.
LEMMA FirstStepTag ==
    ASSUME Ordinary, NoGap, IInv, TagInv, Here("field")
    PROVE  /\ FirstStep \in {"match", "ahead", "count", "loop", "more", "item"}
           /\ FirstStep \in {"match", "ahead"} => F.multi \/ F.presence = "O"
           /\ FirstStep = "match" => Top.vtag.set
           /\ FirstStep = "ahead" => ~Top.vtag.set
           /\ FirstStep \in {"count", "loop", "more"} => ~(Tagged(F) /\ F.multi)
           /\ Top.vtag.set => Discards \/ FirstStep = "match"
           /\ Top.vtag.set /\ Discards => FirstStep # "match"
  <1> DEFINE f == Top
  <1>1. "field" \in OfSequences
    BY DEF OfSequences
  <1>2. /\ status = "running" /\ f.pc = "field" /\ Shape(f) /\ F = Field(f)
        /\ Kind(f.con) = "sequence" /\ GoodField(F)
    BY <1>1, AtPlaceOfSequence
  <1>3. TagKept(f)
    BY <1>2, TopTag
  <1>4. f.con \in Containers /\ f.at \in DOMAIN Fields(f.con)
    BY <1>2, ShapeFacts
  <1>5. F.presence \in {"M", "O"}
    BY <1>2 DEF GoodField
  <1>6. ASSUME f.vtag.set
        PROVE  /\ Discards \/ FirstStep = "match"
               /\ Discards => FirstStep # "match"
    <2> DEFINE P == Fields(f.con)[f.at - 1]
    <2>1. f.at > 1 /\ Tagged(P) /\ (P.multi \/ P.presence = "O")
      BY <1>2, <1>3, <1>6 DEF TagKept
    <2>2. P.multi /\ Tagged(P) /\ P.presence = "M" => F.multi \/ (Tagged(F) /\ F.presence = "O")
      <3>1. f.at \in DOMAIN Fields(f.con) \ {1}
        BY <1>4, <2>1
      <3> HIDE DEF f
      <3> QED
        BY <1>2, <1>4, <3>1 DEF NoGap, Field
    <2>3. P.presence \in {"M", "O"}
      <3>1. f.at - 1 \in DOMAIN Fields(f.con)
        BY <1>4, <2>1, ContainerFacts
      <3> HIDE DEF f
      <3> QED
        BY <1>4, <3>1, FieldFacts DEF GoodField
    <2>4. Discards <=> IF F.multi THEN ~Tagged(F) ELSE P.presence = "O" /\ (F.presence = "M" \/ ~Tagged(F))
      BY <2>1 DEF Discards
    <2> HIDE DEF P, f
    <2> QED
      BY <1>5, <1>6, <2>1, <2>2, <2>3, <2>4 DEF FirstStep, f
  <1> QED
    BY <1>5, <1>6 DEF FirstStep

LEMMA EnterFieldTag ==
    ASSUME Ordinary, NoGap, IInv, TagInv, EnterField
    PROVE  TagStep
  <1> DEFINE f == Top
             p == FirstStep
  <1>1. Here("field") /\ "field" \in OfSequences
    BY DEF EnterField, OfSequences
  <1>2. /\ status = "running" /\ ~throwing /\ UNCHANGED ctl /\ f.pc = "field"
        /\ Shape(f) /\ F = Field(f) /\ f.open = <<>> /\ f.left \in Nat /\ Kind(f.con) = "sequence"
    BY <1>1, AtPlaceOfSequence
  <1>3. /\ p \in {"match", "ahead", "count", "loop", "more", "item"}
        /\ p \in {"match", "ahead"} => F.multi \/ F.presence = "O"
        /\ p = "match" => f.vtag.set
        /\ p = "ahead" => ~f.vtag.set
        /\ p \in {"count", "loop", "more"} => ~(Tagged(F) /\ F.multi)
        /\ f.vtag.set => Discards \/ p = "match"
        /\ f.vtag.set /\ Discards => p # "match"
    BY <1>1, FirstStepTag
  <1>4. Ready(f, store, cursor, wire)
    BY <1>2, TopTag
  <1>5. p \in Places
    BY <1>3 DEF Places, OfSequences
  <1>6. CASE Discards /\ f.vtag.set
    <2> DEFINE g == [f EXCEPT !.vtag = Cleared(@), !.pc = p]
    <2>1. B!PopState /\ Become(g)
      BY <1>6 DEF EnterField
    <2> HIDE DEF f, p
    <2>2. /\ Shape(g) /\ g.con = f.con /\ g.pc = p /\ g.at = f.at /\ g.vtag.set = FALSE
      BY <1>2, <1>5, ClearedOK
    <2> HIDE DEF g
    <2>3. Field(g) = F
      BY <1>2, <2>2 DEF Field
    <2>4. TagFrame(g) /\ Calm(g)
      BY <1>3, <1>6, <2>2, <2>3 DEF TagFrame, TagKept, TagPlaces, Calm
    <2>5. store # NoState /\ SubSeq(wire, store + 1, cursor) = f.vtag.val
      BY <1>2, <1>4, <1>6 DEF Ready, AtHand
    <2>6. cursor' = store
      BY <2>1, <2>5 DEF B!PopState
    <2>7. TagInv'
      BY <1>2, <2>1, <2>4, CalmReady, TagTop
    <2> QED
      BY <2>5, <2>6, <2>7 DEF TagStep, PutBackStep, f
  <1>7. CASE ~(Discards /\ f.vtag.set)
    <2> DEFINE g == [f EXCEPT !.pc = p]
    <2>1. Go(g)
      BY <1>7 DEF EnterField, Move
    <2> HIDE DEF f, p
    <2>2. Shape(g) /\ Same(f, g) /\ g.pc = p /\ g.at = f.at
      BY <1>2, <1>5, AtPlace
    <2> HIDE DEF g
    <2>3. Field(g) = F /\ g.vtag = f.vtag /\ Kind(g.con) = "sequence"
      BY <1>2, <2>2 DEF Field, Same
    <2>4. TagFrame(g)
      BY <1>3, <1>7, <2>2, <2>3 DEF TagFrame, TagKept, TagPlaces
    <2>5. Ready(g, store, cursor, wire)
      BY <1>2, <1>3, <1>4, <1>7, <2>2, <2>3 DEF Ready, AtHand
    <2> QED
      BY <1>2, <2>1, <2>4, <2>5, TagGo
  <1> QED
    BY <1>6, <1>7

\* A place of the same field, at which the tag is compared.
LEMMA ComparingTag ==
    ASSUME NEW f, Shape(f), Field(f).multi \/ Field(f).presence = "O", f.vtag.set => Tagged(Field(f)) /\ Field(f).multi,
           Kind(f.con) = "sequence", NEW p \in {"peek", "match"}
    PROVE  LET g == [f EXCEPT !.pc = p]
           IN TagFrame(g) /\ g.pc = p /\ g.vtag = f.vtag /\ g.con = f.con
  <1> DEFINE g == [f EXCEPT !.pc = p]
  <1>1. p \in Places
    BY DEF Places, OfSequences
  <1>2. Shape(g) /\ Same(f, g) /\ g.pc = p /\ g.at = f.at
    BY <1>1, AtPlace
  <1> HIDE DEF g
  <1>3. Field(g) = Field(f) /\ g.vtag = f.vtag /\ g.con = f.con
    BY <1>2 DEF Field, Same
  <1>4. TagFrame(g)
    BY <1>2, <1>3 DEF TagFrame, TagKept, TagPlaces
  <1> QED
    BY <1>2, <1>3, <1>4 DEF g

LEMMA LookAheadTag ==
    ASSUME Ordinary, IInv, TagInv, LookAhead
    PROVE  TagStep
  <1> DEFINE f == Top
  <1>1. Here("ahead") /\ "ahead" \in OfSequences /\ B!PushState
    BY DEF LookAhead, OfSequences
  <1>2. /\ status = "running" /\ ~throwing /\ UNCHANGED ctl /\ f.pc = "ahead"
        /\ Shape(f) /\ F = Field(f) /\ f.open = <<>> /\ f.left \in Nat /\ Kind(f.con) = "sequence"
    BY <1>1, AtPlaceOfSequence
  <1>3. ~f.vtag.set /\ (Field(f).multi \/ Field(f).presence = "O")
    BY <1>2, TopTag DEF TagPlaces
  <1>4. \/ ~AtEnd /\ Become([f EXCEPT !.pc = "peek"])
        \/ AtEnd /\ (Become([f EXCEPT !.pc = "match"]) \/ Become(Skipping(f)))
    BY DEF LookAhead, Goto
  <1> HIDE DEF f
  <1>5. CASE ~AtEnd /\ Become([f EXCEPT !.pc = "peek"])
    <2> DEFINE g == [f EXCEPT !.pc = "peek"]
    <2>1. TagFrame(g) /\ g.pc = "peek" /\ g.vtag = f.vtag /\ g.con = f.con
      BY <1>2, <1>3, ComparingTag
    <2>2. Become(g)
      BY <1>5
    <2> HIDE DEF g
    <2>3. Ready(g, IF AtEnd THEN NoState ELSE cursor, cursor, wire)
      BY <1>5, <2>1 DEF Ready, AtHand
    <2> QED
      BY <1>1, <1>2, <2>1, <2>2, <2>3, TagPushState
  <1>6. CASE Become([f EXCEPT !.pc = "match"])
    <2> DEFINE g == [f EXCEPT !.pc = "match"]
    <2>1. TagFrame(g) /\ g.pc = "match" /\ g.vtag = f.vtag /\ g.con = f.con
      BY <1>2, <1>3, ComparingTag
    <2>2. Become(g)
      BY <1>6
    <2> HIDE DEF g
    <2>3. Ready(g, IF AtEnd THEN NoState ELSE cursor, cursor, wire)
      BY <1>3, <2>1 DEF Ready, AtHand
    <2> QED
      BY <1>1, <1>2, <2>1, <2>2, <2>3, TagPushState
  <1>7. CASE Become(Skipping(f))
    <2> DEFINE g == Skipping(f)
    <2>1. TagFrame(g) /\ g.vtag = f.vtag /\ g.pc \in {"field", "return"}
      BY <1>2, <1>3, SkippingTag
    <2>2. Become(g)
      BY <1>7
    <2> HIDE DEF g
    <2>3. Ready(g, IF AtEnd THEN NoState ELSE cursor, cursor, wire)
      BY <1>3, <2>1 DEF Ready, AtHand
    <2> QED
      BY <1>1, <1>2, <2>1, <2>2, <2>3, TagPushState
  <1> QED
    BY <1>4, <1>5, <1>6, <1>7

LEMMA LookAgainTag ==
    ASSUME Ordinary, IInv, TagInv, LookAgain
    PROVE  TagStep
  <1> DEFINE f == Top
  <1>1. Here("again") /\ "again" \in OfSequences /\ B!PushState
    BY DEF LookAgain, OfSequences
  <1>2. /\ status = "running" /\ ~throwing /\ UNCHANGED ctl /\ f.pc = "again"
        /\ Shape(f) /\ F = Field(f) /\ f.open = <<>> /\ f.left \in Nat /\ Kind(f.con) = "sequence"
    BY <1>1, AtPlaceOfSequence
  <1>3. (f.vtag.set => Tagged(Field(f)) /\ Field(f).multi) /\ (Field(f).multi \/ Field(f).presence = "O")
    BY <1>2, TopTag DEF TagPlaces, TagKept
  <1>4. \/ ~AtEnd /\ Become([f EXCEPT !.pc = "peek"])
        \/ AtEnd /\ Become([f EXCEPT !.vtag = Cleared(@), !.pc = "arity"])
    BY DEF LookAgain, Goto
  <1> HIDE DEF f
  <1>5. CASE ~AtEnd /\ Become([f EXCEPT !.pc = "peek"])
    <2> DEFINE g == [f EXCEPT !.pc = "peek"]
    <2>1. TagFrame(g) /\ g.pc = "peek" /\ g.vtag = f.vtag /\ g.con = f.con
      BY <1>2, <1>3, ComparingTag
    <2>2. Become(g)
      BY <1>5
    <2> HIDE DEF g
    <2>3. Ready(g, IF AtEnd THEN NoState ELSE cursor, cursor, wire)
      BY <1>5, <2>1 DEF Ready, AtHand
    <2> QED
      BY <1>1, <1>2, <2>1, <2>2, <2>3, TagPushState
  <1>6. CASE Become([f EXCEPT !.vtag = Cleared(@), !.pc = "arity"])
    <2> DEFINE g == [f EXCEPT !.vtag = Cleared(@), !.pc = "arity"]
    <2>1. "arity" \in Places
      BY DEF Places, OfSequences
    <2>2. g.vtag.set = FALSE /\ g.pc = "arity"
      BY <1>2, <2>1, ClearedOK
    <2>3. Become(g)
      BY <1>6
    <2> HIDE DEF g
    <2>4. TagFrame(g) /\ Calm(g)
      BY <2>2, TagNone
    <2>5. Ready(g, IF AtEnd THEN NoState ELSE cursor, cursor, wire)
      BY <2>4, CalmReady
    <2> QED
      BY <1>1, <1>2, <2>3, <2>4, <2>5, TagPushState
  <1> QED
    BY <1>4, <1>5, <1>6

LEMMA PeekTag ==
    ASSUME Ordinary, IInv, TagInv, Peek
    PROVE  TagStep
  <1> DEFINE f == Top
             n == Len(F.meta[1].of)
             v == Ahead(n)
             g == [f EXCEPT !.vtag = [set |-> TRUE, val |-> v], !.pc = "match"]
  <1>1. Here("peek") /\ "peek" \in OfSequences /\ Read(n, g)
    BY DEF Peek, OfSequences
  <1>2. /\ status = "running" /\ ~throwing /\ UNCHANGED ctl /\ f.pc = "peek"
        /\ Shape(f) /\ F = Field(f) /\ Kind(f.con) = "sequence" /\ Tagged(F)
    BY <1>1, AtPlaceOfSequence
  <1>3. n \in Nat
    BY <1>2, TagSize
  <1>4. (Field(f).multi \/ Field(f).presence = "O") /\ store = cursor
    BY <1>2, TopTag DEF TagPlaces, Ready
  <1>5. store # NoState /\ SubSeq(wire, store + 1, cursor + n) = v
    BY <1>3, <1>4, JustRead
  <1> HIDE DEF f, n, v
  <1>6. f \in FrameType(f)
    BY <1>2, ShapeFacts
  <1>7. g.con = f.con /\ g.at = f.at /\ g.pc = "match" /\ g.vtag.val = v /\ g.vtag.set
    BY <1>6 DEF FrameType
  <1> HIDE DEF g
  <1>8. Field(g) = Field(f)
    BY <1>7 DEF Field
  <1>9. TagFrame(g)
    BY <1>4, <1>7, <1>8 DEF TagFrame, TagKept, TagPlaces
  <1>10. Ready(g, store, cursor + n, wire)
    BY <1>5, <1>7 DEF Ready, AtHand
  <1> QED
    BY <1>1, <1>2, <1>3, <1>9, <1>10, TagRead

LEMMA MatchTag ==
    ASSUME Ordinary, IInv, TagInv, Match
    PROVE  TagStep
  <1> DEFINE f == Top
             g == [f EXCEPT !.vtag = Cleared(@), !.pc = "item"]
             h == [f EXCEPT !.pc = "arity"]
  <1>1. Here("match") /\ "match" \in OfSequences \ {"quota"}
    BY DEF Match, OfSequences
  <1>2. /\ status = "running" /\ ~throwing /\ UNCHANGED ctl /\ f.pc = "match"
        /\ Shape(f) /\ F = Field(f) /\ Kind(f.con) = "sequence" /\ Tagged(F)
    BY <1>1, AtPlaceOfSequence
  <1>3. (F.multi \/ F.presence = "O") /\ Ready(f, store, cursor, wire)
    BY <1>2, TopTag DEF TagPlaces
  <1>4. {"arity", "item"} \subseteq Places /\ "item" \in QuietPlaces
    BY DEF Places, OfSequences, QuietPlaces
  <1>5. CASE F.multi /\ Go(h)
    <2> HIDE DEF f
    <2>1. Shape(h) /\ Same(f, h) /\ h.pc = "arity" /\ h.at = f.at
      BY <1>2, <1>4, AtPlace
    <2> HIDE DEF h
    <2>2. h.vtag = f.vtag /\ Field(h) = F /\ Kind(h.con) = "sequence"
      BY <1>2, <2>1 DEF Same, Field
    <2>3. TagFrame(h) /\ Ready(h, store, cursor, wire)
      BY <1>2, <1>3, <1>5, <2>1, <2>2 DEF TagFrame, TagKept, TagPlaces, Ready, AtHand
    <2> QED
      BY <1>2, <1>5, <2>3, TagGo
  <1>6. CASE ~F.multi /\ NextField
    <2>1. f.vtag.set => AtHand(f)
      BY <1>2 DEF AtHand
    <2> QED
      BY <1>1, <1>2, <1>3, <1>6, <2>1, NextFieldTag
  <1>7. CASE F.multi /\ Move("item")
    <2>1. Keeps(f)
      BY <1>2, <1>7 DEF Keeps
    <2> QED
      BY <1>2, <1>4, <1>7, <2>1, QuietMove
  <1>8. CASE Go(g)
    <2> HIDE DEF f
    <2>1. g.vtag.set = FALSE /\ g.pc = "item"
      <3>1. Shape(f) /\ "item" \in Places
        BY <1>2, <1>4
      <3> QED
        BY <3>1, ClearedOK
    <2> HIDE DEF g
    <2>2. TagFrame(g) /\ Calm(g)
      BY <1>4, <2>1, TagNone
    <2> QED
      BY <1>2, <1>8, <2>2, QuietGo
  <1> QED
    BY <1>5, <1>6, <1>7, <1>8 DEF Match, Move

\* At the places of the other fields no tag is kept.
LEMMA MoreTag ==
    ASSUME Ordinary, IInv, TagInv, More
    PROVE  TagStep
  <1>1. Here("more") /\ "more" \in OfSequences \ {"quota"} /\ "item" \in QuietPlaces
    BY DEF More, OfSequences, QuietPlaces
  <1>2. status = "running" /\ ~throwing /\ UNCHANGED ctl /\ Top.pc = "more" /\ F = Field(Top)
    BY <1>1, AtPlaceOfSequence
  <1>3. ~Top.vtag.set
    BY <1>2, TopTag DEF TagKept, TagPlaces
  <1>4. CASE Move("item")
    BY <1>1, <1>2, <1>3, <1>4, QuietMove DEF Keeps
  <1>5. CASE NextField
    BY <1>1, <1>3, <1>5, NextFieldTag
  <1> QED
    BY <1>4, <1>5 DEF More

LEMMA ReadCountTag ==
    ASSUME Ordinary, IInv, TagInv, ReadCount
    PROVE  TagStep
  <1> DEFINE f == Top
             g(n) == [f EXCEPT !.left = n, !.pc = "quota"]
             m == Number(Ahead(F.counter))
             k == Callback(F.countOf, f.out)
  <1>1. Here("count") /\ "count" \in OfSequences
    BY DEF ReadCount, OfSequences
  <1>2. /\ status = "running" /\ ~throwing /\ UNCHANGED ctl /\ f.pc = "count"
        /\ Shape(f) /\ Kind(f.con) = "sequence" /\ F = Field(f) /\ GoodField(F)
    BY <1>1, AtPlaceOfSequence
  <1>3. F.counter \in Nat /\ (Read(F.counter, g(m)) \/ Go(g(k)))
    BY <1>2 DEF ReadCount, GoodField
  <1>4. ~f.vtag.set /\ ~(Tagged(Field(f)) /\ Field(f).multi)
    BY <1>2, TopTag DEF TagKept, TagPlaces
  <1> HIDE DEF f, m, k
  <1>5. ASSUME NEW n PROVE TagFrame(g(n)) /\ Calm(g(n))
    <2> DEFINE h == g(n)
    <2>1. f \in FrameType(f)
      BY <1>2, ShapeFacts
    <2>2. h.con = f.con /\ h.at = f.at /\ h.pc = "quota" /\ h.vtag = f.vtag
      BY <2>1 DEF FrameType
    <2> HIDE DEF h
    <2>3. Field(h) = Field(f)
      BY <2>2 DEF Field
    <2>4. TagFrame(h) /\ Calm(h)
      BY <1>4, <2>2, <2>3 DEF TagFrame, TagKept, TagPlaces, Calm
    <2> QED
      BY <2>4 DEF h
  <1> HIDE DEF g
  <1>6. CASE Read(F.counter, g(m))
    BY <1>2, <1>3, <1>5, <1>6, CalmReady, TagRead
  <1>7. CASE Go(g(k))
    BY <1>2, <1>5, <1>7, QuietGo
  <1> QED
    BY <1>3, <1>6, <1>7

LEMMA QuotaTag ==
    ASSUME Ordinary, IInv, TagInv, Quota
    PROVE  TagStep
  <1> DEFINE f == Top
             g == [f EXCEPT !.pc = "loop"]
  <1>1. Here("quota") /\ "quota" \in OfSequences
    BY DEF Quota, OfSequences
  <1>2. status = "running" /\ ~throwing /\ UNCHANGED ctl /\ f.pc = "quota" /\ Shape(f)
    BY <1>1, AtPlaceOfSequence
  <1>3. ~f.vtag.set /\ ~(Tagged(Field(f)) /\ Field(f).multi)
    BY <1>2, TopTag DEF TagKept, TagPlaces
  <1>4. CASE Go(g)
    <2> HIDE DEF f
    <2>1. "loop" \in Places
      BY DEF Places, OfSequences
    <2>2. Shape(g) /\ Same(f, g) /\ g.pc = "loop" /\ g.at = f.at
      BY <1>2, <2>1, AtPlace
    <2> HIDE DEF g
    <2>3. Field(g) = Field(f) /\ g.vtag = f.vtag
      BY <2>2 DEF Field, Same
    <2>4. TagFrame(g) /\ Calm(g)
      BY <1>3, <2>2, <2>3 DEF TagFrame, TagKept, TagPlaces, Calm
    <2> QED
      BY <1>2, <1>4, <2>4, QuietGo
  <1> QED
    BY <1>4, TagFail DEF Quota, Move

LEMMA LoopTag ==
    ASSUME Ordinary, IInv, TagInv, Loop
    PROVE  TagStep
  <1> DEFINE f == Top
             g == [f EXCEPT !.left = @ - 1, !.pc = "item"]
             h == [f EXCEPT !.pc = "arity"]
  <1>1. Here("loop") /\ "loop" \in OfSequences \ {"quota"}
    BY DEF Loop, OfSequences
  <1>2. status = "running" /\ ~throwing /\ UNCHANGED ctl /\ f.pc = "loop" /\ Shape(f)
    BY <1>1, AtPlaceOfSequence
  <1>3. ~f.vtag.set
    BY <1>2, TopTag DEF TagKept, TagPlaces
  <1>4. f \in FrameType(f)
    BY <1>2, ShapeFacts
  <1>5. Go(g) \/ NextField \/ Move("item") \/ Go(h)
    BY DEF Loop, Move
  <1>6. CASE NextField
    BY <1>1, <1>3, <1>6, NextFieldTag
  <1>7. CASE Move("item")
    <2>1. "item" \in QuietPlaces
      BY DEF QuietPlaces
    <2> QED
      BY <1>2, <1>3, <1>7, <2>1, QuietMove DEF Keeps
  <1> HIDE DEF f
  <1>8. CASE Go(g)
    <2>1. g.pc = "item" /\ g.vtag = f.vtag
      BY <1>4 DEF FrameType
    <2> HIDE DEF g
    <2>2. TagFrame(g) /\ Calm(g)
      BY <1>3, <2>1, TagNone DEF QuietPlaces
    <2> QED
      BY <1>2, <1>8, <2>2, QuietGo
  <1>9. CASE Go(h)
    <2>1. h.pc = "arity" /\ h.vtag = f.vtag
      BY <1>4 DEF FrameType
    <2> HIDE DEF h
    <2>2. TagFrame(h) /\ Calm(h)
      BY <1>3, <2>1, TagNone
    <2> QED
      BY <1>2, <1>9, <2>2, QuietGo
  <1> QED
    BY <1>5, <1>6, <1>7, <1>8, <1>9

LEMMA CheckArityTag ==
    ASSUME Ordinary, IInv, TagInv, CheckArity
    PROVE  TagStep
  <1>1. Here("arity") /\ "arity" \in OfSequences \ {"quota"}
    BY DEF CheckArity, OfSequences
  <1>2. status = "running" /\ Top.pc = "arity" /\ F = Field(Top)
    BY <1>1, AtPlaceOfSequence
  <1>3. Top.vtag.set => AtHand(Top) /\ Tagged(F) /\ (F.multi \/ F.presence = "O")
    BY <1>2, TopTag DEF TagKept, AtHand
  <1> QED
    BY <1>1, <1>3, NextFieldTag, TagFail DEF CheckArity

-----------------------------------------------------------------------------
(* ... sets and choices.                                                   *)

LEMMA ScanTag ==
    ASSUME Ordinary, IInv, TagInv, Scan
    PROVE  TagStep
  <1> DEFINE f == Top
             p == IF AtEnd THEN "complete" ELSE "header"
             g == [f EXCEPT !.pc = p]
  <1>1. Here("scan") /\ "scan" \in OfOthers
    BY DEF Scan, OfOthers
  <1>2. status = "running" /\ ~throwing /\ UNCHANGED ctl /\ f.pc = "scan" /\ Shape(f) /\ ~f.vtag.set
    BY <1>1, AtPlaceOfOther
  <1>3. B!PushState /\ Become(g) /\ f \in FrameType(f)
    BY <1>2, ShapeFacts DEF Scan, Goto
  <1> HIDE DEF f
  <1>4. g.pc = p /\ g.vtag = f.vtag
    BY <1>3 DEF FrameType
  <1> HIDE DEF g
  <1>5. TagFrame(g)
    BY <1>2, <1>4 DEF TagFrame, TagKept, TagPlaces
  <1>6. Ready(g, IF AtEnd THEN NoState ELSE cursor, cursor, wire)
    BY <1>2, <1>4 DEF Ready, AtHand
  <1> QED
    BY <1>2, <1>3, <1>5, <1>6, TagPushState

\* A container that begins has read no tag.
LEMMA FreshTag ==
    ASSUME NEW g, ~g.vtag.set, g.pc \in {"field", "scan", "header"}, g.pc = "header" => Kind(g.con) # "set"
    PROVE  TagFrame(g) /\ \A s, c, w : Ready(g, s, c, w)
  BY DEF TagFrame, TagKept, TagPlaces, Ready, AtHand

LEMMA PushFrame ==
    ASSUME Ordinary, IInv, TagInv, status = "running", UNCHANGED bvars,
           NEW g, frames' = Append(frames, g), ~g.vtag.set, g.pc \in {"field", "scan", "header"},
           g.pc = "header" => Kind(g.con) # "set"
    PROVE  TagStep
  <1>1. TagFrame(g) /\ Ready(g, store', cursor', wire')
    BY FreshTag
  <1>2. TagInv'
    BY <1>1, TagTop
  <1>3. ~(cursor' < cursor)
    BY BufferFacts DEF IInv, bvars
  <1> QED
    BY <1>2, <1>3 DEF TagStep, PutBackStep

LEMMA ReadHeaderTag ==
    ASSUME Ordinary, IInv, TagInv, ReadHeader
    PROVE  TagStep
  <1> DEFINE f == Top
             D == Types[f.con]
  <1>1. Here("header") /\ "header" \in OfOthers
    BY DEF ReadHeader, OfOthers
  <1>2. /\ status = "running" /\ ~throwing /\ UNCHANGED ctl /\ f.pc = "header"
        /\ Shape(f) /\ f.con \in Containers /\ Kind(f.con) \in {"set", "choice"} /\ ~f.vtag.set
    BY <1>1, AtPlaceOfOther
  <1>3. GoodContainer(D) /\ D.fields = Fields(f.con) /\ Kind(f.con) = D.kind /\ 1 \in DOMAIN Fields(f.con)
    BY <1>2, ContainerFacts DEF Fields, Kind
  <1>4. CASE HasHeader(D)
    <2> DEFINE ty == D.header
               g == Frame(ty)
    <2>1. ty \in Containers
      BY <1>3, <1>4 DEF GoodContainer, HasHeader
    <2>2. UNCHANGED bvars /\ frames' = Append(frames, g)
      BY <1>4 DEF ReadHeader
    <2> HIDE DEF f, D, ty
    <2>3. /\ FrameOK(g) /\ g.con = ty /\ g.begin = cursor /\ g.open = <<>> /\ ~g.vtag.set
          /\ g.pc = (IF Kind(ty) = "sequence" THEN "field" ELSE IF Kind(ty) = "set" THEN "scan" ELSE "header")
      BY <2>1, FrameOKOf
    <2> HIDE DEF g
    <2> QED
      BY <1>2, <2>2, <2>3, PushFrame
  <1>5. CASE ~HasHeader(D)
    <2> DEFINE n == Len(Fields(f.con)[1].meta[1].of)
               v == Ahead(n)
               g == [f EXCEPT !.vtag.val = v, !.pc = "find"]
    <2>1. n \in Nat
      <3>1. 1 \in CasesOf(D)
        BY <1>3, <1>5 DEF CasesOf
      <3>2. Tagged(Fields(f.con)[1])
        BY <1>2, <1>3, <3>1 DEF GoodContainer, GoodCases
      <3>3. /\ GoodField(Fields(f.con)[1])
            /\ Len(Fields(f.con)[1].meta) \in Nat /\ DOMAIN Fields(f.con)[1].meta = 1 .. Len(Fields(f.con)[1].meta)
            /\ \A k \in DOMAIN Fields(f.con)[1].meta : Len(Fields(f.con)[1].meta[k].of) \in Nat
        BY <1>2, <1>3, FieldFacts
      <3>4. Len(Fields(f.con)[1].meta) # 0
        BY <3>2, <3>3, ListedFacts DEF Tagged, GoodField
      <3> QED
        BY <3>3, <3>4, SMTT(60)
    <2>2. Read(n, g)
      BY <1>5 DEF ReadHeader
    <2>3. Kind(f.con) = "set" => store = cursor
      BY <1>2, TopTag DEF Ready
    <2>4. store = cursor => store # NoState /\ SubSeq(wire, store + 1, cursor + n) = v
      BY <2>1, JustRead
    <2> HIDE DEF f, n, v
    <2>5. f \in FrameType(f)
      BY <1>2, ShapeFacts
    <2>6. g.con = f.con /\ g.pc = "find" /\ g.vtag.set = f.vtag.set /\ g.vtag.val = v
      BY <2>5 DEF FrameType
    <2> HIDE DEF g
    <2>7. TagFrame(g)
      BY <1>2, <2>6 DEF TagFrame, TagKept, TagPlaces
    <2>8. Ready(g, store, cursor + n, wire)
      BY <1>2, <2>3, <2>4, <2>6 DEF Ready, AtHand
    <2> QED
      BY <1>2, <2>1, <2>2, <2>7, <2>8, TagRead
  <1> QED
    BY <1>4, <1>5

LEMMA FindTag ==
    ASSUME Ordinary, IInv, TagInv, Find
    PROVE  TagStep
  <1> DEFINE f == Top
             i == TheCase
             g == [f EXCEPT !.at = i, !.pc = "found"]
  <1>1. Here("find") /\ "find" \in OfOthers
    BY DEF Find, OfOthers
  <1>2. /\ status = "running" /\ ~throwing /\ UNCHANGED ctl /\ f.pc = "find"
        /\ Shape(f) /\ f.open = <<>> /\ f.left \in Nat
        /\ f.con \in Containers /\ Kind(f.con) \in {"set", "choice"} /\ ~f.vtag.set
    BY <1>1, AtPlaceOfOther
  <1>3. Ready(f, store, cursor, wire)
    BY <1>2, TopTag
  <1>4. CASE Fail("unknown_tag")
    BY <1>4, TagFail
  <1>5. CASE Cases # {} /\ ((PutBack /\ B!PopState /\ Become(g)) \/ Go(g))
    <2>1. i \in DOMAIN Fields(f.con)
      BY <1>2, <1>5, TheCaseFacts
    <2>2. PutBack => Kind(f.con) = "set"
      BY DEF PutBack
    <2> HIDE DEF f, i
    <2>3. /\ FrameOK(g) /\ Same(f, g) /\ g.pc = "found" /\ g.at = i /\ g.out = f.out
      BY <1>2, <2>1, FoundAt
    <2> HIDE DEF g
    <2>4. TagFrame(g) /\ Calm(g)
      BY <1>2, <2>3, TagNone DEF Same, QuietPlaces
    <2>5. CASE Go(g)
      BY <1>2, <2>4, <2>5, QuietGo
    <2>6. CASE PutBack /\ B!PopState /\ Become(g)
      <3>1. store # NoState /\ SubSeq(wire, store + 1, cursor) = f.vtag.val
        BY <1>2, <1>3, <2>2, <2>6 DEF Ready, AtHand
      <3>2. cursor' = store
        BY <2>6, <3>1 DEF B!PopState
      <3>3. TagInv'
        BY <1>2, <2>4, <2>6, CalmReady, TagTop
      <3> QED
        BY <3>1, <3>2, <3>3 DEF TagStep, PutBackStep, f
    <2> QED
      BY <1>5, <2>5, <2>6
  <1> QED
    BY <1>4, <1>5 DEF Find

LEMMA FoundTag ==
    ASSUME Ordinary, IInv, TagInv, Found
    PROVE  TagStep
  <1>1. Here("found") /\ "found" \in OfOthers /\ "item" \in QuietPlaces
    BY DEF Found, OfOthers, QuietPlaces
  <1>2. status = "running" /\ UNCHANGED ctl /\ ~Top.vtag.set
    BY <1>1, AtPlaceOfOther
  <1> QED
    BY <1>1, <1>2, QuietMove, TagFail DEF Found, Keeps

LEMMA CompleteTag ==
    ASSUME Ordinary, IInv, TagInv, Complete
    PROVE  TagStep
  <1>1. Here("complete") /\ "complete" \in OfOthers /\ "return" \in QuietPlaces
    BY DEF Complete, OfOthers, QuietPlaces
  <1>2. status = "running" /\ UNCHANGED ctl /\ ~Top.vtag.set
    BY <1>1, AtPlaceOfOther
  <1>3. Move("return") \/ \E kind : Fail(kind)
    BY DEF Complete
  <1> QED
    BY <1>1, <1>2, <1>3, QuietMove, TagFail DEF Keeps

-----------------------------------------------------------------------------
(* ... and in an item.                                                     *)

LEMMA TopKeeps ==
    ASSUME Ordinary, IInv, TagInv, NEW p \in InItem \cup {"item"}, Here(p)
    PROVE  Keeps(Top) /\ status = "running" /\ ~throwing
  <1>1. status = "running" /\ ~throwing /\ Top.pc = p
    BY AtPlaceInItem
  <1>2. TagKept(Top)
    BY <1>1, TopTag
  <1> QED
    BY <1>1, <1>2 DEF Keeps, TagKept, InItem, Begun

\* Whatever the buffer does, as long as it does not go back.
LEMMA QuietStep ==
    ASSUME Ordinary, IInv, TagInv, status = "running", NEW g, Become(g), TagFrame(g), Calm(g), cursor' = cursor
    PROVE  TagStep
  <1>1. Ready(g, store', cursor', wire')
    BY CalmReady
  <1>2. TagInv'
    BY <1>1, TagTop
  <1>3. ~(cursor' < cursor)
    BY BufferFacts DEF IInv
  <1> QED
    BY <1>2, <1>3 DEF TagStep, PutBackStep

LEMMA QuietRead ==
    ASSUME Ordinary, IInv, TagInv, status = "running", ~throwing, UNCHANGED ctl,
           NEW n \in Nat, NEW g, Read(n, g), ~Lacks(n) => TagFrame(g) /\ Calm(g)
    PROVE  TagStep
  BY CalmReady, TagRead

\* Another place of the item.
LEMMA PlaceTag ==
    ASSUME NEW f, Keeps(f), NEW g, g.con = f.con, g.at = f.at, g.vtag = f.vtag, g.pc \in QuietPlaces
    PROVE  TagFrame(g) /\ Calm(g)
  <1>1. Keeps(g)
    BY DEF Keeps, Field
  <1> QED
    BY <1>1, TagCalm

LEMMA BeginItemTag ==
    ASSUME Ordinary, IInv, TagInv, BeginItem
    PROVE  TagStep
  <1> DEFINE f == Top
             k == IF Tagged(F) /\ (F.multi \/ F.presence = "O" \/ Kind(f.con) # "sequence") THEN 2 ELSE 1
             h == [f EXCEPT !.out[f.at] = IF F.multi THEN @ ELSE <<>>]
             g == AtStep(h, k)
  <1>1. Here("item")
    BY DEF BeginItem
  <1>2. /\ status = "running" /\ ~throwing /\ UNCHANGED ctl /\ Shape(f) /\ f.left \in Nat
        /\ Keeps(f)
    BY <1>1, AtPlaceInItem, TopKeeps
  <1>3. CASE Fail("out_of_memory")
    BY <1>3, TagFail
  <1>4. CASE Go(g)
    <2>1. Shape(h) /\ Same(f, h) /\ h.left = f.left /\ h.at = f.at
      <3> HIDE DEF f
      <3> QED
        BY <1>2, ShapeFacts DEF Shape, FrameType, Same, Field
    <2>2. k \in Nat \ {0}
      OBVIOUS
    <2> HIDE DEF h, k, f
    <2>3. Keeps(h)
      BY <1>2, <2>1 DEF Keeps, Same, Field
    <2>4. TagFrame(g) /\ Calm(g)
      BY <1>2, <2>1, <2>2, <2>3, AtStepTag
    <2> HIDE DEF g
    <2> QED
      BY <1>2, <1>4, <2>4, QuietGo
  <1> QED
    BY <1>3, <1>4 DEF BeginItem

LEMMA ReadOctetsTag ==
    ASSUME Ordinary, IInv, TagInv, NEW p \in {"tag", "length"}, Here(p), NEW q \in {"expect", "open"},
           NEW v, Read(Len(Info.of), [Top EXCEPT !.octets = v, !.pc = q])
    PROVE  TagStep
  <1> DEFINE f == Top
             g == [f EXCEPT !.octets = v, !.pc = q]
             n == Len(Info.of)
  <1>1. p \in InItem \cup {"item"} /\ p \in {"tag", "expect", "length", "open"} /\ q \in QuietPlaces
    BY DEF InItem, Begun, QuietPlaces
  <1>2. status = "running" /\ ~throwing /\ UNCHANGED ctl /\ Shape(f) /\ Keeps(f)
    BY <1>1, AtPlaceInItem, TopKeeps
  <1>3. n \in Nat
    BY <1>1, InfoFacts
  <1>4. Read(n, g) /\ f \in FrameType(f)
    BY <1>2, ShapeFacts
  <1> HIDE DEF f, n
  <1>5. g.con = f.con /\ g.at = f.at /\ g.vtag = f.vtag /\ g.pc = q
    BY <1>4 DEF FrameType
  <1> HIDE DEF g
  <1>6. TagFrame(g) /\ Calm(g)
    BY <1>1, <1>2, <1>5, PlaceTag
  <1> QED
    BY <1>2, <1>3, <1>4, <1>6, QuietRead

LEMMA ExpectTag ==
    ASSUME Ordinary, IInv, TagInv, Expect
    PROVE  TagStep
  <1> DEFINE f == Top
             k == f.step + 1
             g == AtStep(f, k)
  <1>1. Here("expect") /\ "expect" \in InItem \cup {"item"}
    BY DEF Expect, InItem, Begun
  <1>2. /\ status = "running" /\ ~throwing /\ UNCHANGED ctl /\ Shape(f) /\ f.left \in Nat
        /\ Keeps(f)
    BY <1>1, AtPlaceInItem, TopKeeps
  <1>3. CASE Fail("unknown_tag")
    BY <1>3, TagFail
  <1>4. CASE Go(g)
    <2>1. k \in Nat \ {0}
      BY <1>2, ShapeFacts
    <2> HIDE DEF k, f
    <2>2. TagFrame(g) /\ Calm(g)
      BY <1>2, <2>1, AtStepTag
    <2> HIDE DEF g
    <2> QED
      BY <1>2, <1>4, <2>2, QuietGo
  <1> QED
    BY <1>3, <1>4 DEF Expect

LEMMA OpenWindowTag ==
    ASSUME Ordinary, IInv, TagInv, OpenWindow
    PROVE  TagStep
  <1> DEFINE f == Top
             n == GetLength(Info, f.octets)
             h == [f EXCEPT !.open = Append(@, [step |-> f.step, from |-> cursor])]
             k == f.step + 1
             g == AtStep(h, k)
  <1>1. Here("open") /\ "open" \in InItem \cup {"item"}
    BY DEF OpenWindow, InItem, Begun
  <1>2. /\ status = "running" /\ ~throwing /\ UNCHANGED ctl /\ f.pc = "open"
        /\ Shape(f) /\ Placed(f) /\ f.left \in Nat /\ F = Field(f) /\ Keeps(f)
    BY <1>1, AtPlaceInItem, TopKeeps
  <1>3. /\ GoodInfo(Info) /\ Info.kind = "len" /\ Info.depends = "" /\ Info.plus >= 0
        /\ f.step \in DOMAIN F.meta /\ f.step \in Nat /\ F.meta[f.step] = Info
    BY <1>1, InfoFacts DEF Info
  <1>4. n \in Nat
    <2>1. f.octets \in Seq(AnyOctet)
      BY <1>2 DEF Placed
    <2> HIDE DEF f
    <2> QED
      BY <1>3, <2>1, LengthType
  <1>5. B!PushSize(n, TRUE) /\ BP!IInv
    BY <1>3 DEF OpenWindow, IInv
  <1>6. IF cursor + n <= end THEN Become(g) ELSE UNCHANGED frames
    BY DEF OpenWindow, Opened
  <1>7. cursor \in Nat
    BY BufferFacts DEF IInv
  <1> HIDE DEF n
  <1>8. CASE ~(cursor + n <= end)
    <2>1. B!Throw /\ UNCHANGED frames
      BY <1>4, <1>5, <1>6, <1>8, PushSizeStep
    <2> HIDE DEF f, g
    <2> QED
      BY <2>1, TagThrow
  <1>9. CASE cursor + n <= end
    <2>1. cursor' = cursor
      BY <1>4, <1>5, <1>9, PushSizeStep
    <2>2. k \in Nat \ {0}
      <3> DEFINE i == f.step
      <3>1. i \in Nat
        BY <1>3
      <3> HIDE DEF i
      <3>2. i + 1 \in Nat \ {0}
        BY <3>1
      <3> QED
        BY <3>2 DEF i
    <2> HIDE DEF f, k
    <2>3. /\ Shape(h) /\ h.con = f.con /\ h.begin = f.begin /\ h.vtag = f.vtag /\ h.left = f.left /\ h.out = f.out
          /\ h.at = f.at /\ Len(h.open) = Len(f.open) + 1 /\ Len(f.open) \in Nat
      <3>1. f.step \in DOMAIN Field(f).meta /\ f.step \in Nat /\ Field(f).meta[f.step].kind = "len"
        BY <1>2, <1>3
      <3> QED
        BY <1>2, <1>7, <3>1, MoreOpen
    <2> HIDE DEF h
    <2>4. Keeps(h)
      BY <1>2, <2>3 DEF Keeps, Field
    <2>5. TagFrame(g) /\ Calm(g)
      BY <1>2, <2>2, <2>3, <2>4, AtStepTag
    <2>6. Become(g)
      BY <1>6, <1>9
    <2> HIDE DEF g
    <2> QED
      BY <1>2, <2>1, <2>5, <2>6, QuietStep
  <1> QED
    BY <1>8, <1>9

LEMMA DecodeValueTag ==
    ASSUME Ordinary, IInv, TagInv, DecodeValue
    PROVE  TagStep
  <1> DEFINE f == Top
             ty == Types[F.type]
  <1>1. Here("value") /\ "value" \in InItem \cup {"item"}
    BY DEF DecodeValue, InItem, Begun
  <1>2. /\ status = "running" /\ ~throwing /\ UNCHANGED ctl /\ f.pc = "value"
        /\ Shape(f) /\ Placed(f) /\ f.left \in Nat /\ F = Field(f)
        /\ f.con \in Containers /\ f.at \in DOMAIN Fields(f.con) /\ GoodField(F)
        /\ Keeps(f)
    BY <1>1, AtPlaceInItem, TopKeeps
  <1>3. \/ ty.kind = "value" /\ Len(ty.of) \in Nat
        \/ ty.kind \in {"string", "empty"}
        \/ F.type \in Containers /\ ty.kind \in {"sequence", "set", "choice"}
    <2>1. F.type \in DOMAIN Types
      BY <1>2 DEF GoodField
    <2>2. \/ ty.kind = "value" /\ ty.of \in Seq(SUBSET AnyOctet)
          \/ ty.kind \in {"string", "empty"}
          \/ F.type \in Containers
      BY <2>1, TypesAssumption DEF Kind
    <2>3. F.type \in Containers => ty.kind \in {"sequence", "set", "choice"}
      BY ContainerFacts DEF Kind
    <2> QED
      BY <2>2, <2>3, LenProperties
  <1>4. CASE ty.kind = "value"
    <2> DEFINE n == Len(ty.of)
               v == Ahead(n)
               ok == Accepts(ty.of, v)
               bad == [f EXCEPT !.pc = "invalid"]
               good == Got(f, v)
               g == IF Lacks(n) THEN f ELSE IF ok THEN good ELSE bad
    <2>1. Read(n, g) /\ n \in Nat
      BY <1>3, <1>4 DEF DecodeValue
    <2>2. f \in FrameType(f)
      BY <1>2, ShapeFacts
    <2> HIDE DEF n, v, f, ok
    <2>3. TagFrame(bad) /\ Calm(bad)
      <3>1. bad.con = f.con /\ bad.at = f.at /\ bad.vtag = f.vtag /\ bad.pc \in QuietPlaces
        BY <2>2 DEF FrameType, QuietPlaces, InItem, Begun
      <3> HIDE DEF bad
      <3> QED
        BY <1>2, <3>1, PlaceTag
    <2>4. TagFrame(good) /\ Calm(good)
      BY <1>2, GotTag
    <2> HIDE DEF good, bad
    <2>5. ~Lacks(n) => TagFrame(g) /\ Calm(g)
      BY <2>3, <2>4
    <2> HIDE DEF g
    <2> QED
      BY <1>2, <2>1, <2>5, QuietRead
  <1>5. CASE ty.kind = "string"
    <2>1. CASE Fail("invalid_value")
      BY <2>1, TagFail
    <2>2. CASE B!Advance(end - cursor, end - cursor) /\ Quiet /\ Become(Got(f, Ahead(end - cursor)))
      <3> DEFINE n == end - cursor
                 v == Ahead(n)
                 g == Got(f, v)
      <3>1. n \in Nat
        BY <1>2, StandsInside
      <3>2. B!Advance(n, n) /\ Quiet /\ Become(g)
        BY <2>2
      <3>3. ~Lacks(n)
        BY <3>1 DEF Lacks
      <3> HIDE DEF n, v, f
      <3>4. TagFrame(g) /\ Calm(g)
        BY <1>2, GotTag
      <3> HIDE DEF g
      <3>5. Read(n, g)
        BY <3>2, <3>3 DEF Read
      <3> QED
        BY <1>2, <3>1, <3>4, <3>5, QuietRead
    <2> QED
      BY <1>5, <2>1, <2>2 DEF DecodeValue
  <1>6. CASE ty.kind = "empty"
    <2> DEFINE g == Got(f, <<>>)
    <2>1. Go(g)
      BY <1>6 DEF DecodeValue
    <2> HIDE DEF f
    <2>2. TagFrame(g) /\ Calm(g)
      BY <1>2, GotTag
    <2> HIDE DEF g
    <2> QED
      BY <1>2, <2>1, <2>2, QuietGo
  <1>7. CASE F.type \in Containers /\ ty.kind \in {"sequence", "set", "choice"}
    <2> DEFINE con == F.type
               tag == f.vtag.val
               g == IF ExplicitTag THEN FrameWithTag(con, tag) ELSE Frame(con)
    <2>1. UNCHANGED bvars /\ frames' = Append(frames, g)
      BY <1>7 DEF DecodeValue
    <2>2. ExplicitTag => Kind(con) = "sequence" /\ Len(Fields(con)) > 1
      <3>1. ASSUME ExplicitTag PROVE Kind(con) = "sequence" /\ Len(Fields(con)) > 1
        <4>1. Types[f.con].kind = "choice" /\ ~HasHeader(Types[f.con]) /\ F.meta[1].explicit
          BY <3>1 DEF ExplicitTag, Kind
        <4>2. f.at \in CasesOf(Types[f.con])
          BY <1>2, <4>1 DEF CasesOf, Fields
        <4>3. GoodCases(Types[f.con]) /\ F = Types[f.con].fields[f.at]
          BY <1>2, <4>1, ContainerFacts DEF GoodContainer, Field, Fields
        <4> QED
          BY <1>7, <4>1, <4>2, <4>3 DEF GoodCases
      <3> QED
        BY <3>1
    <2>3. con \in Containers
      BY <1>7
    <2> HIDE DEF f, con, tag, ty
    <2>4. ~g.vtag.set /\ g.pc \in {"field", "scan", "header"} /\ (g.pc = "header" => Kind(g.con) # "set")
      <3>1. CASE ExplicitTag
        <4> DEFINE w == FrameWithTag(con, tag)
        <4>0. con \in Containers /\ Kind(con) = "sequence" /\ Len(Fields(con)) > 1
          BY <2>2, <2>3, <3>1
        <4>1. /\ FrameOK(w) /\ w.con = con /\ w.begin = cursor /\ w.open = <<>> /\ ~w.vtag.set
              /\ w.pc = "field" /\ w.at = 2 /\ w.out = [[i \in DOMAIN Fields(con) |-> <<>>] EXCEPT ![1] = <<tag>>]
          BY <4>0, FrameWithTagOK
        <4>2. g = w
          BY <3>1
        <4> HIDE DEF w, g
        <4> QED
          BY <4>1, <4>2
      <3>2. CASE ~ExplicitTag
        <4> DEFINE w == Frame(con)
        <4>1. /\ FrameOK(w) /\ w.con = con /\ w.begin = cursor /\ w.open = <<>> /\ ~w.vtag.set
              /\ w.pc = (IF Kind(con) = "sequence" THEN "field" ELSE IF Kind(con) = "set" THEN "scan" ELSE "header")
          BY <2>3, FrameOKOf
        <4>2. g = w
          BY <3>2
        <4> HIDE DEF w, g
        <4> QED
          BY <4>1, <4>2
      <3> QED
        BY <3>1, <3>2
    <2> HIDE DEF g
    <2> QED
      BY <1>2, <2>1, <2>4, PushFrame
  <1> QED
    BY <1>3, <1>4, <1>5, <1>6, <1>7

\* The frame f without its innermost window.
LEMMA UnpaddedTag ==
    ASSUME Ordinary, NEW f, Shape(f), f.left \in Nat, f.open # <<>>, Keeps(f)
    PROVE  LET g == Closing([f EXCEPT !.open = SubSeq(@, 1, Len(@) - 1)]) IN TagFrame(g) /\ Calm(g)
  <1> DEFINE h == [f EXCEPT !.open = SubSeq(@, 1, Len(@) - 1)]
  <1>1. /\ Shape(h) /\ h.con = f.con /\ h.begin = f.begin /\ h.vtag = f.vtag /\ h.left = f.left /\ h.out = f.out
        /\ h.at = f.at /\ Len(h.open) = Len(f.open) - 1 /\ Len(f.open) \in Nat
    BY FewerOpen
  <1> HIDE DEF h
  <1>2. Keeps(h)
    BY <1>1 DEF Keeps, Field
  <1>3. TagFrame(Closing(h)) /\ Calm(Closing(h))
    BY <1>1, <1>2, ClosingTag
  <1> QED
    BY <1>3 DEF h

LEMMA CloseTag ==
    ASSUME Ordinary, IInv, TagInv, Close
    PROVE  TagStep
  <1> DEFINE f == Top
             c == Closing([f EXCEPT !.open = SubSeq(@, 1, Len(@) - 1)])
             w == [f EXCEPT !.pc = "pad"]
  <1>1. Here("close") /\ "close" \in InItem \cup {"item"} /\ "pad" \in QuietPlaces
    BY DEF Close, InItem, QuietPlaces
  <1>2. status = "running" /\ ~throwing /\ UNCHANGED ctl /\ Shape(f) /\ f.left \in Nat /\ Keeps(f)
    BY <1>1, AtPlaceInItem, TopKeeps
  <1>3. f.open # <<>> /\ f \in FrameType(f)
    BY <1>1, <1>2, InnermostFacts, ShapeFacts
  <1>4. CASE Fail("overflow")
    BY <1>4, TagFail
  <1>5. CASE B!CloseScope /\ Become(Closed)
    <2>1. Closed = c \/ Closed = w
      BY DEF Closed, Unpadded
    <2>2. cursor' = cursor
      BY <1>5 DEF B!CloseScope
    <2> HIDE DEF f
    <2>3. TagFrame(c) /\ Calm(c)
      BY <1>2, <1>3, UnpaddedTag
    <2>4. TagFrame(w) /\ Calm(w)
      <3>1. w.con = f.con /\ w.at = f.at /\ w.vtag = f.vtag /\ w.pc \in QuietPlaces
        BY <1>1, <1>3 DEF FrameType
      <3> HIDE DEF w
      <3> QED
        BY <1>2, <3>1, PlaceTag
    <2> HIDE DEF c, w
    <2> QED
      BY <1>2, <1>5, <2>1, <2>2, <2>3, <2>4, QuietStep
  <1> QED
    BY <1>4, <1>5 DEF Close

LEMMA PadTag ==
    ASSUME Ordinary, IInv, TagInv, Pad
    PROVE  TagStep
  <1> DEFINE f == Top
             n == PadSize(Window.pad, cursor - Innermost.from)
             g == Closing([f EXCEPT !.open = SubSeq(@, 1, Len(@) - 1)])
  <1>1. Here("pad") /\ "pad" \in InItem \cup {"item"} /\ Read(n, g)
    BY DEF Pad, InItem, Unpadded
  <1>2. status = "running" /\ ~throwing /\ UNCHANGED ctl /\ Shape(f) /\ f.left \in Nat /\ Keeps(f)
    BY <1>1, AtPlaceInItem, TopKeeps
  <1>3. f.open # <<>> /\ GoodInfo(Window) /\ Window.kind = "len" /\ Innermost.from \in Nat
    BY <1>1, InnermostFacts
  <1>4. n \in Nat
    <2>1. cursor - Innermost.from \in Int
      BY <1>3, BufferFacts DEF IInv
    <2> QED
      BY <1>3, <2>1, PadSizeType
  <1> HIDE DEF f, n
  <1>5. TagFrame(g) /\ Calm(g)
    BY <1>2, <1>3, UnpaddedTag
  <1> HIDE DEF g
  <1> QED
    BY <1>1, <1>2, <1>4, <1>5, QuietRead

-----------------------------------------------------------------------------
(* ... the ends of containers, and of messages.                            *)

LEMMA NothingKept ==
    ASSUME frames' = <<>>, status' # "running"
    PROVE  TagInv'
  <1>1. DOMAIN frames' = {}
    BY EmptySeq
  <1> QED
    BY <1>1 DEF TagInv

\* The frame below goes on with what the container on top was decoded to.
LEMMA BelowTag ==
    ASSUME Ordinary, NEW f, FrameOK(f), Waits(f), TagFrame(f), NEW v
    PROVE  LET g == IF f.pc = "header" THEN GotHeader(f, v) ELSE Got(f, v)
           IN TagFrame(g) /\ \A s, c, w : Ready(g, s, c, w)
  <1> DEFINE h == GotHeader(f, v)
             i == Got(f, v)
  <1>1. CASE f.pc = "header"
    <2>1. Kind(f.con) = "choice" /\ ~f.vtag.set /\ Shape(f) /\ f.con \in Containers
      BY <1>1, ShapeFacts, ContainerFacts DEF Waits, FrameOK, Shape
    <2>2. f.open = <<>> /\ f.left \in Nat
      BY <1>1 DEF FrameOK, Placed, InItem, Begun
    <2>3. /\ FrameOK(h) /\ h.begin = f.begin /\ h.open = f.open /\ h.pc = "find" /\ h.con = f.con
          /\ ~Looks(h) /\ h.at = f.at /\ h.out = [f.out EXCEPT ![1] = <<v>>]
      BY <2>1, <2>2, GotHeaderOK
    <2> HIDE DEF h
    <2>4. TagFrame(h) /\ \A s, c, w : Ready(h, s, c, w)
      BY <2>1, <2>3 DEF TagFrame, TagKept, TagPlaces, Ready, AtHand, Looks
    <2> QED
      BY <1>1, <2>4 DEF h
  <1>2. CASE f.pc = "value"
    <2>1. Shape(f) /\ f.left \in Nat /\ Keeps(f)
      BY <1>2 DEF FrameOK, Placed, TagFrame, TagKept, Keeps
    <2>2. TagFrame(i) /\ Calm(i)
      BY <2>1, GotTag
    <2> HIDE DEF i
    <2>3. \A s, c, w : Ready(i, s, c, w)
      BY <2>2, CalmReady
    <2> QED
      BY <1>2, <2>2, <2>3 DEF i
  <1> QED
    BY <1>1, <1>2 DEF Waits

LEMMA ReturnTag ==
    ASSUME Ordinary, IInv, TagInv, Return
    PROVE  TagStep
  <1>1. status = "running" /\ ~throwing /\ UNCHANGED bvars
    BY DEF Return, At
  <1>2. ~(cursor' < cursor)
    BY <1>1, BufferFacts DEF IInv, bvars
  <1>3. CASE Len(frames) = 1
    BY <1>2, <1>3, NothingKept DEF Return, TagStep, PutBackStep
  <1>4. CASE Len(frames) # 1
    <2> DEFINE n == Len(frames)
               f == frames[n - 1]
               v == Top.out
               g == IF f.pc = "header" THEN GotHeader(f, v) ELSE Got(f, v)
               below == SubSeq(frames, 1, Len(frames) - 1)
    <2>1. Listed(frames) /\ frames # <<>> /\ n \in Nat \ {0} /\ DOMAIN frames = 1 .. n
      BY <1>1, TopFacts
    <2>2. n - 1 \in 1 .. n - 1 /\ n - 1 \in 1 .. n /\ n \in Nat \ {0, 1}
      <3>1. n \in Nat \ {0} /\ n # 1
        BY <1>4, <2>1
      <3> HIDE DEF n
      <3> QED
        BY <3>1
    <2>3. Waits(f) /\ FrameOK(f) /\ TagFrame(f)
      BY <2>1, <2>2 DEF IInv, DInv, Frames, TagInv
    <2>4. below[Len(below)] = f
      <3>1. /\ Listed(below) /\ Len(below) = Len(frames) - 1 /\ (below = <<>> <=> Len(frames) = 1)
            /\ DOMAIN below = 1 .. Len(frames) - 1 /\ DOMAIN frames = 1 .. Len(frames) /\ Len(frames) \in Nat \ {0}
            /\ \A i \in 1 .. Len(frames) - 1 : below[i] = frames[i]
        BY <2>1, Popped
      <3> QED
        BY <2>2, <3>1
    <2>5. frames' = [below EXCEPT ![Len(below)] = g]
      <3>1. frames' = [below EXCEPT ![Len(below)] =
                          IF below[Len(below)].pc = "header" THEN GotHeader(below[Len(below)], v) ELSE Got(below[Len(below)], v)]
        BY <1>4 DEF Return
      <3> QED
        BY <3>1, <2>4
    <2>6. frames' = [SubSeq(frames, 1, Len(frames) - 1) EXCEPT ![Len(SubSeq(frames, 1, Len(frames) - 1))] = g]
      BY <2>5
    <2> HIDE DEF v, f
    <2>7. TagFrame(g) /\ \A s, c, w : Ready(g, s, c, w)
      BY <2>3, BelowTag
    <2> HIDE DEF g
    <2>8. Ready(g, store', cursor', wire')
      BY <2>7
    <2>9. TagInv'
      BY <1>1, <1>4, <2>6, <2>7, <2>8, TagTop
    <2> QED
      BY <1>2, <2>9 DEF TagStep, PutBackStep
  <1> QED
    BY <1>3, <1>4

LEMMA UnwindTag ==
    ASSUME Ordinary, IInv, TagInv, Unwind
    PROVE  TagStep
  <1>1. throwing' /\ cursor' = cursor /\ frames' = frames
    BY DEF Unwind, B!CloseScope
  <1>2. ~(cursor' < cursor)
    BY <1>1, BufferFacts DEF IInv
  <1> QED
    BY <1>1, <1>2 DEF TagStep, PutBackStep, TagInv

LEMMA BetweenMessages ==
    ASSUME Ordinary, IInv, TagInv, GiveUp \/ Release \/ Refuse
    PROVE  TagStep
  <1>1. frames' = <<>> /\ status' # "running"
    BY DEF GiveUp, Release, Refuse, IInv, DInv, Control
  <1>2. status # "running" \/ ~(cursor' < cursor)
    <2>1. CASE GiveUp
      BY <2>1, BufferFacts DEF GiveUp, B!Catch, IInv
    <2>2. CASE Release \/ Refuse
      BY <2>2 DEF Release, Refuse
    <2> QED
      BY <2>1, <2>2
  <1> QED
    BY <1>1, <1>2, NothingKept DEF TagStep, PutBackStep

LEMMA BeginTag ==
    ASSUME Ordinary, IInv, TagInv, NEW ty \in Roots, NEW octets, NEW m, Begin(ty, octets, m)
    PROVE  TagStep
  <1> DEFINE f == Frame(ty)
             g == [f EXCEPT !.begin = 0]
  <1>1. status = "idle" /\ frames' = <<g>>
    BY DEF Begin
  <1>2. ty \in Containers
    BY RootAssumption
  <1>3. /\ FrameOK(f) /\ f.con = ty /\ f.begin = cursor /\ f.open = <<>> /\ ~f.vtag.set
        /\ f.pc = (IF Kind(ty) = "sequence" THEN "field" ELSE IF Kind(ty) = "set" THEN "scan" ELSE "header")
    BY <1>2, FrameOKOf
  <1> HIDE DEF f
  <1>4. g.con = ty /\ ~g.vtag.set /\ g.pc = f.pc
    BY <1>3 DEF FrameOK, Shape, FrameType
  <1> HIDE DEF g
  <1>5. TagFrame(g) /\ Ready(g, store', cursor', wire')
    BY <1>3, <1>4, FreshTag
  <1>6. Len(frames') = 1 /\ DOMAIN frames' = {1} /\ frames'[1] = g
    <2>1. <<g>> \in Seq({g}) /\ Len(<<g>>) = 1 /\ <<g>>[1] = g
      OBVIOUS
    <2>2. DOMAIN <<g>> = 1 .. 1
      BY <2>1, LenProperties
    <2> QED
      BY <1>1, <2>1, <2>2
  <1>7. Top' = g
    BY <1>6 DEF Top
  <1> QED
    BY <1>1, <1>5, <1>6, <1>7 DEF TagStep, PutBackStep, TagInv

-----------------------------------------------------------------------------
LEMMA NextTag ==
    ASSUME Ordinary, NoGap, IInv, TagInv, [Next]_vars
    PROVE  TagStep
  <1>1. CASE EnterField \/ LookAhead \/ LookAgain \/ Peek \/ Match \/ More
    BY <1>1, EnterFieldTag, LookAheadTag, LookAgainTag, PeekTag, MatchTag, MoreTag
  <1>2. CASE ReadCount \/ Quota \/ Loop \/ CheckArity
    BY <1>2, ReadCountTag, QuotaTag, LoopTag, CheckArityTag
  <1>3. CASE Scan \/ ReadHeader \/ Find \/ Found \/ Complete
    BY <1>3, ScanTag, ReadHeaderTag, FindTag, FoundTag, CompleteTag
  <1>4. CASE BeginItem \/ Expect \/ OpenWindow
    BY <1>4, BeginItemTag, ExpectTag, OpenWindowTag
  <1>5. CASE ReadTag \/ ReadLength
    BY <1>5, ReadOctetsTag DEF ReadTag, ReadLength
  <1>6. CASE DecodeValue \/ Close \/ Pad
    BY <1>6, DecodeValueTag, CloseTag, PadTag
  <1>7. CASE Invalid
    BY <1>7, TagFail DEF Invalid
  <1>8. CASE OpenPending \/ CommitLength
    BY <1>8, NotDeferred
  <1>9. CASE Return \/ Unwind \/ GiveUp \/ Release \/ Refuse
    BY <1>9, ReturnTag, UnwindTag, BetweenMessages
  <1>10. CASE Receive
    <2>1. PICK ty \in Roots : \E e \in Encoded[ty] : Begin(ty, e[2].octets, e[1])
      BY <1>10 DEF Receive
    <2> QED
      BY <2>1, BeginTag
  <1>11. CASE ReceiveAny
    <2>1. PICK ty \in Roots : \E octets \in Wires[ty] : Begin(ty, octets, NotSent)
      BY <1>11 DEF ReceiveAny
    <2> QED
      BY <2>1, BeginTag
  <1>12. CASE UNCHANGED vars
    <2>1. cursor' = cursor /\ UNCHANGED <<frames, status, throwing, store, wire>>
      BY <1>12 DEF vars, bvars, ctl, msg
    <2>2. ~(cursor' < cursor)
      BY <2>1, BufferFacts DEF IInv
    <2>3. Top' = Top
      BY <2>1 DEF Top
    <2> QED
      BY <2>1, <2>2, <2>3 DEF TagStep, PutBackStep, TagInv
  <1> QED
    BY <1>1, <1>2, <1>3, <1>4, <1>5, <1>6, <1>7, <1>8, <1>9, <1>10, <1>11, <1>12 DEF Next, Decode

\* The cursor only ever goes back over a tag that was read ahead and not used, by
\* exactly its octets: whatever is decoded in between, POP_STATE and the state the
\* buffer remembers belong together (seq_dec, set_dec, buffer.hpp) - in every message
\* without the gap of sequence.hpp:246, where the property is false.
THEOREM TagsPutBack ==
    ASSUME Ordinary, NoGap
    PROVE  Spec => PutsBackTheTag
  <1>1. Init => TagInv
    <2>1. ASSUME Init PROVE TagInv
      <3>1. frames = <<>> /\ status # "running"
        BY <2>1 DEF Init
      <3>2. DOMAIN frames = {}
        BY <3>1, EmptySeq
      <3> QED
        BY <3>1, <3>2 DEF TagInv
    <2> QED
      BY <2>1
  <1>2. IInv /\ TagInv /\ [Next]_vars => TagInv' /\ PutBackStep
    BY NextTag DEF TagStep
  <1>3. PutBackStep => [status = "running" /\ cursor' < cursor => SubSeq(wire, cursor' + 1, cursor) = Top.vtag.val]_vars
    BY DEF PutBackStep
  <1> QED
    BY <1>1, <1>2, <1>3, Invariance, PTL DEF Spec, PutsBackTheTag

-----------------------------------------------------------------------------
(* The items of the fields.                                                *)

Had(f, i) == Len(f.out[i])
Whole(f, i) == Complete1(Fields(f.con)[i], Had(f, i))

Outs(f) ==
    /\ DOMAIN f.out = DOMAIN Fields(f.con)
    /\ \A i \in DOMAIN f.out : Listed(f.out[i])

\* The fields of a sequence around the one at hand; the fields of a set; the cases
\* of a choice.
Around(f) ==
    /\ \A i \in DOMAIN f.out : i < f.at => Whole(f, i)
    /\ \A i \in DOMAIN f.out : i > f.at => Had(f, i) = 0

Singles(f) == \A i \in DOMAIN f.out : ~Fields(f.con)[i].multi => Had(f, i) <= 1

Chosen(f) ==
    /\ f.at \in CasesOf(Types[f.con])
    /\ HasHeader(Types[f.con]) => Had(f, 1) = 1
    /\ \A i \in CasesOf(Types[f.con]) \ {f.at} : Had(f, i) = 0

\* The field at hand is to have one item more; it has it.
ItemDue(f) ==
    LET G == Field(f)
        n == Had(f, f.at)
    IN /\ Kind(f.con) = "sequence" =>
            Around(f) /\ IF G.multi THEN Counted(G) => ArityOK(G, f.left + n + 1) ELSE n = 0
       /\ Kind(f.con) = "set" => Singles(f)
       /\ Kind(f.con) = "choice" => Chosen(f) /\ n = 0

ItemBegun(f) == ItemDue(f) /\ (Kind(f.con) = "set" /\ ~Field(f).multi => Had(f, f.at) = 0)

ItemDone(f) ==
    LET G == Field(f)
        n == Had(f, f.at)
    IN /\ Kind(f.con) = "sequence" =>
            Around(f) /\ IF G.multi THEN Counted(G) => ArityOK(G, f.left + n) ELSE n = 1
       /\ Kind(f.con) = "set" => Singles(f)
       /\ Kind(f.con) = "choice" => Chosen(f) /\ n = 1

AllWhole(f) ==
    IF Kind(f.con) = "choice" THEN Chosen(f) /\ Had(f, f.at) = 1 ELSE \A i \in DOMAIN f.out : Whole(f, i)

\* What the decoder has found at each place.
FieldArity(f) ==
    LET G == Field(f)
        n == Had(f, f.at)
    IN /\ f.pc \in OfSequences => Around(f)
       /\ f.pc \in {"field", "ahead", "more", "count", "quota"} => n = 0
       /\ f.pc \in {"ahead", "peek", "match"} => G.multi \/ (G.presence = "O" /\ n = 0)
       /\ f.pc = "more" => ~G.multi /\ G.presence = "O"
       /\ f.pc \in {"count", "quota"} => G.multi
       /\ f.pc = "loop" => G.multi /\ (Counted(G) => ArityOK(G, f.left + n))
       /\ f.pc \in {"arity", "again"} => G.multi

CaseArity(f) ==
    LET D == Types[f.con]
    IN /\ Kind(f.con) = "set" => Singles(f) \/ f.pc = "return"
       /\ f.pc \in {"scan", "complete"} => Kind(f.con) = "set"
       /\ Kind(f.con) = "choice" =>
            /\ f.pc = "header" => \A i \in DOMAIN f.out : Had(f, i) = 0
            /\ f.pc = "find" =>
                  /\ HasHeader(D) => Had(f, 1) = 1
                  /\ \A i \in CasesOf(D) : Had(f, i) = 0
            /\ f.pc = "found" => Chosen(f) /\ Had(f, f.at) = 0

ArityFrame(f) ==
    /\ Outs(f) /\ FieldArity(f) /\ CaseArity(f)
    /\ f.pc = "item" => ItemDue(f)
    /\ f.pc \in Begun => ItemBegun(f)
    /\ f.pc \in {"close", "pad"} => ItemDone(f)
    /\ f.pc = "return" => AllWhole(f)

ArityInv == \A k \in DOMAIN frames : ArityFrame(frames[k])

-----------------------------------------------------------------------------
LEMMA HadFacts ==
    ASSUME NEW f, Shape(f), Outs(f)
    PROVE  /\ \A i \in DOMAIN f.out : Had(f, i) \in Nat /\ (Had(f, i) = 0 <=> f.out[i] = <<>>)
           /\ f.at \in DOMAIN f.out /\ DOMAIN f.out \subseteq Nat /\ f.at \in Nat
           /\ f.con \in Containers /\ Kind(f.con) \in {"sequence", "set", "choice"}
  <1>1. f.con \in Containers /\ f.at \in DOMAIN Fields(f.con) /\ f.at \in Nat
    BY ShapeFacts
  <1>2. ASSUME NEW i \in DOMAIN f.out PROVE Had(f, i) \in Nat /\ (Had(f, i) = 0 <=> f.out[i] = <<>>)
    <2>1. Listed(f.out[i])
      BY DEF Outs
    <2> QED
      BY <2>1, ListedFacts DEF Listed, Had
  <1> QED
    BY <1>1, <1>2, ContainerFacts DEF Outs

\* A frame that differs in its place only.
LEMMA SameItems ==
    ASSUME NEW f, NEW g, g.con = f.con, g.at = f.at, g.out = f.out, g.left = f.left
    PROVE  /\ Outs(f) => Outs(g)
           /\ Around(f) => Around(g)
           /\ Singles(f) => Singles(g)
           /\ Chosen(f) => Chosen(g)
           /\ ItemDue(f) => ItemDue(g)
           /\ ItemBegun(f) => ItemBegun(g)
           /\ ItemDone(f) => ItemDone(g)
           /\ AllWhole(f) => AllWhole(g)
           /\ Field(g) = Field(f) /\ \A i : Had(g, i) = Had(f, i)
  <1>1. Field(g) = Field(f) /\ \A i : Had(g, i) = Had(f, i)
    BY DEF Field, Had
  <1>2. \A i : Whole(f, i) => Whole(g, i)
    BY <1>1 DEF Whole
  <1>3. (Around(f) => Around(g)) /\ (Singles(f) => Singles(g)) /\ (Chosen(f) => Chosen(g))
    BY <1>1, <1>2 DEF Around, Singles, Chosen
  <1>4. (ItemDue(f) => ItemDue(g)) /\ (ItemDone(f) => ItemDone(g))
    BY <1>1, <1>3 DEF ItemDue, ItemDone
  <1>5. ItemBegun(f) => ItemBegun(g)
    BY <1>1, <1>4 DEF ItemBegun
  <1>6. (AllWhole(f) => AllWhole(g)) /\ (Outs(f) => Outs(g))
    BY <1>1, <1>2, <1>3 DEF AllWhole, Outs
  <1> QED
    BY <1>1, <1>3, <1>4, <1>5, <1>6

LEMMA DueArity ==
    ASSUME NEW g, Outs(g), ItemBegun(g) \/ (g.pc = "item" /\ ItemDue(g)), g.pc \in Begun \cup {"item"}
    PROVE  ArityFrame(g)
  BY DEF ItemBegun, ItemDue, Begun, OfSequences, ArityFrame, FieldArity, CaseArity

LEMMA DoneArity ==
    ASSUME NEW g, Outs(g), ItemDone(g), g.pc \in {"close", "pad"}
    PROVE  ArityFrame(g)
  BY DEF ItemDone, Begun, OfSequences, ArityFrame, FieldArity, CaseArity

LEMMA ReturnArity ==
    ASSUME NEW g, Outs(g), AllWhole(g), g.pc = "return"
    PROVE  ArityFrame(g)
  BY DEF Begun, OfSequences, ArityFrame, FieldArity, CaseArity

\* The next field, after one that is complete.
LEMMA SkippingArity ==
    ASSUME Ordinary, NEW f, Shape(f), f.open = <<>>, Kind(f.con) = "sequence", f.left \in Nat,
           Outs(f), Around(f), Whole(f, f.at)
    PROVE  ArityFrame(Skipping(f))
  <1> DEFINE g == Skipping(f)
  <1>1. /\ FrameOK(g) /\ Same(f, g) /\ g.out = f.out
        /\ IF f.at = Len(Fields(f.con)) THEN g.pc = "return" /\ g.at = f.at
           ELSE g.pc = "field" /\ g.at = f.at + 1
    BY SkippingOK
  <1>2. /\ f.con \in Containers /\ DOMAIN f.out = 1 .. Len(Fields(f.con)) /\ Len(Fields(f.con)) \in Nat
        /\ f.at \in DOMAIN f.out
    BY HadFacts, ContainerFacts DEF Outs
  <1> HIDE DEF g
  <1>3. g.con = f.con /\ Outs(g) /\ \A i : Had(g, i) = Had(f, i)
    BY <1>1 DEF Same, Outs, Had
  <1>4. \A i : Whole(f, i) => Whole(g, i)
    BY <1>3 DEF Whole
  <1>5. CASE f.at = Len(Fields(f.con))
    <2>1. \A i \in DOMAIN f.out : i < f.at \/ i = f.at
      BY <1>2, <1>5
    <2>2. \A i \in DOMAIN g.out : Whole(g, i)
      BY <1>1, <1>4, <2>1 DEF Around
    <2>3. AllWhole(g) /\ g.pc = "return"
      BY <1>1, <1>3, <1>5, <2>2 DEF AllWhole
    <2> QED
      BY <1>3, <2>3, ReturnArity DEF g
  <1>6. CASE f.at # Len(Fields(f.con))
    <2>1. g.pc = "field" /\ g.at = f.at + 1
      BY <1>1, <1>6
    <2>2. f.at + 1 \in DOMAIN f.out
      BY <1>2, <1>6
    <2>3. \A i \in DOMAIN f.out : (i < f.at + 1 => i < f.at \/ i = f.at) /\ (i > f.at + 1 => i > f.at)
      BY <1>2
    <2>4. f.at + 1 > f.at
      BY <1>2
    <2>5. Around(g) /\ Had(g, g.at) = 0
      BY <1>1, <1>3, <1>4, <2>1, <2>2, <2>3, <2>4 DEF Around
    <2>6. ArityFrame(g)
      BY <1>3, <2>1, <2>5 DEF Begun, OfSequences, ArityFrame, FieldArity, CaseArity
    <2> QED
      BY <2>6 DEF g
  <1> QED
    BY <1>5, <1>6

\* A place of a sequence.
LEMMA FieldPlace ==
    ASSUME NEW g, Kind(g.con) = "sequence", Outs(g), g.pc \in OfSequences, FieldArity(g)
    PROVE  ArityFrame(g)
  BY DEF ArityFrame, CaseArity, OfSequences, Begun

\* The item at hand complete,
LEMMA AfterItemArity ==
    ASSUME Ordinary, NEW f, Shape(f), f.open = <<>>, f.left \in Nat, Outs(f), ItemDone(f)
    PROVE  ArityFrame(AfterItem(f))
  <1>1. Kind(f.con) \in {"sequence", "set", "choice"}
    BY ShapeFacts, ContainerFacts
  <1>2. {"scan", "return", "again", "loop"} \subseteq Places
    BY DEF Places, OfSequences, OfOthers
  <1>3. CASE Kind(f.con) = "sequence" /\ ~Field(f).multi
    <2>1. AfterItem(f) = Skipping(f)
      BY <1>3 DEF AfterItem
    <2>2. Around(f) /\ Had(f, f.at) = 1
      BY <1>3 DEF ItemDone
    <2>3. Whole(f, f.at)
      BY <1>3, <2>2 DEF Whole, Complete1, Field
    <2> QED
      BY <1>3, <2>1, <2>2, <2>3, SkippingArity
  <1>4. ASSUME NEW p \in Places, AfterItem(f) = [f EXCEPT !.pc = p],
               \A g : /\ g.con = f.con /\ g.at = f.at /\ g.out = f.out /\ g.left = f.left
                      /\ g.pc = p /\ Outs(g) /\ ItemDone(g)
                      => ArityFrame(g)
        PROVE  ArityFrame(AfterItem(f))
    <2> DEFINE h == [f EXCEPT !.pc = p]
    <2>1. Same(f, h) /\ h.pc = p /\ h.at = f.at /\ h.left = f.left /\ h.out = f.out
      BY AtPlace
    <2> HIDE DEF h
    <2>2. h.con = f.con
      BY <2>1 DEF Same
    <2>3. Outs(h) /\ ItemDone(h)
      BY <2>1, <2>2, SameItems
    <2>4. ArityFrame(h)
      BY <1>4, <2>1, <2>2, <2>3
    <2> QED
      BY <1>4, <2>4 DEF h
  <1>5. CASE Kind(f.con) = "sequence" /\ Field(f).multi
    <2> DEFINE p == IF Tagged(Field(f)) THEN "again" ELSE "loop"
    <2>1. AfterItem(f) = [f EXCEPT !.pc = p] /\ p \in Places /\ p \in {"again", "loop"}
      BY <1>2, <1>5 DEF AfterItem
    <2> HIDE DEF p
    <2>2. ASSUME NEW g, g.con = f.con, g.at = f.at, g.out = f.out, g.left = f.left, g.pc = p, Outs(g), ItemDone(g)
          PROVE  ArityFrame(g)
      <3>1. Field(g) = Field(f)
        BY <2>2 DEF Field
      <3>2. FieldArity(g)
        BY <1>5, <2>1, <2>2, <3>1 DEF FieldArity, ItemDone
      <3>3. g.pc \in OfSequences
        BY <2>1, <2>2 DEF OfSequences
      <3> QED
        BY <1>5, <2>2, <3>2, <3>3, FieldPlace
    <2> QED
      BY <1>4, <2>1, <2>2
  <1>6. CASE Kind(f.con) = "set"
    <2>1. AfterItem(f) = [f EXCEPT !.pc = "scan"]
      BY <1>6 DEF AfterItem
    <2>2. ASSUME NEW g, g.con = f.con, g.at = f.at, g.out = f.out, g.left = f.left, g.pc = "scan", Outs(g), ItemDone(g)
          PROVE  ArityFrame(g)
      BY <1>6, <2>2 DEF ArityFrame, FieldArity, CaseArity, ItemDone, OfSequences, Begun
    <2> QED
      BY <1>2, <1>4, <2>1, <2>2
  <1>7. CASE Kind(f.con) = "choice"
    <2>1. AfterItem(f) = [f EXCEPT !.pc = "return"]
      BY <1>7 DEF AfterItem
    <2>2. ASSUME NEW g, g.con = f.con, g.at = f.at, g.out = f.out, g.left = f.left, g.pc = "return", Outs(g), ItemDone(g)
          PROVE  ArityFrame(g)
      BY <1>7, <2>2, ReturnArity DEF AllWhole, ItemDone
    <2> QED
      BY <1>2, <1>4, <2>1, <2>2
  <1> QED
    BY <1>1, <1>3, <1>5, <1>6, <1>7

LEMMA ClosingArity ==
    ASSUME Ordinary, NEW f, Shape(f), f.left \in Nat, Outs(f), ItemDone(f)
    PROVE  ArityFrame(Closing(f))
  <1>1. CASE f.open = <<>>
    BY <1>1, AfterItemArity DEF Closing
  <1>2. CASE f.open # <<>>
    <2> DEFINE h == [f EXCEPT !.pc = "close"]
    <2>1. Closing(f) = h /\ "close" \in Places
      BY <1>2 DEF Closing, Places, InItem
    <2>2. Same(f, h) /\ h.pc = "close" /\ h.at = f.at /\ h.out = f.out /\ h.left = f.left
      BY <2>1, AtPlace
    <2> HIDE DEF h
    <2>3. Outs(h) /\ ItemDone(h)
      BY <2>2, SameItems DEF Same
    <2>4. ArityFrame(h)
      BY <2>2, <2>3, DoneArity
    <2> QED
      BY <2>1, <2>4
  <1> QED
    BY <1>1, <1>2

\* with a value more.
LEMMA GotArity ==
    ASSUME Ordinary, NEW f, Shape(f), f.left \in Nat, Outs(f), ItemBegun(f), NEW v
    PROVE  ArityFrame(Got(f, v))
  <1> DEFINE h == [f EXCEPT !.out[f.at] = Append(@, v)]
             a == f.at
  <1>1. f.con \in Containers /\ a \in DOMAIN Fields(f.con) /\ a \in DOMAIN f.out
    BY ShapeFacts DEF Outs
  <1>2. /\ Shape(h) /\ h.con = f.con /\ h.left = f.left /\ h.at = a
        /\ h.out = [f.out EXCEPT ![a] = Append(@, v)]
    BY ShapeFacts DEF Shape, FrameType, Field
  <1>3. Got(f, v) = Closing(h)
    BY <1>1, FieldFacts DEF Got
  <1>4. Listed(f.out[a])
    BY <1>1 DEF Outs
  <1>5. Listed(Append(f.out[a], v)) /\ Len(Append(f.out[a], v)) = Had(f, a) + 1
    BY <1>4, Pushed DEF Had
  <1> HIDE DEF h, a
  <1>6. DOMAIN h.out = DOMAIN f.out /\ h.out[a] = Append(f.out[a], v) /\ \A i \in DOMAIN f.out \ {a} : h.out[i] = f.out[i]
    BY <1>1, <1>2
  <1>7. Outs(h)
    BY <1>2, <1>5, <1>6 DEF Outs
  <1>8. Had(h, a) = Had(f, a) + 1 /\ \A i \in DOMAIN f.out \ {a} : Had(h, i) = Had(f, i)
    BY <1>5, <1>6 DEF Had
  <1>9. /\ \A i \in DOMAIN f.out : Had(f, i) \in Nat
        /\ DOMAIN f.out \subseteq Nat /\ Kind(f.con) \in {"sequence", "set", "choice"}
    BY HadFacts
  <1>10. Field(h) = Field(f) /\ f.at = a
    BY <1>2 DEF Field, a
  <1>11. CASE Kind(f.con) = "sequence"
    <2>1. \A i \in DOMAIN f.out : i < a \/ i > a => Had(h, i) = Had(f, i)
      BY <1>1, <1>8, <1>9
    <2>2. Around(h)
      <3>1. \A i \in DOMAIN f.out : i < a => Whole(h, i)
        BY <1>2, <1>10, <1>11, <2>1 DEF ItemBegun, ItemDue, Around, Whole
      <3>2. \A i \in DOMAIN f.out : i > a => Had(h, i) = 0
        BY <1>10, <1>11, <2>1 DEF ItemBegun, ItemDue, Around
      <3> QED
        BY <1>2, <1>6, <3>1, <3>2 DEF Around
    <2>3. IF Field(f).multi THEN Counted(Field(f)) => ArityOK(Field(f), f.left + Had(f, a) + 1) ELSE Had(f, a) = 0
      BY <1>10, <1>11 DEF ItemBegun, ItemDue
    <2>4. f.left + Had(f, a) + 1 = h.left + Had(h, a)
      <3> DEFINE n == Had(f, a)
                 l == f.left
      <3>1. n \in Nat /\ l \in Nat /\ h.left = l /\ Had(h, a) = n + 1
        BY <1>1, <1>2, <1>8, <1>9
      <3> HIDE DEF n, l
      <3>2. l + n + 1 = l + (n + 1)
        BY <3>1
      <3> QED
        BY <3>1, <3>2 DEF n, l
    <2>5. IF Field(f).multi THEN Counted(Field(f)) => ArityOK(Field(f), h.left + Had(h, a)) ELSE Had(h, a) = 1
      BY <1>8, <2>3, <2>4
    <2>6. ItemDone(h)
      BY <1>2, <1>10, <1>11, <2>2, <2>5 DEF ItemDone
    <2> QED
      BY <1>2, <1>3, <1>7, <2>6, ClosingArity
  <1>12. CASE Kind(f.con) = "set"
    <2>1. Singles(f) /\ (~Field(f).multi => Had(f, a) = 0)
      BY <1>10, <1>12 DEF ItemBegun, ItemDue
    <2>2. ASSUME NEW i \in DOMAIN h.out, ~Fields(h.con)[i].multi PROVE Had(h, i) <= 1
      <3>1. CASE i = a
        BY <1>2, <1>8, <1>10, <2>1, <2>2, <3>1 DEF Field
      <3>2. CASE i # a
        BY <1>2, <1>6, <1>8, <2>1, <2>2, <3>2 DEF Singles
      <3> QED
        BY <3>1, <3>2
    <2>3. ItemDone(h)
      BY <1>2, <1>12, <2>2 DEF ItemDone, Singles
    <2> QED
      BY <1>2, <1>3, <1>7, <2>3, ClosingArity
  <1>13. CASE Kind(f.con) = "choice"
    <2>1. Chosen(f) /\ Had(f, a) = 0
      BY <1>10, <1>13 DEF ItemBegun, ItemDue
    <2>2. a \in CasesOf(Types[f.con]) /\ CasesOf(Types[f.con]) \subseteq DOMAIN f.out
      BY <1>10, <2>1 DEF Chosen, CasesOf, Outs, Fields
    <2>3. HasHeader(Types[f.con]) => a # 1 /\ 1 \in DOMAIN f.out
      <3>1. HasHeader(Types[f.con]) => a # 1
        BY <1>13, <2>2 DEF CasesOf, Kind
      <3>2. 1 \in DOMAIN f.out
        BY <1>1, ContainerFacts DEF Outs
      <3> QED
        BY <3>1, <3>2
    <2>4. HasHeader(Types[f.con]) => Had(h, 1) = 1
      BY <1>8, <2>1, <2>3 DEF Chosen
    <2>5. \A i \in CasesOf(Types[f.con]) \ {a} : Had(h, i) = 0
      BY <1>8, <1>10, <2>1, <2>2 DEF Chosen
    <2>6. Had(h, a) = 1
      BY <1>8, <2>1
    <2>7. ItemDone(h)
      BY <1>2, <1>13, <2>2, <2>4, <2>5, <2>6 DEF ItemDone, Chosen
    <2> QED
      BY <1>2, <1>3, <1>7, <2>7, ClosingArity
  <1> QED
    BY <1>9, <1>11, <1>12, <1>13

\* another step of the item.
LEMMA AtStepArity ==
    ASSUME Ordinary, NEW f, Shape(f), f.left \in Nat, Outs(f), ItemBegun(f), NEW k \in Nat \ {0}
    PROVE  ArityFrame(AtStep(f, k))
  <1> DEFINE g == AtStep(f, k)
  <1>1. Same(f, g) /\ g.pc \in {"tag", "length", "value"} /\ g.at = f.at /\ g.out = f.out /\ g.left = f.left
    BY AtStepOK
  <1> HIDE DEF g
  <1>2. Outs(g) /\ ItemBegun(g) /\ g.pc \in Begun
    BY <1>1, SameItems DEF Same, Begun
  <1>3. ArityFrame(g)
    BY <1>2, DueArity
  <1> QED
    BY <1>3 DEF g

\* The frame f without its innermost window.
LEMMA UnpaddedArity ==
    ASSUME Ordinary, NEW f, Shape(f), f.left \in Nat, f.open # <<>>, Outs(f), ItemDone(f)
    PROVE  ArityFrame(Closing([f EXCEPT !.open = SubSeq(@, 1, Len(@) - 1)]))
  <1> DEFINE h == [f EXCEPT !.open = SubSeq(@, 1, Len(@) - 1)]
  <1>1. Shape(h) /\ h.con = f.con /\ h.left = f.left /\ h.out = f.out /\ h.at = f.at
    BY FewerOpen
  <1> HIDE DEF h
  <1>2. Outs(h) /\ ItemDone(h)
    BY <1>1, SameItems
  <1>3. ArityFrame(Closing(h))
    BY <1>1, <1>2, ClosingArity
  <1> QED
    BY <1>3 DEF h

\* A frame at the same field with the same items, whatever a counter says.
LEMMA SameFields ==
    ASSUME NEW f, NEW g, g.con = f.con, g.at = f.at, g.out = f.out
    PROVE  /\ Outs(f) => Outs(g)
           /\ Around(f) => Around(g)
           /\ Singles(f) => Singles(g)
           /\ Chosen(f) => Chosen(g)
           /\ AllWhole(f) => AllWhole(g)
           /\ Field(g) = Field(f) /\ \A i : Had(g, i) = Had(f, i)
  <1>1. Field(g) = Field(f) /\ \A i : Had(g, i) = Had(f, i)
    BY DEF Field, Had
  <1>2. \A i : Whole(f, i) => Whole(g, i)
    BY <1>1 DEF Whole
  <1>3. (Around(f) => Around(g)) /\ (Singles(f) => Singles(g)) /\ (Chosen(f) => Chosen(g))
    BY <1>1, <1>2 DEF Around, Singles, Chosen
  <1>4. (AllWhole(f) => AllWhole(g)) /\ (Outs(f) => Outs(g))
    BY <1>1, <1>2, <1>3 DEF AllWhole, Outs
  <1> QED
    BY <1>1, <1>3, <1>4

-----------------------------------------------------------------------------
(* Every step keeps the items: sequences.                                  *)

LEMMA ArityTop ==
    ASSUME Ordinary, IInv, ArityInv, status = "running",
           NEW g,
           \/ Become(g)
           \/ frames' = Append(frames, g)
           \/ /\ Len(frames) # 1
              /\ frames' = [SubSeq(frames, 1, Len(frames) - 1) EXCEPT ![Len(SubSeq(frames, 1, Len(frames) - 1))] = g],
           ArityFrame(g)
    PROVE  ArityInv'
  <1>1. \A k \in DOMAIN frames' : frames'[k] = g \/ (k \in DOMAIN frames /\ frames'[k] = frames[k])
    BY FramesAfter
  <1> QED
    BY <1>1 DEF ArityInv

LEMMA ArityStays ==
    ASSUME ArityInv, UNCHANGED frames
    PROVE  ArityInv'
  BY DEF ArityInv

LEMMA ArityGo ==
    ASSUME Ordinary, IInv, ArityInv, status = "running", NEW g, Go(g), ArityFrame(g)
    PROVE  ArityInv'
  BY ArityTop DEF Go

LEMMA ArityFail ==
    ASSUME ArityInv, NEW kind, Fail(kind)
    PROVE  ArityInv'
  BY ArityStays DEF Fail

LEMMA ArityRead ==
    ASSUME Ordinary, IInv, ArityInv, status = "running", NEW n, NEW g, Read(n, g), ~Lacks(n) => ArityFrame(g)
    PROVE  ArityInv'
  <1>1. CASE Lacks(n)
    BY <1>1, ArityStays DEF Read
  <1>2. CASE ~Lacks(n)
    BY <1>2, ArityTop DEF Read
  <1> QED
    BY <1>1, <1>2

LEMMA TopArity ==
    ASSUME Ordinary, IInv, ArityInv, status = "running"
    PROVE  ArityFrame(Top) /\ Outs(Top) /\ FieldArity(Top) /\ CaseArity(Top)
  <1>1. Len(frames) \in Nat \ {0} /\ DOMAIN frames = 1 .. Len(frames)
    BY TopFacts
  <1>2. Len(frames) \in DOMAIN frames
    BY <1>1
  <1> QED
    BY <1>2 DEF ArityInv, ArityFrame, Top

\* At the places of a sequence.
LEMMA TopOfSequence ==
    ASSUME Ordinary, IInv, ArityInv, NEW p \in OfSequences, Here(p)
    PROVE  /\ status = "running" /\ Top.pc = p /\ Shape(Top) /\ Top.open = <<>>
           /\ Kind(Top.con) = "sequence" /\ F = Field(Top) /\ GoodField(F)
           /\ p # "quota" => Top.left \in Nat
           /\ p \in {"ahead", "again", "peek", "match"} => Tagged(F)
           /\ Outs(Top) /\ Around(Top) /\ FieldArity(Top)
           /\ Had(Top, Top.at) \in Nat
           /\ F.multi /\ Tagged(F) => ~Counted(F) /\ F.cond = ""
  <1>1. /\ status = "running" /\ Top.pc = p /\ Shape(Top) /\ Top.open = <<>>
        /\ Kind(Top.con) = "sequence" /\ F = Field(Top) /\ GoodField(F)
        /\ p # "quota" => Top.left \in Nat
        /\ p \in {"ahead", "again", "peek", "match"} => Tagged(F)
    BY AtPlaceOfSequence
  <1>2. Outs(Top) /\ FieldArity(Top)
    BY <1>1, TopArity
  <1> DEFINE f == Top
             G == F
  <1>3. Shape(f) /\ Outs(f) /\ FieldArity(f) /\ f.pc = p /\ Kind(f.con) = "sequence" /\ G = Field(f)
    BY <1>1, <1>2
  <1> HIDE DEF f, G
  <1>4. Around(f)
    BY <1>3 DEF FieldArity
  <1>5. Had(f, f.at) \in Nat /\ f.con \in Containers /\ f.at \in DOMAIN Fields(f.con)
    BY <1>3, HadFacts, ShapeFacts
  <1>6. GoodSequence(Types[f.con])
    BY <1>3, <1>5, ContainerFacts DEF GoodContainer, Kind
  <1>7. G.multi /\ Tagged(G) => ~Counted(G) /\ G.cond = ""
    BY <1>3, <1>5, <1>6 DEF GoodSequence, Field, Fields
  <1> QED
    BY <1>1, <1>2, <1>4, <1>5, <1>7 DEF f, G

\* The field at hand is complete, and the next one begins.
LEMMA NextFieldArity ==
    ASSUME Ordinary, IInv, ArityInv, NEW p \in OfSequences \ {"quota"}, Here(p), NextField, Whole(Top, Top.at)
    PROVE  ArityInv'
  <1> DEFINE f == Top
             g == Skipping(f)
  <1>1. /\ status = "running" /\ Shape(f) /\ f.open = <<>> /\ Kind(f.con) = "sequence" /\ f.left \in Nat
        /\ Outs(f) /\ Around(f) /\ Whole(f, f.at)
    BY TopOfSequence
  <1>2. Go(g)
    BY DEF NextField
  <1> HIDE DEF f
  <1>3. ArityFrame(g)
    BY <1>1, SkippingArity
  <1> HIDE DEF g
  <1> QED
    BY <1>1, <1>2, <1>3, ArityGo

\* Another place p of the same field, with so many items left.
PlaceDue(f, p, left) ==
    LET G == Field(f)
        n == Had(f, f.at)
    IN /\ p \in OfSequences \cup {"item"}
       /\ p \in {"field", "ahead", "more", "count", "quota"} => n = 0
       /\ p \in {"ahead", "peek", "match"} => G.multi \/ (G.presence = "O" /\ n = 0)
       /\ p = "more" => ~G.multi /\ G.presence = "O"
       /\ p \in {"count", "quota"} => G.multi
       /\ p = "loop" => G.multi /\ (Counted(G) => ArityOK(G, left + n))
       /\ p \in {"arity", "again"} => G.multi
       /\ p = "item" => IF G.multi THEN Counted(G) => ArityOK(G, left + n + 1) ELSE n = 0

LEMMA PlaceArity ==
    ASSUME NEW f, Kind(f.con) = "sequence", Outs(f), Around(f),
           NEW g, g.con = f.con, g.at = f.at, g.out = f.out, PlaceDue(f, g.pc, g.left)
    PROVE  ArityFrame(g)
  <1>1. Outs(g) /\ Around(g) /\ Field(g) = Field(f) /\ \A i : Had(g, i) = Had(f, i)
    BY SameFields
  <1>2. CASE g.pc = "item"
    <2>1. ItemDue(g)
      BY <1>1, <1>2 DEF ItemDue, PlaceDue
    <2> QED
      BY <1>1, <1>2, <2>1, DueArity
  <1>3. CASE g.pc \in OfSequences
    <2>1. FieldArity(g)
      BY <1>1, <1>3 DEF FieldArity, OfSequences, PlaceDue
    <2> QED
      BY <1>1, <1>3, <2>1, FieldPlace
  <1> QED
    BY <1>2, <1>3 DEF PlaceDue

LEMMA MovedArity ==
    ASSUME NEW f, Shape(f), Kind(f.con) = "sequence", Outs(f), Around(f), NEW p, PlaceDue(f, p, f.left)
    PROVE  ArityFrame([f EXCEPT !.pc = p])
  <1> DEFINE g == [f EXCEPT !.pc = p]
  <1>1. p \in Places
    BY DEF PlaceDue, Places
  <1>2. Same(f, g) /\ g.pc = p /\ g.at = f.at /\ g.out = f.out /\ g.left = f.left
    BY <1>1, AtPlace
  <1> HIDE DEF g
  <1>3. ArityFrame(g)
    BY <1>2, PlaceArity DEF Same
  <1> QED
    BY <1>3 DEF g

LEMMA EnterFieldArity ==
    ASSUME Ordinary, IInv, ArityInv, EnterField
    PROVE  ArityInv'
  <1> DEFINE f == Top
             p == FirstStep
  <1>1. Here("field") /\ "field" \in OfSequences
    BY DEF EnterField, OfSequences
  <1>2. /\ status = "running" /\ f.pc = "field" /\ Shape(f) /\ Kind(f.con) = "sequence" /\ F = Field(f)
        /\ Outs(f) /\ Around(f) /\ FieldArity(f) /\ GoodField(F)
    BY <1>1, TopOfSequence
  <1>3. Had(f, f.at) = 0
    BY <1>2 DEF FieldArity
  <1>4. /\ p \in {"match", "ahead", "count", "loop", "more", "item"}
        /\ p \in {"match", "ahead"} => F.multi \/ F.presence = "O"
        /\ p = "count" => F.multi
        /\ p = "loop" => F.multi /\ ~Counted(F)
        /\ p = "more" => ~F.multi /\ F.presence = "O"
        /\ p = "item" => ~F.multi
    BY DEF FirstStep
  <1>5. p \in Places
    BY <1>4 DEF Places, OfSequences
  <1>6. ASSUME NEW g, g.con = f.con, g.at = f.at, g.out = f.out, g.pc = p PROVE ArityFrame(g)
    <2> HIDE DEF f, p
    <2>1. PlaceDue(f, p, g.left)
      BY <1>2, <1>3, <1>4 DEF PlaceDue, OfSequences
    <2> QED
      BY <1>2, <1>6, <2>1, PlaceArity
  <1>7. CASE Discards /\ Top.vtag.set
    <2> DEFINE g == [f EXCEPT !.vtag = Cleared(@), !.pc = p]
    <2>1. Become(g)
      BY <1>7 DEF EnterField
    <2> HIDE DEF f, p
    <2>2. g.con = f.con /\ g.pc = p /\ g.at = f.at /\ g.out = f.out
      BY <1>2, <1>5, ClearedOK
    <2> HIDE DEF g
    <2> QED
      BY <1>2, <1>6, <2>1, <2>2, ArityTop
  <1>8. CASE ~(Discards /\ Top.vtag.set)
    <2> DEFINE g == [f EXCEPT !.pc = p]
    <2>1. Go(g)
      BY <1>8 DEF EnterField, Move
    <2> HIDE DEF f, p
    <2>2. g.con = f.con /\ g.pc = p /\ g.at = f.at /\ g.out = f.out
      BY <1>2, <1>5, AtPlace DEF Same
    <2> HIDE DEF g
    <2> QED
      BY <1>2, <1>6, <2>1, <2>2, ArityGo
  <1> QED
    BY <1>7, <1>8

LEMMA LookAheadArity ==
    ASSUME Ordinary, IInv, ArityInv, LookAhead
    PROVE  ArityInv'
  <1> DEFINE f == Top
  <1>1. Here("ahead") /\ "ahead" \in OfSequences
    BY DEF LookAhead, OfSequences
  <1>2. /\ status = "running" /\ f.pc = "ahead" /\ Shape(f) /\ f.open = <<>> /\ Kind(f.con) = "sequence"
        /\ F = Field(f) /\ f.left \in Nat /\ Outs(f) /\ Around(f) /\ FieldArity(f)
    BY <1>1, TopOfSequence
  <1>3. Had(f, f.at) = 0 /\ (F.multi \/ F.presence = "O")
    BY <1>2 DEF FieldArity
  <1>4. \/ Become([f EXCEPT !.pc = "peek"])
        \/ Become([f EXCEPT !.pc = "match"])
        \/ ~F.multi /\ Become(Skipping(f))
    BY DEF LookAhead, Goto
  <1> HIDE DEF f
  <1>5. PlaceDue(f, "peek", f.left) /\ PlaceDue(f, "match", f.left)
    BY <1>2, <1>3 DEF PlaceDue, OfSequences
  <1>6. CASE Become([f EXCEPT !.pc = "peek"])
    <2>1. ArityFrame([f EXCEPT !.pc = "peek"])
      BY <1>2, <1>5, MovedArity
    <2> QED
      BY <1>2, <1>6, <2>1, ArityTop
  <1>7. CASE Become([f EXCEPT !.pc = "match"])
    <2>1. ArityFrame([f EXCEPT !.pc = "match"])
      BY <1>2, <1>5, MovedArity
    <2> QED
      BY <1>2, <1>7, <2>1, ArityTop
  <1>8. CASE ~F.multi /\ Become(Skipping(f))
    <2>1. Whole(f, f.at)
      BY <1>2, <1>3, <1>8 DEF Whole, Complete1, Field
    <2>2. ArityFrame(Skipping(f))
      BY <1>2, <2>1, SkippingArity
    <2> QED
      BY <1>2, <1>8, <2>2, ArityTop
  <1> QED
    BY <1>4, <1>6, <1>7, <1>8

LEMMA LookAgainArity ==
    ASSUME Ordinary, IInv, ArityInv, LookAgain
    PROVE  ArityInv'
  <1> DEFINE f == Top
             g == [f EXCEPT !.vtag = Cleared(@), !.pc = "arity"]
  <1>1. Here("again") /\ "again" \in OfSequences
    BY DEF LookAgain, OfSequences
  <1>2. /\ status = "running" /\ f.pc = "again" /\ Shape(f) /\ Kind(f.con) = "sequence"
        /\ Outs(f) /\ Around(f) /\ FieldArity(f)
    BY <1>1, TopOfSequence
  <1>3. Become([f EXCEPT !.pc = "peek"]) \/ Become(g)
    BY DEF LookAgain, Goto
  <1> HIDE DEF f
  <1>4. PlaceDue(f, "peek", f.left) /\ \A left : PlaceDue(f, "arity", left)
    BY <1>2 DEF FieldArity, PlaceDue, OfSequences
  <1>5. CASE Become([f EXCEPT !.pc = "peek"])
    <2>1. ArityFrame([f EXCEPT !.pc = "peek"])
      BY <1>2, <1>4, MovedArity
    <2> QED
      BY <1>2, <1>5, <2>1, ArityTop
  <1>6. CASE Become(g)
    <2>1. "arity" \in Places
      BY DEF Places, OfSequences
    <2>2. g.con = f.con /\ g.pc = "arity" /\ g.at = f.at /\ g.out = f.out
      BY <1>2, <2>1, ClearedOK
    <2>3. Become(g)
      BY <1>6
    <2> HIDE DEF g
    <2>4. ArityFrame(g)
      BY <1>2, <1>4, <2>2, PlaceArity
    <2> QED
      BY <1>2, <2>3, <2>4, ArityTop
  <1> QED
    BY <1>3, <1>5, <1>6

LEMMA PeekArity ==
    ASSUME Ordinary, IInv, ArityInv, Peek
    PROVE  ArityInv'
  <1> DEFINE f == Top
             n == Len(F.meta[1].of)
             v == Ahead(n)
             g == [f EXCEPT !.vtag = [set |-> TRUE, val |-> v], !.pc = "match"]
  <1>1. Here("peek") /\ "peek" \in OfSequences /\ Read(n, g)
    BY DEF Peek, OfSequences
  <1>2. /\ status = "running" /\ f.pc = "peek" /\ Shape(f) /\ Kind(f.con) = "sequence"
        /\ Outs(f) /\ Around(f) /\ FieldArity(f)
    BY <1>1, TopOfSequence
  <1> HIDE DEF f, n, v
  <1>3. f \in FrameType(f)
    BY <1>2, ShapeFacts
  <1>4. g.con = f.con /\ g.at = f.at /\ g.pc = "match" /\ g.out = f.out
    BY <1>3 DEF FrameType
  <1>5. \A left : PlaceDue(f, "match", left)
    BY <1>2 DEF FieldArity, PlaceDue, OfSequences
  <1> HIDE DEF g
  <1>6. ArityFrame(g)
    BY <1>2, <1>4, <1>5, PlaceArity
  <1> QED
    BY <1>1, <1>2, <1>6, ArityRead

LEMMA MatchArity ==
    ASSUME Ordinary, IInv, ArityInv, Match
    PROVE  ArityInv'
  <1> DEFINE f == Top
             g == [f EXCEPT !.vtag = Cleared(@), !.pc = "item"]
             G == F
  <1>1. Here("match") /\ "match" \in OfSequences \ {"quota"}
    BY DEF Match, OfSequences
  <1>2. /\ status = "running" /\ f.pc = "match" /\ Shape(f) /\ Kind(f.con) = "sequence" /\ G = Field(f)
        /\ Outs(f) /\ Around(f) /\ FieldArity(f) /\ Tagged(G)
        /\ (G.multi /\ Tagged(G) => ~Counted(G))
    BY <1>1, TopOfSequence
  <1>3. \/ G.multi /\ Go([f EXCEPT !.pc = "arity"])
        \/ ~G.multi /\ NextField
        \/ G.multi /\ Go([f EXCEPT !.pc = "item"])
        \/ ~G.multi /\ Go(g)
    BY DEF Match, Move
  <1>4. G.multi \/ (G.presence = "O" /\ Had(f, f.at) = 0)
    BY <1>2 DEF FieldArity
  <1>5. CASE ~G.multi /\ NextField
    <2>1. Whole(f, f.at)
      BY <1>2, <1>4, <1>5 DEF Whole, Complete1, Field
    <2> QED
      BY <1>1, <1>5, <2>1, NextFieldArity
  <1> HIDE DEF f, G
  <1>6. /\ G.multi => PlaceDue(f, "arity", f.left)
        /\ \A left : PlaceDue(f, "item", left)
    BY <1>2, <1>4 DEF PlaceDue, OfSequences
  <1>7. CASE G.multi /\ Go([f EXCEPT !.pc = "arity"])
    <2>1. ArityFrame([f EXCEPT !.pc = "arity"])
      BY <1>2, <1>6, <1>7, MovedArity
    <2> QED
      BY <1>2, <1>7, <2>1, ArityGo
  <1>8. CASE G.multi /\ Go([f EXCEPT !.pc = "item"])
    <2>1. ArityFrame([f EXCEPT !.pc = "item"])
      BY <1>2, <1>6, MovedArity
    <2> QED
      BY <1>2, <1>8, <2>1, ArityGo
  <1>9. CASE Go(g)
    <2>1. "item" \in Places
      BY DEF Places
    <2>2. g.con = f.con /\ g.pc = "item" /\ g.at = f.at /\ g.out = f.out
      BY <1>2, <2>1, ClearedOK
    <2>3. Go(g)
      BY <1>9
    <2> HIDE DEF g
    <2>4. ArityFrame(g)
      BY <1>2, <1>6, <2>2, PlaceArity
    <2> QED
      BY <1>2, <2>3, <2>4, ArityGo
  <1> QED
    BY <1>3, <1>5, <1>7, <1>8, <1>9

LEMMA MoreArity ==
    ASSUME Ordinary, IInv, ArityInv, More
    PROVE  ArityInv'
  <1> DEFINE f == Top
             G == F
  <1>1. Here("more") /\ "more" \in OfSequences \ {"quota"}
    BY DEF More, OfSequences
  <1>2. /\ status = "running" /\ f.pc = "more" /\ Shape(f) /\ Kind(f.con) = "sequence" /\ G = Field(f)
        /\ Outs(f) /\ Around(f) /\ FieldArity(f)
    BY <1>1, TopOfSequence
  <1>3. NextField \/ Go([f EXCEPT !.pc = "item"])
    BY DEF More, Move
  <1>4. ~G.multi /\ G.presence = "O" /\ Had(f, f.at) = 0
    BY <1>2 DEF FieldArity
  <1>5. CASE NextField
    <2>1. Whole(f, f.at)
      BY <1>2, <1>4 DEF Whole, Complete1, Field
    <2> QED
      BY <1>1, <1>5, <2>1, NextFieldArity
  <1> HIDE DEF f, G
  <1>6. CASE Go([f EXCEPT !.pc = "item"])
    <2>1. PlaceDue(f, "item", f.left)
      BY <1>2, <1>4 DEF PlaceDue, OfSequences
    <2>2. ArityFrame([f EXCEPT !.pc = "item"])
      BY <1>2, <2>1, MovedArity
    <2> QED
      BY <1>2, <1>6, <2>2, ArityGo
  <1> QED
    BY <1>3, <1>5, <1>6

LEMMA ReadCountArity ==
    ASSUME Ordinary, IInv, ArityInv, ReadCount
    PROVE  ArityInv'
  <1> DEFINE f == Top
             g(n) == [f EXCEPT !.left = n, !.pc = "quota"]
             m == Number(Ahead(F.counter))
             k == Callback(F.countOf, f.out)
  <1>1. Here("count") /\ "count" \in OfSequences
    BY DEF ReadCount, OfSequences
  <1>2. /\ status = "running" /\ f.pc = "count" /\ Shape(f) /\ Kind(f.con) = "sequence"
        /\ Outs(f) /\ Around(f) /\ FieldArity(f)
    BY <1>1, TopOfSequence
  <1>3. Read(F.counter, g(m)) \/ Go(g(k))
    BY DEF ReadCount
  <1> HIDE DEF f, m, k
  <1>4. ASSUME NEW n PROVE ArityFrame(g(n))
    <2> DEFINE h == g(n)
    <2>1. f \in FrameType(f)
      BY <1>2, ShapeFacts
    <2>2. h.con = f.con /\ h.at = f.at /\ h.pc = "quota" /\ h.out = f.out
      BY <2>1 DEF FrameType
    <2> HIDE DEF h
    <2>3. PlaceDue(f, "quota", h.left)
      BY <1>2 DEF FieldArity, PlaceDue, OfSequences
    <2>4. ArityFrame(h)
      BY <1>2, <2>2, <2>3, PlaceArity
    <2> QED
      BY <2>4 DEF h
  <1> HIDE DEF g
  <1> QED
    BY <1>2, <1>3, <1>4, ArityRead, ArityGo

LEMMA QuotaArity ==
    ASSUME Ordinary, IInv, ArityInv, Quota
    PROVE  ArityInv'
  <1> DEFINE f == Top
             G == F
             l == f.left
  <1>1. Here("quota") /\ "quota" \in OfSequences
    BY DEF Quota, OfSequences
  <1>2. /\ status = "running" /\ f.pc = "quota" /\ Shape(f) /\ Kind(f.con) = "sequence" /\ G = Field(f)
        /\ Outs(f) /\ Around(f) /\ FieldArity(f) /\ GoodField(G)
    BY <1>1, TopOfSequence
  <1>3. (ArityOK(G, l) /\ Go([f EXCEPT !.pc = "loop"])) \/ \E kind : Fail(kind)
    BY DEF Quota, Move
  <1> HIDE DEF f, G
  <1>4. CASE ArityOK(G, l) /\ Go([f EXCEPT !.pc = "loop"])
    <2>1. G.multi /\ Had(f, f.at) = 0
      BY <1>2 DEF FieldArity
    <2>2. l \in Int
      BY <1>2, <1>4 DEF ArityOK, GoodField
    <2>3. ArityOK(G, l + 0)
      <3> HIDE DEF l
      <3>1. l + 0 = l
        BY <2>2
      <3> QED
        BY <1>4, <3>1
    <2>4. PlaceDue(f, "loop", l)
      BY <1>2, <2>1, <2>3 DEF PlaceDue, OfSequences
    <2>5. ArityFrame([f EXCEPT !.pc = "loop"])
      BY <1>2, <2>4, MovedArity
    <2> QED
      BY <1>2, <1>4, <2>5, ArityGo
  <1> QED
    BY <1>3, <1>4, ArityFail

LEMMA LoopArity ==
    ASSUME Ordinary, IInv, ArityInv, Loop
    PROVE  ArityInv'
  <1> DEFINE f == Top
             G == F
             l == f.left
             n == Had(f, f.at)
             g == [f EXCEPT !.left = @ - 1, !.pc = "item"]
  <1>1. Here("loop") /\ "loop" \in OfSequences \ {"quota"}
    BY DEF Loop, OfSequences
  <1>2. /\ status = "running" /\ f.pc = "loop" /\ Shape(f) /\ Kind(f.con) = "sequence" /\ G = Field(f)
        /\ Outs(f) /\ Around(f) /\ FieldArity(f) /\ GoodField(G) /\ l \in Nat /\ n \in Nat
    BY <1>1, TopOfSequence
  <1>3. \/ Counted(G) /\ l > 0 /\ Go(g)
        \/ Counted(G) /\ ~(l > 0) /\ NextField
        \/ ~Counted(G) /\ Go([f EXCEPT !.pc = "item"])
        \/ ~Counted(G) /\ G.cond # "" /\ Items = <<>> /\ NextField
        \/ ~Counted(G) /\ Go([f EXCEPT !.pc = "arity"])
    BY DEF Loop, Move
  <1>4. G.multi /\ (Counted(G) => ArityOK(G, l + n))
    BY <1>2 DEF FieldArity
  <1>5. Items = <<>> => n = 0
    BY EmptySeq DEF Had, Items
  <1>6. CASE Counted(G) /\ ~(l > 0) /\ NextField
    <2>1. l + n = n
      <3> HIDE DEF l, n
      <3> QED
        BY <1>2, <1>6
    <2>2. ArityOK(G, n)
      BY <1>4, <1>6, <2>1
    <2>3. Whole(f, f.at)
      BY <1>2, <1>4, <2>2 DEF Whole, Complete1, Field, ArityOK
    <2> QED
      BY <1>1, <1>6, <2>3, NextFieldArity
  <1>7. CASE ~Counted(G) /\ G.cond # "" /\ Items = <<>> /\ NextField
    <2>1. Whole(f, f.at)
      BY <1>2, <1>4, <1>5, <1>7 DEF Whole, Complete1, Field
    <2> QED
      BY <1>1, <1>7, <2>1, NextFieldArity
  <1> HIDE DEF f, G
  <1>8. CASE Counted(G) /\ l > 0 /\ Go(g)
    <2>1. f \in FrameType(f)
      BY <1>2, ShapeFacts
    <2>2. g.con = f.con /\ g.at = f.at /\ g.pc = "item" /\ g.out = f.out /\ g.left = l - 1
      BY <2>1 DEF FrameType
    <2>3. l - 1 + n + 1 = l + n
      <3> HIDE DEF l, n
      <3> QED
        BY <1>2
    <2>4. PlaceDue(f, "item", l - 1)
      <3>1. ArityOK(G, l - 1 + n + 1)
        BY <1>4, <1>8, <2>3
      <3> QED
        BY <1>2, <1>4, <3>1 DEF PlaceDue, OfSequences
    <2>5. Go(g)
      BY <1>8
    <2> HIDE DEF g
    <2>6. ArityFrame(g)
      BY <1>2, <2>2, <2>4, PlaceArity
    <2> QED
      BY <1>2, <2>5, <2>6, ArityGo
  <1>9. CASE ~Counted(G) /\ Go([f EXCEPT !.pc = "item"])
    <2>1. PlaceDue(f, "item", f.left)
      BY <1>2, <1>4, <1>9 DEF PlaceDue, OfSequences
    <2>2. ArityFrame([f EXCEPT !.pc = "item"])
      BY <1>2, <2>1, MovedArity
    <2> QED
      BY <1>2, <1>9, <2>2, ArityGo
  <1>10. CASE ~Counted(G) /\ Go([f EXCEPT !.pc = "arity"])
    <2>1. PlaceDue(f, "arity", f.left)
      BY <1>2, <1>4 DEF PlaceDue, OfSequences
    <2>2. ArityFrame([f EXCEPT !.pc = "arity"])
      BY <1>2, <2>1, MovedArity
    <2> QED
      BY <1>2, <1>10, <2>2, ArityGo
  <1> QED
    BY <1>3, <1>6, <1>7, <1>8, <1>9, <1>10

LEMMA CheckArityArity ==
    ASSUME Ordinary, IInv, ArityInv, CheckArity
    PROVE  ArityInv'
  <1> DEFINE f == Top
             G == F
  <1>1. Here("arity") /\ "arity" \in OfSequences \ {"quota"}
    BY DEF CheckArity, OfSequences
  <1>2. f.pc = "arity" /\ G = Field(f) /\ FieldArity(f)
    BY <1>1, TopOfSequence
  <1>3. (ArityOK(G, Had(f, f.at)) /\ NextField) \/ \E kind : Fail(kind)
    BY DEF CheckArity, Had, Items
  <1>4. G.multi
    BY <1>2 DEF FieldArity
  <1>5. CASE ArityOK(G, Had(f, f.at)) /\ NextField
    <2>1. Whole(f, f.at)
      BY <1>2, <1>4, <1>5 DEF Whole, Complete1, Field, ArityOK
    <2> QED
      BY <1>1, <1>5, <2>1, NextFieldArity
  <1> QED
    BY <1>3, <1>5, ArityFail

-----------------------------------------------------------------------------
(* ... sets and choices.                                                   *)

LEMMA CasePlace ==
    ASSUME NEW g, Kind(g.con) # "sequence", Outs(g), g.pc \in OfOthers, CaseArity(g)
    PROVE  ArityFrame(g)
  BY DEF ArityFrame, FieldArity, OfSequences, OfOthers, Begun

LEMMA TopOfOther ==
    ASSUME Ordinary, IInv, ArityInv, NEW p \in OfOthers, Here(p)
    PROVE  /\ status = "running" /\ Top.pc = p /\ Shape(Top) /\ Top.open = <<>> /\ Top.left \in Nat
           /\ Top.con \in Containers /\ Kind(Top.con) \in {"set", "choice"} /\ F = Field(Top)
           /\ Outs(Top) /\ CaseArity(Top)
           /\ Kind(Top.con) = "set" => Singles(Top)
  <1>1. /\ status = "running" /\ Top.pc = p /\ Shape(Top) /\ Top.open = <<>> /\ Top.left \in Nat
        /\ Top.con \in Containers /\ Kind(Top.con) \in {"set", "choice"} /\ F = Field(Top)
    BY AtPlaceOfOther
  <1>2. Outs(Top) /\ CaseArity(Top)
    BY <1>1, TopArity
  <1>3. Top.pc # "return"
    BY <1>1 DEF OfOthers
  <1> QED
    BY <1>1, <1>2, <1>3 DEF CaseArity

LEMMA ScanArity ==
    ASSUME Ordinary, IInv, ArityInv, Scan
    PROVE  ArityInv'
  <1> DEFINE f == Top
             p == IF AtEnd THEN "complete" ELSE "header"
             g == [f EXCEPT !.pc = p]
  <1>1. Here("scan") /\ "scan" \in OfOthers /\ Become(g)
    BY DEF Scan, OfOthers, Goto
  <1>2. /\ status = "running" /\ f.pc = "scan" /\ Shape(f) /\ Outs(f) /\ CaseArity(f)
        /\ Kind(f.con) = "set" => Singles(f)
    BY <1>1, TopOfOther
  <1>3. p \in OfOthers /\ p \in {"complete", "header"} /\ p \in Places
    BY DEF OfOthers, Places
  <1> HIDE DEF f, p
  <1>4. Same(f, g) /\ g.pc = p /\ g.at = f.at /\ g.out = f.out
    BY <1>2, <1>3, AtPlace
  <1> HIDE DEF g
  <1>5. Kind(f.con) = "set" /\ g.con = f.con
    BY <1>2, <1>4 DEF CaseArity, Same
  <1>6. Outs(g) /\ Singles(g)
    BY <1>2, <1>4, <1>5, SameFields
  <1>7. CaseArity(g)
    BY <1>3, <1>4, <1>5, <1>6 DEF CaseArity
  <1>8. ArityFrame(g)
    BY <1>3, <1>4, <1>5, <1>6, <1>7, CasePlace
  <1> QED
    BY <1>1, <1>2, <1>8, ArityTop

\* A container that begins has no items.
LEMMA FreshArity ==
    ASSUME NEW g, g.con \in Containers, g.at = 1, g.out = [i \in DOMAIN Fields(g.con) |-> <<>>],
           g.pc = (IF Kind(g.con) = "sequence" THEN "field" ELSE IF Kind(g.con) = "set" THEN "scan" ELSE "header")
    PROVE  ArityFrame(g)
  <1>1. DOMAIN Fields(g.con) \subseteq Nat \ {0} /\ 1 \in DOMAIN Fields(g.con) /\ Kind(g.con) \in {"sequence", "set", "choice"}
    BY ContainerFacts
  <1>2. \A i \in DOMAIN Fields(g.con) : g.out[i] = <<>> /\ Had(g, i) = 0
    BY DEF Had
  <1>3. Listed(<<>>)
    BY DEF Listed
  <1>4. DOMAIN g.out = DOMAIN Fields(g.con)
    OBVIOUS
  <1>5. Outs(g)
    BY <1>2, <1>3, <1>4 DEF Outs
  <1>6. Had(g, g.at) = 0 /\ Around(g) /\ Singles(g)
    <2>1. \A i \in DOMAIN g.out : ~(i < g.at)
      BY <1>1, <1>4
    <2> QED
      BY <1>1, <1>2, <1>4, <2>1 DEF Around, Singles
  <1>7. CASE Kind(g.con) = "sequence"
    <2>1. g.pc = "field"
      BY <1>7
    <2>2. FieldArity(g) /\ g.pc \in OfSequences
      BY <1>6, <2>1 DEF FieldArity, OfSequences
    <2> QED
      BY <1>5, <1>7, <2>2, FieldPlace
  <1>8. CASE Kind(g.con) # "sequence"
    <2>1. g.pc = IF Kind(g.con) = "set" THEN "scan" ELSE "header"
      BY <1>8
    <2>2. CaseArity(g) /\ g.pc \in OfOthers
      BY <1>1, <1>2, <1>4, <1>6, <1>8, <2>1 DEF CaseArity, OfOthers
    <2> QED
      BY <1>5, <1>8, <2>2, CasePlace
  <1> QED
    BY <1>7, <1>8

LEMMA FrameArity ==
    ASSUME Ordinary, IInv, NEW ty \in Containers
    PROVE  ArityFrame(Frame(ty))
  <1> DEFINE g == Frame(ty)
  <1>1. /\ g.con = ty /\ g.at = 1 /\ g.out = [i \in DOMAIN Fields(ty) |-> <<>>]
        /\ g.pc = (IF Kind(ty) = "sequence" THEN "field" ELSE IF Kind(ty) = "set" THEN "scan" ELSE "header")
    BY FrameOKOf
  <1> HIDE DEF g
  <1>2. ArityFrame(g)
    BY <1>1, FreshArity
  <1> QED
    BY <1>2 DEF g

LEMMA ReadHeaderArity ==
    ASSUME Ordinary, IInv, ArityInv, ReadHeader
    PROVE  ArityInv'
  <1> DEFINE f == Top
             D == Types[f.con]
             n == Len(Fields(f.con)[1].meta[1].of)
             v == Ahead(n)
             g == [f EXCEPT !.vtag.val = v, !.pc = "find"]
  <1>1. Here("header") /\ "header" \in OfOthers
    BY DEF ReadHeader, OfOthers
  <1>2. /\ status = "running" /\ f.pc = "header" /\ Shape(f) /\ Outs(f) /\ CaseArity(f)
        /\ f.con \in Containers /\ Kind(f.con) \in {"set", "choice"}
        /\ Kind(f.con) = "set" => Singles(f)
    BY <1>1, TopOfOther
  <1>3. CASE HasHeader(D)
    <2>1. frames' = Append(frames, Frame(D.header))
      BY <1>3 DEF ReadHeader
    <2>2. D.header \in Containers
      BY <1>2, <1>3, ContainerFacts DEF GoodContainer, HasHeader
    <2>3. ArityFrame(Frame(D.header))
      BY <2>2, FrameArity
    <2> QED
      BY <1>2, <2>1, <2>3, ArityTop
  <1>4. CASE ~HasHeader(D)
    <2>1. Read(n, g)
      BY <1>4 DEF ReadHeader
    <2> HIDE DEF f, n, v
    <2>2. f \in FrameType(f)
      BY <1>2, ShapeFacts
    <2>3. g.con = f.con /\ g.at = f.at /\ g.pc = "find" /\ g.out = f.out
      BY <2>2 DEF FrameType
    <2> HIDE DEF g
    <2>4. Outs(g) /\ (Kind(f.con) = "set" => Singles(g)) /\ \A i : Had(g, i) = Had(f, i)
      BY <1>2, <2>3, SameFields
    <2>5. CasesOf(D) = DOMAIN f.out
      BY <1>2, <1>4 DEF CasesOf, Outs, Fields
    <2>6. CaseArity(g) /\ g.pc \in OfOthers
      BY <1>2, <1>4, <2>3, <2>4, <2>5 DEF CaseArity, OfOthers
    <2>7. ArityFrame(g)
      BY <1>2, <2>3, <2>4, <2>6, CasePlace
    <2> QED
      BY <1>2, <2>1, <2>7, ArityRead
  <1> QED
    BY <1>3, <1>4

LEMMA FindArity ==
    ASSUME Ordinary, IInv, ArityInv, Find
    PROVE  ArityInv'
  <1> DEFINE f == Top
             i == TheCase
             g == [f EXCEPT !.at = i, !.pc = "found"]
  <1>1. Here("find") /\ "find" \in OfOthers
    BY DEF Find, OfOthers
  <1>2. /\ status = "running" /\ f.pc = "find" /\ Shape(f) /\ f.open = <<>> /\ f.left \in Nat
        /\ Outs(f) /\ CaseArity(f) /\ f.con \in Containers /\ Kind(f.con) \in {"set", "choice"}
        /\ Kind(f.con) = "set" => Singles(f)
    BY <1>1, TopOfOther
  <1>3. CASE Cases # {} /\ Become(g)
    <2>1. i \in DOMAIN Fields(f.con) /\ i \in CasesOf(Types[f.con])
      BY <1>2, <1>3, TheCaseFacts
    <2> HIDE DEF f, i
    <2>2. Same(f, g) /\ g.pc = "found" /\ g.at = i /\ g.out = f.out
      BY <1>2, <2>1, FoundAt
    <2>3. Become(g)
      BY <1>3
    <2> HIDE DEF g
    <2>4. g.con = f.con /\ \A j : Had(g, j) = Had(f, j)
      BY <2>2 DEF Same, Had
    <2>5. Outs(g) /\ (Kind(g.con) = "set" => Singles(g))
      BY <1>2, <2>2, <2>4 DEF Outs, Singles
    <2>6. CaseArity(g) /\ g.pc \in OfOthers
      BY <1>2, <2>1, <2>2, <2>4, <2>5 DEF CaseArity, Chosen, OfOthers
    <2>7. ArityFrame(g)
      BY <1>2, <2>4, <2>5, <2>6, CasePlace
    <2> QED
      BY <1>2, <2>3, <2>7, ArityTop
  <1> QED
    BY <1>3, ArityFail DEF Find, Go

LEMMA FoundArity ==
    ASSUME Ordinary, IInv, ArityInv, Found
    PROVE  ArityInv'
  <1> DEFINE f == Top
             g == [f EXCEPT !.pc = "item"]
  <1>1. Here("found") /\ "found" \in OfOthers
    BY DEF Found, OfOthers
  <1>2. /\ status = "running" /\ f.pc = "found" /\ Shape(f)
        /\ Outs(f) /\ CaseArity(f) /\ Kind(f.con) \in {"set", "choice"}
        /\ Kind(f.con) = "set" => Singles(f)
    BY <1>1, TopOfOther
  <1>3. Fail("extra_ie") \/ Go(g)
    BY DEF Found, Move
  <1> HIDE DEF f
  <1>4. CASE Go(g)
    <2>1. "item" \in Places
      BY DEF Places
    <2>2. Same(f, g) /\ g.pc = "item" /\ g.at = f.at /\ g.out = f.out /\ g.left = f.left
      BY <1>2, <2>1, AtPlace
    <2> HIDE DEF g
    <2>3. ItemDue(f)
      BY <1>2 DEF ItemDue, CaseArity
    <2>4. Outs(g) /\ ItemDue(g)
      BY <1>2, <2>2, <2>3, SameItems DEF Same
    <2>5. ArityFrame(g)
      BY <2>2, <2>4, DueArity
    <2> QED
      BY <1>2, <1>4, <2>5, ArityGo
  <1> QED
    BY <1>3, <1>4, ArityFail

LEMMA CompleteArity ==
    ASSUME Ordinary, IInv, ArityInv, Complete
    PROVE  ArityInv'
  <1> DEFINE f == Top
             G == Fields(f.con)
             fault == [i \in DOMAIN G |-> Fault1(G[i], Len(f.out[i]), IsSet1(G[i], f.out[i]))]
             bad == {i \in DOMAIN G : fault[i] # ""}
             g == [f EXCEPT !.pc = "return"]
  <1>1. Here("complete") /\ "complete" \in OfOthers
    BY DEF Complete, OfOthers
  <1>2. /\ status = "running" /\ f.pc = "complete" /\ Shape(f) /\ f.con \in Containers
        /\ Outs(f) /\ CaseArity(f) /\ (Kind(f.con) = "set" => Singles(f))
    BY <1>1, TopOfOther
  <1>3. (bad = {} /\ Go(g)) \/ \E kind : Fail(kind)
    BY DEF Complete, Move
  <1>4. Kind(f.con) = "set"
    BY <1>2 DEF CaseArity
  <1>5. CASE bad = {} /\ Go(g)
    <2>1. \A i \in DOMAIN G : Fault1(G[i], Len(f.out[i]), IsSet1(G[i], f.out[i])) = ""
      BY <1>5
    <2>2. ASSUME NEW i \in DOMAIN f.out PROVE Whole(f, i)
      <3> DEFINE n == Had(f, i)
                 set == IsSet1(G[i], f.out[i])
      <3>1. i \in DOMAIN G /\ Fault1(G[i], n, set) = ""
        BY <1>2, <2>1, <2>2 DEF Outs, Had
      <3>2. set => n # 0
        BY <1>2, HadFacts DEF IsSet1
      <3>3. n \in Nat /\ GoodField(G[i])
        BY <1>2, <3>1, HadFacts, FieldFacts
      <3>4. ~G[i].multi => n <= 1
        BY <1>2, <1>4 DEF Singles
      <3> HIDE DEF n, set, f
      <3>5. CASE G[i].multi
        <4>1. ArityOK(G[i], n)
          BY <3>1, <3>5, ArityFault DEF Fault1
        <4> QED
          BY <3>5, <4>1 DEF Whole, Complete1, ArityOK, n
      <3>6. CASE ~G[i].multi
        <4>1. G[i].presence = "M" => set
          BY <3>1, <3>6 DEF Fault1
        <4>2. n = 0 \/ n = 1
          BY <3>3, <3>4, <3>6
        <4>3. n = 1 \/ (n = 0 /\ G[i].presence = "O")
          BY <3>2, <3>3, <4>1, <4>2 DEF GoodField
        <4> QED
          BY <3>6, <4>3 DEF Whole, Complete1, n
      <3> QED
        BY <3>5, <3>6
    <2> HIDE DEF f, fault, G
    <2>3. "return" \in Places
      BY DEF Places
    <2>4. Same(f, g) /\ g.pc = "return" /\ g.at = f.at /\ g.out = f.out
      BY <1>2, <2>3, AtPlace
    <2>5. Go(g)
      BY <1>5
    <2> HIDE DEF g
    <2>6. AllWhole(f)
      BY <1>4, <2>2 DEF AllWhole
    <2>7. Outs(g) /\ AllWhole(g)
      BY <1>2, <2>4, <2>6, SameFields DEF Same
    <2>8. ArityFrame(g)
      BY <2>4, <2>7, ReturnArity
    <2> QED
      BY <1>2, <2>5, <2>8, ArityGo
  <1> QED
    BY <1>3, <1>5, ArityFail

-----------------------------------------------------------------------------
(* ... and in an item.                                                     *)

LEMMA TopInItem ==
    ASSUME Ordinary, IInv, ArityInv, NEW p \in InItem \cup {"item"}, Here(p)
    PROVE  /\ status = "running" /\ Top.pc = p /\ Shape(Top) /\ Top.left \in Nat /\ F = Field(Top)
           /\ Top.con \in Containers /\ Top.at \in DOMAIN Fields(Top.con) /\ GoodField(F)
           /\ Outs(Top)
           /\ p = "item" => ItemDue(Top)
           /\ p \in Begun => ItemBegun(Top)
           /\ p \in {"close", "pad"} => ItemDone(Top)
  <1>1. /\ status = "running" /\ Top.pc = p /\ Shape(Top) /\ Top.left \in Nat /\ F = Field(Top)
        /\ Top.con \in Containers /\ Top.at \in DOMAIN Fields(Top.con) /\ GoodField(F)
    BY AtPlaceInItem
  <1>2. ArityFrame(Top)
    BY <1>1, TopArity
  <1> QED
    BY <1>1, <1>2 DEF ArityFrame

\* Another place in the item.
LEMMA BegunArity ==
    ASSUME NEW f, Outs(f), ItemBegun(f),
           NEW g, g.con = f.con, g.at = f.at, g.out = f.out, g.left = f.left, g.pc \in Begun
    PROVE  ArityFrame(g)
  <1>1. Outs(g) /\ ItemBegun(g)
    BY SameItems
  <1> QED
    BY <1>1, DueArity

\* A single-instance field begins without the item it may have had.
LEMMA BegunOver ==
    ASSUME NEW f, Shape(f), Outs(f), ItemDue(f),
           NEW h, h.con = f.con, h.at = f.at, h.left = f.left,
           h.out = [f.out EXCEPT ![f.at] = IF Field(f).multi THEN @ ELSE <<>>]
    PROVE  Outs(h) /\ ItemBegun(h)
  <1> DEFINE a == f.at
             G == Field(f)
  <1>1. /\ \A i \in DOMAIN f.out : Had(f, i) \in Nat
        /\ a \in DOMAIN f.out /\ DOMAIN f.out \subseteq Nat /\ Kind(f.con) \in {"sequence", "set", "choice"}
    BY HadFacts
  <1>2. Field(h) = G /\ h.at = a
    BY DEF Field
  <1>3. CASE G.multi
    <2>1. h.out = [f.out EXCEPT ![a] = f.out[a]]
      BY <1>3
    <2>2. DOMAIN h.out = DOMAIN f.out /\ \A i \in DOMAIN f.out : h.out[i] = f.out[i]
      BY <2>1
    <2>3. \A i \in DOMAIN f.out : Had(h, i) = Had(f, i)
      BY <2>2 DEF Had
    <2>4. Outs(h)
      BY <2>2 DEF Outs
    <2>5. Around(f) => Around(h)
      BY <2>2, <2>3 DEF Around, Whole
    <2>6. Singles(f) => Singles(h)
      BY <2>2, <2>3 DEF Singles
    <2>7. Chosen(f) => Chosen(h)
      <3>1. CasesOf(Types[f.con]) \subseteq DOMAIN f.out
        BY DEF CasesOf, Outs, Fields
      <3>2. 1 \in DOMAIN f.out
        BY <1>1, ShapeFacts, ContainerFacts DEF Outs
      <3> QED
        BY <2>3, <3>1, <3>2 DEF Chosen
    <2>8. Had(h, a) = Had(f, a)
      BY <1>1, <2>3
    <2>9. ItemDue(h)
      BY <1>2, <2>5, <2>6, <2>7, <2>8 DEF ItemDue
    <2>10. ItemBegun(h)
      BY <1>2, <1>3, <2>9 DEF ItemBegun
    <2> QED
      BY <2>4, <2>10
  <1>4. CASE ~G.multi
    <2>1. h.out = [f.out EXCEPT ![a] = <<>>]
      BY <1>4
    <2>2. DOMAIN h.out = DOMAIN f.out /\ h.out[a] = <<>> /\ \A i \in DOMAIN f.out \ {a} : h.out[i] = f.out[i]
      BY <1>1, <2>1
    <2>3. Had(h, a) = 0 /\ \A i \in DOMAIN f.out \ {a} : Had(h, i) = Had(f, i)
      BY <2>2 DEF Had
    <2>4. Outs(h)
      <3>1. Listed(<<>>)
        BY DEF Listed
      <3>2. \A i \in DOMAIN h.out : Listed(h.out[i])
        BY <2>2, <3>1 DEF Outs
      <3> QED
        BY <2>2, <3>2 DEF Outs
    <2>5. Around(f) => Around(h)
      <3>1. \A i \in DOMAIN f.out : i < a \/ i > a => Had(h, i) = Had(f, i)
        BY <1>1, <2>3
      <3> HIDE DEF a
      <3>2. f.at = a
        BY DEF a
      <3> QED
        BY <1>2, <2>2, <3>1, <3>2 DEF Around, Whole
    <2>6. Singles(f) => Singles(h)
      <3> SUFFICES ASSUME Singles(f), NEW i \in DOMAIN h.out, ~Fields(h.con)[i].multi PROVE Had(h, i) <= 1
        BY DEF Singles
      <3>1. CASE i = a
        BY <2>3, <3>1
      <3>2. CASE i # a
        BY <2>2, <2>3, <3>2 DEF Singles
      <3> QED
        BY <3>1, <3>2
    <2>7. Kind(f.con) = "choice" /\ Chosen(f) => Chosen(h)
      <3> SUFFICES ASSUME Kind(f.con) = "choice", Chosen(f) PROVE Chosen(h)
        OBVIOUS
      <3>1. CasesOf(Types[f.con]) \subseteq DOMAIN f.out /\ a \in CasesOf(Types[f.con])
        BY DEF CasesOf, Outs, Fields, Chosen
      <3>2. 1 \in DOMAIN f.out
        BY <1>1, ShapeFacts, ContainerFacts DEF Outs
      <3>3. HasHeader(Types[f.con]) => a # 1
        BY <3>1 DEF CasesOf, Kind
      <3> HIDE DEF a
      <3>4. f.at = a
        BY DEF a
      <3> QED
        BY <1>2, <2>3, <3>1, <3>2, <3>3, <3>4 DEF Chosen
    <2>8. ItemDue(h)
      BY <1>2, <1>4, <2>3, <2>5, <2>6, <2>7 DEF ItemDue
    <2>9. ItemBegun(h)
      BY <1>2, <2>3, <2>8 DEF ItemBegun
    <2> QED
      BY <2>4, <2>9
  <1> QED
    BY <1>3, <1>4

LEMMA BeginItemArity ==
    ASSUME Ordinary, IInv, ArityInv, BeginItem
    PROVE  ArityInv'
  <1> DEFINE f == Top
             k == IF Tagged(F) /\ (F.multi \/ F.presence = "O" \/ Kind(f.con) # "sequence") THEN 2 ELSE 1
             h == [f EXCEPT !.out[f.at] = IF F.multi THEN @ ELSE <<>>]
             g == AtStep(h, k)
  <1>1. Here("item")
    BY DEF BeginItem
  <1>2. /\ status = "running" /\ Shape(f) /\ f.left \in Nat /\ F = Field(f) /\ Outs(f) /\ ItemDue(f)
    BY <1>1, TopInItem
  <1>3. Fail("out_of_memory") \/ Go(g)
    BY DEF BeginItem
  <1>4. CASE Go(g)
    <2>1. /\ Shape(h) /\ h.con = f.con /\ h.left = f.left /\ h.at = f.at
          /\ h.out = [f.out EXCEPT ![f.at] = IF F.multi THEN @ ELSE <<>>]
      <3> HIDE DEF f
      <3> QED
        BY <1>2, ShapeFacts DEF Shape, FrameType, Field
    <2>2. k \in Nat \ {0}
      OBVIOUS
    <2> HIDE DEF h, k, f
    <2>3. Outs(h) /\ ItemBegun(h)
      BY <1>2, <2>1, BegunOver
    <2>4. ArityFrame(g)
      BY <1>2, <2>1, <2>2, <2>3, AtStepArity
    <2> HIDE DEF g
    <2> QED
      BY <1>2, <1>4, <2>4, ArityGo
  <1> QED
    BY <1>3, <1>4, ArityFail

LEMMA ReadOctetsArity ==
    ASSUME Ordinary, IInv, ArityInv, NEW p \in {"tag", "length"}, Here(p), NEW q \in {"expect", "open"},
           NEW v, NEW n, Read(n, [Top EXCEPT !.octets = v, !.pc = q])
    PROVE  ArityInv'
  <1> DEFINE f == Top
             g == [f EXCEPT !.octets = v, !.pc = q]
  <1>1. p \in InItem \cup {"item"} /\ p \in Begun /\ q \in Begun
    BY DEF InItem, Begun
  <1>2. status = "running" /\ Shape(f) /\ Outs(f) /\ ItemBegun(f)
    BY <1>1, TopInItem
  <1>3. Read(n, g) /\ f \in FrameType(f)
    BY <1>2, ShapeFacts
  <1> HIDE DEF f
  <1>4. g.con = f.con /\ g.at = f.at /\ g.out = f.out /\ g.left = f.left /\ g.pc = q
    BY <1>3 DEF FrameType
  <1> HIDE DEF g
  <1>5. ArityFrame(g)
    BY <1>1, <1>2, <1>4, BegunArity
  <1> QED
    BY <1>2, <1>3, <1>5, ArityRead

LEMMA ExpectArity ==
    ASSUME Ordinary, IInv, ArityInv, Expect
    PROVE  ArityInv'
  <1> DEFINE f == Top
             k == f.step + 1
             g == AtStep(f, k)
  <1>1. Here("expect") /\ "expect" \in InItem \cup {"item"} /\ "expect" \in Begun
    BY DEF Expect, InItem, Begun
  <1>2. status = "running" /\ Shape(f) /\ f.left \in Nat /\ Outs(f) /\ ItemBegun(f)
    BY <1>1, TopInItem
  <1>3. Fail("unknown_tag") \/ Go(g)
    BY DEF Expect
  <1>4. CASE Go(g)
    <2>1. k \in Nat \ {0}
      BY <1>2, ShapeFacts
    <2> HIDE DEF k, f
    <2>2. ArityFrame(g)
      BY <1>2, <2>1, AtStepArity
    <2> HIDE DEF g
    <2> QED
      BY <1>2, <1>4, <2>2, ArityGo
  <1> QED
    BY <1>3, <1>4, ArityFail

LEMMA OpenWindowArity ==
    ASSUME Ordinary, IInv, ArityInv, OpenWindow
    PROVE  ArityInv'
  <1> DEFINE f == Top
             h == [f EXCEPT !.open = Append(@, [step |-> f.step, from |-> cursor])]
             k == f.step + 1
             g == AtStep(h, k)
  <1>1. Here("open") /\ "open" \in InItem \cup {"item"} /\ "open" \in Begun
    BY DEF OpenWindow, InItem, Begun
  <1>2. /\ status = "running" /\ Shape(f) /\ f.left \in Nat /\ F = Field(f) /\ Outs(f) /\ ItemBegun(f)
    BY <1>1, TopInItem
  <1>3. Info.kind = "len" /\ f.step \in DOMAIN F.meta /\ f.step \in Nat /\ F.meta[f.step] = Info
    BY <1>1, InfoFacts DEF Info
  <1>4. cursor \in Nat
    BY BufferFacts DEF IInv
  <1>5. UNCHANGED frames \/ Become(g)
    BY DEF OpenWindow, Opened
  <1>6. CASE Become(g)
    <2>1. k \in Nat \ {0}
      <3> DEFINE i == f.step
      <3>1. i \in Nat
        BY <1>3
      <3> HIDE DEF i
      <3>2. i + 1 \in Nat \ {0}
        BY <3>1
      <3> QED
        BY <3>2 DEF i
    <2> HIDE DEF f, k
    <2>2. Shape(h) /\ h.con = f.con /\ h.left = f.left /\ h.out = f.out /\ h.at = f.at
      <3>1. f.step \in DOMAIN Field(f).meta /\ f.step \in Nat /\ Field(f).meta[f.step].kind = "len"
        BY <1>2, <1>3
      <3> QED
        BY <1>2, <1>4, <3>1, MoreOpen
    <2> HIDE DEF h
    <2>3. Outs(h) /\ ItemBegun(h)
      BY <1>2, <2>2, SameItems
    <2>4. ArityFrame(g)
      BY <1>2, <2>1, <2>2, <2>3, AtStepArity
    <2>5. Become(g)
      BY <1>6
    <2> HIDE DEF g
    <2> QED
      BY <1>2, <2>4, <2>5, ArityTop
  <1> QED
    BY <1>5, <1>6, ArityStays

\* A case whose tag is its first field begins with that tag.
LEMMA TaggedArity ==
    ASSUME Ordinary, IInv, NEW ty \in Containers, Kind(ty) = "sequence", Len(Fields(ty)) > 1,
           ~Fields(ty)[1].multi, NEW tag
    PROVE  ArityFrame(FrameWithTag(ty, tag))
  <1> DEFINE g == FrameWithTag(ty, tag)
  <1>1. /\ g.con = ty /\ g.pc = "field" /\ g.at = 2
        /\ g.out = [[i \in DOMAIN Fields(ty) |-> <<>>] EXCEPT ![1] = <<tag>>]
    BY FrameWithTagOK
  <1> HIDE DEF g
  <1>2. DOMAIN Fields(ty) = 1 .. Len(Fields(ty)) /\ Len(Fields(ty)) \in Nat
    BY ContainerFacts
  <1>3. 2 \in DOMAIN Fields(ty) /\ 1 \in DOMAIN Fields(ty) /\ DOMAIN Fields(ty) \subseteq Nat \ {0}
    BY <1>2
  <1>4. DOMAIN g.out = DOMAIN Fields(ty) /\ g.out[1] = <<tag>> /\ \A i \in DOMAIN Fields(ty) \ {1} : g.out[i] = <<>>
    BY <1>1, <1>3
  <1>5. Listed(<<tag>>) /\ Len(<<tag>>) = 1 /\ Listed(<<>>)
    <2>1. <<tag>> \in Seq({tag}) /\ <<>> \in Seq({tag})
      OBVIOUS
    <2> QED
      BY <2>1, ListedFacts
  <1>6. Outs(g)
    BY <1>1, <1>4, <1>5 DEF Outs
  <1>7. Had(g, 1) = 1 /\ \A i \in DOMAIN Fields(ty) \ {1} : Had(g, i) = 0
    BY <1>4, <1>5 DEF Had
  <1>8. Whole(g, 1)
    BY <1>1, <1>7 DEF Whole, Complete1
  <1>9. \A i \in DOMAIN Fields(ty) : (i < 2 => i = 1) /\ (i > 2 => i # 1)
    BY <1>3
  <1>10. Around(g)
    BY <1>1, <1>4, <1>7, <1>8, <1>9 DEF Around
  <1>11. Had(g, g.at) = 0
    BY <1>1, <1>3, <1>7
  <1>12. FieldArity(g) /\ g.pc \in OfSequences
    BY <1>1, <1>10, <1>11 DEF FieldArity, OfSequences
  <1>13. ArityFrame(g)
    BY <1>1, <1>6, <1>12, FieldPlace
  <1> QED
    BY <1>13 DEF g

LEMMA DecodeValueArity ==
    ASSUME Ordinary, IInv, ArityInv, DecodeValue
    PROVE  ArityInv'
  <1> DEFINE f == Top
             ty == Types[F.type]
  <1>1. Here("value") /\ "value" \in InItem \cup {"item"} /\ "value" \in Begun
    BY DEF DecodeValue, InItem, Begun
  <1>2. /\ status = "running" /\ f.pc = "value" /\ Shape(f) /\ f.left \in Nat /\ F = Field(f)
        /\ f.con \in Containers /\ f.at \in DOMAIN Fields(f.con) /\ GoodField(F)
        /\ Outs(f) /\ ItemBegun(f)
    BY <1>1, TopInItem
  <1>3. ASSUME NEW v PROVE ArityFrame(Got(f, v))
    <2> HIDE DEF f
    <2> QED
      BY <1>2, GotArity
  <1>4. CASE ty.kind = "value"
    <2> DEFINE n == Len(ty.of)
               v == Ahead(n)
               bad == [f EXCEPT !.pc = "invalid"]
               good == Got(f, v)
               ok == Accepts(ty.of, v)
               g == IF Lacks(n) THEN f ELSE IF ok THEN good ELSE bad
    <2>1. Read(n, g)
      BY <1>4 DEF DecodeValue
    <2>2. f \in FrameType(f) /\ ArityFrame(good)
      BY <1>2, <1>3, ShapeFacts
    <2> HIDE DEF n, v, f, ok, good
    <2>3. ArityFrame(bad)
      <3>1. bad.con = f.con /\ bad.at = f.at /\ bad.out = f.out /\ bad.left = f.left /\ bad.pc \in Begun
        BY <2>2 DEF FrameType, Begun
      <3> HIDE DEF bad
      <3> QED
        BY <1>2, <3>1, BegunArity
    <2> HIDE DEF bad
    <2>4. ~Lacks(n) => ArityFrame(g)
      BY <2>2, <2>3
    <2> HIDE DEF g
    <2> QED
      BY <1>2, <2>1, <2>4, ArityRead
  <1>5. CASE ty.kind = "string"
    <2> DEFINE g == Got(f, Ahead(end - cursor))
    <2>1. Fail("invalid_value") \/ Become(g)
      BY <1>5 DEF DecodeValue
    <2>2. ArityFrame(g)
      BY <1>3
    <2> HIDE DEF g
    <2> QED
      BY <1>2, <2>1, <2>2, ArityFail, ArityTop
  <1>6. CASE ty.kind = "empty"
    <2> DEFINE g == Got(f, <<>>)
    <2>1. Go(g)
      BY <1>6 DEF DecodeValue
    <2>2. ArityFrame(g)
      BY <1>3
    <2> HIDE DEF g
    <2> QED
      BY <1>2, <2>1, <2>2, ArityGo
  <1>7. CASE ty.kind \notin {"value", "string", "empty"}
    <2> DEFINE con == F.type
               tag == f.vtag.val
    <2>1. frames' = Append(frames, IF ExplicitTag THEN FrameWithTag(con, tag) ELSE Frame(con))
      BY <1>7 DEF DecodeValue
    <2>2. con \in Containers
      BY <1>2, <1>7, TypesAssumption DEF GoodField, Kind
    <2>3. CASE ~ExplicitTag
      <3>1. ArityFrame(Frame(con))
        BY <2>2, FrameArity
      <3> QED
        BY <1>2, <2>1, <2>3, <3>1, ArityTop
    <2>4. CASE ExplicitTag
      <3>1. Types[f.con].kind = "choice" /\ ~HasHeader(Types[f.con]) /\ F.meta[1].explicit
        BY <2>4 DEF ExplicitTag, Kind
      <3>2. f.at \in CasesOf(Types[f.con])
        BY <1>2, <3>1 DEF CasesOf, Fields
      <3>3. GoodCases(Types[f.con]) /\ F = Types[f.con].fields[f.at]
        BY <1>2, <3>1, ContainerFacts DEF GoodContainer, Field, Fields
      <3>4. Kind(con) = "sequence" /\ Len(Fields(con)) > 1 /\ ~Fields(con)[1].multi
        BY <2>2, <3>1, <3>2, <3>3 DEF GoodCases
      <3> HIDE DEF con, tag, f
      <3>5. ArityFrame(FrameWithTag(con, tag))
        BY <2>2, <3>4, TaggedArity
      <3> QED
        BY <1>2, <2>1, <2>4, <3>5, ArityTop
    <2> QED
      BY <2>3, <2>4
  <1> QED
    BY <1>4, <1>5, <1>6, <1>7

LEMMA CloseArity ==
    ASSUME Ordinary, IInv, ArityInv, Close
    PROVE  ArityInv'
  <1> DEFINE f == Top
             c == Closing([f EXCEPT !.open = SubSeq(@, 1, Len(@) - 1)])
             w == [f EXCEPT !.pc = "pad"]
  <1>1. Here("close") /\ "close" \in InItem \cup {"item"}
    BY DEF Close, InItem
  <1>2. status = "running" /\ Shape(f) /\ f.left \in Nat /\ Outs(f) /\ ItemDone(f)
    BY <1>1, TopInItem
  <1>3. f.open # <<>> /\ f \in FrameType(f)
    BY <1>1, <1>2, InnermostFacts, ShapeFacts
  <1>4. CASE Fail("overflow")
    BY <1>4, ArityFail
  <1>5. CASE Become(Closed)
    <2>1. Closed = c \/ Closed = w
      BY DEF Closed, Unpadded
    <2> HIDE DEF f
    <2>2. ArityFrame(c)
      BY <1>2, <1>3, UnpaddedArity
    <2>3. ArityFrame(w)
      <3>1. w.con = f.con /\ w.at = f.at /\ w.out = f.out /\ w.left = f.left /\ w.pc = "pad"
        BY <1>3 DEF FrameType
      <3> HIDE DEF w
      <3>2. Outs(w) /\ ItemDone(w)
        BY <1>2, <3>1, SameItems
      <3> QED
        BY <3>1, <3>2, DoneArity
    <2> HIDE DEF c, w
    <2> QED
      BY <1>2, <1>5, <2>1, <2>2, <2>3, ArityTop
  <1> QED
    BY <1>4, <1>5 DEF Close

LEMMA PadArity ==
    ASSUME Ordinary, IInv, ArityInv, Pad
    PROVE  ArityInv'
  <1> DEFINE f == Top
             n == PadSize(Window.pad, cursor - Innermost.from)
             g == Closing([f EXCEPT !.open = SubSeq(@, 1, Len(@) - 1)])
  <1>1. Here("pad") /\ "pad" \in InItem \cup {"item"} /\ Read(n, g)
    BY DEF Pad, InItem, Unpadded
  <1>2. status = "running" /\ Shape(f) /\ f.left \in Nat /\ Outs(f) /\ ItemDone(f)
    BY <1>1, TopInItem
  <1>3. f.open # <<>>
    BY <1>1, InnermostFacts
  <1> HIDE DEF f, n
  <1>4. ArityFrame(g)
    BY <1>2, <1>3, UnpaddedArity
  <1> HIDE DEF g
  <1> QED
    BY <1>1, <1>2, <1>4, ArityRead

-----------------------------------------------------------------------------
(* ... the ends of containers, and of messages.                            *)

\* The frame below goes on with what the container on top was decoded to.
LEMMA BelowArity ==
    ASSUME Ordinary, NEW f, FrameOK(f), Waits(f), ArityFrame(f), NEW v
    PROVE  ArityFrame(IF f.pc = "header" THEN GotHeader(f, v) ELSE Got(f, v))
  <1> DEFINE h == GotHeader(f, v)
             D == Types[f.con]
  <1>1. Shape(f) /\ Outs(f) /\ CaseArity(f) /\ f.con \in Containers
    BY ShapeFacts DEF FrameOK, ArityFrame
  <1>2. CASE f.pc = "header"
    <2>1. Kind(f.con) = "choice" /\ ~f.vtag.set /\ HasHeader(D)
      BY <1>1, <1>2, ContainerFacts DEF Waits, Shape
    <2>2. f.open = <<>> /\ f.left \in Nat
      BY <1>2 DEF FrameOK, Placed, InItem, Begun
    <2>3. h.pc = "find" /\ h.con = f.con /\ h.at = f.at /\ h.out = [f.out EXCEPT ![1] = <<v>>]
      BY <1>1, <2>1, <2>2, GotHeaderOK
    <2> HIDE DEF h
    <2>4. 1 \in DOMAIN f.out
      BY <1>1, ContainerFacts DEF Outs
    <2>5. DOMAIN h.out = DOMAIN f.out /\ h.out[1] = <<v>> /\ \A i \in DOMAIN f.out \ {1} : h.out[i] = f.out[i]
      BY <2>3, <2>4
    <2>6. Listed(<<v>>) /\ Len(<<v>>) = 1
      <3>1. <<v>> \in Seq({v})
        OBVIOUS
      <3> QED
        BY <3>1, ListedFacts
    <2>7. Outs(h)
      <3>1. \A i \in DOMAIN h.out : Listed(h.out[i])
        BY <1>1, <2>5, <2>6 DEF Outs
      <3> QED
        BY <1>1, <2>3, <2>5, <3>1 DEF Outs
    <2>8. Had(h, 1) = 1 /\ \A i \in DOMAIN f.out \ {1} : Had(h, i) = Had(f, i)
      BY <2>5, <2>6 DEF Had
    <2>9. CasesOf(D) \subseteq DOMAIN f.out \ {1}
      BY <1>1, <2>1 DEF CasesOf, Outs, Fields, Kind
    <2>10. \A i \in DOMAIN f.out : Had(f, i) = 0
      BY <1>1, <1>2, <2>1 DEF CaseArity
    <2>11. CaseArity(h) /\ h.pc \in OfOthers
      BY <2>1, <2>3, <2>8, <2>9, <2>10 DEF CaseArity, OfOthers
    <2>12. ArityFrame(h)
      BY <2>1, <2>3, <2>7, <2>11, CasePlace
    <2> QED
      BY <1>2, <2>12 DEF h
  <1>3. CASE f.pc = "value"
    <2>1. f.left \in Nat /\ ItemBegun(f)
      BY <1>3 DEF FrameOK, Placed, ArityFrame, Begun
    <2>2. ArityFrame(Got(f, v))
      BY <1>1, <2>1, GotArity
    <2> QED
      BY <1>3, <2>2
  <1> QED
    BY <1>2, <1>3 DEF Waits

LEMMA NoneArity ==
    ASSUME frames' = <<>>
    PROVE  ArityInv'
  <1>1. DOMAIN frames' = {}
    BY EmptySeq
  <1> QED
    BY <1>1 DEF ArityInv

LEMMA ReturnArityStep ==
    ASSUME Ordinary, IInv, ArityInv, Return
    PROVE  ArityInv'
  <1>1. status = "running"
    BY DEF Return, At
  <1>2. CASE Len(frames) = 1
    BY <1>2, NoneArity DEF Return
  <1>3. CASE Len(frames) # 1
    <2> DEFINE n == Len(frames)
               f == frames[n - 1]
               v == Top.out
               g == IF f.pc = "header" THEN GotHeader(f, v) ELSE Got(f, v)
               below == SubSeq(frames, 1, Len(frames) - 1)
    <2>1. Listed(frames) /\ frames # <<>> /\ n \in Nat \ {0} /\ DOMAIN frames = 1 .. n
      BY <1>1, TopFacts
    <2>2. n - 1 \in 1 .. n - 1 /\ n - 1 \in 1 .. n
      <3>1. n \in Nat \ {0} /\ n # 1
        BY <1>3, <2>1
      <3> HIDE DEF n
      <3> QED
        BY <3>1
    <2>3. Waits(f) /\ FrameOK(f) /\ ArityFrame(f)
      BY <2>1, <2>2 DEF IInv, DInv, Frames, ArityInv
    <2>4. below[Len(below)] = f
      <3>1. /\ Listed(below) /\ Len(below) = Len(frames) - 1 /\ (below = <<>> <=> Len(frames) = 1)
            /\ DOMAIN below = 1 .. Len(frames) - 1 /\ DOMAIN frames = 1 .. Len(frames) /\ Len(frames) \in Nat \ {0}
            /\ \A i \in 1 .. Len(frames) - 1 : below[i] = frames[i]
        BY <2>1, Popped
      <3> QED
        BY <2>2, <3>1
    <2>5. frames' = [below EXCEPT ![Len(below)] = g]
      <3>1. frames' = [below EXCEPT ![Len(below)] =
                          IF below[Len(below)].pc = "header" THEN GotHeader(below[Len(below)], v) ELSE Got(below[Len(below)], v)]
        BY <1>3 DEF Return
      <3> QED
        BY <3>1, <2>4
    <2>6. frames' = [SubSeq(frames, 1, Len(frames) - 1) EXCEPT ![Len(SubSeq(frames, 1, Len(frames) - 1))] = g]
      BY <2>5
    <2> HIDE DEF v, f
    <2>7. ArityFrame(g)
      BY <2>3, BelowArity
    <2> HIDE DEF g
    <2> QED
      BY <1>1, <1>3, <2>6, <2>7, ArityTop
  <1> QED
    BY <1>2, <1>3

LEMMA BeginArity ==
    ASSUME Ordinary, IInv, ArityInv, NEW ty \in Roots, NEW octets, NEW m, Begin(ty, octets, m)
    PROVE  ArityInv'
  <1> DEFINE f == Frame(ty)
             g == [f EXCEPT !.begin = 0]
  <1>1. frames' = <<g>>
    BY DEF Begin
  <1>2. ty \in Containers
    BY RootAssumption
  <1>3. /\ FrameOK(f) /\ f.con = ty /\ f.at = 1 /\ f.out = [i \in DOMAIN Fields(ty) |-> <<>>]
        /\ f.pc = (IF Kind(ty) = "sequence" THEN "field" ELSE IF Kind(ty) = "set" THEN "scan" ELSE "header")
    BY <1>2, FrameOKOf
  <1> HIDE DEF f
  <1>4. g.con = ty /\ g.at = 1 /\ g.out = f.out /\ g.pc = f.pc
    BY <1>3 DEF FrameOK, Shape, FrameType
  <1> HIDE DEF g
  <1>5. ArityFrame(g)
    BY <1>2, <1>3, <1>4, FreshArity
  <1>6. DOMAIN frames' = {1} /\ frames'[1] = g
    <2>1. <<g>> \in Seq({g}) /\ Len(<<g>>) = 1 /\ <<g>>[1] = g
      OBVIOUS
    <2>2. DOMAIN <<g>> = 1 .. 1
      BY <2>1, LenProperties
    <2> QED
      BY <1>1, <2>1, <2>2
  <1> QED
    BY <1>5, <1>6 DEF ArityInv

-----------------------------------------------------------------------------
LEMMA NextArity ==
    ASSUME Ordinary, IInv, ArityInv, [Next]_vars
    PROVE  ArityInv'
  <1>1. CASE EnterField \/ LookAhead \/ LookAgain \/ Peek \/ Match \/ More
    BY <1>1, EnterFieldArity, LookAheadArity, LookAgainArity, PeekArity, MatchArity, MoreArity
  <1>2. CASE ReadCount \/ Quota \/ Loop \/ CheckArity
    BY <1>2, ReadCountArity, QuotaArity, LoopArity, CheckArityArity
  <1>3. CASE Scan \/ ReadHeader \/ Find \/ Found \/ Complete
    BY <1>3, ScanArity, ReadHeaderArity, FindArity, FoundArity, CompleteArity
  <1>4. CASE BeginItem \/ Expect \/ OpenWindow
    BY <1>4, BeginItemArity, ExpectArity, OpenWindowArity
  <1>5. CASE ReadTag \/ ReadLength
    BY <1>5, ReadOctetsArity DEF ReadTag, ReadLength
  <1>6. CASE DecodeValue \/ Close \/ Pad
    BY <1>6, DecodeValueArity, CloseArity, PadArity
  <1>7. CASE Invalid
    BY <1>7, ArityFail DEF Invalid
  <1>8. CASE OpenPending \/ CommitLength
    BY <1>8, NotDeferred
  <1>9. CASE Return
    BY <1>9, ReturnArityStep
  <1>10. CASE Unwind
    BY <1>10, ArityStays DEF Unwind
  <1>11. CASE GiveUp \/ Release \/ Refuse
    <2>1. frames' = <<>>
      BY <1>11 DEF GiveUp, Release, Refuse, IInv, DInv, Control
    <2> QED
      BY <2>1, NoneArity
  <1>12. CASE Receive
    <2>1. PICK ty \in Roots : \E e \in Encoded[ty] : Begin(ty, e[2].octets, e[1])
      BY <1>12 DEF Receive
    <2> QED
      BY <2>1, BeginArity
  <1>13. CASE ReceiveAny
    <2>1. PICK ty \in Roots : \E octets \in Wires[ty] : Begin(ty, octets, NotSent)
      BY <1>13 DEF ReceiveAny
    <2> QED
      BY <2>1, BeginArity
  <1>14. CASE UNCHANGED vars
    BY <1>14, ArityStays DEF vars
  <1> QED
    BY <1>1, <1>2, <1>3, <1>4, <1>5, <1>6, <1>7, <1>8, <1>9, <1>10, <1>11, <1>12, <1>13, <1>14 DEF Next, Decode

LEMMA WholeAtReturn ==
    ASSUME Ordinary, IInv, ArityInv
    PROVE  ArityKept
  <1> SUFFICES ASSUME At("return")
               PROVE  IF Kind(Top.con) = "choice"
                      THEN /\ HasHeader(Types[Top.con]) => Len(Top.out[1]) = 1
                           /\ \E i \in CasesOf(Types[Top.con]) :
                                 /\ Len(Top.out[i]) = 1
                                 /\ \A j \in CasesOf(Types[Top.con]) \ {i} : Len(Top.out[j]) = 0
                      ELSE \A i \in DOMAIN Fields(Top.con) : Complete1(Fields(Top.con)[i], Len(Top.out[i]))
    BY DEF ArityKept
  <1> DEFINE f == Top
  <1>1. status = "running" /\ f.pc = "return"
    BY DEF At
  <1>2. ArityFrame(f) /\ Outs(f)
    BY <1>1, TopArity
  <1>3. AllWhole(f)
    BY <1>1, <1>2 DEF ArityFrame
  <1> HIDE DEF f
  <1>4. CASE Kind(f.con) = "choice"
    <2>1. Chosen(f) /\ Had(f, f.at) = 1
      BY <1>3, <1>4 DEF AllWhole
    <2> QED
      BY <1>4, <2>1 DEF Chosen, Had, f
  <1>5. CASE Kind(f.con) # "choice"
    <2>1. \A i \in DOMAIN f.out : Whole(f, i)
      BY <1>3, <1>5 DEF AllWhole
    <2> QED
      BY <1>2, <1>5, <2>1 DEF Whole, Had, Outs, f
  <1> QED
    BY <1>4, <1>5

\* Whatever octets arrive, a container ends only with as many items in every field as
\* med promises, whichever of its loops read them: check_arity at a counter (field.hpp,
\* sequence.hpp), behind the last item, set_check at the end of a set, the one case
\* of a choice.
THEOREM ItemsComplete ==
    ASSUME Ordinary
    PROVE  Spec => []ArityKept
  <1>1. Init => ArityInv
    <2>1. ASSUME Init PROVE ArityInv
      <3>1. frames = <<>>
        BY <2>1 DEF Init
      <3>2. DOMAIN frames = {}
        BY <3>1, EmptySeq
      <3> QED
        BY <3>2 DEF ArityInv
    <2> QED
      BY <2>1
  <1>2. IInv /\ ArityInv /\ [Next]_vars => ArityInv'
    BY NextArity
  <1>3. IInv /\ ArityInv => ArityKept
    BY WholeAtReturn
  <1> QED
    BY <1>1, <1>2, <1>3, Invariance, PTL DEF Spec
=============================================================================
