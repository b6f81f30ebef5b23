--------------------------- MODULE MessageDecoder ---------------------------
(***************************************************************************)
(* The octet decoder of med at work on a message: the sequence, set and    *)
(* choice decoders (seq_dec, set_dec and set_check, choice_dec) and the    *)
(* recursion of ie_decode and apply_len (decode.hpp), on the calls of the  *)
(* buffer, with padding and headers of its own.                            *)
(*                                                                         *)
(* The C++ recursion is a stack of frames, one for every container being   *)
(* decoded.  Every step is one call of the buffer (an action of Buffer) or *)
(* one decision between two calls.  Several messages are decoded through   *)
(* the same context, whatever became of the earlier ones.                  *)
(***************************************************************************)
EXTENDS MessageTypes, FiniteSets

CONSTANTS MemSize, LenDepth, Nesting, Deferred, NoState,     \* of Buffer
          Roots,         \* the containers decoded at the top level
          Messages,      \* root -> the messages a peer may have encoded
          Wires,         \* root -> what may arrive as well: any octets
          Allocators,    \* the contexts: with an allocator or without
          Reused,        \* the roots that also arrive in a context used before
          IsPresent(_, _),   \* is_set() and encode(), which MessageEncoding
          Encoder(_, _)      \* defines (IsSet, Encoding)

ASSUME RootAssumption == Roots # {} /\ Roots \subseteq Containers
ASSUME ContextAssumption == Allocators \subseteq BOOLEAN /\ Reused \subseteq Roots

\* What arrives is octets.
ASSUME OctetsAssumption ==
    \A ty \in Roots :
        /\ \A m \in Messages[ty] : Encoder(ty, m).octets \in Seq(AnyOctet)
        /\ \A w \in Wires[ty] : w \in Seq(AnyOctet)

\* Deferred tells of types whose lengths are read after the data has begun.
ASSUME DeferredTypes ==
    Deferred \/ \A ty \in Containers :
                   /\ Types[ty].lenField = 0
                   /\ \A i \in DOMAIN Fields(ty) :
                         LET meta == Fields(ty)[i].meta
                         IN \A k \in DOMAIN meta :
                               meta[k].kind = "len" => ~meta[k].explicit /\ meta[k].depends = ""

VARIABLES start, cursor, end, store, eob, eobIndex, scopes, looked, throwing,
          status,     \* "idle", "running", "ok", "failed"; "refused" by the encoder
          error,      \* the exception thrown, if any
          alloc,      \* the context has an allocator
          root,       \* the type of the message,
          wire,       \* its octets
          sent,       \* and what the peer encoded (NotSent: nobody did)
          frames,     \* the containers being decoded, outermost first
          result,     \* what the last message was decoded to
          dropped,    \* tags read ahead that no field took, in this message
          fresh       \* no message was decoded in this context yet

B == INSTANCE Buffer
ASSUME BufferAssumption ==
    B!MemAssumption /\ B!DepthAssumption /\ B!DeferredAssumption /\ B!NoStateAssumption

bvars == <<start, cursor, end, store, eob, eobIndex, scopes, looked, throwing>>
msg == <<root, wire, sent, alloc, fresh>>
ctl == <<msg, status, result, dropped>>
vars == <<bvars, ctl, error, frames>>

NotSent == <<>>
NoRoot == ""

\* vtag, a med::value<std::size_t>: clear() forgets that it is set, not its value.
NoVtag == [set |-> FALSE, val |-> <<0>>]
Cleared(vtag) == [vtag EXCEPT !.set = FALSE]

\* A frame: the container, the field it is at, where its decoder stands, the
\* meta-information of the item that is next (step), the windows its lengths have
\* opened, each with the place where its data began, the tag read ahead (vtag),
\* the contents so far, the octets just read, the items a counter still promises,
\* and the position where the container began.
Frame(ty) ==
    [con |-> ty, at |-> 1, step |-> 1, open |-> <<>>, vtag |-> NoVtag, octets |-> <<>>,
     left |-> 0, begin |-> cursor,
     out |-> [i \in DOMAIN Fields(ty) |-> <<>>],
     pc |-> CASE Kind(ty) = "sequence" -> "field"
              [] Kind(ty) = "set"      -> "scan"
              [] Kind(ty) = "choice"   -> "header"]

\* A case whose tag is its first field.
FrameWithTag(ty, tag) == [Frame(ty) EXCEPT !.at = 2, !.out[1] = <<tag>>]

Top == frames[Len(frames)]
Field(f) == Fields(f.con)[f.at]
F == Field(Top)                              \* the field the decoder is at
Items == Top.out[Top.at]
AtEnd == cursor >= end
Ahead(n) == SubSeq(wire, cursor + 1, cursor + n)

Become(f) == frames' = [frames EXCEPT ![Len(frames)] = f]
Goto(pc) == Become([Top EXCEPT !.pc = pc])

At(pc) == status = "running" /\ ~throwing /\ Top.pc = pc
Here(pc) == At(pc) /\ UNCHANGED ctl
Quiet == UNCHANGED error

\* Read n octets and go on as f, or unwind: size() < n.
Lacks(n) == end - cursor \in 0 .. n - 1
Read(n, f) ==
    /\ B!Advance(n, n)
    /\ IF Lacks(n) THEN UNCHANGED frames /\ error' = "overflow" ELSE Become(f) /\ Quiet

\* A slip: the stack is left without the destructors of size_state.
FailAbruptly(kind) ==
    /\ throwing' = TRUE /\ scopes' = <<>> /\ looked' = FALSE
    /\ error' = kind
    /\ UNCHANGED <<start, cursor, end, store, eob, eobIndex, frames>>

Fail(kind) == B!Raise /\ error' = kind /\ UNCHANGED frames

\* A step without a call of the buffer.
Go(f) == UNCHANGED bvars /\ Become(f) /\ Quiet
Move(pc) == Go([Top EXCEPT !.pc = pc])

Skipping(f) == IF f.at = Len(Fields(f.con)) THEN [f EXCEPT !.pc = "return"]
               ELSE [f EXCEPT !.at = @ + 1, !.pc = "field"]
NextField == Go(Skipping(Top))

\* AHasCondition
Holds == Callback(F.cond, Top.out)

\* The frame f with the meta-information before place k of its item done.
AtStep(f, k) ==
    LET meta == Field(f).meta
    IN [f EXCEPT !.step = k,
                 !.pc = IF k > Len(meta) THEN "value"
                        ELSE IF meta[k].kind = "tag" THEN "tag"
                        ELSE IF meta[k].explicit THEN "pending" ELSE "length"]
Info == F.meta[Top.step]

\* The frame f with the item at hand complete.
AfterItem(f) ==
    CASE Kind(f.con) = "set"    -> [f EXCEPT !.pc = "scan"]
      [] Kind(f.con) = "choice" -> [f EXCEPT !.pc = "return"]
      [] OTHER -> IF ~Field(f).multi THEN Skipping(f)
                  ELSE [f EXCEPT !.pc = IF Tagged(Field(f)) THEN "again" ELSE "loop"]

\* ... or the windows of its lengths still to be closed.
Closing(f) == IF f.open # <<>> THEN [f EXCEPT !.pc = "close"] ELSE AfterItem(f)

\* The frame f with value v for the item at hand.  Items are told apart by their order:
\* push_back links each of them once, as all that are decoded are set (GoodContainer).
Got(f, v) ==
    LET g == [f EXCEPT !.out[f.at] = Append(@, v)]
    IN IF f.at = Types[f.con].lenField THEN [g EXCEPT !.pc = "commit"] ELSE Closing(g)

-----------------------------------------------------------------------------
\* sequence: what the next field does with a tag that was read ahead, and
\* where the branches of seq_dec start.
DiscardsNothing == FALSE      \* a slip: the tag read ahead is not given back

Discards ==
    /\ Top.at > 1
    /\ LET prev == Fields(Top.con)[Top.at - 1]
       IN /\ Tagged(prev)
          /\ IF F.multi THEN ~Tagged(F)
             ELSE prev.presence = "O" /\ (F.presence = "M" \/ ~Tagged(F))

FirstStep ==
    IF Tagged(F) /\ (F.multi \/ F.presence = "O")
    THEN IF Top.vtag.set THEN "match" ELSE "ahead"
    ELSE IF F.multi THEN IF Counted(F) THEN "count" ELSE "loop"
    ELSE IF F.presence = "O" THEN "more" ELSE "item"

EnterField ==
    /\ Here("field")
    /\ IF Discards /\ Top.vtag.set
       THEN B!PopState /\ Quiet /\ Become([Top EXCEPT !.vtag = Cleared(@), !.pc = FirstStep])
       ELSE Move(FirstStep)

\* PUSH_STATE before a tag.  At the end of the data an optional field is over;
\* a multi-field still compares the tag that was not read ...
LookAhead ==
    /\ Here("ahead")
    /\ B!PushState /\ Quiet
    /\ IF ~AtEnd THEN Goto("peek") ELSE IF F.multi THEN Goto("match") ELSE Become(Skipping(Top))

\* ... except after an item, where it is over as well.  (POP_STATE in front of
\* the check of arity finds nothing remembered: the tag was not read.)
LookAgainKeepingState ==        \* a slip: without PUSH_STATE
    /\ Here("again")
    /\ UNCHANGED bvars /\ Quiet
    /\ IF ~AtEnd THEN Goto("peek")
       ELSE Become([Top EXCEPT !.vtag = Cleared(@), !.pc = "arity"])

LookAgain ==
    /\ Here("again")
    /\ B!PushState /\ Quiet
    /\ IF ~AtEnd THEN Goto("peek")
       ELSE Become([Top EXCEPT !.vtag = Cleared(@), !.pc = "arity"])

Peek ==
    /\ Here("peek")
    /\ LET n == Len(F.meta[1].of)
       IN Read(n, [Top EXCEPT !.vtag = [set |-> TRUE, val |-> Ahead(n)], !.pc = "match"])

\* A single-instance field takes the tag; a multi-field keeps it while it goes
\* on with items.
Matches(G, tag) == LET of == G.meta[1].of IN Accepts(of, Fit(tag, Len(of)))

Match ==
    /\ Here("match")
    /\ IF ~Matches(F, Top.vtag.val)
       THEN IF F.multi THEN Move("arity") ELSE NextField
       ELSE IF F.multi THEN Move("item")
       ELSE Go([Top EXCEPT !.vtag = Cleared(@), !.pc = "item"])

\* An optional field without a tag: its condition, or CHECK_STATE.
More ==
    /\ Here("more")
    /\ IF (IF F.cond # "" THEN Holds ELSE ~AtEnd) THEN Move("item") ELSE NextField

\* The number of items, from a counter or from a function.
ReadCount ==
    /\ Here("count")
    /\ IF F.countOf = ""
       THEN Read(F.counter, [Top EXCEPT !.left = Number(Ahead(F.counter)), !.pc = "quota"])
       ELSE Go([Top EXCEPT !.left = Callback(F.countOf, Top.out), !.pc = "quota"])

Quota ==
    /\ Here("quota")
    /\ IF ArityOK(F, Top.left) THEN Move("loop") ELSE Fail(Arity(F, Top.left).fault)

\* A slip: while (count-- >= 0) instead of while (count--).
LoopOnceMore ==
    /\ Here("loop")
    /\ IF Counted(F)
       THEN IF Top.left >= 0 THEN Go([Top EXCEPT !.left = @ - 1, !.pc = "item"]) ELSE NextField
       ELSE IF ~AtEnd /\ Len(Items) < F.max THEN Move("item") ELSE Move("arity")

\* The loops over the items of a multi-field without a tag.
Loop ==
    /\ Here("loop")
    /\ IF Counted(F)
       THEN IF Top.left > 0 THEN Go([Top EXCEPT !.left = @ - 1, !.pc = "item"]) ELSE NextField
       ELSE IF F.cond # ""
       THEN IF Holds THEN Move("item") ELSE IF Items = <<>> THEN NextField ELSE Move("arity")
       ELSE IF ~AtEnd /\ Len(Items) < F.max THEN Move("item") ELSE Move("arity")

\* A slip: too few items are not noticed.
CheckUpperArity ==
    /\ Here("arity")
    /\ IF Len(Items) <= F.max THEN NextField ELSE Fail(Arity(F, Len(Items)).fault)

CheckArity ==
    /\ Here("arity")
    /\ IF ArityOK(F, Len(Items)) THEN NextField ELSE Fail(Arity(F, Len(Items)).fault)

-----------------------------------------------------------------------------
\* set: fields in any order, found by their tags, until the end of the data.
Scan ==
    /\ Here("scan")
    /\ B!PushState /\ Quiet
    /\ Goto(IF AtEnd THEN "complete" ELSE "header")

\* What tells the fields of a set or the cases of a choice apart: a tag, of the
\* size the first of them has, or what get_tag() says of the header of a choice.
ReadHeader ==
    /\ Here("header")
    /\ IF HasHeader(Types[Top.con])
       THEN UNCHANGED bvars /\ Quiet /\ frames' = Append(frames, Frame(Types[Top.con].header))
       ELSE LET n == Len(Fields(Top.con)[1].meta[1].of)
            IN Read(n, [Top EXCEPT !.vtag.val = Ahead(n), !.pc = "find"])

\* The frame f with header v.
GotHeader(f, v) ==
    [f EXCEPT !.out[1] = <<v>>, !.vtag.val = Callback(Types[f.con].header \o "::get_tag", v), !.pc = "find"]

\* Of several fields that match, the first in the declaration.
Cases == {i \in CasesOf(Types[Top.con]) : Matches(Fields(Top.con)[i], Top.vtag.val)}
TheCase == CHOOSE i \in Cases : \A j \in Cases : i <= j

\* A tag that is not fixed in the type is given back, to be read with the field.
Predefined(info) == \A i \in DOMAIN info.of : \A o, p \in info.of[i] : o = p
PutBack == Kind(Top.con) = "set" /\ ~Predefined(Fields(Top.con)[TheCase].meta[1])

IsSet1(G, xs) == xs # <<>> /\ IsPresent(Types[G.type], xs[1])

\* The field with the tag: an item more than a multi-field may have, or a
\* second one of a single-instance field, is refused.
Full(G, xs) == IF G.multi THEN Len(xs) >= G.max ELSE IsSet1(G, xs)

\* Slips: a second item is not refused; a set goes on past an unknown tag.
FindUnchecked ==
    /\ Here("find")
    /\ IF Cases = {} THEN Fail("unknown_tag") ELSE Go([Top EXCEPT !.at = TheCase, !.pc = "item"])

FindOrPutBack ==
    /\ Here("find")
    /\ IF Cases # {} /\ ~PutBack THEN Go([Top EXCEPT !.at = TheCase, !.pc = "found"])
       ELSE IF Kind(Top.con) # "set" THEN Fail("unknown_tag")
       ELSE B!PopState /\ Quiet
            /\ IF Cases = {} THEN Goto("scan") ELSE Become([Top EXCEPT !.at = TheCase, !.pc = "found"])

Find ==
    /\ Here("find")
    /\ IF Cases = {} THEN Fail("unknown_tag")
       ELSE IF PutBack THEN B!PopState /\ Quiet /\ Become([Top EXCEPT !.at = TheCase, !.pc = "found"])
       ELSE Go([Top EXCEPT !.at = TheCase, !.pc = "found"])

Found ==
    /\ Here("found")
    /\ IF Kind(Top.con) = "set" /\ Full(F, Items) THEN Fail("extra_ie") ELSE Move("item")

\* set_check, of one field after the other.
Fault1(G, n, set) ==
    IF G.multi /\ ~ArityOK(G, n) THEN Arity(G, n).fault
    ELSE IF ~G.multi /\ G.presence = "M" /\ ~set THEN "missing_ie"
    ELSE IF G.cond = "" THEN ""
    ELSE IF ~Callback(G.cond, Top.out) THEN IF set THEN "extra_ie" ELSE ""
    ELSE IF set THEN "" ELSE "missing_ie"

Complete ==
    /\ Here("complete")
    /\ LET G == Fields(Top.con)
           fault == [i \in DOMAIN G |-> Fault1(G[i], Len(Top.out[i]), IsSet1(G[i], Top.out[i]))]
           bad == {i \in DOMAIN G : fault[i] # ""}
       IN IF bad = {} THEN Move("return") ELSE Fail(fault[Min(bad)])

-----------------------------------------------------------------------------
\* push_back: an item beyond the room of the multi-field needs an allocator.
\* A single-instance field is decoded over what it may have held.  A tag that was
\* read to find the field is not read again.
BeginItem ==
    /\ Here("item")
    /\ IF F.multi /\ Len(Items) >= F.room /\ ~alloc THEN Fail("out_of_memory")
       ELSE Go(AtStep([Top EXCEPT !.out[Top.at] = IF F.multi THEN @ ELSE <<>>],
                      IF Tagged(F) /\ (F.multi \/ F.presence = "O" \/ Kind(Top.con) # "sequence")
                      THEN 2 ELSE 1))

\* The tag of a mandatory field (ie_decode).
ReadTag ==
    /\ Here("tag")
    /\ LET n == Len(Info.of) IN Read(n, [Top EXCEPT !.octets = Ahead(n), !.pc = "expect"])

Expect ==
    /\ Here("expect")
    /\ IF Accepts(Info.of, Top.octets) THEN Go(AtStep(Top, Top.step + 1)) ELSE Fail("unknown_tag")

\* apply_len: the length is read first and the window opened ...
ReadLength ==
    /\ Here("length")
    /\ LET n == Len(Info.of) IN Read(n, [Top EXCEPT !.octets = Ahead(n), !.pc = "open"])

\* The size is unsigned: a length below its own octets, taken off it, is too much.
Opened(at) == AtStep([Top EXCEPT !.open = Append(@, [step |-> Top.step, from |-> at])], Top.step + 1)

OpenWindow ==
    /\ Here("open")
    /\ LET n == GetLength(Info, Top.octets)
       IN /\ B!PushSize(n, Info.depends = "")
          /\ IF cursor + n <= end THEN Become(Opened(cursor)) /\ Quiet
             ELSE error' = "overflow" /\ UNCHANGED frames

\* ... or the length is a field inside and the size of the window not known yet.
OpenPending ==
    /\ Here("pending")
    /\ B!PushSize(0, FALSE) /\ Quiet
    /\ Become(Opened(cursor))

\* A value, the rest of the window as a string, nothing, or a container.
ExplicitTag == Kind(Top.con) = "choice" /\ ~HasHeader(Types[Top.con]) /\ F.meta[1].explicit

DecodeValue ==
    /\ Here("value")
    /\ LET ty == Types[F.type]
       IN CASE ty.kind = "value" ->
                LET n == Len(ty.of)
                    v == Ahead(n)
                IN Read(n, IF Lacks(n) THEN Top ELSE IF Accepts(ty.of, v) THEN Got(Top, v)
                           ELSE [Top EXCEPT !.pc = "invalid"])
            [] ty.kind = "string" ->
                IF end - cursor \in ty.min .. ty.max
                THEN /\ B!Advance(end - cursor, end - cursor) /\ Quiet
                     /\ Become(Got(Top, Ahead(end - cursor)))
                ELSE Fail("invalid_value")
            [] ty.kind = "empty" -> Go(Got(Top, <<>>))
            [] OTHER ->
                /\ UNCHANGED bvars /\ Quiet
                /\ frames' = Append(frames, IF ExplicitTag THEN FrameWithTag(F.type, Top.vtag.val) ELSE Frame(F.type))

\* set_encoded() refused the octets.
Invalid == Here("invalid") /\ Fail("invalid_value")

\* explicit_len_commit: the length field was decoded, as the last item of its field.
TheLength == frames[Len(frames) - 1]
CommitLength ==
    /\ Here("commit")
    /\ LET f == TheLength
           info == Field(f).meta[f.open[Len(f.open)].step]
       IN B!Commit(GetLength(info, Items[Len(Items)]) + cursor - Top.begin)
    /\ Quiet
    /\ Become(Closing(Top))

\* The innermost window of the item, and the frame after it.
Innermost == Top.open[Len(Top.open)]
Window == F.meta[Innermost.step]
Unpadded == Closing([Top EXCEPT !.open = SubSeq(@, 1, Len(@) - 1)])
Closed == IF Window.pad = NoPad THEN Unpadded ELSE [Top EXCEPT !.pc = "pad"]

\* Slips: octets left in the window are not noticed; the window stays open.
CloseUnchecked == Here("close") /\ B!CloseScope /\ Quiet /\ Become(Closed)
CloseNothing == Here("close") /\ UNCHANGED bvars /\ Quiet /\ Become(Closed)

\* The end of apply_len: the window must be used up, unless it is padded.
Close ==
    /\ Here("close")
    /\ IF cursor = end \/ Window.pad # NoPad THEN B!CloseScope /\ Quiet /\ Become(Closed)
       ELSE Fail("overflow")

\* Padding is skipped without a look at it.
Pad ==
    /\ Here("pad")
    /\ LET n == PadSize(Window.pad, cursor - Innermost.from) IN Read(n, Unpadded)

\* The end of a container.  A tag it has read ahead is forgotten with it.
Return ==
    /\ At("return")
    /\ UNCHANGED <<bvars, msg, error>>
    /\ dropped' = IF Top.vtag.set THEN dropped + 1 ELSE dropped
    /\ IF Len(frames) = 1
       THEN frames' = <<>> /\ status' = "ok" /\ result' = Top.out
       ELSE /\ LET below == SubSeq(frames, 1, Len(frames) - 1)
               IN frames' = [below EXCEPT ![Len(below)] =
                                IF @.pc = "header" THEN GotHeader(@, Top.out) ELSE Got(@, Top.out)]
            /\ UNCHANGED <<status, result>>

-----------------------------------------------------------------------------
\* An exception: the size_state objects on the stack are destructed ...
Unwind ==
    /\ throwing
    /\ B!CloseScope
    /\ UNCHANGED <<ctl, error, frames>>

\* ... and the caller of decode() catches it.
GiveUp ==
    /\ B!Catch
    /\ status' = "failed"
    /\ frames' = <<>>
    /\ UNCHANGED <<msg, error, result, dropped>>

\* The caller is done with the message and resets the context, ...
Release ==
    /\ status \in {"ok", "failed", "refused"}
    /\ B!Reset
    /\ status' = "idle" /\ error' = ""
    /\ root' = NoRoot /\ wire' = <<>> /\ sent' = NotSent /\ result' = <<>> /\ dropped' = 0
    /\ UNCHANGED <<frames, alloc, fresh>>

\* ... and decodes the next one in it: decoder_context::reset and decode().
Begin(ty, octets, m) ==
    /\ status = "idle"
    /\ B!ResetTo(0, Len(octets))
    /\ status' = "running"
    /\ root' = ty /\ wire' = octets /\ sent' = m
    /\ frames' = <<[Frame(ty) EXCEPT !.begin = 0]>>
    /\ fresh' = FALSE
    /\ UNCHANGED <<error, alloc, result, dropped>>

\* The messages of a peer, as its encoder writes them.
Encoded == [ty \in Roots |-> {<<m, Encoder(ty, m)>> : m \in Messages[ty]}]

Receive == \E ty \in Roots : \E e \in Encoded[ty] :
    /\ fresh \/ ty \in Reused
    /\ e[2].fault = ""
    /\ Begin(ty, e[2].octets, e[1])

\* A message the encoder refuses, with what it has written of it.
Refuse == \E ty \in Roots : \E e \in Encoded[ty] :
    /\ fresh /\ status = "idle"
    /\ e[2].fault # ""
    /\ status' = "refused" /\ error' = e[2].fault
    /\ root' = ty /\ wire' = e[2].octets /\ sent' = e[1] /\ fresh' = FALSE
    /\ UNCHANGED <<bvars, frames, alloc, result, dropped>>

\* Bound: only the first message through the context is an arbitrary one.
ReceiveAny ==
    /\ fresh
    /\ \E ty \in Roots : \E octets \in Wires[ty] : Begin(ty, octets, NotSent)

Init ==
    /\ B!Init /\ start = 0 /\ end = 0
    /\ status = "idle" /\ error = "" /\ root = NoRoot
    /\ wire = <<>> /\ sent = NotSent /\ frames = <<>> /\ result = <<>>
    /\ dropped = 0 /\ fresh = TRUE /\ alloc \in Allocators

Decode ==
    \/ EnterField \/ LookAhead \/ LookAgain \/ Peek \/ Match \/ More
    \/ ReadCount \/ Quota \/ Loop \/ CheckArity
    \/ Scan \/ ReadHeader \/ Find \/ Found \/ Complete
    \/ BeginItem \/ ReadTag \/ Expect \/ ReadLength \/ OpenWindow \/ OpenPending
    \/ DecodeValue \/ Invalid \/ CommitLength \/ Close \/ Pad \/ Return \/ Unwind \/ GiveUp

Next == Decode \/ Release \/ Receive \/ Refuse \/ ReceiveAny

\* decode() is one call of a running program: once begun it takes its steps.
Spec == Init /\ [][Next]_vars /\ WF_vars(Decode)

-----------------------------------------------------------------------------
TypeOK ==
    /\ B!TypeOK
    /\ status \in {"idle", "running", "ok", "failed", "refused"}
    /\ root \in Roots \cup {NoRoot}
    /\ dropped \in Nat /\ fresh \in BOOLEAN /\ alloc \in Allocators
    /\ status = "running" <=> frames # <<>>
    /\ error # "" <=> throwing \/ status \in {"failed", "refused"}
    /\ \A k \in DOMAIN frames :
        LET f == frames[k]
        IN /\ f.con \in DOMAIN Types /\ f.at \in DOMAIN Fields(f.con)
           /\ f.vtag.set \in BOOLEAN
           /\ f.left \in Nat \/ f.pc = "quota"      \* whatever a count getter says
           /\ f.begin \in 0 .. cursor
           /\ \A w \in DOMAIN f.open : f.open[w].step \in DOMAIN Field(f).meta

\* Whatever octets arrive, and whatever lengths they claim, the decoder stays inside
\* of the message: no window reaches beyond it, nothing beyond a window is read.
StaysInside == status = "running" => cursor <= end /\ end <= Len(wire)

\* The cursor only goes back over a tag that was read and not used, by exactly its
\* octets, whatever was read, decoded and remembered in between.
PutsBackTheTag ==
    [][status = "running" /\ cursor' < cursor => SubSeq(wire, cursor' + 1, cursor) = Top.vtag.val]_vars

\* A container ends only with as many items in every field as med promises: a
\* choice with one case, a mandatory field with its item, a repeated one within its
\* bounds - wherever they are checked: at a counter, behind the last item, at the
\* end of a set.
Complete1(G, n) ==
    IF G.multi THEN n \in G.min .. G.max \/ (n = 0 /\ (G.presence = "O" \/ G.cond # ""))
    ELSE n = 1 \/ (n = 0 /\ G.presence = "O")

ArityKept ==
    At("return") =>
        LET items(i) == Len(Top.out[i]) IN
        IF Kind(Top.con) = "choice"
        THEN /\ HasHeader(Types[Top.con]) => items(1) = 1
             /\ \E i \in CasesOf(Types[Top.con]) :
                   items(i) = 1 /\ \A j \in CasesOf(Types[Top.con]) \ {i} : items(j) = 0
        ELSE \A i \in DOMAIN Fields(Top.con) : Complete1(Fields(Top.con)[i], items(i))

\* Between messages the buffer is as after its reset: no window is left, however
\* deep in the message an exception was thrown.
WindowsGone ==
    status \in {"ok", "failed"} =>
        scopes = <<>> /\ eobIndex = 0 /\ ~throwing /\ end = Len(wire)

\* decode() returns or throws for whatever octets it is given.
DecodeEnds == status = "running" ~> status # "running"

\* The decoder uses the buffer as the proofs about Buffer assume.
UsesBuffer == B!Spec
=============================================================================
