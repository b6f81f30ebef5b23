---------------------------- MODULE MessageTypes ----------------------------
(***************************************************************************)
(* What the encoder and the decoder of med know of the message types: the  *)
(* description of each, the functions an application adds, the arity of    *)
(* fields (count.hpp), what a length says, and the size of padding.        *)
(*                                                                         *)
(* A message type is data: Types describes every type.  The content of a   *)
(* field is the sequence of its items, at most one for a single-instance   *)
(* field, and the value of a container is the sequence of the contents of  *)
(* its fields; in a choice at most one field has an item.  The first field *)
(* of a choice with a header is that header.                               *)
(***************************************************************************)
EXTENDS FieldTypes, SequencesExt

CONSTANT Types               \* type -> its description, as in FieldTypes

\* The functions an application adds to its types, by their names: conditions,
\* count getters, setters, dependencies, get_tag and set_tag of headers.
CONSTANT Callback(_, _)

Kind(ty) == Types[ty].kind
Fields(ty) == Types[ty].fields

\* Of a description D = Types[ty]:
IsContainer(D) == D.kind \in {"sequence", "set", "choice"}
HasHeader(D) == D.header # ""

HasSetLength(D) == D.kind = "value" /\ D.setLength

Tagged(F) == F.meta # <<>> /\ F.meta[1].kind = "tag"

\* The fields a choice chooses from.
CasesOf(D) == IF D.kind = "choice" /\ HasHeader(D) THEN DOMAIN D.fields \ {1} ELSE DOMAIN D.fields

Containers == {ty \in DOMAIN Types : IsContainer(Types[ty])}

-----------------------------------------------------------------------------
\* What the compiler accepts: the static_asserts and concepts of med.
GoodInfo(info) ==
    /\ info.of \in Seq(SUBSET AnyOctet)
    /\ info.explicit \in BOOLEAN
    /\ \/ info.kind = "tag"
       \/ /\ info.kind = "len"
          /\ info.lead \in Nat /\ info.mod \in Nat /\ info.unit \in Nat \ {0} /\ info.plus \in Int
          /\ info.pad.to \in Nat \ {0} /\ info.pad.offset \in Int /\ info.pad.delta \in Int

GoodField(F) ==
    /\ F.type \in DOMAIN Types
    /\ F.presence \in {"M", "O"}
    /\ F.multi \in BOOLEAN
    /\ F.min \in Nat /\ F.max \in Nat /\ F.counter \in Nat
    /\ F.meta \in Seq({F.meta[k] : k \in DOMAIN F.meta})
    /\ \A k \in DOMAIN F.meta : GoodInfo(F.meta[k])

Counted(F) == F.counter > 0 \/ F.countOf # ""

GoodSequence(D) ==
    \A i \in DOMAIN D.fields :
       D.fields[i].multi /\ Tagged(D.fields[i]) => ~Counted(D.fields[i]) /\ D.fields[i].cond = ""

\* Without a header, a tag that is also a field of the case is the first one of a
\* sequence.
GoodCases(D) ==
    \A i \in CasesOf(D) :
       LET F == D.fields[i] IN
       /\ Tagged(F)
       /\ D.kind = "choice" /\ ~HasHeader(D) /\ F.meta[1].explicit /\ F.type \in Containers =>
             /\ Kind(F.type) = "sequence" /\ Len(Fields(F.type)) > 1
             /\ ~Fields(F.type)[1].multi

\* A container that is set whenever it is decoded: a choice, or one with a mandatory
\* value among the fields that decide.
SetOnceDecoded(D) ==
    \/ D.kind = "choice"
    \/ \E i \in DOMAIN D.fields :
          /\ D.body \in {0, i} /\ D.fields[i].type \notin Containers
          /\ D.fields[i].presence = "M" /\ ~D.fields[i].multi

\* Bounds: only choices have a header; the items of repeated fields are set once they
\* are decoded, so that no slot of a field is handed out twice (push_back).
GoodContainer(D) ==
    /\ D.fields \in Seq({D.fields[i] : i \in DOMAIN D.fields}) \ {<<>>}
    /\ \A i \in DOMAIN D.fields : GoodField(D.fields[i])
    /\ D.header \in Containers \cup {""}
    /\ IF D.kind = "sequence" THEN GoodSequence(D) ELSE GoodCases(D)
    /\ D.kind # "choice" => ~HasHeader(D)
    /\ \A i \in DOMAIN D.fields :
          D.fields[i].multi /\ D.fields[i].type \in Containers => SetOnceDecoded(Types[D.fields[i].type])

ASSUME TypesAssumption ==
    \A ty \in DOMAIN Types :
        \/ /\ Kind(ty) = "value" /\ Types[ty].of \in Seq(SUBSET AnyOctet)
           /\ Types[ty].setLength \in BOOLEAN
        \/ Kind(ty) \in {"string", "empty"}
        \/ ty \in Containers /\ GoodContainer(Types[ty])

-----------------------------------------------------------------------------
\* check_arity
ArityOK(F, n) == n \in F.min .. F.max \/ (F.presence = "O" /\ n = 0)

\* An exception, or the octets that are written without one.
Done(octets) == [octets |-> octets, fault |-> ""]
Fault(kind) == [octets |-> <<>>, fault |-> kind]

\* check_arity, as an exception.
Arity(F, n) == IF ArityOK(F, n) THEN Done(<<>>)
               ELSE Fault(IF n > F.max THEN "extra_ie" ELSE "missing_ie")

\* Numbers.  Bound: below 2^31, the integers of TLC.
Number(s) ==
    LET upto[k \in 0 .. Len(s)] == IF k = 0 THEN 0 ELSE 256 * upto[k - 1] + s[k]
    IN upto[Len(s)]

\* get_length() of a length.
GetLength(info, s) ==
    LET v == Number(SubSeq(s, info.lead + 1, Len(s)))
    IN info.unit * (IF info.mod = 0 THEN v ELSE v % info.mod) + info.plus

\* A slip: no padding where a whole unit is missing to the boundary.
PadSizeOff(pad, len) == pad.to - 1 - ((len + pad.offset) % pad.to)

\* calc_padding_size
PadSize(pad, len) == (pad.to - ((len + pad.offset) % pad.to) + pad.delta) % pad.to
=============================================================================
