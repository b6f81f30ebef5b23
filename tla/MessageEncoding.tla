-------------------------- MODULE MessageEncoding --------------------------
(***************************************************************************)
(* What the octet encoder of med writes for a message, as operators: the   *)
(* containers (sequence.hpp, set.hpp, choice.hpp), ie_encode (encode.hpp), *)
(* padding, and the lengths that are computed before a value is written    *)
(* (ie_length, cont_len, choice_len).                                      *)
(***************************************************************************)
EXTENDS MessageTypes

\* is_set(): a choice is set once a case is selected and its header is set,
\* another container when one of its fields is set (cont_is), or its body.
RECURSIVE IsSet(_, _)
IsSet(D, v) ==
    IsContainer(D) =>
        LET Present(i) == v[i] # <<>> /\ IsSet(Types[D.fields[i].type], v[i][1])
        IN IF D.kind = "choice"
           THEN /\ \E i \in CasesOf(D) : v[i] # <<>>
                /\ HasHeader(D) => Present(1)
           ELSE \E i \in DOMAIN v : D.body \in {0, i} /\ Present(i)

\* The value of a field that nobody set.
Unset(D) == CASE D.kind = "value" -> [i \in DOMAIN D.of |-> 0]
              [] D.kind \in {"string", "empty"} -> <<>>
              [] OTHER -> [i \in DOMAIN D.fields |-> <<>>]

-----------------------------------------------------------------------------
InOctets(n, w) == [i \in 1 .. w |-> (n \div 256 ^ (w - i)) % 256]

\* set_length(n): whether it refuses, and the octets it leaves in a length.
Refuses(info, n) == (info.top >= 0 /\ n > info.top) \/ (n - info.minus) % info.unit # 0

\* A slip: a length as if its own octets were part of what it measures.
SetLengthOfWhole(info, s, n) ==
    SubSeq(s, 1, info.lead) \o InOctets(n + Len(s), Len(s) - info.lead)

SetLength(info, s, n) ==
    LET w == Len(s) - info.lead
        v == Number(SubSeq(s, info.lead + 1, Len(s)))
        old == IF info.mod = 0 THEN 0 ELSE v - (v % info.mod)
    IN SubSeq(s, 1, info.lead) \o InOctets(old + (n - info.minus) \div info.unit, w)

-----------------------------------------------------------------------------
\* ie_length: the tags and lengths in front of an item, its padding and its data.
\* An explicit tag or length counts with the meta-information (xt, xl: and is left
\* out of the data).  Neither the counter of a multi-field nor a condition counts.
RECURSIVE ItemLength(_, _, _, _, _)
RECURSIVE DataLength(_, _, _, _)

\* A slip: the length of an item is not counted, only its tag.
ItemLengthTagOnly(meta, D, v, xt, xl) ==
    DataLength(D, v, xt, xl) + FoldLeft(LAMBDA n, info : n + (IF info.kind = "tag" THEN Len(info.of) ELSE 0), 0, meta)

ItemLength(meta, D, v, xt, xl) ==
    IF meta = <<>> THEN DataLength(D, v, xt, xl)
    ELSE LET info == Head(meta)
             Whole(rest) == rest + Len(info.of) + (IF info.kind = "len" THEN PadSize(info.pad, rest) ELSE 0)
         IN Whole(ItemLength(Tail(meta), D, v, xt \/ (info.kind = "tag" /\ info.explicit),
                                               xl \/ (info.kind = "len" /\ info.explicit)))

DataLength(D, v, xt, xl) ==
    LET Measured(F, always, items) ==
            IF F.multi THEN items
            ELSE IF items = <<>> /\ always /\ D.kind # "choice" THEN <<Unset(Types[F.type])>>
            ELSE SelectSeq(items, LAMBDA x : always \/ IsSet(Types[F.type], x))
        Content(F, i) ==
            LET meta == IF D.kind = "choice" /\ HasHeader(D) /\ i > 1 THEN Tail(F.meta) ELSE F.meta
            IN IF (xl /\ i = D.lenField) \/ (xt /\ i = 1) THEN 0
               ELSE FoldLeft(LAMBDA sum, x : sum + ItemLength(meta, Types[F.type], x, FALSE, FALSE), 0,
                             Measured(F, F.presence = "M" \/ F.setter # "", v[i]))
    IN CASE D.kind = "value" -> IF xt \/ xl THEN 0 ELSE Len(D.of)
         [] D.kind = "string" -> Len(v)
         [] D.kind = "empty" -> 0
         [] D.kind = "choice" /\ ~IsSet(D, v) -> 0
         [] OTHER -> FoldLeft(LAMBDA sum, i : sum + Content(D.fields[i], i), 0, [i \in DOMAIN v |-> i])

-----------------------------------------------------------------------------
\* What the encoder writes, and the exception it ends with, if any.
Then(a, b) == IF a.fault # "" THEN a ELSE [octets |-> a.octets \o b.octets, fault |-> b.fault]

\* A setter works on a copy of the field: its contents as they are encoded.
Settled(F, i, v) == IF F.setter = "" THEN [ok |-> TRUE, items |-> v[i]] ELSE Callback(F.setter, v)

TagOctets(info) == [i \in DOMAIN info.of |-> CHOOSE o \in info.of[i] : TRUE]

RECURSIVE ItemEncoding(_, _, _, _, _)
RECURSIVE DataEncoding(_, _, _)

\* ie_encode: a tag or a length that is not a field of the container is written
\* here; a length is computed for what follows it, and stored in the container if
\* it is a field of it; behind a padded item come the octets that fill it.
\* tagged: "apart" if the first field of the data is an explicit tag that no length
\* counts any more, "done" if it was written as well, as the tag of a case.
ItemEncoding(meta, D, v, tagged, xl) ==
    LET info == Head(meta)
        lead == IF info.explicit THEN <<>> ELSE TagOctets(info)
        at == D.lenField
        old == IF info.explicit /\ v[at] # <<>> THEN v[at][1] ELSE [i \in DOMAIN info.of |-> 0]
        apart == info.kind = "tag" /\ info.explicit
        inside == info.kind = "len" /\ info.explicit
        Rest(w) == ItemEncoding(Tail(meta), D, w, IF apart THEN "apart" ELSE tagged, xl \/ inside)
        Filled(body) == Then(body, Done([i \in 1 .. PadSize(info.pad, Len(body.octets)) |-> info.pad.filler]))
        Measured(len) == IF info.explicit THEN Filled(Rest([v EXCEPT ![at] = <<len>>]))
                         ELSE Then(Done(len), Filled(Rest(v)))
        Checked(n) == IF Refuses(info, n) THEN Fault("invalid_value") ELSE Measured(SetLength(info, old, n))
    IN IF meta = <<>> THEN DataEncoding(D, v, tagged = "done")
       ELSE IF info.kind = "tag" THEN Then(Done(lead), Rest(v))
       ELSE Checked(ItemLength(Tail(meta), D, v, tagged # "no", xl \/ info.explicit)
                      - (IF info.depends = "" THEN 0 ELSE Callback(info.depends, v)))

\* The data: the octets of a container are those of its fields in their order,
\* without the first one if that was written before.  A mandatory field must be set,
\* unless it is a length in a sequence: that is written as it is.
DataEncoding(D, v, headless) ==
    LET Items(F, xs) ==
            LET bare == D.kind = "set" /\ F.meta[1].explicit     \* the tag is a field inside
                meta == IF bare THEN Tail(F.meta) ELSE F.meta
                tagged == IF bare /\ F.multi THEN "apart" ELSE "no"
            IN FoldLeft(LAMBDA sum, x : Then(sum, IF ~IsSet(Types[F.type], x) THEN Fault("missing_ie")
                                                  ELSE ItemEncoding(meta, Types[F.type], x, tagged, FALSE)),
                        Done(<<>>), xs)
        Multi(F, xs, arity) ==
            LET front == IF F.counter > 0 THEN Then(arity, Done(InOctets(Len(xs), F.counter)))
                         ELSE IF D.kind = "set" THEN arity ELSE Done(<<>>)
            IN IF F.counter > 0 /\ F.presence = "O" /\ xs = <<>> THEN Done(<<>>)
               ELSE Then(Then(front, Items(F, xs)), arity)
        Single(F, own) ==
            LET xs == SelectSeq(own.items, LAMBDA x : IsSet(Types[F.type], x))
                unset == D.kind = "sequence" /\ F.setter = "" /\ HasSetLength(Types[F.type])
            IN IF ~own.ok THEN Fault("invalid_value")
               ELSE IF xs = <<>> /\ F.presence = "M"
                    THEN IF unset THEN Items(F, <<Unset(Types[F.type])>>) ELSE Fault("missing_ie")
               ELSE Items(F, xs)
        Content(F, i) == IF F.multi THEN Multi(F, v[i], Arity(F, Len(v[i]))) ELSE Single(F, Settled(F, i, v))
        Header(F, tag) ==
            LET header == IF v[1] = <<>> THEN Unset(Types[D.header]) ELSE v[1][1]
                G == D.fields[1]
            IN ItemEncoding(G.meta, Types[G.type],
                            IF F.meta[1].explicit THEN header
                            ELSE Callback(D.header \o "::set_tag", <<header, tag>>), "no", FALSE)
        Case(F, x) ==
            LET inside == F.meta[1].explicit /\ IsContainer(Types[F.type])
                front == IF HasHeader(D) THEN Header(F, TagOctets(F.meta[1]))
                         ELSE IF inside THEN Done(x[1][1]) ELSE Done(<<>>)
            IN Then(front, ItemEncoding(IF HasHeader(D) \/ inside THEN Tail(F.meta) ELSE F.meta, Types[F.type], x,
                                        IF inside /\ ~HasHeader(D) THEN "done" ELSE "no", FALSE))
    IN CASE D.kind \in {"value", "string", "empty"} -> Done(v)
         [] D.kind = "choice" ->
                LET chosen == {i \in CasesOf(D) : v[i] # <<>>}
                    i == CHOOSE k \in chosen : TRUE
                IN IF chosen = {} THEN Fault("unknown_tag") ELSE Case(D.fields[i], v[i][1])
         [] OTHER ->
                FoldLeft(LAMBDA sum, i : Then(sum, Content(D.fields[i], i)), Done(<<>>),
                         SelectSeq([i \in DOMAIN v |-> i], LAMBDA i : ~(headless /\ i = 1)))

\* encode()
Encoding(ty, v) == DataEncoding(Types[ty], v, FALSE)
=============================================================================
