-------------------------- MODULE MCMessageDecoder --------------------------
(* Instances of RoundTrips for TLC: message types that between them use  *)
(* every kind of field, header, length and padding, with octets for numbers. *)
EXTENDS RoundTrips

Null == -1

None == {<<>>}
One(S) == {<<x>> : x \in S}
UpTo(n, S) == UNION {[1 .. k -> S] : k \in 0 .. n}
Octet == {<<5>>, <<6>>}
Strings == {<<>>, <<5>>, <<1, 6>>}
Repeats == {<<>>, <<<<5>>>>, <<<<6>>, <<5>>>>}

\* The functions of the application: on the contents of the fields so far, or on
\* the header of a choice.
MCCallback(name, v) ==
    CASE name = "atFive" -> v[1] # <<>> /\ v[1][Len(v[1])] = <<5>>
      [] name = "isSix"  -> v[1] # <<>> /\ v[1][1] = <<6>>
      [] name = "first"  -> v[1][1][1]
      [] name = "second" -> v[2][1][1]
      [] name = "count"  -> [ok |-> TRUE, items |-> <<<<Len(v[2])>>>>]
      [] name = "code::get_tag" -> v[1][1]
      [] name = "code::set_tag" -> [v[1] EXCEPT ![1] = <<v[2]>>]

-----------------------------------------------------------------------------
Primitives == [octet |-> Value(Octets(1)), few |-> Value(<<0 .. 5>>), string |-> String(0, 9),
               name |-> String(1, 2), nothing |-> Empty]

Padded(n) == [Length(1) EXCEPT !.pad = [to |-> n, offset |-> 0, delta |-> 0, filler |-> 0]]

\* Sequences.  "sized" has its length in a field of its own; items of "padded" are
\* padded; the first field of "qualified" is set by a function when it is encoded.
SequenceTypes ==
    [optionals |-> Container("sequence", <<TL(<<1>>, O("octet")), TL(<<2>>, O("string")),
                                           T(<<3>>, Many(1, 2, O("few"))), M("octet")>>),
     counted   |-> Container("sequence", <<CNT(1, Many(1, 2, M("octet"))), M("few"),
                                           CountOf("second", Many(1, 2, M("octet"))),
                                           If("atFive", O("octet")), Many(1, 2, O("octet"))>>),
     repeated  |-> Container("sequence", <<If("atFive", Many(1, 2, O("octet"))),
                                           T(<<1>>, M("octet")), TL(<<2>>, Many(1, 2, M("string"))),
                                           T(<<3>>, PMany(1, 2, O("octet")))>>),
     nested    |-> Container("sequence", <<TL(<<1>>, M("inner")), TL(<<2>>, Many(1, 2, O("inner"))),
                                           L(O("inner"))>>),
     inner     |-> Container("sequence", <<M("octet"), T(<<1>>, O("octet")), O("string")>>),
     framed    |-> Container("sequence", <<M("octet"), T(<<3>>, O("octet")), With(Inside(Length(1)), M("sized"))>>),
     sized     |-> Sized(1, Container("sequence", <<M("octet"), M("string")>>)),
     padded    |-> Container("sequence", <<With(Padded(4), M("string")), With(Padded(2), Many(1, 2, O("name")))>>),
     qualified |-> Container("sequence", <<SetTo("count", M("octet")), CountOf("first", Many(0, 2, O("few"))),
                                           T(<<0, 3>>, O("nothing"))>>)]

SequenceRoots == {"optionals", "counted", "repeated", "nested", "framed", "padded", "qualified"}

Inners == One({<<5>>}) \X (None \cup One({<<6>>})) \X (None \cup One({<<5>>, <<6, 1>>}))

SequenceMessages ==
    [optionals |-> (None \cup One(Octet)) \X (None \cup One(Strings)) \X {<<>>, <<<<5>>>>, <<<<4>>, <<5>>>>} \X One(Octet),
     counted   |-> {m \in (Repeats \ None) \X One({<<1>>, <<2>>}) \X Repeats
                            \X (None \cup One(Octet)) \X Repeats :
                        /\ Len(m[3]) = m[2][1][1]
                        /\ (m[4] # <<>>) <=> MCCallback("atFive", m)},
     repeated  |-> {m \in Repeats \X One(Octet) \X UpTo(2, Strings) \X (None \cup UpTo(2, Octet)) :
                        m[1] = <<>> /\ m[3] # <<>>},
     nested    |-> One(Inners) \X {<<>>, <<<<<<<<5>>>>, <<>>, <<>>>>>>,
                                   <<<<<<<<5>>>>, <<<<6>>>>, <<>>>>, <<<<<<5>>>>, <<>>, <<<<5>>>>>>>>}
                       \X (None \cup One({<<<<<<5>>>>, <<<<6>>>>, <<<<6, 1>>>>>>})),
     framed    |-> One(Octet) \X (None \cup One(Octet)) \X One({<<<<<<Len(s)>>>>, <<s>>>> : s \in Strings}),
     padded    |-> One(Strings \cup {<<1, 2, 3>>, <<1, 2, 3, 4>>}) \X UpTo(2, {<<5>>, <<5, 6>>}),
     qualified |-> {m \in One({<<0>>, <<1>>, <<2>>}) \X UpTo(3, {<<5>>}) \X UpTo(1, {<<>>}) :
                        Len(m[2]) \in {m[1][1][1], 3}}]

\* An explicit length that lies can leave a window open or move its end out of the
\* message, and padding is skipped unseen: of those types only what an encoder wrote
\* is decoded.
Arbitrary(roots, octets, n) ==
    [ty \in roots |-> IF ty \in {"framed", "padded"} THEN {} ELSE UNION {[1 .. k -> octets] : k \in 0 .. n}]

-----------------------------------------------------------------------------
\* Sets and choices, alone and inside of sequences.  "coded" has a header that
\* holds the code of the case, "typed" a tag that is a field of the case.
SetTypes ==
    [bag   |-> Container("set", <<T(<<1>>, M("octet")), TL(<<2>>, O("string")), T(<<3>>, Many(1, 2, O("octet")))>>),
     pair  |-> Container("set", <<T(<<1>>, O("octet")), TL(<<2>>, M("case")), T(<<3>>, If("isSix", O("octet")))>>),
     case  |-> Container("choice", <<T(<<1>>, M("octet")), TL(<<2>>, M("string")), TL(<<3>>, M("bag"))>>),
     mixed |-> Container("sequence", <<M("case"), L(M("bag")), O("case")>>),
     coded |-> Headed("code", Container("choice", <<M("code"), T(<<1>>, M("octet")), TL(<<2>>, M("few")),
                                                    T(<<3>>, M("bag"))>>)),
     code  |-> Container("sequence", <<M("few"), M("octet")>>),
     typed |-> Container("choice", <<T(<<1>>, M("octet")), With([Tag(<<{2, 3}>>) EXCEPT !.explicit = TRUE], L(M("inner")))>>)]

SetRoots == {"bag", "pair", "mixed", "coded", "typed"}

Bags == One({<<5>>}) \X (None \cup One({<<>>, <<1, 6>>})) \X UpTo(2, {<<6>>})
CaseValues(bags) == {<<<<<<5>>>>, <<>>, <<>>>>, <<<<>>, <<<<5, 2>>>>, <<>>>>}
                       \cup {<<<<>>, <<>>, <<b>>>> : b \in bags}
SmallBags == {b \in Bags : b[3] = <<>>}

SetMessages ==
    [bag   |-> Bags,
     pair  |-> {m \in (None \cup One(Octet)) \X One(CaseValues(Bags)) \X UpTo(1, {<<5>>}) :
                    (m[3] # <<>>) <=> MCCallback("isSix", m)},
     mixed |-> One(CaseValues(SmallBags)) \X One(SmallBags) \X (None \cup One(CaseValues(SmallBags))),
     coded |-> {<<<<<<<<<<1>>>>, <<<<5>>>>>>>>, <<<<6>>>>, <<>>, <<>>>>,
                <<<<<<<<<<2>>>>, <<<<5>>>>>>>>, <<>>, <<<<4>>>>, <<>>>>}
                  \cup {<<<<<<<<<<3>>>>, <<<<6>>>>>>>>, <<>>, <<>>, <<b>>>> : b \in SmallBags},
     typed |-> {<<<<<<5>>>>, <<>>>>} \cup {<<<<>>, <<<<<<x>>>> \o <<i[2], i[3]>>>>>> : x \in {<<2>>, <<3>>}, i \in Inners}]

-----------------------------------------------------------------------------
AllTypes == Primitives @@ SequenceTypes @@ SetTypes
AllRoots == SequenceRoots \cup SetRoots
AllMessages == SequenceMessages @@ SetMessages
ShortWires == Arbitrary(AllRoots, {0, 1, 2, 3, 5}, 3)
LongWires == Arbitrary({"bag", "counted", "repeated", "nested", "mixed"}, {1, 2, 3}, 4)
AllWires == [ty \in AllRoots |-> ShortWires[ty] \cup IF ty \in DOMAIN LongWires THEN LongWires[ty] ELSE {}]

-----------------------------------------------------------------------------
\* Message types a decoder of med does not get right: a mandatory field behind a
\* repeated one with a tag, and a field behind a window in which an element has its
\* length in a field of its own.
GapTypes == Primitives @@
    [repeatedTag |-> Container("sequence", <<T(<<1>>, Many(1, 2, M("octet"))), M("octet")>>)]

GapMessages == [repeatedTag |-> UpTo(2, Octet) \X One(Octet)]

GapWires == Arbitrary({"repeatedTag"}, {1, 2, 5}, 3)

WalledTypes == Primitives @@
    [walled |-> Container("sequence", <<L(M("within")), M("octet")>>),
     within |-> Container("sequence", <<With(Inside(Length(1)), M("sized"))>>),
     sized  |-> SequenceTypes.sized]

WalledMessages ==
    [walled |-> One(One(One({<<<<<<Len(s)>>>>, <<s>>>> : s \in Strings}))) \X One(Octet)]

WalledWires == Arbitrary({"walled"}, {0, 1}, 0)
=============================================================================
