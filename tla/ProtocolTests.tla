---------------------------- MODULE ProtocolTests ----------------------------
(***************************************************************************)
(* The protocol of the unit tests (ut_proto.hpp), and the tests of         *)
(* sequences, sets and functors with it: sequence.cpp, set.cpp, med.cpp.   *)
(***************************************************************************)
EXTENDS UnitTests

T16(t, f) == T(<<0, t>>, f)
C(t, ty) == T(<<t>>, M(ty))

\* A length in units of two octets, less one.
CLEN == [Length(1) EXCEPT !.unit = 2, !.plus = 2, !.minus = 2]

FieldsOfProtocol ==
    [FLD_UC |-> Value(Octets(1)), FLD_U8 |-> Value(Octets(1)), FLD_U16 |-> Value(Octets(2)),
     FLD_W |-> Value(Octets(2)), FLD_U24 |-> Value(Octets(3)), FLD_IP |-> Value(Octets(4)),
     FLD_DW |-> Value(Octets(4)), VFLD1 |-> String(5, 10)]

\* FLD_TN is its own tag: a nibble 0xE0 in front of the value.
SequencesOfProtocol ==
    [MSG_SEQ |-> Container("sequence",
        <<M("FLD_UC"), T(<<33>>, M("FLD_U16")), L(M("FLD_U24")), TL(<<66>>, M("FLD_IP")),
          T(<<81>>, O("FLD_DW")), T(<<18>>, With(CLEN, O("VFLD1")))>>),
     OOO_SEQ |-> Container("sequence",
        <<T(<<1>>, M("FLD_U8")), T(<<2>>, O("FLD_U16")), T(<<3>>, M("FLD_U24")), T(<<4>>, O("FLD_DW"))>>),
     NO_THING |-> Empty,
     FLD_CHO |-> Container("choice", <<C(0, "FLD_U8"), C(2, "FLD_U16"), C(4, "FLD_IP"), C(6, "NO_THING")>>),
     SEQOF_1 |-> Container("sequence", <<Many(1, 3, M("FLD_W"))>>),
     SEQOF_2 |-> Container("sequence", <<M("FLD_W"), TL(<<6>>, O("FLD_CHO"))>>),
     SEQOF_3 |-> Container("sequence", <<M("FLD_U8"), T(<<33>>, M("FLD_U16"))>>),
     FLD_TN |-> Value(Octets(1)),
     MSG_MSEQ |-> Container("sequence",
        <<Many(2, 2, M("FLD_UC")), T(<<33>>, Many(2, 2, M("FLD_U16"))), L(Many(2, 2, M("FLD_U24"))),
          TL(<<66>>, Many(1, 2, M("FLD_IP"))), T(<<81>>, Many(1, 2, M("FLD_DW"))), CNT(2, Many(1, 2, M("SEQOF_3"))),
          With([Tag(<<224 .. 239>>) EXCEPT !.explicit = TRUE], O("FLD_TN")),
          TL(<<96>>, O("FLD_CHO")), TL(<<97>>, O("SEQOF_1")), TL(<<98>>, Many(1, 2, O("SEQOF_2"))),
          L(Many(1, 3, O("VFLD1")))>>)]

SetsOfProtocol ==
    [MSG_SET |-> Container("set",
        <<T16(11, M("FLD_UC")), T16(33, L(M("FLD_U16"))), T16(73, L(O("FLD_U24"))),
          T16(137, O("FLD_IP")), T16(34, L(O("VFLD1")))>>),
     MSG_MSET |-> Container("set",
        <<T16(11, Many(2, 2, M("FLD_UC"))), T16(12, Many(1, 2, M("FLD_U8"))), T16(33, L(Many(1, 3, M("FLD_U16")))),
          T16(73, L(Many(2, 2, O("FLD_U24")))), T16(137, Many(2, 2, O("FLD_IP"))), T16(34, L(Many(1, 3, O("VFLD1"))))>>)]

-----------------------------------------------------------------------------
\* Functors.  In MSG_FUNC the flags are the first field and FLD_UC the second, in
\* MSG_SET_FUNC it is the other way round; both go on with FLD_QTY, FLD_U8,
\* FLD_U16, FLD_U24 and FLD_IP.
FlagsOf(v, at) == IF v[at] = <<>> THEN 0 ELSE v[at][1][1]
UcCount(flags) == ((flags \div 16) % 4) + 1
U8Count(flags) == (flags \div 64) % 4
QtyOf(v) == IF v[3] = <<>> THEN 0 ELSE v[3][1][1]

\* Bound: one to four FLD_UC, up to three FLD_U8.
FlagsSetter(v, uc) ==
    LET Bit(i, b) == IF v[i] # <<>> THEN b ELSE 0
    IN [ok |-> TRUE, items |-> <<<<Bit(5, 1) + Bit(6, 2) + Bit(7, 4) + 16 * ((Len(v[uc]) + 15) % 16) + 64 * Len(v[4])>>>>]

\* FLD_QTY keeps what it has if there is nothing to count.
QtySetter(v) == [ok |-> TRUE, items |-> IF v[7] = <<>> THEN v[3] ELSE <<<<Len(v[7])>>>>]

MessagesWithFunctors ==
    [FLD_FLAGS |-> Value(Octets(1)), FLD_QTY |-> Value(Octets(1)),
     MSG_FUNC |-> Container("sequence",
        <<SetTo("flags", M("FLD_FLAGS")), CountOf("uc", Many(2, 4, M("FLD_UC"))),
          SetTo("qty", If("has_qty", O("FLD_QTY"))), CountOf("u8", Many(1, 2, O("FLD_U8"))),
          If("has_u16", O("FLD_U16")), If("has_u24", O("FLD_U24")), CountOf("ips", Many(1, 8, O("FLD_IP")))>>),
     MSG_SET_FUNC |-> Container("set",
        <<T16(11, M("FLD_UC")), T16(13, SetTo("set_flags", M("FLD_FLAGS"))),
          T16(14, If("set_has_qty", O("FLD_QTY"))), T16(12, O("FLD_U8")),
          T16(33, If("set_has_u16", O("FLD_U16"))), T16(73, If("set_has_u24", O("FLD_U24"))), T16(137, O("FLD_IP"))>>),
     PROTO |-> Container("choice", <<C(1, "MSG_SEQ"), C(17, "MSG_MSEQ"), C(4, "MSG_SET"), C(20, "MSG_MSET"),
                                     C(255, "MSG_FUNC"), C(36, "MSG_SET_FUNC")>>)]

-----------------------------------------------------------------------------
\* The values the tests use again and again.
D9 == <<53, 217>>
DA == <<53, 218>>
BEEF == <<218, 190, 239>>
BEEF2 == <<34, 190, 239>>
ABBA == <<254, 225, 171, 186>>
ABBA2 == <<171, 186, 192, 1>>
DW == <<1, 2, 3, 4>>
DW2 == <<18, 52, 86, 120>>

Proto(i, v) == Chosen(6, i, v)
MsgSeq(dw, s) == Proto(1, <<<<<<37>>>>, <<D9>>, <<BEEF>>, <<ABBA>>, dw, s>>)
SeqOctets == Flat(<<<<1, 37, 33>>, D9, <<3>>, BEEF, <<66, 4>>, ABBA>>)

ooo == Both("OOO_SEQ", <<<<<<1>>>>, <<>>, <<<<0, 0, 3>>>>, <<>>>>, <<1, 1, 3, 0, 0, 3>>)

enc_seq_ok ==
    {Encodes("PROTO", MsgSeq(<<>>, <<>>), SeqOctets),
     Encodes("PROTO", MsgSeq(<<DW>>, <<>>), Flat(<<SeqOctets, <<81>>, DW>>)),
     Encodes("PROTO", MsgSeq(<<DW>>, <<Text(10)>>), Flat(<<SeqOctets, <<81>>, DW, <<18, 4>>, Text(10)>>))}

enc_seq_fail_mandatory ==
    {Refused("PROTO", Proto(1, <<<<<<0>>>>, <<>>, <<<<0, 0, 0>>>>, <<>>, <<>>, <<>>>>), "missing_ie")}

dec_seq_ok ==
    {Decodes("PROTO", SeqOctets, MsgSeq(<<>>, <<>>)),
     Decodes("PROTO", Flat(<<SeqOctets, <<81>>, DW>>), MsgSeq(<<DW>>, <<>>)),
     Decodes("PROTO", Flat(<<SeqOctets, <<81>>, DW, <<18, 4>>, Text(10)>>), MsgSeq(<<DW>>, <<Text(10)>>))}

SeqOpt == [SEQ_OPT |-> Container("sequence", <<M("FLD_U8"), T(<<1>>, O("FLD_DW")), If("has_1", O("FLD_U8")), O("FLD_U16")>>)]

dec_seq_opt ==
    {Decodes("SEQ_OPT", <<0, 1, 17, 34, 51, 68>>, <<<<<<0>>>>, <<<<17, 34, 51, 68>>>>, <<>>, <<>>>>),
     Decodes("SEQ_OPT", <<0, 17, 34>>, <<<<<<0>>>>, <<>>, <<>>, <<<<17, 34>>>>>>)}

dec_seq_fail ==
    {Throws("PROTO", <<100, 37, 73>>, "unknown_tag"),
     Throws("PROTO", <<2, 37, 73>> \o BEEF, "unknown_tag"),
     Throws("PROTO", <<1, 37>>, "overflow"),
     Throws("PROTO", <<1, 37, 33, 53>>, "overflow"),
     Throws("PROTO", Flat(<<<<1, 37, 33>>, D9, <<2>>, BEEF, <<66, 4>>, ABBA>>), "overflow"),
     Throws("PROTO", Flat(<<SeqOctets, <<18, 1>>, Text(4)>>), "invalid_value"),
     Throws("PROTO", Flat(<<SeqOctets, <<18, 5>>, Text(11)>>), "overflow")}

-----------------------------------------------------------------------------
\* MSG_MSEQ: two of each of the first fields, further ones in "more".
MsgMseq(ips, dws, seqofs, more) ==
    Proto(2, <<<<<<37>>, <<38>>>>, <<D9, DA>>, <<BEEF, BEEF2>>, ips, dws, seqofs>> \o more)
NoMore == [k \in 1 .. 5 |-> <<>>]
SeqOf3(a, b) == <<<<<<a>>>>, <<<<0, b>>>>>>

MseqOctets == Flat(<<<<17, 37, 38, 33>>, D9, <<33>>, DA, <<3>>, BEEF, <<3>>, BEEF2, <<66, 4>>, ABBA>>)
MseqOctets2 == Flat(<<MseqOctets, <<66, 4>>, ABBA2, <<81>>, DW, <<81>>, DW2>>)

\* With all of the optional fields, FLD_TN apart.
AllMore(tn) ==
    <<tn, <<Chosen(4, 1, <<33>>)>>, <<<<<<<<18, 35>>, <<52, 69>>>>>>>>,
      <<<<<<<<17, 34>>>>, <<Chosen(4, 2, <<51, 68>>)>>>>, <<<<<<51, 68>>>>, <<>>>>>>,
      <<Text(9), Text(7)>>>>
MoreOctets == Flat(<<<<96, 2, 0, 33, 97, 4, 18, 35, 52, 69, 98, 7, 17, 34, 6, 3, 2, 51, 68, 98, 2, 51, 68, 9>>,
                     Text(9), <<7>>, Text(7)>>)

enc_mseq_ok ==
    {Encodes("PROTO", MsgMseq(<<ABBA>>, <<DW>>, <<SeqOf3(1, 2)>>, NoMore),
             Flat(<<MseqOctets, <<81>>, DW, <<0, 1, 1, 33, 0, 2>>>>)),
     Encodes("PROTO", MsgMseq(<<ABBA, ABBA2>>, <<DW, DW2>>, <<SeqOf3(1, 2)>>, AllMore(<<<<226>>>>)),
             Flat(<<MseqOctets2, <<0, 1, 1, 33, 0, 2, 226>>, MoreOctets>>))}

\* One item less than the arity of a field, for each of four fields.
enc_mseq_fail_arity ==
    LET full == <<<<<<37>>, <<38>>>>, <<D9, DA>>, <<BEEF, BEEF2>>, <<ABBA, ABBA2>>, <<DW, DW2>>, <<>>,
                  <<>>, <<>>, <<>>, <<>>, <<Text(9)>>>>
    IN {Refused("PROTO", Proto(2, [full EXCEPT ![i] = IF i = 4 THEN <<>> ELSE <<@[1]>>]), "missing_ie") : i \in 1 .. 4}

dec_mseq_ok ==
    {Decodes("PROTO", Flat(<<MseqOctets, <<81>>, DW, <<0, 1, 2, 33, 0, 3>>>>),
             MsgMseq(<<ABBA>>, <<DW>>, <<SeqOf3(2, 3)>>, NoMore)),
     Decodes("PROTO", Flat(<<MseqOctets2, <<0, 2, 3, 33, 0, 4, 5, 33, 0, 6>>, MoreOctets>>),
             MsgMseq(<<ABBA, ABBA2>>, <<DW, DW2>>, <<SeqOf3(3, 4), SeqOf3(5, 6)>>, AllMore(<<>>)))}

dec_mseq_fail ==
    {Throws("PROTO", Flat(<<[MseqOctets EXCEPT ![4] = 34], <<81>>, DW, <<0, 1, 2, 33, 0, 3>>>>), "missing_ie"),
     Throws("PROTO", Flat(<<MseqOctets, <<0, 1, 2, 33, 0, 3>>>>), "missing_ie")}

dec_mseq_fail_length ==
    {Throws("PROTO", <<17, 37, 38, 33, 53>>, "overflow"),
     Throws("PROTO", Flat(<<[MseqOctets EXCEPT ![10] = 2], <<0, 1, 2, 33, 0, 3>>>>), "overflow"),
     Throws("PROTO", Flat(<<MseqOctets2, <<0, 1, 2, 33, 0, 3, 3>>, Text(3)>>), "invalid_value"),
     Throws("PROTO", Flat(<<MseqOctets2, <<0, 1, 2, 33, 0, 3, 11>>, Text(11)>>), "invalid_value")}

MseqOpen ==
    [MSEQ_OPEN |-> Container("sequence",
        <<T(<<33>>, PMany(2, Inf, M("FLD_U16"))), TL(<<66>>, PMany(1, Inf, M("FLD_IP"))),
          CNT(2, PMany(1, Inf, M("FLD_W"))), TL(<<98>>, PMany(1, Inf, O("FLD_DW"))), L(PMany(1, Inf, O("VFLD1")))>>)]
OpenOctets == Flat(<<<<33>>, D9, <<33>>, DA, <<66, 4>>, ABBA, <<0, 2, 118, 84, 152, 118, 98, 4>>, DW,
                     <<9>>, Text(9), <<7>>, Text(7)>>)

enc_mseq_open ==
    {Encodes("MSEQ_OPEN", <<<<D9, DA>>, <<ABBA>>, <<<<118, 84>>, <<152, 118>>>>, <<DW>>, <<Text(9), Text(7)>>>>, OpenOctets)}

dec_alloc_fail == {ThrowsWithoutAllocator("MSEQ_OPEN", OpenOctets, "out_of_memory")}

-----------------------------------------------------------------------------
\* set.cpp
MsgSet(u24, ip, s) == Proto(3, <<<<<<17>>>>, <<D9>>, u24, ip, s>>)
UC(n) == <<0, 11, n>>
SetU16(v) == <<0, 33, 2>> \o v
SetU24(v) == <<0, 73, 3>> \o v
SetIP(v) == <<0, 137>> \o v
SetText(n) == <<0, 34, n>> \o Text(n)

set_ok ==
    {Encodes("PROTO", MsgSet(<<>>, <<>>, <<>>), Flat(<<<<4>>, UC(17), SetU16(D9)>>)),
     Encodes("PROTO", MsgSet(<<>>, <<>>, <<Text(9)>>), Flat(<<<<4>>, UC(17), SetU16(D9), SetText(9)>>)),
     Encodes("PROTO", MsgSet(<<BEEF>>, <<ABBA>>, <<Text(9)>>),
             Flat(<<<<4>>, UC(17), SetU16(D9), SetU24(BEEF), SetIP(ABBA), SetText(9)>>))}

decode_set_ok ==
    {Decodes("PROTO", Flat(<<<<4>>, UC(17), SetU16(D9)>>), MsgSet(<<>>, <<>>, <<>>)),
     Decodes("PROTO", Flat(<<<<4>>, UC(17), SetU16(D9), SetText(9)>>), MsgSet(<<>>, <<>>, <<Text(9)>>)),
     Decodes("PROTO", Flat(<<<<4>>, SetText(9), SetIP(ABBA), SetU24(BEEF), SetU16(D9), UC(17)>>),
             MsgSet(<<BEEF>>, <<ABBA>>, <<Text(9)>>))}

set_fail_mandatory == {Refused("PROTO", Proto(3, <<<<<<0>>>>, <<>>, <<<<0, 0, 0>>>>, <<>>, <<>>>>), "missing_ie")}

decode_set_fail ==
    {Throws("PROTO", Flat(<<<<4>>, SetText(9), SetU24(BEEF), SetU16(D9), SetIP(ABBA)>>), "missing_ie"),
     Throws("PROTO", Flat(<<<<4>>, SetU24(BEEF), SetU24(BEEF)>>), "extra_ie")}

MsgMset(u8, u24, ip, s) == Proto(4, <<<<<<17>>, <<18>>>>, u8, <<D9, DA>>, u24, ip, s>>)
U8(n) == <<0, 12, n>>
MsetOctets == Flat(<<<<20>>, UC(17), UC(18), U8(19)>>)

mset_ok ==
    {Encodes("PROTO", MsgMset(<<<<19>>>>, <<>>, <<>>, <<>>), Flat(<<MsetOctets, SetU16(D9), SetU16(DA)>>)),
     Encodes("PROTO", MsgMset(<<<<19>>>>, <<>>, <<>>, <<Text(9)>>), Flat(<<MsetOctets, SetU16(D9), SetU16(DA), SetText(9)>>)),
     Encodes("PROTO", MsgMset(<<<<19>>, <<20>>>>, <<BEEF, BEEF2>>, <<ABBA, ABBA2>>, <<Text(9), Text(7)>>),
             Flat(<<MsetOctets, U8(20), SetU16(D9), SetU16(DA), SetU24(BEEF), SetU24(BEEF2),
                    SetIP(ABBA), SetIP(ABBA2), SetText(9), SetText(7)>>))}

mset_fail_arity ==
    LET m == <<<<<<0>>, <<0>>>>, <<<<0>>>>, <<<<0, 0>>>>, <<>>, <<>>, <<>>>>
    IN {Encodes("PROTO", Proto(4, m), <<20, 0, 11, 0, 0, 11, 0, 0, 12, 0, 0, 33, 2, 0, 0>>),
        Refused("PROTO", Proto(4, [m EXCEPT ![4] = <<<<0, 0, 0>>>>]), "missing_ie")}

decode_mset_ok ==
    {Decodes("PROTO", Flat(<<<<20>>, UC(17), SetU16(D9), UC(18), SetU16(DA), U8(19)>>), MsgMset(<<<<19>>>>, <<>>, <<>>, <<>>)),
     Decodes("PROTO", Flat(<<<<20>>, SetText(9), UC(17), SetU16(D9), SetU16(DA), U8(19), UC(18)>>),
             MsgMset(<<<<19>>>>, <<>>, <<>>, <<Text(9)>>)),
     Decodes("PROTO", Flat(<<<<20>>, SetText(9), SetText(7), SetIP(ABBA), UC(17), SetU24(BEEF), SetU24(BEEF2),
                             SetU16(D9), SetU16(DA), SetIP(ABBA2), UC(18), U8(19)>>),
             MsgMset(<<<<19>>>>, <<BEEF, BEEF2>>, <<ABBA, ABBA2>>, <<Text(9), Text(7)>>))}

decode_mset_fail_arity ==
    {Throws("PROTO", Flat(<<<<20>>, UC(17), U8(19), SetU16(D9)>>), "missing_ie"),
     Throws("PROTO", Flat(<<<<20>>, UC(17), UC(18), U8(19), U8(20), U8(21), SetU16(D9)>>), "extra_ie")}

MsgSetFunc(flags, qty, u8, u16, u24, ip) == Proto(6, <<<<<<17>>>>, flags, qty, u8, u16, u24, ip>>)
One1 == <<<<0, 0, 0, 1>>>>

\* The setter puts the flags right, whatever the application set.
set_func_ok ==
    {Encodes("PROTO", MsgSetFunc(<<>>, <<>>, <<>>, <<<<0, 3>>>>, <<>>, One1),
             <<36, 0, 11, 17, 0, 13, 5, 0, 33, 0, 3, 0, 137, 0, 0, 0, 1>>),
     Encodes("PROTO", MsgSetFunc(<<>>, <<>>, <<>>, <<>>, <<>>, <<>>), <<36, 0, 11, 17, 0, 13, 0>>),
     Encodes("PROTO", MsgSetFunc(<<<<255>>>>, <<<<5>>>>, <<<<4>>>>, <<<<0, 3>>>>, <<<<0, 0, 2>>>>, One1),
             <<36, 0, 11, 17, 0, 13, 71, 0, 14, 5, 0, 12, 4, 0, 33, 0, 3, 0, 73, 0, 0, 2, 0, 137, 0, 0, 0, 1>>)}

set_func_fail == {Refused("PROTO", Proto(6, <<<<>>, <<>>, <<>>, <<>>, <<<<0, 3>>>>, <<>>, One1>>), "missing_ie")}

decode_set_func_ok ==
    {Decodes("PROTO", <<36, 0, 11, 17, 0, 13, 0>>, MsgSetFunc(<<<<0>>>>, <<>>, <<>>, <<>>, <<>>, <<>>)),
     Decodes("PROTO", <<36, 0, 137, 0, 0, 0, 1, 0, 73, 0, 0, 2, 0, 33, 0, 3, 0, 12, 4, 0, 14, 5, 0, 11, 17, 0, 13, 71>>,
             MsgSetFunc(<<<<71>>>>, <<<<5>>>>, <<<<4>>>>, <<<<0, 3>>>>, <<<<0, 0, 2>>>>, One1))}

decode_set_func_fail ==
    {Throws("PROTO", <<36, 0, 11, 17, 0, 13, 71>>, "missing_ie"),
     Throws("PROTO", <<36, 0, 73, 0, 0, 2, 0, 33, 0, 3, 0, 12, 4, 0, 11, 17, 0, 13, 64>>, "extra_ie")}

-----------------------------------------------------------------------------
\* med.cpp
MsgFunc(flags, uc, qty, u8, u16, u24, ips) == Proto(5, <<flags, uc, qty, u8, u16, u24, ips>>)
Ucs(n) == [k \in 1 .. n |-> <<36 + k>>]
Hashes == <<<<0, 0, 20, 223>>, <<0, 0, 21, 104>>, <<0, 0, 21, 241>>>>
FuncOctets == Flat(<<<<255, 183, 37, 38, 39, 40, 3, 97, 98>>, D9, BEEF, FlattenSeq(Hashes)>>)

msg_func ==
    {Encodes("PROTO", MsgFunc(<<>>, Ucs(2), <<>>, <<>>, <<>>, <<>>, <<>>), <<255, 16, 37, 38>>),
     Encodes("PROTO", MsgFunc(<<>>, Ucs(3), <<>>, <<<<97>>>>, <<D9>>, <<>>, <<>>), <<255, 97, 37, 38, 39, 97>> \o D9),
     Encodes("PROTO", MsgFunc(<<>>, Ucs(4), <<>>, <<<<97>>, <<98>>>>, <<D9>>, <<BEEF>>, Hashes), FuncOctets)}

decode_msg_func ==
    {Decodes("PROTO", <<255, 16, 37, 38>>, MsgFunc(<<<<16>>>>, Ucs(2), <<>>, <<>>, <<>>, <<>>, <<>>)),
     Decodes("PROTO", <<255, 33, 37, 38, 39>> \o D9, MsgFunc(<<<<33>>>>, Ucs(3), <<>>, <<>>, <<D9>>, <<>>, <<>>)),
     Decodes("PROTO", FuncOctets, MsgFunc(<<<<183>>>>, Ucs(4), <<<<3>>>>, <<<<97>>, <<98>>>>, <<D9>>, <<BEEF>>, Hashes)),
     Throws("PROTO", Flat(<<<<255, 7>>, D9, BEEF, ABBA>>), "missing_ie"),
     Throws("PROTO", Flat(<<<<255, 215, 37, 38, 97, 98, 99>>, D9, BEEF, ABBA>>), "extra_ie")}

tagged_nibble == Both("tagged_nibble", <<<<<<229>>>>>>, <<229>>)

empty == Both("FLD_CHO", Chosen(4, 4, <<>>), <<6>>)

\* A spare field has its value from the start.
init == Both("init", <<<<<<<<<<0>>>>, <<<<7>>>>>>>>>>, <<1, 2, 0, 7>>)

FieldTests ==
    [tagged_nibble |-> Container("sequence", <<M("FLD_TN")>>),
     init |-> Container("sequence", <<TL(<<1>>, O("init_msg"))>>),
     init_msg |-> Container("sequence", <<M("FLD_UC"), M("FLD_UC")>>)]

-----------------------------------------------------------------------------
ProtocolTypes == FieldsOfProtocol @@ SequencesOfProtocol @@ SetsOfProtocol @@ MessagesWithFunctors
                    @@ SeqOpt @@ MseqOpen @@ FieldTests

ProtocolTestSet ==
    UNION {ooo, enc_seq_ok, enc_seq_fail_mandatory, dec_seq_ok, dec_seq_opt, dec_seq_fail, enc_mseq_ok,
           enc_mseq_fail_arity, dec_mseq_ok, dec_mseq_fail, dec_mseq_fail_length, enc_mseq_open, dec_alloc_fail,
           set_ok, decode_set_ok, set_fail_mandatory, decode_set_fail, mset_ok, mset_fail_arity, decode_mset_ok,
           decode_mset_fail_arity, set_func_ok, set_func_fail, decode_set_func_ok, decode_set_func_fail,
           msg_func, decode_msg_func, tagged_nibble, empty, init}

\* The functors by their names.
ProtocolFunctors ==
    {"flags", "set_flags", "qty", "uc", "u8", "ips", "has_1", "has_qty", "has_u16", "has_u24",
     "set_has_qty", "set_has_u16", "set_has_u24"}

ProtocolFunctor(name, v) ==
    CASE name = "flags" -> FlagsSetter(v, 2)
      [] name = "set_flags" -> FlagsSetter(v, 1)
      [] name = "qty" -> QtySetter(v)
      [] name = "uc" -> UcCount(FlagsOf(v, 1))
      [] name = "u8" -> U8Count(FlagsOf(v, 1))
      [] name = "ips" -> QtyOf(v)
      [] name \in {"has_u16", "has_1"} -> HasBit(FlagsOf(v, 1), 0)
      [] name = "has_u24" -> HasBit(FlagsOf(v, 1), 1)
      [] name = "has_qty" -> HasBit(FlagsOf(v, 1), 2)
      [] name = "set_has_u16" -> HasBit(FlagsOf(v, 2), 0)
      [] name = "set_has_u24" -> HasBit(FlagsOf(v, 2), 1)
      [] name = "set_has_qty" -> HasBit(FlagsOf(v, 2), 2)
=============================================================================
