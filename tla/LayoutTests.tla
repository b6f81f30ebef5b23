----------------------------- MODULE LayoutTests -----------------------------
(***************************************************************************)
(* The tests of what stands around the fields: selectors of choices        *)
(* (choice.cpp), lengths in front of the data and inside of it             *)
(* (length.cpp), padding (padding.cpp), and a header whose flags announce  *)
(* an optional field (gtpc.cpp).                                           *)
(***************************************************************************)
EXTENDS UnitTests

\* A message type with tags or a length of its own is decoded as a field.
Alone(f) == Container("sequence", <<f>>)

-----------------------------------------------------------------------------
\* choice.cpp: any other tag selects the last case, which keeps it.
ChoiceTypes ==
    ("cho::U8" :> Value(Octets(1))) @@ ("cho::U16" :> Value(Octets(2))) @@ ("cho::U32" :> Value(Octets(4)))
    @@ ("ANY_TAG" :> Value(Octets(1))) @@ ("ANY_DATA" :> String(0, Inf))
    @@ ("UNKNOWN" :> Container("sequence", <<M("ANY_TAG"), M("ANY_DATA")>>))
    @@ ("plain" :> Container("choice",
            <<TL(<<0>>, M("cho::U8")), TL(<<2>>, M("cho::U16")), TL(<<4>>, M("cho::U32")),
              With([Tag(Octets(1)) EXCEPT !.explicit = TRUE], L(M("UNKNOWN")))>>))
    @@ ("PLAIN" :> Alone(L(M("plain"))))

plain == Both("PLAIN", <<<<Chosen(4, 2, <<18, 52>>)>>>>, <<4, 2, 2, 18, 52>>)
any == Both("PLAIN", <<<<Chosen(4, 4, <<<<<<3>>>>, <<<<5, 6, 7, 8>>>>>>)>>>>, <<6, 3, 4, 5, 6, 7, 8>>)

-----------------------------------------------------------------------------
\* length.cpp: tags of four octets, and values that refuse a high first octet.
T32(t, f) == T(<<0, 0, 0, t>>, f)
Below(n) == Value([Octets(n) EXCEPT ![1] = 0 .. 239])

LengthValues ==
    ("len::U8" :> Below(1)) @@ ("len::U16" :> Below(2)) @@ ("len::U24" :> Below(3)) @@ ("len::U32" :> Below(4))
    @@ ("len::VAR" :> String(3, 18))

\* The low four bits of VL are the length.
VL == [Length(2) EXCEPT !.mod = 16, !.plus = 3, !.minus = 4, !.top = 18]

LengthTypes ==
    ("CHOICE" :> Container("choice",
        <<T32(1, M("len::U8")), T32(2, M("len::U16")), T32(4, M("len::U32"))>>))
    @@ ("SEQ2" :> Container("sequence", <<M("len::U16"), T32(1, L(O("CHOICE")))>>))
    @@ ("SEQ" :> Container("sequence",
        <<T32(1, L(Many(1, 2, M("len::U8")))), T32(2, Many(1, 2, O("len::U16"))),
          T32(3, Many(1, 2, O("len::U24"))), T32(4, L(Many(1, 2, O("len::U32"))))>>))
    @@ ("MSGSEQ" :> Container("sequence", <<L(M("SEQ")), L(M("SEQ2"))>>))
    @@ ("MV" :> Container("sequence", <<PMany(1, 3, M("len::U8"))>>))
    @@ ("M_LMV" :> Container("sequence", <<L(M("MV"))>>))
    @@ ("C_LV" :> Container("sequence", <<L(If("true_cond", O("len::VAR")))>>))
    @@ ("VL" :> LengthValue(Octets(2)))
    @@ ("VLVAR" :> Sized(2, Container("sequence", <<M("len::U8"), M("VL"), M("len::VAR")>>)))
    @@ ("vlvar" :> Alone(With(Inside(VL), M("VLVAR"))))
    @@ ("VLARR" :> Container("sequence", <<With(Inside(VL), Many(1, 2, M("VLVAR")))>>))
    @@ ("LVLARR" :> Container("sequence", <<L(M("VLARR"))>>))
    @@ ("VMSG" :> Container("sequence",
        <<T32(1, With(Inside(VL), Many(1, 2, M("VLVAR")))), T32(2, Many(1, 2, O("len::U16"))),
          T32(4, L(Many(1, 2, O("len::U32"))))>>))

m_lmv ==
    {DecodesWithAllocator("M_LMV", <<3, 1, 2, 3>>, <<<<<<<<<<1>>, <<2>>, <<3>>>>>>>>>>),
     ThrowsWithoutAllocator("M_LMV", <<3, 1, 2, 3>>, "out_of_memory"),
     Throws("M_LMV", <<4, 1, 2, 3>>, "overflow")}

c_lv ==
    {Decodes("C_LV", <<3, 1, 2, 3>>, <<<<<<1, 2, 3>>>>>>),
     Throws("C_LV", <<2, 1, 2>>, "invalid_value")}

\* The encoder stores the length beside the value of VL.
VlVar(u8, vl, n) == <<<<<<u8>>>>, <<vl>>, <<Text(n)>>>>
VlVars(last) == <<<<VlVar(3, <<0, 48>>, 3), VlVar(6, last, 6)>>, <<>>, <<>>>>
VlVarsOctets == Flat(<<<<0, 0, 0, 1, 3, 0, 48>>, Text(3), <<0, 0, 0, 1, 6, 0, 99>>, Text(6)>>)

vlvar ==
    LET octets == <<7, 18, 51>> \o Text(6)
    IN {Encodes("vlvar", <<<<VlVar(7, <<18, 48>>, 6)>>>>, octets),
        Decodes("vlvar", octets, <<<<VlVar(7, <<18, 51>>, 6)>>>>),
        Encodes("VMSG", VlVars(<<0, 96>>), VlVarsOctets)}

\* check_decode in the same test: two items, each with its length inside.  The
\* program decodes one of them, so this is not in LayoutTestSet.
vlvar_items == {Decodes("VMSG", VlVarsOctets, VlVars(<<0, 99>>))}

lvlarr ==
    LET octets == Flat(<<<<15, 1, 0, 16>>, Text(3), <<2, 0, 35>>, Text(6)>>)
        Arr(last) == <<<<<<<<VlVar(1, <<0, 16>>, 3), VlVar(2, last, 6)>>>>>>>>
    IN {Encodes("LVLARR", Arr(<<0, 32>>), octets), Decodes("LVLARR", octets, Arr(<<0, 35>>))}

seq ==
    {Decodes("MSGSEQ", <<12, 0, 0, 0, 1, 1, 1, 0, 0, 0, 2, 1, 2, 2, 1, 96>>,
             <<<<<<<<<<1>>>>, <<<<1, 2>>>>, <<>>, <<>>>>>>, <<<<<<<<1, 96>>>>, <<>>>>>>>>),
     Throws("MSGSEQ", <<11, 0, 0, 0, 1, 1, 1, 0, 0, 0, 2, 1, 2>>, "overflow"),
     Throws("MSGSEQ", <<12, 0, 0, 0, 1, 1, 241, 0, 0, 0, 2, 1, 2>>, "invalid_value")}

-----------------------------------------------------------------------------
\* The optional fields of an S-NSSAI are announced by its length.
NssaiTypes ==
    ("s_nssai_length" :> Value(Octets(1))) @@ ("sst" :> Value(Octets(1))) @@ ("sd" :> Value(Octets(3)))
    @@ ("s_nssai" :> Sized(1, Container("sequence",
            <<M("s_nssai_length"), M("sst"), If("has_sd", O("sd")),
              If("has_mapped_sst", O("sst")), If("has_mapped_sd", O("sd"))>>)))
    @@ ("nssai" :> Alone(With(Inside(Length(1)), M("s_nssai"))))

Nssai(len, rest) == <<<<<<len>> \o rest>>>>
BothNssai(n, rest, octets) ==
    {Encodes("nssai", Nssai(<<>>, rest), octets), Decodes("nssai", octets, Nssai(<<<<n>>>>, rest))}

explicit ==
    UNION {BothNssai(1, <<<<<<2>>>>, <<>>, <<>>, <<>>>>, <<1, 2>>),
           BothNssai(4, <<<<<<2>>>>, <<<<0, 0, 3>>>>, <<>>, <<>>>>, <<4, 2, 0, 0, 3>>),
           BothNssai(8, <<<<<<2>>>>, <<<<0, 0, 3>>>>, <<<<4>>>>, <<<<0, 0, 5>>>>>>, <<8, 2, 0, 0, 3, 4, 0, 0, 5>>)}

-----------------------------------------------------------------------------
\* A header with the code in front of the length, which counts the header as well.
PppTypes ==
    ("octet" :> Value(Octets(1))) @@ ("text" :> String(1, 255))
    @@ ("hdr" :> Container("sequence", <<M("octet"), M("octet")>>))
    @@ ("challenge" :> Container("sequence", <<L(M("text")), O("text")>>))
    @@ ("response" :> Container("sequence", <<L(O("text"))>>))
    @@ LET L16 == [Length(2) EXCEPT !.plus = -4, !.minus = -4]
       IN "proto" :> Headed("hdr", Container("choice",
            <<M("hdr"), T32(1, With(L16, M("challenge"))), T32(2, With(L16, M("response")))>>))

Hdr(code, id) == <<<<<<code>>>>, <<<<id>>>>>>
ppp ==
    {Decodes("proto", <<1, 3, 0, 16, 1>> \o Text(11), <<<<Hdr(1, 3)>>, <<<<<<Text(1)>>, <<Text(10)>>>>>>, <<>>>>),
     Decodes("proto", <<2, 5, 0, 6, 1, 97>>, <<<<Hdr(2, 5)>>, <<>>, <<<<<<Text(1)>>>>>>>>),
     Decodes("proto", <<2, 5, 0, 4>>, <<<<Hdr(2, 5)>>, <<>>, <<<<<<>>>>>>>>)}

\* A setter counts a field while the length in front of both is computed.
SetterTypes ==
    ("SHDR" :> Value(Octets(1)))
    @@ ("SFLD" :> Container("sequence", <<SetTo("field_count", M("SHDR")), M("len::U16")>>))
    @@ ("SMFLD" :> Container("sequence", <<SetTo("field_count", M("SHDR")), Many(1, 7, M("len::U8"))>>))
    @@ ("SLEN" :> Container("sequence", <<L(M("SFLD")), L(M("SMFLD"))>>))

setter_with_length ==
    LET octets == <<3, 1, 85, 170, 8, 7, 0, 1, 2, 3, 4, 5, 6>>
        Slen(one, seven) == <<<<<<one, <<<<85, 170>>>>>>>>, <<<<seven, [i \in 1 .. 7 |-> <<i - 1>>]>>>>>>
    IN {Encodes("SLEN", Slen(<<>>, <<>>), octets), Decodes("SLEN", octets, Slen(<<<<1>>>>, <<<<7>>>>))}

-----------------------------------------------------------------------------
\* padding.cpp
PaddedLength(offset, delta) ==
    [Length(1) EXCEPT !.pad = [to |-> 4, offset |-> offset, delta |-> delta, filler |-> 0]]
PL == PaddedLength(0, 0)
Flen == PaddedLength(2, 0)

PaddingTypes ==
    ("pad::u8" :> Value(Octets(1))) @@ ("pad::u16" :> Value(Octets(2))) @@ ("pad::u24" :> Value(Octets(3)))
    @@ ("pad::u32" :> Value(Octets(4))) @@ ("pad::text" :> String(0, 255))
    @@ ("exclusive" :> Container("choice",
            [i \in 1 .. 4 |-> T(<<i>>, With(PaddedLength(0, 2), M(<<"pad::u8", "pad::u16", "pad::u24", "pad::u32">>[i])))]))
    @@ ("pad::msg" :> Container("sequence", <<With(PL, M("pad::u16")), T(<<3>>, With(PL, M("pad::u24")))>>))
    @@ ("track_info" :> Container("sequence",
            <<M("pad::u8"), With(PL, M("pad::text")), Many(1, 63, M("pad::u32"))>>))
    @@ ("FloorReq" :> Container("sequence",
            <<T(<<0>>, With(Flen, M("pad::u16"))), T(<<6>>, With(Flen, O("pad::text"))),
              T(<<11>>, With([Length(1) EXCEPT !.depends = "participant_type"], M("track_info")))>>))
    @@ ("tlv" :> Container("sequence", <<T(<<0>>, With(Flen, M("pad::text")))>>))

value == Both("pad::msg", <<<<<<17, 34>>>>, <<<<51, 68, 85>>>>>>, <<2, 17, 34, 0, 0, 3, 3, 51, 68, 85, 0>>)

container ==
    UNION {Both("exclusive", Chosen(4, 1, <<18>>), <<1, 1, 18, 0>>),
           Both("exclusive", Chosen(4, 2, <<18, 52>>), <<2, 2, 18, 52>>),
           {Encodes("exclusive", Chosen(4, 3, <<18, 52, 86>>), <<3, 3, 18, 52, 86, 0, 0, 0>>)},
           Both("exclusive", Chosen(4, 4, <<18, 52, 86, 120>>), <<4, 4, 18, 52, 86, 120, 0, 0>>)}

dependent ==
    LET refs == <<<<16, 32, 48, 64>>, <<32, 48, 64, 80>>, <<48, 64, 80, 96>>>>
    IN Both("FloorReq", <<<<<<255, 0>>>>, <<Text(4)>>, <<<<<<<<3>>>>, <<Text(5)>>, refs>>>>>>,
            Flat(<<<<0, 2, 255, 0, 6, 4>>, Text(4), <<0, 0, 11, 13, 3, 5>>, Text(5), <<0, 0, 0>>, Flat(refs)>>))

tlv == Both("tlv", <<<<Text(4)>>>>, Flat(<<<<0, 4>>, Text(4), <<0, 0>>>>))

-----------------------------------------------------------------------------
\* gtpc.cpp: message_priority has the value 0 from the start; a message that is
\* decoded without it keeps that.
GtpcTypes ==
    ("version_flags" :> Value(Octets(1))) @@ ("sequence_number" :> Value(Octets(3))) @@ ("message_priority" :> Value(Octets(1)))
    @@ ("gtpc::header" :> Container("sequence",
            <<SetTo("version_flags", M("version_flags")), M("sequence_number"),
              If("has_message_priority", O("message_priority"))>>))

\* Sets or clears MP.
VersionFlags(v) ==
    LET bits == v[1][1][1]
        mp == IF HasBit(bits, 2) THEN 4 ELSE 0
    IN [ok |-> TRUE, items |-> <<<<bits - mp + (IF v[3] = <<<<0>>>> THEN 0 ELSE 4)>>>>]

Header(flags, priority) == <<<<<<flags>>>>, <<<<1, 2, 3>>>>, priority>>

unset == {Encodes("gtpc::header", Header(64, <<<<0>>>>), <<64, 1, 2, 3, 0>>),
          Decodes("gtpc::header", <<64, 1, 2, 3, 0>>, Header(64, <<>>))}
set == {Encodes("gtpc::header", Header(64, <<<<112>>>>), <<68, 1, 2, 3, 112>>),
        Decodes("gtpc::header", <<68, 1, 2, 3, 112>>, Header(68, <<<<112>>>>))}

-----------------------------------------------------------------------------
LayoutTypes == ChoiceTypes @@ LengthValues @@ LengthTypes @@ NssaiTypes @@ PppTypes @@ SetterTypes
                  @@ PaddingTypes @@ GtpcTypes

LayoutTestSet == UNION {plain, any, m_lmv, c_lv, vlvar, lvlarr, seq, explicit, ppp, setter_with_length,
                        value, container, dependent, tlv, unset, set}

LengthOf(v) == v[1][1][1]
FieldCount(v) == [ok |-> v[2] # <<>>, items |-> <<<<Len(v[2])>>>>]

LayoutFunctors ==
    {"true_cond", "has_sd", "has_mapped_sst", "has_mapped_sd", "hdr::get_tag", "hdr::set_tag", "field_count",
     "participant_type", "version_flags", "has_message_priority"}

LayoutFunctor(name, v) ==
    CASE name = "true_cond" -> TRUE
      [] name = "has_sd" -> LengthOf(v) >= 4
      [] name = "has_mapped_sst" -> LengthOf(v) \in {2, 5, 8}
      [] name = "has_mapped_sd" -> LengthOf(v) >= 7
      [] name = "hdr::get_tag" -> v[1][1]
      [] name = "hdr::set_tag" -> [v[1] EXCEPT ![1] = <<v[2]>>]
      [] name = "field_count" -> FieldCount(v)
      [] name = "participant_type" -> ((Len(v[2][1]) + 3) \div 4) * 4 + 1
      [] name = "version_flags" -> VersionFlags(v)
      [] name = "has_message_priority" -> HasBit(LengthOf(v), 2)
=============================================================================
