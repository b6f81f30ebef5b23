---------------------------- MODULE DiameterTests ----------------------------
(***************************************************************************)
(* The messages of diameter.cpp: sets of attribute-value pairs (AVP), each *)
(* with its length and its flags in one field inside of it and padded to   *)
(* four octets, behind a header that selects the message.                  *)
(***************************************************************************)
EXTENDS UnitTests

\* An AVP with a body: flags and length, the vendor if the flags say so.
AvpFields(body) == <<M("avp_flags"), If("vendor", O("id32")), M(body)>>
Avp(body) == SetBy(3, Sized(1, Container("sequence", AvpFields(body))))
AnyAvp == SetBy(4, Sized(2, Container("sequence", <<M("id32")>> \o AvpFields("octet_string"))))

\* The length counts the code and itself.
AvpLength ==
    Inside([Length(4) EXCEPT !.lead = 1, !.plus = -8, !.minus = -8, !.pad = [@ EXCEPT !.to = 4]])

Code(code, f) == T(<<0, 0>> \o code, With(AvpLength, f))
AnyCode(f) == With([Tag(Octets(4)) EXCEPT !.explicit = TRUE], With(AvpLength, f))
anyAvp == AnyCode(PMany(1, Inf, O("any_avp")))

ResultCode == <<1, 12>>
OriginHost == <<1, 8>>
OriginRealm == <<1, 40>>
DisconnectCause == <<1, 17>>

DiameterTypes ==
    [cmd_flags |-> Value(Octets(1)), cmd_code |-> Value(Octets(3)), id32 |-> Value(Octets(4)),
     avp_flags |-> LengthValue(Octets(4)), octet_string |-> String(0, Inf),
     u32_avp |-> Avp("id32"), string_avp |-> Avp("octet_string"), any_avp |-> AnyAvp,
     header |-> Container("sequence", <<M("cmd_flags"), M("cmd_code"), M("id32"), M("id32"), M("id32")>>),
     DPR |-> Container("set",
        <<Code(OriginHost, M("string_avp")), Code(OriginRealm, M("string_avp")), Code(DisconnectCause, M("u32_avp")), anyAvp>>),
     DPA |-> Container("set",
        <<Code(ResultCode, M("u32_avp")), Code(OriginHost, M("string_avp")), Code(OriginRealm, M("string_avp")),
          Code(<<1, 25>>, O("string_avp")), Code(<<1, 23>>, PMany(1, Inf, O("string_avp"))), anyAvp>>),
     ANY |-> Container("set",
        <<Code(ResultCode, O("u32_avp")), Code(OriginHost, O("string_avp")), Code(OriginRealm, O("string_avp")), anyAvp>>),
     base |-> Headed("header", Container("choice",
        <<M("header"), T(<<128, 0, 1, 26>>, M("DPR")), T(<<0, 0, 1, 26>>, M("DPA")),
          With([Tag(Octets(3)) EXCEPT !.explicit = TRUE], M("ANY"))>>)),
     diameter |-> Container("sequence",
        <<T(<<1>>, With([Length(3) EXCEPT !.plus = -4, !.minus = -4], M("base")))>>)]

-----------------------------------------------------------------------------
\* Messages and their octets.
FlagsR == 128
HeaderValue(flags, code) == <<<<<<flags>>>>, <<<<0, 1, code>>>>, <<<<0, 0, 0, 0>>>>, <<<<34, 34, 34, 34>>>>, <<<<85, 85, 85, 85>>>>>>
HeaderOctets(len, flags, code) ==
    <<1, 0, 0, len, flags, 0, 1, code, 0, 0, 0, 0, 34, 34, 34, 34, 85, 85, 85, 85>>
Base(flags, code, i, msg) == <<<<[Chosen(4, i, msg) EXCEPT ![1] = <<HeaderValue(flags, code)>>]>>>>

\* len: what the length field holds, 0 before it was encoded.
AvpValue(len, body) == <<<<<<64, 0, 0, len>>>>, <<>>, <<body>>>>
AvpOctets(code, body) == Flat(<<<<0, 0>>, code, <<64, 0, 0, Len(body) + 8>>, body>>)
Zeros(n) == [i \in 1 .. n |-> 0]

Host == Flat(<<AvpOctets(OriginHost, Text(9)), Zeros(3)>>)
Realm == Flat(<<AvpOctets(OriginRealm, Text(14)), Zeros(2)>>)
Cause == AvpOctets(DisconnectCause, <<0, 0, 0, 2>>)
Result == AvpOctets(ResultCode, <<0, 0, 11, 188>>)
AuthAppId == <<1, 2>>
Unexpected == AvpOctets(AuthAppId, <<165, 90, 188, 203>>)
Grouped == AvpOctets(AuthAppId, <<1, 0, 0, 35>>)
Failed == AvpOctets(<<1, 23>>, Grouped)
HostValue == <<AvpValue(17, Text(9))>>
RealmValue == <<AvpValue(22, Text(14))>>
ResultValue == <<AvpValue(12, <<0, 0, 11, 188>>)>>

dpr == Flat(<<HeaderOctets(76, FlagsR, 26), Host, Realm, Cause>>)
Dpr(lens) ==
    Base(FlagsR, 26, 2, <<<<AvpValue(lens[1], Text(9))>>, <<AvpValue(lens[2], Text(14))>>,
                          <<AvpValue(lens[3], <<0, 0, 0, 2>>)>>, <<>>>>)

encode ==
    LET Unselected(m) == [m EXCEPT ![1][1][1] = <<HeaderValue(0, 0)>>]
    IN {Encodes("diameter", Unselected(Dpr(<<0, 0, 0>>)), dpr)}

decode == {Decodes("diameter", dpr, Dpr(<<17, 22, 12>>))}

\* The padding of the last AVP is missing.
bad_padding ==
    {Throws("diameter", Flat(<<HeaderOctets(73, FlagsR, 26), Cause, Realm, AvpOctets(OriginHost, Text(9))>>), "any")}

\* What the set does not expect is collected; it is encoded in the order of the
\* fields.
any_avp ==
    LET dpa == Flat(<<HeaderOctets(108, 0, 26), Result, Host, Unexpected, Realm, Failed>>)
        dpa_enc == Flat(<<HeaderOctets(108, 0, 26), Result, Host, Realm, Failed, Unexpected>>)
        m == Base(0, 26, 3, <<ResultValue, HostValue, RealmValue, <<>>, <<AvpValue(20, Grouped)>>,
                              <<<<<<<<0, 0>> \o AuthAppId>>>> \o AvpValue(12, <<165, 90, 188, 203>>)>>>>)
    IN {Test("decode", "diameter", m, dpa, "", {TRUE}), Encodes("diameter", m, dpa_enc)}

\* A message of no known type.
any_msg == Both("diameter", Base(0, 24, 4, <<ResultValue, HostValue, RealmValue, <<>>>>),
                Flat(<<HeaderOctets(76, 0, 24), Result, Host, Realm>>))

DiameterTestSet == UNION {encode, decode, bad_padding, any_avp, any_msg}

-----------------------------------------------------------------------------
\* header::get_tag and set_tag: the command with the request bit in front of it.
RequestBit(flags) == IF HasBit(flags, 7) THEN FlagsR ELSE 0

GetTag(hdr) == <<RequestBit(hdr[1][1][1])>> \o hdr[2][1]
SetTag(hdr, tag) ==
    [hdr EXCEPT ![1] = <<<<@[1][1] - RequestBit(@[1][1]) + RequestBit(tag[1])>>>>, ![2] = <<Tail(tag)>>]

DiameterFunctors == {"vendor", "header::get_tag", "header::set_tag"}

\* In any_avp the flags are the second field.
DiameterFunctor(name, v) ==
    CASE name = "vendor" -> LET flags == IF Len(v) = 4 THEN v[2] ELSE v[1] IN HasBit(flags[1][1], 7)
      [] name = "header::get_tag" -> GetTag(v)
      [] name = "header::set_tag" -> SetTag(v[1], v[2])
=============================================================================
