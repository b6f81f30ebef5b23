----------------------------- MODULE Conformance -----------------------------
(***************************************************************************)
(* MessageEncoding and MessageDecoder against the unit tests of the        *)
(* repository: the model must encode, refuse, decode and throw as the      *)
(* tests say the program does.                                             *)
(***************************************************************************)
EXTENDS MessageDecoder, MessageEncoding

CONSTANTS Tests,         \* of the form that UnitTests gives them
          Damaged        \* those whose octets also arrive damaged

TestsOf(ty, way) == {t \in Tests : t.type = ty /\ t.way = way}

\* The octets of a test broken off somewhere, or with another octet somewhere: the
\* tags and lengths of the tests are other ones.
BrokenOff(w) == {SubSeq(w, 1, n) : n \in 0 .. Len(w) - 1}
Altered(w) == {[w EXCEPT ![i] = 100] : i \in DOMAIN w}

\* What is sent and received: the values that are encoded, the octets that are
\* decoded.
TestRoots == {t.type : t \in Tests}
TestMessages == [ty \in TestRoots |-> {t.value : t \in TestsOf(ty, "encode")}]
TestWires ==
    [ty \in TestRoots |->
        LET wires == {t.octets : t \in TestsOf(ty, "decode")}
            damaged == {t.octets : t \in TestsOf(ty, "decode") \cap Damaged}
        IN wires \cup UNION {BrokenOff(w) \cup Altered(w) : w \in damaged}]

\* src/ut: every EXPECT_THROW and EXPECT_EQ after an encode().
EncodesAsTested ==
    sent # NotSent =>
        \A t \in TestsOf(root, "encode") :
            t.value = sent => IF t.error = "" THEN status # "refused" /\ wire = t.octets
                              ELSE status = "refused" /\ error = t.error

\* src/ut: every EXPECT_THROW and EXPECT_EQ after a decode(), whatever look-ahead,
\* windows, counters and functors the message needs, and whether the context has
\* an allocator for repeated fields.
DecodesAsTested ==
    status \in {"ok", "failed"} =>
        \A t \in TestsOf(root, "decode") :
            t.octets = wire /\ alloc \in t.allocs =>
                IF t.error = "" THEN status = "ok" /\ result = t.value
                ELSE status = "failed" /\ t.error \in {error, "any"}
=============================================================================
