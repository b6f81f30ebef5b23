----------------------------- MODULE RoundTrips -----------------------------
(***************************************************************************)
(* The decoder against the encoder: what one writes the other gives back,  *)
(* and what it accepts is what could have been written.                    *)
(***************************************************************************)
EXTENDS MessageDecoder, MessageEncoding

\* More items than the field has room for, decoded without an allocator.
RECURSIVE NeedsAllocator(_, _)
NeedsAllocator(ty, v) ==
    /\ IsContainer(Types[ty])
    /\ \E i \in DOMAIN v :
        LET G == Fields(ty)[i]
        IN \/ G.multi /\ Len(v[i]) > G.room
           \/ \E k \in DOMAIN v[i] : NeedsAllocator(G.type, v[i][k])

\* What the encoder wrote, the decoder gives back: every field, and all of the
\* octets; also in a context whose earlier messages failed anywhere, and whatever
\* look-ahead the optional and repeated fields need.  It throws only if it has no
\* memory for the items, and then nothing else.
RoundTrip ==
    sent # NotSent /\ status \in {"ok", "failed"} =>
        IF ~alloc /\ NeedsAllocator(root, sent)
        THEN status = "failed" /\ error = "out_of_memory"
        ELSE status = "ok" /\ result = sent /\ cursor = end

Consumed == SubSeq(wire, 1, cursor)
Occurrences(o, s) == Cardinality({k \in DOMAIN s : s[k] = o})

RECURSIVE Ordered(_)
Ordered(ty) == IsContainer(Types[ty]) => Kind(ty) # "set" /\ \A i \in DOMAIN Fields(ty) : Ordered(Fields(ty)[i].type)
InOrder == {ty \in Roots : Ordered(ty)}

Rewritten(again) ==
    /\ again.fault = ""
    /\ root \in InOrder => again.octets = Consumed
    /\ \A o \in ToSet(again.octets) \cup ToSet(Consumed) :
           Occurrences(o, again.octets) = Occurrences(o, Consumed)

\* Every message that is accepted, whatever octets it came from, is one the
\* encoder accepts, with the very octets that were consumed - in the order of
\* the fields where a set allowed another one.  So the arity and the presence of
\* every field were checked, and no octet was skipped or used twice.
AcceptedIsEncodable == status = "ok" /\ dropped = 0 => Rewritten(Encoding(root, result))
=============================================================================
