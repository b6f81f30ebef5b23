----------------------------- MODULE FieldTypes -----------------------------
(***************************************************************************)
(* The notation in which med declares messages, as operators that build    *)
(* descriptions: values and strings (value.hpp, octet_string.hpp), the     *)
(* containers (sequence.hpp, set.hpp, choice.hpp), their fields M<...> and *)
(* O<...> (mandatory.hpp, optional.hpp, field.hpp) and the                 *)
(* meta-information in front of an item: tags and lengths (traits.hpp).    *)
(*                                                                         *)
(* Every number of a message is the sequence of its octets, high one       *)
(* first.  What a type accepts is a pattern: the octets it may have at     *)
(* each place.                                                             *)
(***************************************************************************)
EXTENDS Integers, Sequences

AnyOctet == 0 .. 255
Octets(n) == [i \in 1 .. n |-> AnyOctet]
Fixed(s) == [i \in DOMAIN s |-> {s[i]}]
Accepts(of, s) == Len(s) = Len(of) /\ \A i \in DOMAIN s : s[i] \in of[i]

\* The last n octets of a number, or all of them behind zeros: what is left of it
\* as a value of that size.
Fit(s, n) == [i \in 1 .. n |-> IF i + Len(s) > n THEN s[i + Len(s) - n] ELSE 0]

-----------------------------------------------------------------------------
\* Values, strings of min to max octets, and elements that are only a tag.  A value
\* that has a function set_length() is the length of a container.
Value(of) == [kind |-> "value", of |-> of, setLength |-> FALSE]
LengthValue(of) == [Value(of) EXCEPT !.setLength = TRUE]
String(min, max) == [kind |-> "string", min |-> min, max |-> max]
Empty == [kind |-> "empty"]

\* Containers.  lenField: the field that is the length of the whole; body: the
\* field that decides is_set(); header: the container that stands in
\* front of the cases of a choice, instead of a tag.
Container(kind, fields) ==
    [kind |-> kind, fields |-> fields, lenField |-> 0, body |-> 0, header |-> ""]
Sized(i, con) == [con EXCEPT !.lenField = i]
SetBy(i, con) == [con EXCEPT !.body = i]
Headed(header, con) == [con EXCEPT !.header = header]

-----------------------------------------------------------------------------
\* Padding to a multiple of "to" octets.
NoPad == [to |-> 1, offset |-> 0, delta |-> 0, filler |-> 0]

\* A tag; explicit: the tag is also a field of the container behind it.
Tag(of) == [kind |-> "tag", of |-> of, explicit |-> FALSE]

\* A length of n octets.  get_length() is unit * v + plus, where v is the value of
\* the octets behind the first "lead", modulo "mod" (0: all of it); set_length(n)
\* stores (n - minus) / unit there and refuses n beyond "top" (-1: nothing is
\* refused), or not a multiple.  explicit: the length is a field of the container;
\* depends: the name of what another field takes off it, if any.
Length(n) == [kind |-> "len", of |-> Octets(n), explicit |-> FALSE, lead |-> 0, mod |-> 0,
              unit |-> 1, plus |-> 0, minus |-> 0, top |-> -1, pad |-> NoPad, depends |-> ""]
Inside(info) == [info EXCEPT !.explicit = TRUE]

\* M<FIELD>, O<FIELD>
M(ty) == [presence |-> "M", meta |-> <<>>, type |-> ty,
          multi |-> FALSE, min |-> 1, max |-> 1, room |-> 1,
          counter |-> 0, countOf |-> "", cond |-> "", setter |-> ""]
O(ty) == [M(ty) EXCEPT !.presence = "O"]

\* With a tag, with a length, with both: add_tag and add_len are meta-information
\* of the items, not of the field as a whole.
With(info, f) == [f EXCEPT !.meta = <<info>> \o @]
T(s, f) == With(Tag(Fixed(s)), f)
L(f) == With(Length(1), f)
TL(s, f) == T(s, L(f))

\* Several items: min<..>, max<..> with room for all of them in the field, or
\* pmax<..> with room for the least number only.
Many(min, max, f) == [f EXCEPT !.multi = TRUE, !.min = min, !.max = max, !.room = max]
PMany(min, max, f) == [Many(min, max, f) EXCEPT !.room = min]

\* With a counter of n octets in front; and the application's functors by their
\* names: a count getter, a condition, a setter.
CNT(n, f) == [f EXCEPT !.counter = n]
CountOf(name, f) == [f EXCEPT !.countOf = name]
If(name, f) == [f EXCEPT !.cond = name]
SetTo(name, f) == [f EXCEPT !.setter = name]
=============================================================================
