----------------------------- MODULE ItemLists -----------------------------
(***************************************************************************)
(* What the repeated fields of a message promise their user: each is a     *)
(* sequence of items that may not be set yet, to be appended to, emptied,  *)
(* shortened at its end and walked with an iterator that can erase the     *)
(* item it is at.                                                          *)
(***************************************************************************)
EXTENDS Naturals, Sequences, SequencesExt

CONSTANTS Fields, Values, Unset

VARIABLES contents,    \* field -> sequence of items
          walked,      \* the field the iterator walks
          at           \* the place of its item, 0 at the end

vars == <<contents, walked, at>>

Init ==
    /\ contents = [f \in Fields |-> <<>>]
    /\ walked \in Fields
    /\ at = 0

Push(f) ==
    /\ UNCHANGED <<walked, at>>
    /\ contents' = [contents EXCEPT ![f] = Append(@, Unset)]

\* An item is set, or emptied, in place.
Put(f) ==
    /\ UNCHANGED <<walked, at>>
    /\ Len(contents'[f]) = Len(contents[f])
    /\ \E k \in DOMAIN contents[f], v \in Values \cup {Unset} :
          /\ contents'[f] = [contents[f] EXCEPT ![k] = v]
          /\ \A g \in Fields \ {f} : contents'[g] = contents[g]

Shorten(f) ==
    /\ UNCHANGED walked
    /\ at' = IF walked = f /\ at = Len(contents[f]) THEN 0 ELSE at
    /\ contents[f] # <<>>
    /\ contents' = [contents EXCEPT ![f] = Front(@)]

Empty(f) ==
    /\ UNCHANGED walked
    /\ at' = IF walked = f THEN 0 ELSE at
    /\ contents' = [contents EXCEPT ![f] = <<>>]

StartWalk(f) ==
    /\ walked' = f
    /\ at' = IF contents[f] = <<>> THEN 0 ELSE 1
    /\ UNCHANGED contents

Step ==
    /\ UNCHANGED walked
    /\ at > 0
    /\ at' = IF at = Len(contents[walked]) THEN 0 ELSE at + 1
    /\ UNCHANGED contents

\* The iterator is then at the item that followed.
EraseHere ==
    /\ UNCHANGED walked
    /\ at > 0
    /\ at' = IF at = Len(contents[walked]) THEN 0 ELSE at
    /\ contents' = [contents EXCEPT ![walked] = RemoveAt(@, at)]

Next ==
    \/ \E f \in Fields : Push(f) \/ Put(f) \/ Shorten(f) \/ Empty(f) \/ StartWalk(f)
    \/ Step
    \/ EraseHere

Spec == Init /\ [][Next]_vars
=============================================================================
