---------------------------- MODULE MCMultiField ----------------------------
(* Instances of MultiField for TLC.  A node takes four addresses; the other   *)
(* request puts the arena out of step, so that a node with its padding no     *)
(* longer fits where one without would.                                       *)
EXTENDS MultiField

MCNode == [bytes |-> 4, align |-> 4]
MCRequests == {MCNode, [bytes |-> 2, align |-> 1]}
MCArenas == {[start |-> 3, total |-> 6]}
Alike == Permutations(Fields) \cup Permutations(Values)
=============================================================================
