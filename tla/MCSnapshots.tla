---------------------------- MODULE MCSnapshots ----------------------------
EXTENDS Snapshots

\* An element that is a bare value, and one whose type has a tag of its own.
CONSTANTS bare, framed
MCOwnMeta == (bare :> 0) @@ (framed :> 1)
Alike == Permutations(Values)
=============================================================================
