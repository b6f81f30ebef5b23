----------------------------- MODULE Allocator -----------------------------
(***************************************************************************)
(* med::allocator (med/allocator.hpp): memory for the items of repeated    *)
(* fields and for snapshots, handed out from the front of one arena and    *)
(* only given back all at once.                                            *)
(*                                                                         *)
(* Addresses are numbers.  "blocks" is not in the code: it records what    *)
(* was handed out since the arena was last released.                       *)
(***************************************************************************)
EXTENDS Integers

CONSTANTS Requests,    \* what is asked for: [bytes, align], one per type
          Arenas       \* the memory the application may give: [start, total]

ASSUME RequestsAssumption ==
    Requests \subseteq [bytes : Nat \ {0}, align : Nat \ {0}]
ASSUME ArenasAssumption ==
    Arenas \subseteq [start : Nat, total : Nat]

VARIABLES begin,       \* m_begin
          size,        \* m_size
          arena,       \* m_start and m_total
          blocks

allocatorVars == <<begin, size, arena, blocks>>

\* The next multiple of align that is not below p.  The code masks with
\* -align, which is the same for the powers of two that alignments are.
AlignUp(p, align) == ((p - 1 + align) \div align) * align

\* The address allocate() would return, and whether it fits (salign).
Place(r) == AlignUp(begin, r.align)

\* A slip: the padding not counted.
FitsUnpadded(r) == r.bytes <= size

Fits(r) ==
    /\ r.bytes <= size
    /\ Place(r) - begin <= size - r.bytes

InitAllocator ==
    /\ arena \in Arenas
    /\ begin = arena.start
    /\ size = arena.total
    /\ blocks = {}

\* allocate(bytes, align).  When the request does not fit it returns nullptr
\* and changes nothing; create() then throws out_of_memory.
Allocate(r) ==
    /\ Fits(r)
    /\ begin' = Place(r) + r.bytes
    /\ size' = size - (Place(r) - begin) - r.bytes
    /\ blocks' = blocks \cup {[at |-> Place(r), bytes |-> r.bytes, align |-> r.align]}
    /\ UNCHANGED arena

Release ==
    /\ begin' = arena.start
    /\ size' = arena.total
    /\ blocks' = {}
    /\ UNCHANGED arena

ResetArena(a) ==
    /\ arena' = a
    /\ begin' = a.start
    /\ size' = a.total
    /\ blocks' = {}

NextAllocator ==
    \/ \E r \in Requests : Allocate(r)
    \/ Release
    \/ \E a \in Arenas : ResetArena(a)

SpecAllocator == InitAllocator /\ [][NextAllocator]_allocatorVars

-----------------------------------------------------------------------------
Block == [at : Nat, bytes : Nat \ {0}, align : Nat \ {0}]

TypeOKAllocator ==
    /\ begin \in Nat
    /\ size \in Nat
    /\ arena \in [start : Nat, total : Nat]
    /\ blocks \subseteq Block

\* No two blocks that are in use overlap, each is aligned as its type needs
\* and lies in the arena, whatever was asked for in whatever order and however
\* the arena was released or replaced in between.
BlocksApart ==
    /\ \A b \in blocks :
          /\ arena.start <= b.at
          /\ b.at + b.bytes <= arena.start + arena.total
          /\ \E k \in 0 .. b.at : b.at = k * b.align
    /\ \A b, c \in blocks : b = c \/ b.at + b.bytes <= c.at \/ c.at + c.bytes <= b.at
=============================================================================
