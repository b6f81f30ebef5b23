----------------------------- MODULE MultiField -----------------------------
(***************************************************************************)
(* The repeated fields of a message: class med::multi_field (med/field.hpp)*)
(* and the allocator that several of them share.                           *)
(*                                                                         *)
(* A field is a singly linked list of nodes.  Its first nodes are slots of *)
(* the field itself, the others come from the allocator.  Nothing marks a  *)
(* slot as used: it is taken to be free when its value is not set.  A      *)
(* removed node of the allocator is lost until the arena is released.  No  *)
(* code follows the link of a removed node, so the model forgets it.       *)
(***************************************************************************)
EXTENDS Allocator, Sequences, FiniteSets, FiniteSetsExt, SequencesExt

CONSTANTS Fields, Values, Unset,
          Inplace,       \* slots in a field
          NodeRequest,   \* size and alignment of a field_value
          Heap, Null,
          Indeterminate, \* what was never written
          MaxItems,      \* bound: items the application appends to a field
          Careful        \* are all items of a field set before another is appended

ASSUME InplaceAssumption == Inplace \in Nat \ {0}
ASSUME NodeRequestAssumption == NodeRequest \in Requests
ASSUME MaxItemsAssumption == MaxItems \in Nat

VARIABLES head, tail, count,   \* m_head, m_tail, m_count of each field
          next, val,           \* next and value of each node
          walked, iter         \* an iterator of the application, and its field

fieldVars == <<head, tail, count, next, val, walked, iter>>
vars == <<allocatorVars, fieldVars>>

\* Where a node can be in an arena.
Addresses == {AlignUp(p, NodeRequest.align) :
                 p \in UNION {a.start .. a.start + a.total : a \in Arenas}}
Slots == Fields \X (1 .. Inplace)
Nodes == Slots \cup ({Heap} \X Addresses)

\* A null pointer is no node, what was never written is neither, and values are set.
ASSUME DistinctAssumption ==
    /\ Heap \notin Fields
    /\ Null \notin Nodes
    /\ Indeterminate \notin Nodes \cup {Null}
    /\ Unset \notin Values
    /\ Indeterminate \notin Values \cup {Unset}

Init ==
    /\ InitAllocator
    /\ head = [f \in Fields |-> Null]
    /\ tail = [f \in Fields |-> Null]
    /\ count = [f \in Fields |-> 0]
    /\ next = [n \in Nodes |-> Indeterminate]
    /\ val = [n \in Nodes |-> IF n \in Slots THEN Unset ELSE Indeterminate]
    /\ walked \in Fields
    /\ iter = Null

\* Where a list ends, and where a link that was never written leads.
Ends == {Null, Indeterminate}

\* The nodes from first on along the links nx.  A list that runs in a circle is
\* cut when it is longer than any field gets.
Chain(first, nx) ==
    LET from[k \in 1 .. MaxItems + 1] ==
            IF k = 1 THEN first
            ELSE LET n == from[k - 1] IN IF n \in Ends THEN n ELSE nx[n]
        reached == {k \in 1 .. MaxItems + 1 : from[k] \notin Ends}
    IN  SubSeq(from, 1, Cardinality(reached))

\* The nodes that begin() .. end() visits.
Walk(f) == Chain(head[f], next)

IndexOnWalk(f, n) == LET nodes == Walk(f) IN CHOOSE k \in DOMAIN nodes : nodes[k] = n

AllSet(f) == \A n \in ToSet(Walk(f)) : val[n] # Unset

-----------------------------------------------------------------------------
(* Appending.                                                              *)

Unused(f) == {i \in 1 .. Inplace : val[<<f, i>>] = Unset}

\* A slip: the slots counted instead of looked at.
FreeInplaceByCount(f) ==
    IF count[f] < Inplace THEN <<f, count[f] + 1>> ELSE Null

\* get_free_inplace(): the first slot that is not set.
FreeInplace(f) ==
    IF count[f] < Inplace /\ Unused(f) # {} THEN <<f, Min(Unused(f))>> ELSE Null

\* A slip: the end of the list not marked.
LinkedOpen(f, n) ==
    IF count[f] > 0 THEN [next EXCEPT ![tail[f]] = n] ELSE next

\* The links once append() has put n behind the last item; n may be that item.
Linked(f, n) ==
    [IF count[f] > 0 THEN [next EXCEPT ![tail[f]] = n] ELSE next EXCEPT ![n] = Null]

\* append(): without a node it throws out_of_memory and changes nothing.
AppendNode(f, n) ==
    /\ count' = [count EXCEPT ![f] = @ + 1]
    /\ head' = IF count[f] = 0 THEN [head EXCEPT ![f] = n] ELSE head
    /\ tail' = [tail EXCEPT ![f] = n]
    /\ next' = Linked(f, n)
    /\ UNCHANGED <<walked, iter>>

\* push_back() and push_back(ctx) with a slot to spare.
PushBack(f) ==
    /\ Careful => AllSet(f)
    /\ count[f] < MaxItems
    /\ FreeInplace(f) # Null
    /\ AppendNode(f, FreeInplace(f))
    /\ UNCHANGED <<allocatorVars, val>>

\* push_back(ctx) without: create<field_value>() in the arena.
PushBackExternal(f) ==
    /\ Careful => AllSet(f)
    /\ count[f] < MaxItems
    /\ FreeInplace(f) = Null
    /\ Allocate(NodeRequest)
    /\ AppendNode(f, <<Heap, Place(NodeRequest)>>)
    /\ val' = [val EXCEPT ![<<Heap, Place(NodeRequest)>>] = Unset]

\* Something else is created in the same arena.
CreateOther(r) ==
    /\ Allocate(r)
    /\ UNCHANGED fieldVars

\* The value of an item is set, or cleared, through its pointer.
Set(n, v) ==
    /\ val[n] # v
    /\ val' = [val EXCEPT ![n] = v]
    /\ UNCHANGED <<allocatorVars, head, tail, count, next, walked, iter>>

-----------------------------------------------------------------------------
(* Removing.                                                               *)

\* The item before the last, found by counting.
BeforeLast(f) == Walk(f)[count[f] - 1]

\* A slip: the value left in the slot.
PopBackKeepingValue(f) ==
    /\ head[f] # Null
    /\ count' = [count EXCEPT ![f] = @ - 1]
    /\ head' = IF count[f] = 1 THEN [head EXCEPT ![f] = Null] ELSE head
    /\ tail' = [tail EXCEPT ![f] = IF count[f] = 1 THEN Null ELSE BeforeLast(f)]
    /\ next' = IF count[f] = 1 THEN [next EXCEPT ![tail[f]] = Indeterminate]
               ELSE [next EXCEPT ![tail[f]] = Indeterminate, ![BeforeLast(f)] = Null]
    /\ iter' = IF iter = tail[f] THEN Null ELSE iter
    /\ UNCHANGED <<allocatorVars, val, walked>>

PopBack(f) ==
    /\ head[f] # Null
    /\ count' = [count EXCEPT ![f] = @ - 1]
    /\ val' = [val EXCEPT ![tail[f]] = Unset]
    /\ head' = IF count[f] = 1 THEN [head EXCEPT ![f] = Null] ELSE head
    /\ tail' = [tail EXCEPT ![f] = IF count[f] = 1 THEN Null ELSE BeforeLast(f)]
    /\ next' = IF count[f] = 1 THEN [next EXCEPT ![tail[f]] = Indeterminate]
               ELSE [next EXCEPT ![tail[f]] = Indeterminate, ![BeforeLast(f)] = Null]
    /\ iter' = IF iter = tail[f] THEN Null ELSE iter
    /\ UNCHANGED <<allocatorVars, walked>>

\* A slip: the last item erased and the tail left on it.
EraseKeepingTail ==
    LET f == walked
        k == IndexOnWalk(f, iter)
    IN  /\ iter # Null
        /\ count' = [count EXCEPT ![f] = @ - 1]
        /\ val' = [val EXCEPT ![iter] = Unset]
        /\ head' = IF k = 1 THEN [head EXCEPT ![f] = next[iter]] ELSE head
        /\ next' = IF k = 1 THEN [next EXCEPT ![iter] = Indeterminate]
                   ELSE [next EXCEPT ![iter] = Indeterminate, ![Walk(f)[k - 1]] = next[iter]]
        /\ UNCHANGED tail
        /\ iter' = next[iter]
        /\ UNCHANGED <<allocatorVars, walked>>

\* erase(pos); at end() it does nothing.
Erase ==
    LET f == walked
        k == IndexOnWalk(f, iter)
    IN  /\ iter # Null
        /\ count' = [count EXCEPT ![f] = @ - 1]
        /\ val' = [val EXCEPT ![iter] = Unset]
        /\ IF count[f] = 1
           THEN /\ head' = [head EXCEPT ![f] = Null]
                /\ tail' = [tail EXCEPT ![f] = Null]
                /\ iter' = Null
                /\ next' = [next EXCEPT ![iter] = Indeterminate]
           ELSE /\ head' = IF k = 1 THEN [head EXCEPT ![f] = next[iter]] ELSE head
                /\ next' = IF k = 1 THEN [next EXCEPT ![iter] = Indeterminate]
                           ELSE [next EXCEPT ![iter] = Indeterminate,
                                             ![Walk(f)[k - 1]] = next[iter]]
                /\ tail' = IF iter = tail[f] THEN [tail EXCEPT ![f] = Walk(f)[k - 1]]
                           ELSE tail
                /\ iter' = next[iter]
        /\ UNCHANGED <<allocatorVars, walked>>

Clear(f) ==
    /\ val' = [n \in Nodes |-> IF n \in ToSet(Walk(f)) THEN Unset ELSE val[n]]
    /\ next' = [n \in Nodes |-> IF n \in ToSet(Walk(f)) THEN Indeterminate ELSE next[n]]
    /\ head' = [head EXCEPT ![f] = Null]
    /\ tail' = [tail EXCEPT ![f] = Null]
    /\ count' = [count EXCEPT ![f] = 0]
    /\ iter' = IF walked = f THEN Null ELSE iter
    /\ UNCHANGED <<allocatorVars, walked>>

\* The application takes the arena back, once no field holds an item in it.
Recycle ==
    /\ \A f \in Fields : head[f] = Null
    /\ Release \/ \E a \in Arenas : ResetArena(a)
    /\ val' = [n \in Nodes |-> IF n \in Slots THEN val[n] ELSE Indeterminate]
    /\ UNCHANGED <<head, tail, count, next, walked, iter>>

-----------------------------------------------------------------------------
(* Walking: begin() and operator++.                                        *)

Begin(f) ==
    /\ walked' = f
    /\ iter' = head[f]
    /\ UNCHANGED <<allocatorVars, head, tail, count, next, val>>

Increment ==
    /\ iter # Null
    /\ iter' = next[iter]
    /\ UNCHANGED <<allocatorVars, head, tail, count, next, val, walked>>

Next ==
    \/ \E f \in Fields :
          \/ PushBack(f) \/ PushBackExternal(f)
          \/ PopBack(f) \/ Clear(f) \/ Begin(f)
          \/ \E n \in ToSet(Walk(f)), v \in Values \cup {Unset} : Set(n, v)
    \/ \E r \in Requests \ {NodeRequest} : CreateOther(r)
    \/ Erase
    \/ Increment
    \/ Recycle

Spec == Init /\ [][Next]_vars

-----------------------------------------------------------------------------
(* Properties.                                                             *)

\* Only nodes are linked, and nothing that was never written is reached.
TypeOK ==
    /\ TypeOKAllocator
    /\ head \in [Fields -> Nodes \cup {Null}]
    /\ tail \in [Fields -> Nodes \cup {Null}]
    /\ count \in [Fields -> Nat]
    /\ iter \in Nodes \cup {Null}
    /\ \A f \in Fields : \A n \in ToSet(Walk(f)) :
          /\ next[n] \in Nodes \cup {Null}
          /\ val[n] \in Values \cup {Unset}

\* begin() .. end() visits as many items as count() says; a counter is
\* encoded from the one and its items from the other.
CountsItems == \A f \in Fields : Len(Walk(f)) = count[f]

\* A node is on at most one list and once, the tail is the last node of its
\* list, and a node that is not a slot is a block of the arena in use.
ListsSound ==
    /\ CountsItems
    /\ \A f \in Fields :
          /\ IsInjective(Walk(f))
          /\ tail[f] = IF Walk(f) = <<>> THEN Null ELSE Last(Walk(f))
          /\ \A g \in Fields \ {f} : ToSet(Walk(f)) \cap ToSet(Walk(g)) = {}
          /\ \A n \in ToSet(Walk(f)) \ Slots :
                \E b \in blocks : b.at = n[2] /\ b.bytes = NodeRequest.bytes

\* push_back() without a context never runs out of memory while the field holds
\* fewer items than it has slots, whatever was removed before.
SlotAvailable == \A f \in Fields : count[f] < Inplace => FreeInplace(f) # Null

\* The fields are the sequences their user is promised, with an iterator that
\* stays on its item when others are added and removed.
Items(f) == LET nodes == Walk(f) IN [k \in DOMAIN nodes |-> val[nodes[k]]]

Abstract == INSTANCE ItemLists WITH
    contents <- [f \in Fields |-> Items(f)],
    at <- IF iter = Null THEN 0 ELSE IndexOnWalk(walked, iter)

ImplementsItemLists == Abstract!Spec
=============================================================================
