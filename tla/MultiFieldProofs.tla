-------------------------- MODULE MultiFieldProofs --------------------------
(***************************************************************************)
(* Proofs about Allocator and MultiField.  For any arenas, any types and   *)
(* any number of requests, what the allocator hands out is apart, aligned  *)
(* and inside the arena.  For any fields, values and slots, the fields use *)
(* the arena as it should be used, and the lists are sound when every item *)
(* is set before the next one is appended (Careful): then they implement   *)
(* the sequences of ItemLists.                                             *)
(***************************************************************************)
EXTENDS MultiField, SequenceLemmas, TLAPS

-----------------------------------------------------------------------------
(* The arena.                                                              *)

\* The front of the arena separates what was handed out from what is left.
UsedInFront ==
    /\ arena.start <= begin
    /\ begin + size = arena.start + arena.total
    /\ \A b \in blocks : b.at + b.bytes <= begin

IInv == TypeOKAllocator /\ UsedInFront /\ BlocksApart

\* Rounding up gives a multiple that is not below what was rounded.
LEMMA AlignUpFacts ==
    ASSUME NEW p \in Nat, NEW a \in Nat \ {0}
    PROVE  /\ AlignUp(p, a) \in Nat
           /\ AlignUp(p, a) >= p
           /\ \E k \in 0 .. AlignUp(p, a) : AlignUp(p, a) = k * a
  <1> DEFINE k == (p - 1 + a) \div a
  <1>1. p - 1 + a \in Nat
    OBVIOUS
  <1>2. k \in Nat /\ p - 1 + a = k * a + ((p - 1 + a) % a) /\ (p - 1 + a) % a \in 0 .. a - 1
    BY <1>1
  <1>3. k * a >= p
    BY <1>2
  <1>4. k * a \in Nat /\ k <= k * a
    BY <1>2
  <1>5. AlignUp(p, a) = k * a
    BY DEF AlignUp
  <1> QED
    BY <1>2, <1>3, <1>4, <1>5

LEMMA InitHolds == InitAllocator => IInv
  BY ArenasAssumption
  DEF InitAllocator, IInv, TypeOKAllocator, UsedInFront, BlocksApart, Block

\* Allocating puts the new block between the old ones and what is left.
LEMMA AllocateKeeps ==
    ASSUME IInv, NEW r \in Requests, Allocate(r)
    PROVE  IInv'
  <1> DEFINE place == Place(r)
             new == [at |-> place, bytes |-> r.bytes, align |-> r.align]
  <1>1. r.bytes \in Nat \ {0} /\ r.align \in Nat \ {0}
    BY RequestsAssumption
  <1>2. begin \in Nat /\ size \in Nat /\ arena.start \in Nat /\ arena.total \in Nat
    BY DEF IInv, TypeOKAllocator
  <1>3. place \in Nat /\ place >= begin /\ \E k \in 0 .. place : place = k * r.align
    BY <1>1, <1>2, AlignUpFacts DEF Place
  <1> HIDE DEF place
  <1>4. /\ begin' = place + r.bytes
        /\ size' = size - (place - begin) - r.bytes
        /\ blocks' = blocks \cup {new}
        /\ arena' = arena
        /\ place - begin <= size - r.bytes
    BY DEF Allocate, Fits, place
  <1>5. new \in Block
    BY <1>1, <1>3 DEF Block
  <1>6. new.at = place /\ new.bytes = r.bytes /\ new.align = r.align
    OBVIOUS
  <1> HIDE DEF new
  <1>7. TypeOKAllocator'
    <2>1. begin' \in Nat /\ size' \in Nat
      BY <1>1, <1>2, <1>3, <1>4
    <2>2. blocks' \subseteq Block
      BY <1>4, <1>5 DEF IInv, TypeOKAllocator
    <2> QED
      BY <2>1, <2>2, <1>4 DEF IInv, TypeOKAllocator
  <1>8. \A b \in blocks : b.at \in Nat /\ b.bytes \in Nat \ {0} /\ b.at + b.bytes <= begin
    BY DEF IInv, TypeOKAllocator, UsedInFront, Block
  <1>9. UsedInFront'
    <2>1. arena.start <= begin' /\ begin' + size' = arena.start + arena.total
      BY <1>1, <1>2, <1>3, <1>4 DEF IInv, UsedInFront
    <2>2. ASSUME NEW b \in blocks' PROVE b.at + b.bytes <= begin'
      <3>1. CASE b = new
        BY <3>1, <1>4, <1>6, <1>1, <1>3
      <3>2. CASE b \in blocks
        BY <3>2, <1>8, <1>1, <1>2, <1>3, <1>4
      <3> QED
        BY <3>1, <3>2, <1>4
    <2> QED
      BY <2>1, <2>2, <1>4 DEF UsedInFront
  <1>10. BlocksApart'
    <2>1. ASSUME NEW b \in blocks'
          PROVE  /\ arena.start <= b.at
                 /\ b.at + b.bytes <= arena.start + arena.total
                 /\ \E k \in 0 .. b.at : b.at = k * b.align
      <3>1. CASE b = new
        BY <3>1, <1>1, <1>2, <1>3, <1>4, <1>6 DEF IInv, UsedInFront
      <3>2. CASE b \in blocks
        BY <3>2 DEF IInv, BlocksApart
      <3> QED
        BY <3>1, <3>2, <1>4
    <2>2. ASSUME NEW b \in blocks', NEW c \in blocks'
          PROVE  b = c \/ b.at + b.bytes <= c.at \/ c.at + c.bytes <= b.at
      <3>1. CASE b \in blocks /\ c \in blocks
        BY <3>1 DEF IInv, BlocksApart
      <3>2. CASE b \in blocks /\ c = new
        BY <3>2, <1>2, <1>3, <1>6, <1>8
      <3>3. CASE b = new /\ c \in blocks
        BY <3>3, <1>2, <1>3, <1>6, <1>8
      <3>4. CASE b = new /\ c = new
        BY <3>4
      <3> QED
        BY <3>1, <3>2, <3>3, <3>4, <1>4
    <2> QED
      BY <2>1, <2>2, <1>4 DEF BlocksApart
  <1> QED
    BY <1>7, <1>9, <1>10 DEF IInv

\* An arena without blocks is as good as a new one.
LEMMA ResettingKeeps ==
    ASSUME IInv, Release \/ \E a \in Arenas : ResetArena(a)
    PROVE  IInv'
  <1>1. CASE Release
    BY <1>1 DEF Release, IInv, TypeOKAllocator, UsedInFront, BlocksApart
  <1>2. CASE \E a \in Arenas : ResetArena(a)
    BY <1>2, ArenasAssumption DEF ResetArena, IInv, TypeOKAllocator, UsedInFront, BlocksApart
  <1> QED
    BY <1>1, <1>2

LEMMA StepKeeps == IInv /\ [NextAllocator]_allocatorVars => IInv'
  <1> SUFFICES ASSUME IInv, [NextAllocator]_allocatorVars
               PROVE  IInv'
    OBVIOUS
  <1>1. CASE \E r \in Requests : Allocate(r)
    BY <1>1, AllocateKeeps
  <1>2. CASE Release \/ \E a \in Arenas : ResetArena(a)
    BY <1>2, ResettingKeeps
  <1>3. CASE UNCHANGED allocatorVars
    BY <1>3 DEF allocatorVars, IInv, TypeOKAllocator, UsedInFront, BlocksApart
  <1> QED
    BY <1>1, <1>2, <1>3 DEF NextAllocator

\* Blocks in use never overlap, are aligned and lie in the arena
\* (allocator.hpp, allocate and salign).
THEOREM StorageSafety == SpecAllocator => []BlocksApart
  <1>1. IInv => BlocksApart
    BY DEF IInv
  <1> QED
    BY <1>1, InitHolds, StepKeeps, PTL DEF SpecAllocator

\* What is left of the arena never becomes negative.
THEOREM AllocatorTypes == SpecAllocator => []TypeOKAllocator
  <1>1. IInv => TypeOKAllocator
    BY DEF IInv
  <1> QED
    BY <1>1, InitHolds, StepKeeps, PTL DEF SpecAllocator

-----------------------------------------------------------------------------
(* The fields in the arena.                                                *)

\* Whatever the fields do, to the arena it is a sequence of requests.
LEMMA StepUsesAllocator == [Next]_vars => [NextAllocator]_allocatorVars
  <1> SUFFICES ASSUME [Next]_vars
               PROVE  NextAllocator \/ UNCHANGED allocatorVars
    OBVIOUS
  <1>1. ASSUME NEW f \in Fields, PushBack(f) PROVE UNCHANGED allocatorVars
    BY <1>1 DEF PushBack
  <1>2. ASSUME NEW f \in Fields, PushBackExternal(f) PROVE NextAllocator
    BY <1>2, NodeRequestAssumption DEF PushBackExternal, NextAllocator
  <1>3. ASSUME NEW f \in Fields, PopBack(f) PROVE UNCHANGED allocatorVars
    BY <1>3 DEF PopBack
  <1>4. ASSUME NEW f \in Fields, Clear(f) PROVE UNCHANGED allocatorVars
    BY <1>4 DEF Clear
  <1>5. ASSUME NEW f \in Fields, Begin(f) PROVE UNCHANGED allocatorVars
    BY <1>5 DEF Begin
  <1>6. ASSUME NEW n, NEW v, Set(n, v) PROVE UNCHANGED allocatorVars
    BY <1>6 DEF Set
  <1>7. ASSUME NEW r \in Requests, CreateOther(r) PROVE NextAllocator
    BY <1>7 DEF CreateOther, NextAllocator
  <1>8. ASSUME Erase PROVE UNCHANGED allocatorVars
    BY <1>8 DEF Erase
  <1>9. ASSUME Increment PROVE UNCHANGED allocatorVars
    BY <1>9 DEF Increment
  <1>10. ASSUME Recycle PROVE NextAllocator
    BY <1>10 DEF Recycle, NextAllocator
  <1>11. ASSUME UNCHANGED vars PROVE UNCHANGED allocatorVars
    BY <1>11 DEF vars
  <1> QED
    BY <1>1, <1>2, <1>3, <1>4, <1>5, <1>6, <1>7, <1>8, <1>9, <1>10, <1>11 DEF Next

\* The items of all fields and whatever else is created in their arena lie
\* apart, aligned and inside it (allocator.hpp allocate, field.hpp push_back).
THEOREM ItemsApart == Spec => []BlocksApart
  <1>1. Init => InitAllocator
    BY DEF Init
  <1>2. IInv => BlocksApart
    BY DEF IInv
  <1> QED
    BY <1>1, <1>2, InitHolds, StepUsesAllocator, StepKeeps, PTL DEF Spec

-----------------------------------------------------------------------------
(* Links.                                                                  *)

USE InplaceAssumption, NodeRequestAssumption, MaxItemsAssumption, DistinctAssumption

\* The nodes of s are linked in its order, from h on.
Linking(s, h, nx) ==
    /\ s \in Seq(Nodes)
    /\ Len(s) <= MaxItems
    /\ h = IF Len(s) = 0 THEN Null ELSE s[1]
    /\ nx \in [Nodes -> Nodes \cup {Null, Indeterminate}]
    /\ \A k \in 1 .. Len(s) : nx[s[k]] = IF k = Len(s) THEN Null ELSE s[k + 1]

\* Following the links of a list gives its nodes.
LEMMA ChainOfLinking ==
    ASSUME NEW s, NEW h, NEW nx, Linking(s, h, nx)
    PROVE  Chain(h, nx) = s
  <1> DEFINE n == Len(s)
             N == MaxItems + 1
             After(x) == IF x \in {Null, Indeterminate} THEN x ELSE nx[x]
             Rec(f) == f = [k \in 1 .. N |-> IF k = 1 THEN h ELSE After(f[k - 1])]
             w == [k \in 1 .. N |-> IF k <= n THEN s[k] ELSE Null]
             from == CHOOSE f : Rec(f)
             reached == {k \in 1 .. N : from[k] \notin {Null, Indeterminate}}
  <1>1. /\ n \in Nat /\ n <= MaxItems /\ N \in Nat /\ n < N /\ DOMAIN s = 1 .. n
        /\ \A k \in 1 .. n : s[k] \in Nodes
    BY LenProperties, ElementOfSeq DEF Linking
  <1>2. h = IF n = 0 THEN Null ELSE s[1]
    BY DEF Linking
  <1>2a. \A j \in 1 .. n : nx[s[j]] = IF j = n THEN Null ELSE s[j + 1]
    BY DEF Linking
  <1>3. Rec(w)
    <2>1. ASSUME NEW k \in 1 .. N
          PROVE  w[k] = IF k = 1 THEN h ELSE After(w[k - 1])
      <3>1. CASE k = 1
        BY <3>1, <1>1, <1>2
      <3>2. CASE k # 1 /\ k <= n
        <4>1. k - 1 \in 1 .. n /\ k - 1 # n /\ k - 1 \in 1 .. N
          BY <1>1, <3>2
        <4>2. w[k] = s[k] /\ w[k - 1] = s[k - 1] /\ s[k - 1] \in Nodes
          BY <4>1, <3>2, <1>1
        <4>3. nx[s[k - 1]] = s[k]
          <5>1. k - 1 + 1 = k
            BY <1>1
          <5> QED
            BY <5>1, <4>1, <1>2a
        <4> QED
          BY <4>2, <4>3, <3>2
      <3>3. CASE k # 1 /\ k = n + 1
        <4>1. k - 1 \in 1 .. n /\ k - 1 = n
          BY <1>1, <3>3
        <4>2. w[k] = Null /\ w[k - 1] = s[n] /\ s[n] \in Nodes
          BY <4>1, <3>3, <1>1
        <4>3. nx[s[n]] = Null
          BY <4>1, <1>2a
        <4> QED
          BY <4>2, <4>3, <3>3
      <3>4. CASE k # 1 /\ k > n + 1
        <4>1. w[k] = Null /\ w[k - 1] = Null
          BY <1>1, <3>4
        <4> QED
          BY <4>1, <3>4
      <3> QED
        BY <3>1, <3>2, <3>3, <3>4, <1>1
    <2> QED
      BY <2>1
  <1>4. Rec(from)
    <2> HIDE DEF w, Rec
    <2> QED
      BY <1>3
  <1> HIDE DEF from
  <1>5. \A k \in 1 .. N : from[k] = w[k]
    <2> DEFINE T == {k \in 1 .. N : from[k] # w[k]}
    <2>1. ASSUME T # {} PROVE FALSE
      <3>1. PICK k \in T : \A j \in T : k <= j
        <4>1. T \subseteq Nat
          OBVIOUS
        <4> HIDE DEF T
        <4> QED
          BY <2>1, <4>1, LeastElement
      <3>2. CASE k = 1
        BY <3>1, <3>2, <1>3, <1>4
      <3>3. CASE k # 1
        <4>1. k - 1 \in 1 .. N /\ k - 1 \notin T
          BY <3>1, <3>3, <1>1
        <4>2. from[k - 1] = w[k - 1]
          BY <4>1
        <4>3. from[k] = After(from[k - 1]) /\ w[k] = After(w[k - 1])
          <5>1. k \in 1 .. N /\ k # 1
            BY <3>1, <3>3
          <5>2. from[k] = After(from[k - 1])
            <6> HIDE DEF w
            <6> QED
              BY <5>1, <1>4
          <5>3. w[k] = After(w[k - 1])
            BY <5>1, <1>3
          <5> QED
            BY <5>2, <5>3
        <4> QED
          BY <4>2, <4>3, <3>1
      <3> QED
        BY <3>2, <3>3
    <2> QED
      BY <2>1
  <1>6. from = w
    <2>1. from = [k \in 1 .. N |-> from[k]]
      BY <1>4
    <2> QED
      BY <2>1, <1>5
  <1>7. reached = 1 .. n
    BY <1>1, <1>5
  <1>8. Cardinality(reached) = n
    <2> HIDE DEF reached
    <2>1. Cardinality(1 .. n) = IF 1 > n THEN 0 ELSE n - 1 + 1
      <3>1. 1 \in Int /\ n \in Int
        BY <1>1
      <3> HIDE DEF n
      <3> QED
        BY ONLY <3>1, FS_Interval
    <2> QED
      BY <1>1, <1>7, <2>1
  <1>9. Chain(h, nx) = SubSeq(from, 1, n)
    BY <1>8 DEF Chain, Ends, from
  <1>10. SubSeq(from, 1, n) = s
    <2>1. SubSeq(w, 1, n) = [k \in 1 .. n |-> w[k]]
      BY <1>1
    <2>2. s = [k \in 1 .. n |-> s[k]]
      BY <1>1 DEF Linking
    <2> QED
      BY <2>1, <2>2, <1>1, <1>6
  <1> QED
    BY <1>9, <1>10

-----------------------------------------------------------------------------
(* The invariant.                                                          *)

Types ==
    /\ head \in [Fields -> Nodes \cup {Null}]
    /\ tail \in [Fields -> Nodes \cup {Null}]
    /\ count \in [Fields -> Nat]
    /\ next \in [Nodes -> Nodes \cup {Null, Indeterminate}]
    /\ val \in [Nodes -> Values \cup {Unset, Indeterminate}]
    /\ walked \in Fields
    /\ iter \in Nodes \cup {Null}

InUse(n) == \E b \in blocks : b.at = n[2] /\ b.bytes = NodeRequest.bytes

\* s holds the items of field f: its nodes are linked, each is there once and has a
\* value or none, they are slots of f or blocks in use, and all other slots are free.
ListOf(f, s) ==
    /\ Linking(s, head[f], next)
    /\ Len(s) = count[f]
    /\ tail[f] = IF Len(s) = 0 THEN Null ELSE s[Len(s)]
    /\ \A j, k \in 1 .. Len(s) : s[j] = s[k] => j = k
    /\ \A k \in 1 .. Len(s) :
          /\ val[s[k]] \in Values \cup {Unset}
          /\ s[k] \in Slots => s[k][1] = f
          /\ s[k] \notin Slots => InUse(s[k])
    /\ \A i \in 1 .. Inplace : (\A k \in 1 .. Len(s) : s[k] # <<f, i>>) => val[<<f, i>>] = Unset

On(n, s) == \E k \in 1 .. Len(s) : s[k] = n

\* The lists of all fields, which share no node, and the iterator on its item.
Arrangement(lists) ==
    /\ lists \in [Fields -> Seq(Nodes)]
    /\ \A f \in Fields : ListOf(f, lists[f])
    /\ \A f, g \in Fields : f # g =>
          \A j \in 1 .. Len(lists[f]), k \in 1 .. Len(lists[g]) : lists[f][j] # lists[g][k]
    /\ iter # Null => On(iter, lists[walked])

ListInv ==
    /\ IInv
    /\ arena \in Arenas
    /\ Types
    /\ \E lists \in [Fields -> Seq(Nodes)] : Arrangement(lists)

LEMMA WalkIsList ==
    ASSUME NEW lists, Arrangement(lists)
    PROVE  \A f \in Fields : Walk(f) = lists[f]
  BY ChainOfLinking DEF Arrangement, ListOf, Walk

LEMMA WalkIsListNext ==
    ASSUME NEW lists, Arrangement(lists)'
    PROVE  \A f \in Fields : Walk(f)' = lists[f]
  BY ChainOfLinking DEF Arrangement, ListOf, Walk

-----------------------------------------------------------------------------
(* What a step must leave alone for a list to stay as it is.               *)

LEMMA KeptList ==
    ASSUME NEW g \in Fields, NEW s, ListOf(g, s),
           next' \in [Nodes -> Nodes \cup {Null, Indeterminate}],
           head'[g] = head[g], tail'[g] = tail[g], count'[g] = count[g],
           \A k \in 1 .. Len(s) : /\ next'[s[k]] = next[s[k]]
                                  /\ val'[s[k]] = val[s[k]]
                                  /\ InUse(s[k]) => InUse(s[k])',
           \A i \in 1 .. Inplace : val'[<<g, i>>] = val[<<g, i>>]
    PROVE  ListOf(g, s)'
  <1>1. Linking(s, head'[g], next')
    BY DEF ListOf, Linking
  <1> QED
    BY <1>1 DEF ListOf

LEMMA InitLists == Init => ListInv
  <1> SUFFICES ASSUME Init PROVE ListInv
    OBVIOUS
  <1>1. IInv /\ arena \in Arenas
    BY InitHolds DEF Init, InitAllocator
  <1>2. \A n \in Slots : n \in Nodes
    BY DEF Nodes
  <1>3. Types
    BY DEF Init, Types
  <1> DEFINE none == [f \in Fields |-> <<>>]
  <1>4. Arrangement(none)
    <2>1. \A f \in Fields : none[f] = <<>>
      OBVIOUS
    <2>2. <<>> \in Seq(Nodes) /\ Len(<<>>) = 0
      BY EmptySeq
    <2>3. none \in [Fields -> Seq(Nodes)]
      BY <2>2
    <2> HIDE DEF none
    <2>4. ASSUME NEW f \in Fields PROVE ListOf(f, <<>>)
      <3>1. Linking(<<>>, head[f], next)
        BY <2>2, <1>3 DEF Linking, Init, Types
      <3>2. \A i \in 1 .. Inplace : val[<<f, i>>] = Unset
        BY <1>2 DEF Init, Slots
      <3> QED
        BY <2>2, <3>1, <3>2 DEF ListOf, Init
    <2> QED
      BY <2>1, <2>2, <2>3, <2>4 DEF Arrangement, Init
  <1> QED
    BY <1>1, <1>3, <1>4 DEF ListInv, Arrangement

-----------------------------------------------------------------------------
(* Appending and removing an item of one list.                             *)

LEMMA AppendedList ==
    ASSUME NEW f \in Fields, NEW s, ListOf(f, s), Types,
           NEW n \in Nodes, ~On(n, s), NEW t, t = Append(s, n),
           count[f] < MaxItems, AppendNode(f, n), val'[n] = Unset,
           n \in Slots => n[1] = f,
           n \notin Slots => InUse(n)',
           \A k \in 1 .. Len(s) : /\ val'[s[k]] = val[s[k]]
                                  /\ InUse(s[k]) => InUse(s[k])',
           \A i \in 1 .. Inplace : val'[<<f, i>>] = val[<<f, i>>]
    PROVE  ListOf(f, t)'
  <1> DEFINE m == Len(s)
  <1>1. /\ s \in Seq(Nodes) /\ m \in Nat /\ m = count[f]
        /\ \A k \in 1 .. m : s[k] \in Nodes
        /\ head[f] = IF m = 0 THEN Null ELSE s[1]
        /\ tail[f] = IF m = 0 THEN Null ELSE s[m]
    BY LenProperties, ElementOfSeq DEF ListOf, Linking
  <1>2. /\ t \in Seq(Nodes) /\ Len(t) = m + 1 /\ t[m + 1] = n
        /\ \A k \in 1 .. m : t[k] = s[k]
    BY <1>1, AppendProperties
  <1>3. /\ count'[f] = m + 1 /\ tail'[f] = n
        /\ head'[f] = IF m = 0 THEN n ELSE s[1]
    BY <1>1 DEF AppendNode, Types
  <1>4. /\ next' \in [Nodes -> Nodes \cup {Null, Indeterminate}]
        /\ next'[n] = Null
        /\ m > 0 => next'[s[m]] = n
        /\ \A k \in 1 .. m : k # m => next'[s[k]] = next[s[k]]
    <2>1. next \in [Nodes -> Nodes \cup {Null, Indeterminate}] /\ next' = Linked(f, n)
      BY DEF Types, AppendNode
    <2>2. CASE m = 0
      BY <2>1, <2>2, <1>1 DEF Linked
    <2>3. CASE m # 0
      <3>1. m > 0 /\ m \in 1 .. m /\ s[m] \in Nodes /\ tail[f] = s[m]
        BY <1>1, <2>3
      <3>2. next' = [[next EXCEPT ![s[m]] = n] EXCEPT ![n] = Null]
        BY <2>1, <3>1, <1>1 DEF Linked
      <3>3. \A k \in 1 .. m : s[k] # n /\ (s[k] = s[m] => k = m)
        BY <3>1 DEF On, ListOf
      <3> HIDE DEF m
      <3> QED
        BY <3>1, <3>2, <3>3, <2>1, <1>1
    <2> QED
      BY <2>2, <2>3
  <1>5. Linking(t, head'[f], next')
    <2>1. \A k \in 1 .. m : next[s[k]] = IF k = m THEN Null ELSE s[k + 1]
      BY DEF ListOf, Linking
    <2>2. ASSUME NEW k \in 1 .. m + 1
          PROVE  next'[t[k]] = IF k = m + 1 THEN Null ELSE t[k + 1]
      <3>1. CASE k = m + 1
        BY <3>1, <1>2, <1>4
      <3>2. CASE k = m
        BY <3>2, <1>1, <1>2, <1>4
      <3>3. CASE k # m /\ k # m + 1
        <4>1. k \in 1 .. m /\ k + 1 \in 1 .. m
          BY <3>3, <1>1
        <4> QED
          BY <4>1, <3>3, <1>1, <1>2, <1>4, <2>1
      <3> QED
        BY <3>1, <3>2, <3>3
    <2>3. head'[f] = t[1] /\ m + 1 <= MaxItems
      BY <1>1, <1>2, <1>3
    <2> QED
      BY <2>2, <2>3, <1>1, <1>2, <1>4 DEF Linking
  <1>6. \A j, k \in 1 .. Len(t) : t[j] = t[k] => j = k
    <2>1. \A j, k \in 1 .. m : s[j] = s[k] => j = k
      BY DEF ListOf
    <2>2. \A k \in 1 .. m : s[k] # n
      BY DEF On
    <2> QED
      BY <1>1, <1>2, <2>1, <2>2
  <1>7. ASSUME NEW k \in 1 .. Len(t)
        PROVE  /\ val'[t[k]] \in Values \cup {Unset}
               /\ t[k] \in Slots => t[k][1] = f
               /\ t[k] \notin Slots => InUse(t[k])'
    <2>1. CASE k = m + 1
      BY <2>1, <1>2
    <2>2. CASE k # m + 1
      <3>1. k \in 1 .. m /\ t[k] = s[k]
        BY <2>2, <1>1, <1>2
      <3>2. /\ val[s[k]] \in Values \cup {Unset}
            /\ s[k] \in Slots => s[k][1] = f
            /\ s[k] \notin Slots => InUse(s[k])
        BY <3>1 DEF ListOf
      <3> QED
        BY <3>1, <3>2
    <2> QED
      BY <2>1, <2>2
  <1>8. ASSUME NEW i \in 1 .. Inplace, \A k \in 1 .. Len(t) : t[k] # <<f, i>>
        PROVE  val'[<<f, i>>] = Unset
    <2>1. \A k \in 1 .. m : s[k] # <<f, i>>
      BY <1>8, <1>1, <1>2, SMTT(30)
    <2>2. val[<<f, i>>] = Unset
      BY <2>1 DEF ListOf
    <2> QED
      BY <2>2
  <1>9. Len(t) = count'[f] /\ tail'[f] = IF Len(t) = 0 THEN Null ELSE t[Len(t)]
    BY <1>1, <1>2, <1>3
  <1> QED
    BY <1>5, <1>6, <1>7, <1>8, <1>9 DEF ListOf

\* What pop_back() and erase() do to the list s of f: its k-th node is taken out.
Removal(f, s, k) ==
    /\ count' = [count EXCEPT ![f] = @ - 1]
    /\ val' = [val EXCEPT ![s[k]] = Unset]
    /\ head' = IF k = 1 THEN [head EXCEPT ![f] = next[s[k]]] ELSE head
    /\ tail' = IF k = Len(s) THEN [tail EXCEPT ![f] = IF k = 1 THEN Null ELSE s[k - 1]]
               ELSE tail
    /\ next' = IF k = 1 THEN [next EXCEPT ![s[k]] = Indeterminate]
               ELSE [next EXCEPT ![s[k]] = Indeterminate, ![s[k - 1]] = next[s[k]]]
    /\ iter' = IF iter = s[k] THEN next[s[k]] ELSE iter
    /\ UNCHANGED <<allocatorVars, walked>>

LEMMA RemovedList ==
    ASSUME NEW f \in Fields, NEW s, ListOf(f, s), Types,
           NEW k \in 1 .. Len(s), NEW t, t = Without(s, k),
           Removal(f, s, k)
    PROVE  /\ ListOf(f, t)'
           /\ next' \in [Nodes -> Nodes \cup {Null, Indeterminate}]
           /\ val' \in [Nodes -> Values \cup {Unset, Indeterminate}]
           /\ \A n \in Nodes : ~On(n, s) => next'[n] = next[n] /\ val'[n] = val[n]
           /\ next[s[k]] = IF k = Len(s) THEN Null ELSE s[k + 1]
  <1> DEFINE m == Len(s)
  <1>1. /\ s \in Seq(Nodes) /\ m \in Nat /\ m = count[f] /\ m <= MaxItems
        /\ \A j \in 1 .. m : s[j] \in Nodes
        /\ head[f] = s[1]
        /\ tail[f] = s[m]
        /\ \A j \in 1 .. m : next[s[j]] = IF j = m THEN Null ELSE s[j + 1]
        /\ \A i, j \in 1 .. m : s[i] = s[j] => i = j
    <2>1. s \in Seq(Nodes) /\ m = count[f] /\ m <= MaxItems
      BY DEF ListOf, Linking
    <2>2. m \in Nat /\ \A j \in 1 .. m : s[j] \in Nodes
      BY <2>1, LenProperties, ElementOfSeq
    <2>3. m # 0
      BY <2>2
    <2>4. head[f] = s[1] /\ tail[f] = s[m]
      BY <2>3 DEF ListOf, Linking
    <2>5. /\ \A j \in 1 .. m : next[s[j]] = IF j = m THEN Null ELSE s[j + 1]
          /\ \A i, j \in 1 .. m : s[i] = s[j] => i = j
      BY DEF ListOf, Linking
    <2> QED
      BY <2>1, <2>2, <2>4, <2>5
  <1>2. /\ t \in Seq(Nodes) /\ Len(t) = m - 1 /\ m - 1 \in Nat
        /\ \A j \in 1 .. m - 1 : t[j] = IF j < k THEN s[j] ELSE s[j + 1]
    <2>1. s \in Seq(Nodes) /\ k \in 1 .. Len(s) /\ t = Without(s, k)
      BY <1>1
    <2>2. /\ t \in Seq(Nodes) /\ Len(t) = Len(s) - 1
          /\ \A j \in 1 .. Len(t) : t[j] = IF j < k THEN s[j] ELSE s[j + 1]
      BY ONLY <2>1, WithoutFacts
    <2> QED
      BY <2>2, <1>1
  <1>3. next[s[k]] = IF k = m THEN Null ELSE s[k + 1]
    BY <1>1
  <1>4. /\ count'[f] = m - 1
        /\ head'[f] = IF k = 1 THEN next[s[k]] ELSE s[1]
        /\ tail'[f] = IF k = m THEN IF k = 1 THEN Null ELSE s[k - 1] ELSE s[m]
    BY <1>1 DEF Removal, Types
  <1>5. /\ next \in [Nodes -> Nodes \cup {Null, Indeterminate}]
        /\ next[s[k]] \in Nodes \cup {Null}
        /\ s[k] \in Nodes
        /\ k # 1 => s[k - 1] \in Nodes
    BY <1>1, <1>3 DEF Types
  <1>6. /\ next' \in [Nodes -> Nodes \cup {Null, Indeterminate}]
        /\ \A n \in Nodes : next'[n] = IF n = s[k] /\ (k = 1 \/ n # s[k - 1]) THEN Indeterminate
                                       ELSE IF k # 1 /\ n = s[k - 1] THEN next[s[k]] ELSE next[n]
    <2>1. CASE k = 1
      BY <2>1, <1>5 DEF Removal
    <2>2. CASE k # 1
      <3>1. next' = [next EXCEPT ![s[k]] = Indeterminate, ![s[k - 1]] = next[s[k]]]
        BY <2>2 DEF Removal
      <3> QED
        BY <3>1, <2>2, <1>5
    <2> QED
      BY <2>1, <2>2
  <1>7. /\ val' \in [Nodes -> Values \cup {Unset, Indeterminate}]
        /\ \A n \in Nodes : val'[n] = IF n = s[k] THEN Unset ELSE val[n]
    BY <1>5 DEF Removal, Types
  <1>8. \A n \in Nodes : ~On(n, s) => next'[n] = next[n] /\ val'[n] = val[n]
    BY <1>1, <1>6, <1>7 DEF On
  <1>9. Linking(t, head'[f], next')
    <2>1. ASSUME NEW j \in 1 .. m - 1
          PROVE  next'[t[j]] = IF j = m - 1 THEN Null ELSE t[j + 1]
      <3>1. CASE j < k - 1
        <4>1. /\ j \in 1 .. m /\ j # m /\ j # k /\ k # 1 /\ j # k - 1 /\ k - 1 \in 1 .. m
              /\ j + 1 < k /\ j + 1 \in 1 .. m - 1 /\ j # m - 1
          BY <3>1, <1>1, <1>2, SMTT(30)
        <4>2. t[j] = s[j] /\ t[j + 1] = s[j + 1] /\ next[s[j]] = s[j + 1]
          BY <4>1, <3>1, <1>1, <1>2
        <4>3. s[j] # s[k] /\ s[j] # s[k - 1]
          BY <4>1, <1>1
        <4> QED
          BY <4>1, <4>2, <4>3, <1>1, <1>6
      <3>2. CASE j = k - 1
        <4>1. k # 1 /\ j \in 1 .. m /\ j # k
          BY <3>2, <1>1, <1>2
        <4>2. t[j] = s[k - 1] /\ s[j] # s[k]
          BY <4>1, <3>2, <1>1, <1>2
        <4>3. next'[s[k - 1]] = next[s[k]]
          BY <4>1, <4>2, <3>2, <1>1, <1>6
        <4>4. CASE k = m
          BY <4>2, <4>3, <4>4, <3>2, <1>3
        <4>5. CASE k # m
          <5>1. k \in 1 .. m - 1 /\ t[j + 1] = s[k + 1] /\ j # m - 1
            BY <4>5, <3>2, <1>1, <1>2
          <5> QED
            BY <5>1, <4>2, <4>3, <4>5, <1>3
        <4> QED
          BY <4>4, <4>5
      <3>3. CASE j >= k
        <4>1. j + 1 \in 1 .. m /\ j + 1 # k /\ j + 1 # k - 1 /\ t[j] = s[j + 1]
          BY <3>3, <1>1, <1>2
        <4>2. s[j + 1] # s[k] /\ (k # 1 => s[j + 1] # s[k - 1])
          BY <4>1, <1>1, SMTT(30)
        <4>3. next'[t[j]] = IF j + 1 = m THEN Null ELSE s[j + 2]
          <5>1. next'[s[j + 1]] = next[s[j + 1]]
            BY <4>1, <4>2, <1>1, <1>6
          <5>2. j + 1 + 1 = j + 2
            BY <1>1
          <5> QED
            BY <5>1, <5>2, <4>1, <1>1
        <4>4. CASE j = m - 1
          BY <4>3, <4>4, <1>1
        <4>5. CASE j # m - 1
          <5>1. j + 1 \in 1 .. m - 1 /\ ~(j + 1 < k) /\ j + 1 # m /\ j + 1 + 1 = j + 2
            BY <4>5, <3>3, <1>1, <1>2
          <5>2. t[j + 1] = s[j + 2]
            BY <5>1, <1>2
          <5> QED
            BY <5>1, <5>2, <4>3, <4>5
        <4> QED
          BY <4>4, <4>5
      <3> QED
        BY <3>1, <3>2, <3>3, <1>1
    <2>2. head'[f] = IF m - 1 = 0 THEN Null ELSE t[1]
      <3>1. CASE m = 1
        BY <3>1, <1>3, <1>4, <1>1
      <3>2. CASE m # 1
        <4>1. 1 \in 1 .. m - 1
          BY <3>2, <1>1, <1>2
        <4>2. t[1] = IF 1 < k THEN s[1] ELSE s[1 + 1]
          BY <4>1, <1>2
        <4> QED
          BY <4>1, <4>2, <3>2, <1>1, <1>3, <1>4
      <3> QED
        BY <3>1, <3>2
    <2>3. m - 1 <= MaxItems
      BY <1>1
    <2> HIDE DEF m
    <2> QED
      BY <2>1, <2>2, <2>3, <1>2, <1>6 DEF Linking
  <1>10. Len(t) = count'[f] /\ tail'[f] = IF Len(t) = 0 THEN Null ELSE t[Len(t)]
    <2>1. CASE m = 1
      BY <2>1, <1>1, <1>2, <1>4
    <2>2. CASE m # 1
      <3>1. m - 1 \in 1 .. m - 1
        BY <2>2, <1>1, <1>2
      <3>2. t[m - 1] = IF m - 1 < k THEN s[m - 1] ELSE s[m - 1 + 1]
        BY <3>1, <1>2
      <3>3. m - 1 + 1 = m /\ (m - 1 < k <=> k = m) /\ (k = m => k # 1 /\ k - 1 = m - 1)
        BY <2>2, <1>1
      <3>4. t[m - 1] = IF k = m THEN s[k - 1] ELSE s[m]
        BY <3>2, <3>3
      <3> HIDE DEF m
      <3> QED
        BY <3>1, <3>3, <3>4, <1>2, <1>4
    <2> QED
      BY <2>1, <2>2
  <1>11. ASSUME NEW j \in 1 .. m - 1
         PROVE  \E i \in 1 .. m : t[j] = s[i] /\ i # k /\ i = IF j < k THEN j ELSE j + 1
    <2>1. CASE j < k
      <3>1. j \in 1 .. m /\ j # k
        BY <2>1, <1>1
      <3> QED
        BY <3>1, <2>1, <1>2
    <2>2. CASE ~(j < k)
      <3>1. j + 1 \in 1 .. m /\ j + 1 # k
        BY <2>2, <1>1
      <3> QED
        BY <3>1, <2>2, <1>2
    <2> QED
      BY <2>1, <2>2
  <1>12. \A i, j \in 1 .. Len(t) : t[i] = t[j] => i = j
    <2> SUFFICES ASSUME NEW i \in 1 .. m - 1, NEW j \in 1 .. m - 1, t[i] = t[j]
                 PROVE  i = j
      BY <1>2
    <2>1. PICK a \in 1 .. m : t[i] = s[a] /\ a = IF i < k THEN i ELSE i + 1
      BY <1>11
    <2>2. PICK b \in 1 .. m : t[j] = s[b] /\ b = IF j < k THEN j ELSE j + 1
      BY <1>11
    <2>3. s[a] = s[b]
      BY <2>1, <2>2
    <2>4. a = b
      BY <2>3, <1>1
    <2> QED
      BY <2>1, <2>2, <2>4
  <1>13. ASSUME NEW j \in 1 .. Len(t)
         PROVE  /\ val'[t[j]] \in Values \cup {Unset}
                /\ t[j] \in Slots => t[j][1] = f
                /\ t[j] \notin Slots => InUse(t[j])'
    <2>1. PICK i \in 1 .. m : t[j] = s[i] /\ i # k
      BY <1>2, <1>11
    <2>2. /\ val[s[i]] \in Values \cup {Unset}
          /\ s[i] \in Slots => s[i][1] = f
          /\ s[i] \notin Slots => InUse(s[i])
      BY DEF ListOf
    <2>3. val'[s[i]] = val[s[i]]
      BY <2>1, <1>1, <1>7
    <2>4. blocks' = blocks
      BY DEF Removal, allocatorVars
    <2> QED
      BY <2>1, <2>2, <2>3, <2>4 DEF InUse
  <1>14. ASSUME NEW i \in 1 .. Inplace, \A j \in 1 .. Len(t) : t[j] # <<f, i>>
         PROVE  val'[<<f, i>>] = Unset
    <2>1. <<f, i>> \in Nodes
      BY DEF Nodes, Slots
    <2>2. CASE <<f, i>> = s[k]
      BY <2>1, <2>2, <1>7
    <2>3. CASE <<f, i>> # s[k]
      <3>1. ASSUME NEW j \in 1 .. m PROVE s[j] # <<f, i>>
        <4>1. CASE j = k
          BY <4>1, <2>3
        <4>2. CASE j < k
          <5>1. j \in 1 .. m - 1 /\ t[j] = s[j]
            BY <4>2, <1>1, <1>2
          <5> QED
            BY <5>1, <1>14, <1>2
        <4>3. CASE j > k
          <5>1. j - 1 \in 1 .. m - 1 /\ ~(j - 1 < k) /\ j - 1 + 1 = j
            BY <4>3, <1>1, <1>2
          <5>2. t[j - 1] = s[j]
            BY <5>1, <1>2
          <5> QED
            BY <5>1, <5>2, <1>14, <1>2
        <4> QED
          BY <4>1, <4>2, <4>3, <1>1
      <3>2. val[<<f, i>>] = Unset
        BY <3>1 DEF ListOf
      <3> QED
        BY <3>2, <2>1, <2>3, <1>7
    <2> QED
      BY <2>2, <2>3
  <1>15. ListOf(f, t)'
    BY <1>9, <1>10, <1>12, <1>13, <1>14 DEF ListOf
  <1> QED
    BY <1>3, <1>6, <1>7, <1>8, <1>15

-----------------------------------------------------------------------------
(* What each action does to the lists.                                     *)

\* The nodes of a list are nodes, and no other list has one of them.
LEMMA NodesOfLists ==
    ASSUME NEW lists, Arrangement(lists), NEW f \in Fields
    PROVE  /\ lists[f] \in Seq(Nodes) /\ Len(lists[f]) \in Nat
           /\ \A k \in 1 .. Len(lists[f]) : lists[f][k] \in Nodes
           /\ \A n : On(n, lists[f]) => n \in Nodes
           /\ \A g \in Fields \ {f} : \A k \in 1 .. Len(lists[g]) : ~On(lists[g][k], lists[f])
  <1>1. lists[f] \in Seq(Nodes)
    BY DEF Arrangement
  <1>2. Len(lists[f]) \in Nat /\ \A k \in 1 .. Len(lists[f]) : lists[f][k] \in Nodes
    BY <1>1, LenProperties, ElementOfSeq
  <1>3. \A g \in Fields \ {f} : \A k \in 1 .. Len(lists[g]) : ~On(lists[g][k], lists[f])
    BY DEF On, Arrangement
  <1> QED
    BY <1>1, <1>2, <1>3 DEF On

\* What is left to show once one list was replaced.
LEMMA OneListReplaced ==
    ASSUME NEW lists, Arrangement(lists), NEW f \in Fields,
           NEW t \in Seq(Nodes), NEW lists2, lists2 = [lists EXCEPT ![f] = t],
           ListOf(f, t)', \A g \in Fields : g # f => ListOf(g, lists[g])',
           \A k \in 1 .. Len(t) : \A g \in Fields : g # f => ~On(t[k], lists[g]),
           iter' # Null => On(iter', lists2[walked'])
    PROVE  Arrangement(lists2)'
  <1>1. /\ lists2 \in [Fields -> Seq(Nodes)] /\ lists2[f] = t
        /\ \A g \in Fields : g # f => lists2[g] = lists[g]
    BY DEF Arrangement
  <1>2. \A g \in Fields : ListOf(g, lists2[g])'
    BY <1>1
  <1>3. ASSUME NEW g \in Fields, NEW h \in Fields, g # h,
               NEW j \in 1 .. Len(lists2[g]), NEW k \in 1 .. Len(lists2[h])
        PROVE  lists2[g][j] # lists2[h][k]
    <2>1. CASE g = f
      BY <2>1, <1>1, <1>3 DEF On
    <2>2. CASE h = f
      BY <2>2, <1>1, <1>3 DEF On
    <2>3. CASE g # f /\ h # f
      BY <2>3, <1>1, <1>3 DEF Arrangement
    <2> QED
      BY <2>1, <2>2, <2>3
  <1> QED
    BY <1>1, <1>2, <1>3 DEF Arrangement

\* get_free_inplace() never returns a slot that holds an item: this is where it
\* counts that every item is set.
LEMMA FreeSlot ==
    ASSUME Types, NEW lists, Arrangement(lists), NEW f \in Fields,
           AllSet(f), NEW n, n = FreeInplace(f), n # Null
    PROVE  /\ n \in Slots /\ n \in Nodes /\ n[1] = f /\ val[n] = Unset
           /\ \A g \in Fields : ~On(n, lists[g])
  <1>1. Unused(f) # {} /\ n = <<f, Min(Unused(f))>>
    BY DEF FreeInplace
  <1>2. Min(Unused(f)) \in Unused(f)
    <2>1. Unused(f) \subseteq Nat
      BY DEF Unused
    <2> QED
      BY <1>1, <2>1, MinFacts
  <1>3. n \in Slots /\ n \in Nodes /\ n[1] = f /\ val[n] = Unset
    BY <1>1, <1>2 DEF Unused, Slots, Nodes
  <1>4. ASSUME NEW g \in Fields, On(n, lists[g]) PROVE FALSE
    <2>1. PICK k \in 1 .. Len(lists[g]) : lists[g][k] = n
      BY <1>4 DEF On
    <2>2. g = f
      BY <2>1, <1>3 DEF Arrangement, ListOf
    <2>3. n \in ToSet(Walk(f))
      <3>1. Walk(f) = lists[f]
        BY WalkIsList
      <3>2. DOMAIN lists[f] = 1 .. Len(lists[f])
        BY NodesOfLists, LenProperties
      <3> QED
        BY <3>1, <3>2, <2>1, <2>2 DEF ToSet
    <2> QED
      BY <2>3, <1>3 DEF AllSet
  <1> QED
    BY <1>3, <1>4

\* A block that was just created is no node of a list.
LEMMA FreshBlock ==
    ASSUME IInv, arena \in Arenas, NEW lists, Arrangement(lists), Allocate(NodeRequest),
           NEW n, n = <<Heap, Place(NodeRequest)>>
    PROVE  /\ n \in Nodes /\ n \notin Slots /\ InUse(n)'
           /\ \A g \in Fields : ~On(n, lists[g])
  <1> DEFINE place == Place(NodeRequest)
  <1>1. NodeRequest.bytes \in Nat \ {0} /\ NodeRequest.align \in Nat \ {0}
    BY RequestsAssumption
  <1>2. /\ begin \in Nat /\ size \in Nat /\ arena.start \in Nat /\ arena.total \in Nat
        /\ arena.start <= begin /\ begin + size = arena.start + arena.total
    BY DEF IInv, TypeOKAllocator, UsedInFront
  <1>3. place \in Nat /\ place >= begin
    BY <1>1, <1>2, AlignUpFacts DEF Place
  <1>4. place \in Addresses
    <2>1. begin \in arena.start .. arena.start + arena.total
      BY <1>2
    <2>2. begin \in UNION {a.start .. a.start + a.total : a \in Arenas}
      BY <2>1
    <2> QED
      BY <2>2 DEF Addresses, Place
  <1>5. n \in Nodes /\ n \notin Slots /\ n[2] = place
    BY <1>4 DEF Nodes, Slots
  <1>6. InUse(n)'
    <2>1. blocks' = blocks \cup {[at |-> place, bytes |-> NodeRequest.bytes,
                                  align |-> NodeRequest.align]}
      BY DEF Allocate
    <2> DEFINE b == [at |-> place, bytes |-> NodeRequest.bytes, align |-> NodeRequest.align]
    <2>2. b.at = place /\ b.bytes = NodeRequest.bytes /\ b \in blocks'
      BY <2>1
    <2> HIDE DEF b
    <2> QED
      BY <2>2, <1>5 DEF InUse
  <1>7. ASSUME NEW g \in Fields, On(n, lists[g]) PROVE FALSE
    <2>1. InUse(n)
      <3>1. PICK k \in 1 .. Len(lists[g]) : lists[g][k] = n
        BY <1>7 DEF On
      <3>2. lists[g][k] \notin Slots => InUse(lists[g][k])
        BY DEF Arrangement, ListOf
      <3> QED
        BY <3>1, <3>2, <1>5
    <2>2. PICK b \in blocks : b.at = place /\ b.bytes = NodeRequest.bytes
      BY <2>1, <1>5 DEF InUse
    <2>3. b.at + b.bytes <= begin
      BY DEF IInv, UsedInFront
    <2> HIDE DEF place
    <2> QED
      BY <2>2, <2>3, <1>1, <1>2, <1>3
  <1> QED
    BY <1>5, <1>6, <1>7

\* push_back(): a node that was on no list becomes the last one of f's.
LEMMA PushArranges ==
    ASSUME Careful, IInv, arena \in Arenas, Types, NEW lists, Arrangement(lists),
           NEW f \in Fields, PushBack(f) \/ PushBackExternal(f)
    PROVE  \E n \in Nodes :
              /\ \A g \in Fields : ~On(n, lists[g])
              /\ val'[n] = Unset
              /\ \A m \in Nodes : m # n => val'[m] = val[m]
              /\ UNCHANGED <<walked, iter>>
              /\ Types' /\ arena' = arena
              /\ Arrangement([lists EXCEPT ![f] = Append(@, n)])'
  <1>1. PICK n \in Nodes :
            /\ \A g \in Fields : ~On(n, lists[g])
            /\ AppendNode(f, n) /\ count[f] < MaxItems
            /\ val' \in [Nodes -> Values \cup {Unset, Indeterminate}]
            /\ val'[n] = Unset
            /\ \A m \in Nodes : m # n => val'[m] = val[m]
            /\ n \in Slots => n[1] = f /\ val[n] = Unset
            /\ n \notin Slots => InUse(n)'
            /\ blocks \subseteq blocks' /\ arena' = arena
    <2>1. CASE PushBack(f)
      <3>1. PICK n : n = FreeInplace(f)
        OBVIOUS
      <3>2. AllSet(f) /\ n # Null /\ AppendNode(f, n) /\ count[f] < MaxItems
            /\ val' = val /\ blocks' = blocks /\ arena' = arena
        BY <2>1, <3>1 DEF PushBack, allocatorVars
      <3>3. /\ n \in Slots /\ n \in Nodes /\ n[1] = f /\ val[n] = Unset
            /\ \A g \in Fields : ~On(n, lists[g])
        BY <3>1, <3>2, FreeSlot
      <3> QED
        BY <3>2, <3>3 DEF Types
    <2>2. CASE PushBackExternal(f)
      <3>1. PICK n : n = <<Heap, Place(NodeRequest)>>
        OBVIOUS
      <3>2. Allocate(NodeRequest) /\ AppendNode(f, n) /\ count[f] < MaxItems
            /\ val' = [val EXCEPT ![n] = Unset]
        BY <2>2, <3>1 DEF PushBackExternal
      <3>3. /\ n \in Nodes /\ n \notin Slots /\ InUse(n)'
            /\ \A g \in Fields : ~On(n, lists[g])
        BY <3>1, <3>2, FreshBlock
      <3>4. blocks \subseteq blocks' /\ arena' = arena
        BY <3>2 DEF Allocate
      <3> QED
        BY <3>2, <3>3, <3>4 DEF Types
    <2> QED
      BY <2>1, <2>2
  <1>2. PICK t : t = Append(lists[f], n)
    OBVIOUS
  <1>3. PICK lists2 : lists2 = [lists EXCEPT ![f] = t]
    OBVIOUS
  <1>4. lists \in [Fields -> Seq(Nodes)] /\ lists[f] \in Seq(Nodes) /\ t \in Seq(Nodes)
    BY <1>2, AppendProperties DEF Arrangement
  <1>5. /\ lists2 \in [Fields -> Seq(Nodes)] /\ lists2[f] = t
        /\ \A g \in Fields : g # f => lists2[g] = lists[g]
    BY <1>3, <1>4
  <1>6. \A m : InUse(m) => InUse(m)'
    BY <1>1 DEF InUse
  <1>7. \A g \in Fields, i \in 1 .. Inplace :
            <<g, i>> \in Nodes /\ val'[<<g, i>>] = val[<<g, i>>]
    <2> SUFFICES ASSUME NEW g \in Fields, NEW i \in 1 .. Inplace
                 PROVE  <<g, i>> \in Nodes /\ val'[<<g, i>>] = val[<<g, i>>]
      OBVIOUS
    <2>1. <<g, i>> \in Slots /\ <<g, i>> \in Nodes
      BY DEF Slots, Nodes
    <2> QED
      BY <2>1, <1>1
  <1>8. \A g \in Fields : \A k \in 1 .. Len(lists[g]) :
            lists[g][k] # n /\ lists[g][k] \in Nodes /\ val'[lists[g][k]] = val[lists[g][k]]
    BY <1>1, NodesOfLists DEF On
  <1>9. ListOf(f, t)'
    <2>1. PICK s : s = lists[f]
      OBVIOUS
    <2>2. ListOf(f, s) /\ ~On(n, s) /\ t = Append(s, n)
      BY <1>1, <1>2, <2>1 DEF Arrangement
    <2>3. \A k \in 1 .. Len(s) : /\ val'[s[k]] = val[s[k]]
                                 /\ InUse(s[k]) => InUse(s[k])'
      BY <1>6, <1>8, <2>1
    <2>4. \A i \in 1 .. Inplace : val'[<<f, i>>] = val[<<f, i>>]
      BY <1>7
    <2>5. /\ AppendNode(f, n) /\ count[f] < MaxItems /\ val'[n] = Unset
          /\ n \in Slots => n[1] = f
          /\ n \notin Slots => InUse(n)'
      BY <1>1
    <2> QED
      BY <2>2, <2>3, <2>4, <2>5, AppendedList
  <1>10. Types'
    <2>1. tail[f] \in Nodes \cup {Null} /\ next \in [Nodes -> Nodes \cup {Null, Indeterminate}]
      BY DEF Types
    <2>2. next' \in [Nodes -> Nodes \cup {Null, Indeterminate}]
      BY <1>9 DEF ListOf, Linking
    <2> QED
      BY <2>2, <1>1 DEF Types, AppendNode
  <1>11. ASSUME NEW g \in Fields, g # f PROVE ListOf(g, lists[g])'
    <2>1. \A k \in 1 .. Len(lists[g]) : next'[lists[g][k]] = next[lists[g][k]]
      <3> SUFFICES ASSUME NEW k \in 1 .. Len(lists[g])
                   PROVE  next'[lists[g][k]] = next[lists[g][k]]
        OBVIOUS
      <3>1. /\ lists[g][k] \in Nodes /\ lists[g][k] # n
            /\ next' = Linked(f, n) /\ next \in [Nodes -> Nodes \cup {Null, Indeterminate}]
        BY <1>1, <1>8 DEF AppendNode, Types
      <3>2. CASE count[f] > 0
        <4>1. tail[f] # lists[g][k] /\ tail[f] \in Nodes
          <5>1. Len(lists[f]) \in 1 .. Len(lists[f]) /\ tail[f] = lists[f][Len(lists[f])]
            BY <3>2, NodesOfLists DEF Arrangement, ListOf
          <5> QED
            BY <5>1, <1>11, NodesOfLists DEF Arrangement
        <4>2. next' = [[next EXCEPT ![tail[f]] = n] EXCEPT ![n] = Null]
          BY <3>1, <3>2 DEF Linked
        <4> QED
          BY <3>1, <4>1, <4>2
      <3>3. CASE ~(count[f] > 0)
        BY <3>1, <3>3 DEF Linked
      <3> QED
        BY <3>2, <3>3
    <2>2. head'[g] = head[g] /\ tail'[g] = tail[g] /\ count'[g] = count[g]
      BY <1>1, <1>11 DEF AppendNode, Types
    <2>3. next' \in [Nodes -> Nodes \cup {Null, Indeterminate}]
      BY <1>10 DEF Types
    <2>4. ListOf(g, lists[g])
      BY DEF Arrangement
    <2> QED
      BY <2>1, <2>2, <2>3, <2>4, <1>6, <1>7, <1>8, KeptList
  <1>12. ASSUME NEW k \in 1 .. Len(t), NEW g \in Fields, g # f PROVE ~On(t[k], lists[g])
    <2>1. t[k] = n \/ On(t[k], lists[f])
      BY <1>2, <1>4, AppendProperties, LenProperties DEF On
    <2> QED
      BY <2>1, <1>1, <1>12, NodesOfLists DEF On
  <1>15. UNCHANGED <<walked, iter>> /\ (iter' # Null => On(iter', lists2[walked']))
    <2>1. UNCHANGED <<walked, iter>> /\ walked \in Fields
      BY <1>1 DEF AppendNode, Types
    <2>2. ASSUME iter # Null PROVE On(iter, lists2[walked])
      <3>1. PICK k \in 1 .. Len(lists[walked]) : lists[walked][k] = iter
        BY <2>2 DEF Arrangement, On
      <3>2. k \in 1 .. Len(lists2[walked]) /\ lists2[walked][k] = lists[walked][k]
        <4>1. CASE walked = f
          BY <4>1, <3>1, <1>2, <1>4, <1>5, AppendProperties, LenProperties
        <4>2. CASE walked # f
          BY <4>2, <2>1, <1>5, <3>1
        <4> QED
          BY <4>1, <4>2
      <3> QED
        BY <3>1, <3>2 DEF On
    <2> QED
      BY <2>1, <2>2
  <1>16. Arrangement(lists2)'
    BY <1>3, <1>4, <1>9, <1>11, <1>12, <1>15, OneListReplaced
  <1> QED
    BY <1>1, <1>2, <1>3, <1>10, <1>15, <1>16

\* pop_back() and erase(): an item leaves its list, and the iterator that was at it
\* goes on to the next.
LEMMA RemovalArranges ==
    ASSUME Types, NEW lists, Arrangement(lists), NEW f \in Fields,
           NEW k \in 1 .. Len(lists[f]), Removal(f, lists[f], k)
    PROVE  /\ Types'
           /\ \A n \in Nodes : n # lists[f][k] => val'[n] = val[n]
           /\ Arrangement([lists EXCEPT ![f] = Without(@, k)])'
  <1>1. PICK s : s = lists[f]
    OBVIOUS
  <1>2. PICK t : t = Without(s, k)
    OBVIOUS
  <1>3. PICK lists2 : lists2 = [lists EXCEPT ![f] = t]
    OBVIOUS
  <1>4. /\ s \in Seq(Nodes) /\ Len(s) \in Nat /\ k \in 1 .. Len(s)
        /\ \A j \in 1 .. Len(s) : s[j] \in Nodes
        /\ ListOf(f, s) /\ Removal(f, s, k)
    BY <1>1, NodesOfLists DEF Arrangement
  <1>5. /\ t \in Seq(Nodes) /\ Len(t) = Len(s) - 1
        /\ \A j \in 1 .. Len(t) : t[j] = IF j < k THEN s[j] ELSE s[j + 1]
    BY <1>2, <1>4, WithoutFacts, SMTT(30)
  <1>6. /\ ListOf(f, t)'
        /\ next' \in [Nodes -> Nodes \cup {Null, Indeterminate}]
        /\ val' \in [Nodes -> Values \cup {Unset, Indeterminate}]
        /\ \A n \in Nodes : ~On(n, s) => next'[n] = next[n] /\ val'[n] = val[n]
        /\ next[s[k]] = IF k = Len(s) THEN Null ELSE s[k + 1]
    BY <1>2, <1>4, RemovedList
  <1>7. UNCHANGED <<walked, allocatorVars>> /\ blocks' = blocks
        /\ iter' = IF iter = s[k] THEN next[s[k]] ELSE iter
    BY <1>4 DEF Removal, allocatorVars
  <1>8. Types'
    <2>1. /\ head' \in [Fields -> Nodes \cup {Null}]
          /\ tail' \in [Fields -> Nodes \cup {Null}]
      <3>1. next[s[k]] \in Nodes \cup {Null} /\ (k # 1 => s[k - 1] \in Nodes)
        BY <1>4, <1>6
      <3> QED
        BY <3>1, <1>4 DEF Types, Removal
    <2>2. count' \in [Fields -> Nat]
      <3>1. count[f] = Len(s) /\ count[f] - 1 \in Nat
        BY <1>4 DEF ListOf
      <3> QED
        BY <3>1, <1>4 DEF Types, Removal
    <2>3. iter' \in Nodes \cup {Null} /\ walked' \in Fields
      BY <1>4, <1>6, <1>7 DEF Types
    <2> QED
      BY <2>1, <2>2, <2>3, <1>6 DEF Types
  <1>9. \A n \in Nodes : n # s[k] => val'[n] = val[n]
    <2>1. val' = [val EXCEPT ![s[k]] = Unset]
      BY <1>4 DEF Removal
    <2> QED
      BY <2>1 DEF Types
  <1>10. ASSUME NEW g \in Fields, g # f PROVE ListOf(g, lists[g])'
    <2>1. PICK r : r = lists[g]
      OBVIOUS
    <2>2. ListOf(g, r)
      BY <2>1 DEF Arrangement
    <2>3. \A j \in 1 .. Len(r) : r[j] \in Nodes /\ ~On(r[j], s)
      BY <2>1, <1>1, <1>10, NodesOfLists
    <2>4. \A j \in 1 .. Len(r) : /\ next'[r[j]] = next[r[j]]
                                 /\ val'[r[j]] = val[r[j]]
                                 /\ InUse(r[j]) => InUse(r[j])'
      BY <2>3, <1>6, <1>7 DEF InUse
    <2>5. ASSUME NEW i \in 1 .. Inplace PROVE val'[<<g, i>>] = val[<<g, i>>]
      <3>1. <<g, i>> \in Slots /\ <<g, i>> \in Nodes /\ <<g, i>>[1] # f
        BY <1>10 DEF Slots, Nodes
      <3>2. s[k] # <<g, i>>
        BY <3>1, <1>4 DEF ListOf
      <3> QED
        BY <3>1, <3>2, <1>9
    <2>6. head'[g] = head[g] /\ tail'[g] = tail[g] /\ count'[g] = count[g]
      BY <1>4, <1>10 DEF Removal, Types
    <2>7. ListOf(g, r)'
      BY <2>2, <2>4, <2>5, <2>6, <1>6, KeptList
    <2> QED
      BY <2>1, <2>7
  <1>11. ASSUME NEW j \in 1 .. Len(t), NEW g \in Fields, g # f PROVE ~On(t[j], lists[g])
    <2>1. On(t[j], lists[f])
      <3>1. j \in 1 .. Len(s) /\ j + 1 \in 1 .. Len(s)
        BY <1>4, <1>5
      <3> QED
        BY <3>1, <1>1, <1>5 DEF On
    <2> QED
      BY <2>1, <1>11, NodesOfLists DEF On
  <1>12. ASSUME iter' # Null PROVE On(iter', lists2[walked'])
    <2>1. lists2[f] = t /\ \A g \in Fields : g # f => lists2[g] = lists[g]
      BY <1>3 DEF Arrangement
    <2>2. CASE iter = s[k]
      <3>1. k # Len(s) /\ iter' = s[k + 1] /\ k \in 1 .. Len(t) /\ t[k] = s[k + 1]
        BY <2>2, <1>4, <1>5, <1>6, <1>7, <1>12
      <3>2. walked = f
        <4>1. iter # Null /\ walked \in Fields /\ On(s[k], lists[f])
          BY <2>2, <1>1, <1>4 DEF On, Types
        <4> QED
          BY <4>1, <2>2, NodesOfLists DEF Arrangement, On
      <3> QED
        BY <3>1, <3>2, <2>1, <1>7 DEF On
    <2>3. CASE iter # s[k]
      <3>1. iter' = iter /\ walked' = walked /\ walked \in Fields
        BY <2>3, <1>7 DEF Types
      <3>2. On(iter, lists[walked])
        BY <3>1, <1>12 DEF Arrangement
      <3>3. CASE walked # f
        BY <3>1, <3>2, <3>3, <2>1
      <3>4. CASE walked = f
        <4>1. PICK j \in 1 .. Len(s) : s[j] = iter /\ j # k
          BY <3>2, <3>4, <2>3, <1>1 DEF On
        <4>2. \E i \in 1 .. Len(t) : t[i] = iter
          <5>1. CASE j < k
            <6>1. j \in 1 .. Len(t) /\ t[j] = s[j]
              BY <5>1, <1>4, <1>5
            <6> QED
              BY <6>1, <4>1
          <5>2. CASE j > k
            <6>1. j - 1 \in 1 .. Len(t) /\ ~(j - 1 < k) /\ j - 1 + 1 = j
              BY <5>2, <1>4, <1>5
            <6>2. t[j - 1] = s[j]
              BY <6>1, <1>5
            <6> QED
              BY <6>1, <6>2, <4>1
          <5> QED
            BY <5>1, <5>2, <4>1, <1>4
        <4> QED
          BY <4>2, <3>1, <3>4, <2>1 DEF On
      <3> QED
        BY <3>3, <3>4
    <2> QED
      BY <2>2, <2>3
  <1>13. Arrangement(lists2)'
    BY <1>3, <1>5, <1>6, <1>10, <1>11, <1>12, OneListReplaced
  <1> QED
    BY <1>1, <1>2, <1>3, <1>8, <1>9, <1>13

\* The list of a field as the field itself describes it.
LEMMA ListFacts ==
    ASSUME Types, NEW lists, Arrangement(lists), NEW f \in Fields, NEW s, s = lists[f]
    PROVE  /\ s \in Seq(Nodes) /\ Len(s) \in Nat /\ Len(s) = count[f] /\ Walk(f) = s
           /\ DOMAIN s = 1 .. Len(s)
           /\ head[f] = IF Len(s) = 0 THEN Null ELSE s[1]
           /\ tail[f] = IF Len(s) = 0 THEN Null ELSE s[Len(s)]
           /\ head[f] = Null <=> Len(s) = 0
           /\ \A k \in 1 .. Len(s) :
                 /\ s[k] \in Nodes /\ s[k] # Null /\ val[s[k]] \in Values \cup {Unset}
                 /\ next[s[k]] = IF k = Len(s) THEN Null ELSE s[k + 1]
           /\ \A j, k \in 1 .. Len(s) : s[j] = s[k] => j = k
           /\ \A n : n \in ToSet(Walk(f)) <=> On(n, s)
  <1>1. ListOf(f, s) /\ Walk(f) = s
    BY WalkIsList DEF Arrangement
  <1>2. s \in Seq(Nodes) /\ Len(s) \in Nat /\ \A k \in 1 .. Len(s) : s[k] \in Nodes
    BY NodesOfLists
  <1>3. DOMAIN s = 1 .. Len(s)
    BY <1>2, LenProperties
  <1>4. \A n : n \in ToSet(s) <=> On(n, s)
    BY <1>3 DEF ToSet, On
  <1>5. head[f] = Null <=> Len(s) = 0
    <2>1. CASE Len(s) # 0
      <3>1. 1 \in 1 .. Len(s)
        BY <2>1, <1>2
      <3> QED
        BY <3>1, <2>1, <1>1, <1>2 DEF ListOf, Linking
    <2>2. CASE Len(s) = 0
      BY <2>2, <1>1 DEF ListOf, Linking
    <2> QED
      BY <2>1, <2>2
  <1> QED
    BY <1>1, <1>2, <1>3, <1>4, <1>5 DEF ListOf, Linking

LEMMA PopBackRemoves ==
    ASSUME Types, NEW lists, Arrangement(lists), NEW f \in Fields, PopBack(f),
           NEW s, s = lists[f]
    PROVE  Len(s) \in 1 .. Len(s) /\ Removal(f, s, Len(s))
  <1> DEFINE m == Len(s)
  <1>1. m \in Nat /\ m # 0 /\ m = count[f] /\ Walk(f) = s /\ tail[f] = s[m] /\ next[s[m]] = Null
    <2>1. m \in Nat /\ m # 0
      BY ListFacts DEF PopBack
    <2>2. m \in 1 .. m
      BY <2>1
    <2> QED
      BY <2>1, <2>2, ListFacts
  <1>2. BeforeLast(f) = s[m - 1]
    BY <1>1 DEF BeforeLast
  <1> HIDE DEF m
  <1>3. m \in 1 .. m
    BY <1>1
  <1>4. Removal(f, s, m)
    BY <1>1, <1>2 DEF PopBack, Removal, m
  <1> QED
    BY <1>3, <1>4 DEF m

LEMMA EraseRemoves ==
    ASSUME Types, NEW lists, Arrangement(lists), Erase, NEW s, s = lists[walked]
    PROVE  \E k \in 1 .. Len(s) :
              s[k] = iter /\ k = IndexOnWalk(walked, iter) /\ Removal(walked, s, k)
  <1> DEFINE m == Len(s)
  <1>1. /\ walked \in Fields /\ m \in Nat /\ m = count[walked] /\ Walk(walked) = s
        /\ DOMAIN s = 1 .. m
        /\ \A i, j \in 1 .. m : s[i] = s[j] => i = j
        /\ tail[walked] = IF m = 0 THEN Null ELSE s[m]
        /\ \A j \in 1 .. m : next[s[j]] = IF j = m THEN Null ELSE s[j + 1]
    <2>1. PICK f \in Fields : f = walked
      BY DEF Types
    <2>2. s = lists[f]
      BY <2>1
    <2>3. /\ Len(s) \in Nat /\ Len(s) = count[f] /\ Walk(f) = s
          /\ DOMAIN s = 1 .. Len(s)
          /\ \A i, j \in 1 .. Len(s) : s[i] = s[j] => i = j
          /\ tail[f] = IF Len(s) = 0 THEN Null ELSE s[Len(s)]
          /\ \A j \in 1 .. Len(s) : next[s[j]] = IF j = Len(s) THEN Null ELSE s[j + 1]
      BY <2>2, ListFacts
    <2> QED
      BY <2>1, <2>3
  <1>2. PICK k \in 1 .. m : s[k] = iter
    BY DEF Erase, Arrangement, On
  <1>3. IndexOnWalk(walked, iter) = k
    <2>1. IndexOnWalk(walked, iter) = CHOOSE j \in 1 .. m : s[j] = iter
      BY <1>1 DEF IndexOnWalk
    <2> HIDE DEF m
    <2> QED
      BY <2>1, <1>1, <1>2
  <1>4. m # 0 /\ tail[walked] = s[m] /\ (iter = tail[walked] <=> k = m)
    <2>1. m # 0 /\ m \in 1 .. m
      BY <1>1, <1>2
    <2> QED
      BY <2>1, <1>1, <1>2
  <1>5. Removal(walked, s, k)
    <2>1. CASE count[walked] = 1
      <3>1. m = 1 /\ k = 1 /\ next[iter] = Null
        BY <2>1, <1>1, <1>2
      <3>2. /\ count' = [count EXCEPT ![walked] = @ - 1]
            /\ val' = [val EXCEPT ![iter] = Unset]
            /\ head' = [head EXCEPT ![walked] = Null]
            /\ tail' = [tail EXCEPT ![walked] = Null]
            /\ iter' = Null
            /\ next' = [next EXCEPT ![iter] = Indeterminate]
            /\ UNCHANGED <<allocatorVars, walked>>
        BY <2>1 DEF Erase
      <3> QED
        BY <3>1, <3>2, <1>2 DEF Removal
    <2>2. CASE count[walked] # 1
      <3>1. m # 1
        BY <2>2, <1>1
      <3>2. /\ count' = [count EXCEPT ![walked] = @ - 1]
            /\ val' = [val EXCEPT ![iter] = Unset]
            /\ head' = IF k = 1 THEN [head EXCEPT ![walked] = next[iter]] ELSE head
            /\ next' = IF k = 1 THEN [next EXCEPT ![iter] = Indeterminate]
                       ELSE [next EXCEPT ![iter] = Indeterminate, ![s[k - 1]] = next[iter]]
            /\ tail' = IF iter = tail[walked] THEN [tail EXCEPT ![walked] = s[k - 1]] ELSE tail
            /\ iter' = next[iter]
            /\ UNCHANGED <<allocatorVars, walked>>
        BY <2>2, <1>1, <1>3 DEF Erase
      <3>3. k = m => k # 1
        BY <3>1
      <3> QED
        BY <3>2, <3>3, <1>2, <1>4 DEF Removal
    <2> QED
      BY <2>1, <2>2
  <1> QED
    BY <1>2, <1>3, <1>5

\* clear(): the field forgets its items and the slots among them are free.
LEMMA ClearArranges ==
    ASSUME Types, NEW lists, Arrangement(lists), NEW f \in Fields, Clear(f)
    PROVE  /\ Types'
           /\ \A n \in Nodes : ~On(n, lists[f]) => val'[n] = val[n]
           /\ Arrangement([lists EXCEPT ![f] = <<>>])'
  <1>1. PICK lists2 : lists2 = [lists EXCEPT ![f] = <<>>]
    OBVIOUS
  <1>2. /\ \A n \in Nodes : val'[n] = IF On(n, lists[f]) THEN Unset ELSE val[n]
        /\ \A n \in Nodes : next'[n] = IF On(n, lists[f]) THEN Indeterminate ELSE next[n]
    <2>1. \A n : n \in ToSet(Walk(f)) <=> On(n, lists[f])
      BY ListFacts
    <2> QED
      BY <2>1 DEF Clear
  <1>3. Types'
    <2>1. /\ val' \in [Nodes -> Values \cup {Unset, Indeterminate}]
          /\ next' \in [Nodes -> Nodes \cup {Null, Indeterminate}]
      BY DEF Clear, Types
    <2> QED
      BY <2>1 DEF Clear, Types
  <1>4. ListOf(f, <<>>)'
    <2>1. Linking(<<>>, head'[f], next')
      BY <1>3 DEF Clear, Types, Linking
    <2>2. ASSUME NEW i \in 1 .. Inplace PROVE val'[<<f, i>>] = Unset
      <3>1. <<f, i>> \in Nodes
        BY DEF Nodes, Slots
      <3>2. ~On(<<f, i>>, lists[f]) => val[<<f, i>>] = Unset
        <4>1. ListOf(f, lists[f])
          BY DEF Arrangement
        <4> QED
          BY <4>1 DEF ListOf, On
      <3> QED
        BY <3>1, <3>2, <1>2
    <2>3. count'[f] = 0 /\ tail'[f] = Null
      BY DEF Clear, Types
    <2> QED
      BY <2>1, <2>2, <2>3 DEF ListOf
  <1>5. ASSUME NEW g \in Fields, g # f PROVE ListOf(g, lists[g])'
    <2>1. PICK r : r = lists[g]
      OBVIOUS
    <2>2. ListOf(g, r)
      BY <2>1 DEF Arrangement
    <2>3. \A j \in 1 .. Len(r) : r[j] \in Nodes /\ ~On(r[j], lists[f])
      BY <2>1, <1>5, NodesOfLists
    <2>4. \A j \in 1 .. Len(r) : /\ next'[r[j]] = next[r[j]]
                                 /\ val'[r[j]] = val[r[j]]
                                 /\ InUse(r[j]) => InUse(r[j])'
      BY <2>3, <1>2 DEF InUse, Clear, allocatorVars
    <2>5. ASSUME NEW i \in 1 .. Inplace PROVE val'[<<g, i>>] = val[<<g, i>>]
      <3>1. <<g, i>> \in Slots /\ <<g, i>> \in Nodes /\ <<g, i>>[1] # f
        BY <1>5 DEF Slots, Nodes
      <3>2. ~On(<<g, i>>, lists[f])
        <4>1. ListOf(f, lists[f])
          BY DEF Arrangement
        <4> QED
          BY <4>1, <3>1 DEF ListOf, On
      <3> QED
        BY <3>1, <3>2, <1>2
    <2>6. head'[g] = head[g] /\ tail'[g] = tail[g] /\ count'[g] = count[g]
      BY <1>5 DEF Clear, Types
    <2>7. next' \in [Nodes -> Nodes \cup {Null, Indeterminate}]
      BY <1>3 DEF Types
    <2>8. ListOf(g, r)'
      BY <2>2, <2>4, <2>5, <2>6, <2>7, KeptList
    <2> QED
      BY <2>1, <2>8
  <1>6. ASSUME iter' # Null PROVE On(iter', lists2[walked'])
    <2>1. walked # f /\ iter' = iter /\ walked' = walked /\ walked \in Fields
      BY <1>6 DEF Clear, Types
    <2>2. lists2[walked] = lists[walked]
      BY <2>1, <1>1 DEF Arrangement
    <2> QED
      BY <2>1, <2>2, <1>6 DEF Arrangement
  <1>7. <<>> \in Seq(Nodes) /\ Len(<<>>) = 0
    BY EmptySeq
  <1>8. \A k \in 1 .. Len(<<>>) : \A g \in Fields : g # f => ~On(<<>>[k], lists[g])
    BY <1>7
  <1>9. Arrangement(lists2)'
    BY <1>1, <1>4, <1>5, <1>6, <1>7, <1>8, OneListReplaced
  <1> QED
    BY <1>1, <1>2, <1>3, <1>9

\* Setting or clearing an item changes no list.
LEMMA SetArranges ==
    ASSUME Types, NEW lists, Arrangement(lists), NEW f \in Fields,
           NEW n, On(n, lists[f]), NEW v \in Values \cup {Unset}, Set(n, v)
    PROVE  Types' /\ Arrangement(lists)'
  <1>1. n \in Nodes
    BY NodesOfLists
  <1>2. /\ \A m \in Nodes : val'[m] = IF m = n THEN v ELSE val[m]
        /\ val' \in [Nodes -> Values \cup {Unset, Indeterminate}]
        /\ UNCHANGED <<allocatorVars, head, tail, count, next, walked, iter>>
    BY <1>1 DEF Set, Types
  <1>3. Types'
    BY <1>2 DEF Types
  <1>4. ASSUME NEW g \in Fields PROVE ListOf(g, lists[g])'
    <2>1. PICK s : s = lists[g]
      OBVIOUS
    <2>2. ListOf(g, s) /\ ListOf(f, lists[f])
      BY <2>1 DEF Arrangement
    <2>3. \A k \in 1 .. Len(s) : s[k] \in Nodes
      BY <2>1, NodesOfLists
    <2>4. ASSUME NEW k \in 1 .. Len(s)
          PROVE  /\ val'[s[k]] \in Values \cup {Unset}
                 /\ s[k] \in Slots => s[k][1] = g
                 /\ s[k] \notin Slots => InUse(s[k])'
      <3>1. /\ val[s[k]] \in Values \cup {Unset}
            /\ s[k] \in Slots => s[k][1] = g
            /\ s[k] \notin Slots => InUse(s[k])
        BY <2>2 DEF ListOf
      <3>2. InUse(s[k])' <=> InUse(s[k])
        BY <1>2 DEF InUse, allocatorVars
      <3> QED
        BY <3>1, <3>2, <2>3, <1>2
    <2>5. ASSUME NEW i \in 1 .. Inplace, \A k \in 1 .. Len(s) : s[k] # <<g, i>>
          PROVE  val'[<<g, i>>] = Unset
      <3>1. <<g, i>> \in Slots /\ <<g, i>> \in Nodes
        BY DEF Slots, Nodes
      <3>2. val[<<g, i>>] = Unset
        BY <2>2, <2>5 DEF ListOf
      <3>3. n # <<g, i>>
        <4>1. CASE g = f
          BY <4>1, <2>1, <2>5 DEF On
        <4>2. CASE g # f
          BY <4>2, <2>2, <3>1 DEF On, ListOf
        <4> QED
          BY <4>1, <4>2
      <3> QED
        BY <3>1, <3>2, <3>3, <1>2
    <2>6. Linking(s, head'[g], next') /\ Len(s) = count'[g]
          /\ tail'[g] = IF Len(s) = 0 THEN Null ELSE s[Len(s)]
      BY <2>2, <1>2 DEF ListOf
    <2>7. \A j, k \in 1 .. Len(s) : s[j] = s[k] => j = k
      BY <2>2 DEF ListOf
    <2>8. ListOf(g, s)'
      BY <2>4, <2>5, <2>6, <2>7 DEF ListOf
    <2> QED
      BY <2>1, <2>8
  <1> QED
    BY <1>2, <1>3, <1>4 DEF Arrangement

\* Steps that leave the nodes and the values alone.
LEMMA KeptArrangement ==
    ASSUME NEW lists, Arrangement(lists), UNCHANGED <<head, tail, count, next>>,
           \A f \in Fields : \A k \in 1 .. Len(lists[f]) :
              /\ val'[lists[f][k]] = val[lists[f][k]]
              /\ InUse(lists[f][k]) => InUse(lists[f][k])',
           \A f \in Fields, i \in 1 .. Inplace : val'[<<f, i>>] = val[<<f, i>>],
           iter' # Null => On(iter', lists[walked'])
    PROVE  Arrangement(lists)'
  <1>1. ASSUME NEW f \in Fields PROVE ListOf(f, lists[f])'
    <2>1. PICK s : s = lists[f]
      OBVIOUS
    <2>2. ListOf(f, s)
      BY <2>1 DEF Arrangement
    <2>3. next' \in [Nodes -> Nodes \cup {Null, Indeterminate}]
      BY <2>2 DEF ListOf, Linking
    <2>4. \A k \in 1 .. Len(s) : /\ next'[s[k]] = next[s[k]]
                                 /\ val'[s[k]] = val[s[k]]
                                 /\ InUse(s[k]) => InUse(s[k])'
      BY <2>1
    <2>5. ListOf(f, s)'
      BY <2>2, <2>3, <2>4, KeptList
    <2> QED
      BY <2>1, <2>5
  <1> QED
    BY <1>1 DEF Arrangement

LEMMA BeginArranges ==
    ASSUME Types, NEW lists, Arrangement(lists), NEW f \in Fields, Begin(f)
    PROVE  Types' /\ Arrangement(lists)'
  <1>1. /\ UNCHANGED <<allocatorVars, head, tail, count, next, val>>
        /\ walked' = f /\ iter' = head[f]
    BY DEF Begin
  <1>2. Types'
    BY <1>1 DEF Types
  <1>3. ASSUME iter' # Null PROVE On(iter', lists[walked'])
    <2>1. Len(lists[f]) \in Nat /\ Len(lists[f]) # 0 /\ head[f] = lists[f][1]
      BY <1>1, <1>3, ListFacts
    <2>2. 1 \in 1 .. Len(lists[f])
      BY <2>1
    <2> QED
      BY <2>1, <2>2, <1>1 DEF On
  <1>4. \A f1 \in Fields : \A k \in 1 .. Len(lists[f1]) :
           /\ val'[lists[f1][k]] = val[lists[f1][k]]
           /\ InUse(lists[f1][k]) => InUse(lists[f1][k])'
    BY <1>1 DEF InUse, allocatorVars
  <1> QED
    BY <1>1, <1>2, <1>3, <1>4, KeptArrangement

LEMMA IncrementArranges ==
    ASSUME Types, NEW lists, Arrangement(lists), Increment
    PROVE  Types' /\ Arrangement(lists)'
  <1>1. /\ UNCHANGED <<allocatorVars, head, tail, count, next, val, walked>>
        /\ iter # Null /\ iter' = next[iter]
    BY DEF Increment
  <1>2. PICK f \in Fields : f = walked
    BY DEF Types
  <1>3. PICK s : s = lists[f]
    OBVIOUS
  <1>4. PICK k \in 1 .. Len(s) : s[k] = iter
    BY <1>1, <1>2, <1>3 DEF Arrangement, On
  <1>5. /\ Len(s) \in Nat /\ next[s[k]] = IF k = Len(s) THEN Null ELSE s[k + 1]
        /\ \A j \in 1 .. Len(s) : s[j] \in Nodes
    BY <1>3, ListFacts
  <1>6. k # Len(s) => k + 1 \in 1 .. Len(s)
    BY <1>5
  <1>7. iter' = Null \/ (On(iter', s) /\ iter' \in Nodes)
    BY <1>1, <1>4, <1>5, <1>6 DEF On
  <1>8. Types'
    BY <1>1, <1>7 DEF Types
  <1>9. \A g \in Fields : \A j \in 1 .. Len(lists[g]) :
           /\ val'[lists[g][j]] = val[lists[g][j]]
           /\ InUse(lists[g][j]) => InUse(lists[g][j])'
    BY <1>1 DEF InUse, allocatorVars
  <1>10. iter' # Null => On(iter', lists[walked'])
    BY <1>1, <1>2, <1>3, <1>7
  <1> QED
    BY <1>1, <1>8, <1>9, <1>10, KeptArrangement

LEMMA OtherCreatedArranges ==
    ASSUME Types, NEW lists, Arrangement(lists), NEW r \in Requests, CreateOther(r)
    PROVE  Types' /\ Arrangement(lists)' /\ arena' = arena
  <1>1. UNCHANGED fieldVars /\ blocks \subseteq blocks' /\ arena' = arena
    BY DEF CreateOther, Allocate
  <1>2. Types'
    BY <1>1 DEF Types, fieldVars
  <1>3. \A g \in Fields : \A j \in 1 .. Len(lists[g]) :
           /\ val'[lists[g][j]] = val[lists[g][j]]
           /\ InUse(lists[g][j]) => InUse(lists[g][j])'
    BY <1>1 DEF InUse, fieldVars
  <1>4. iter' # Null => On(iter', lists[walked'])
    BY <1>1 DEF fieldVars, Arrangement
  <1> QED
    BY <1>1, <1>2, <1>3, <1>4, KeptArrangement DEF fieldVars

\* The arena is taken back only when no node of it is on a list.
LEMMA RecycleArranges ==
    ASSUME Types, arena \in Arenas, NEW lists, Arrangement(lists), Recycle
    PROVE  Types' /\ Arrangement(lists)' /\ arena' \in Arenas
  <1>1. /\ UNCHANGED <<head, tail, count, next, walked, iter>>
        /\ val' = [n \in Nodes |-> IF n \in Slots THEN val[n] ELSE Indeterminate]
        /\ \A f \in Fields : head[f] = Null
    BY DEF Recycle
  <1>2. arena' \in Arenas
    BY DEF Recycle, Release, ResetArena
  <1>3. Types'
    <2>1. val' \in [Nodes -> Values \cup {Unset, Indeterminate}]
      BY <1>1 DEF Types
    <2> QED
      BY <1>1, <2>1 DEF Types
  <1>4. \A f \in Fields : Len(lists[f]) = 0
    BY <1>1, ListFacts
  <1>5. \A f \in Fields : \A k \in 1 .. Len(lists[f]) :
           /\ val'[lists[f][k]] = val[lists[f][k]]
           /\ InUse(lists[f][k]) => InUse(lists[f][k])'
    BY <1>4
  <1>6. ASSUME NEW f \in Fields, NEW i \in 1 .. Inplace
        PROVE  val'[<<f, i>>] = val[<<f, i>>]
    <2>1. <<f, i>> \in Slots /\ <<f, i>> \in Nodes
      BY DEF Slots, Nodes
    <2> QED
      BY <1>1, <2>1
  <1>7. iter' # Null => On(iter', lists[walked'])
    BY <1>1 DEF Arrangement
  <1> QED
    BY <1>1, <1>2, <1>3, <1>5, <1>6, <1>7, KeptArrangement

-----------------------------------------------------------------------------
(* The invariant holds in every state.                                     *)

LEMMA StepKeepsLists ==
    ASSUME Careful, ListInv, [Next]_vars
    PROVE  ListInv'
  <1>1. PICK lists \in [Fields -> Seq(Nodes)] : Arrangement(lists)
    BY DEF ListInv
  <1>2. IInv /\ arena \in Arenas /\ Types
    BY DEF ListInv
  <1>3. IInv'
    BY <1>2, StepUsesAllocator, StepKeeps
  <1> DEFINE Kept == Types' /\ arena' \in Arenas /\ \E l : Arrangement(l)'
  <1>4. ASSUME NEW f \in Fields, PushBack(f) \/ PushBackExternal(f) PROVE Kept
    <2>1. PICK n \in Nodes : /\ Types' /\ arena' = arena
                             /\ Arrangement([lists EXCEPT ![f] = Append(@, n)])'
      BY <1>1, <1>2, <1>4, PushArranges
    <2> QED
      BY <2>1, <1>2
  <1>5. ASSUME NEW f \in Fields, PopBack(f) PROVE Kept
    <2>1. PICK k \in 1 .. Len(lists[f]) : Removal(f, lists[f], k)
      BY <1>1, <1>2, <1>5, PopBackRemoves
    <2>2. Types' /\ Arrangement([lists EXCEPT ![f] = Without(@, k)])'
      BY <2>1, <1>1, <1>2, RemovalArranges
    <2> QED
      BY <2>2, <1>2, <1>5 DEF PopBack, allocatorVars
  <1>6. ASSUME NEW f \in Fields, Clear(f) PROVE Kept
    <2>1. Types' /\ Arrangement([lists EXCEPT ![f] = <<>>])'
      BY <1>1, <1>2, <1>6, ClearArranges
    <2> QED
      BY <2>1, <1>2, <1>6 DEF Clear, allocatorVars
  <1>7. ASSUME NEW f \in Fields, Begin(f) PROVE Kept
    BY <1>1, <1>2, <1>7, BeginArranges DEF Begin, allocatorVars
  <1>8. ASSUME NEW f \in Fields, NEW n \in ToSet(Walk(f)), NEW v \in Values \cup {Unset}, Set(n, v)
        PROVE  Kept
    <2>1. On(n, lists[f])
      BY <1>1, <1>2, ListFacts
    <2>2. Types' /\ Arrangement(lists)'
      BY <2>1, <1>1, <1>2, <1>8, SetArranges
    <2> QED
      BY <2>2, <1>2, <1>8 DEF Set, allocatorVars
  <1>9. ASSUME NEW r \in Requests, CreateOther(r) PROVE Kept
    BY <1>1, <1>2, <1>9, OtherCreatedArranges
  <1>10. ASSUME Erase PROVE Kept
    <2>1. PICK f \in Fields : f = walked
      BY <1>2 DEF Types
    <2>2. PICK k \in 1 .. Len(lists[f]) : Removal(f, lists[f], k)
      <3>1. PICK s : s = lists[walked]
        OBVIOUS
      <3>2. \E k \in 1 .. Len(s) : Removal(walked, s, k)
        BY <3>1, <1>1, <1>2, <1>10, EraseRemoves
      <3> QED
        BY <3>1, <3>2, <2>1
    <2>3. Types' /\ Arrangement([lists EXCEPT ![f] = Without(@, k)])'
      BY <2>2, <1>1, <1>2, RemovalArranges
    <2> QED
      BY <2>3, <1>2, <1>10 DEF Erase, allocatorVars
  <1>11. ASSUME Increment PROVE Kept
    BY <1>1, <1>2, <1>11, IncrementArranges DEF Increment, allocatorVars
  <1>12. ASSUME Recycle PROVE Kept
    BY <1>1, <1>2, <1>12, RecycleArranges
  <1>13. ASSUME UNCHANGED vars PROVE Kept
    <2>1. UNCHANGED <<allocatorVars, fieldVars>>
      BY <1>13 DEF vars
    <2>2. Types'
      BY <2>1, <1>2 DEF Types, fieldVars
    <2>3. Arrangement(lists)'
      <3>1. \A f \in Fields : \A k \in 1 .. Len(lists[f]) :
               /\ val'[lists[f][k]] = val[lists[f][k]]
               /\ InUse(lists[f][k]) => InUse(lists[f][k])'
        BY <2>1 DEF InUse, fieldVars, allocatorVars
      <3>2. iter' # Null => On(iter', lists[walked'])
        BY <2>1, <1>1 DEF fieldVars, Arrangement
      <3> QED
        BY <2>1, <3>1, <3>2, <1>1, KeptArrangement DEF fieldVars
    <2> QED
      BY <2>1, <2>2, <2>3, <1>2 DEF allocatorVars
  <1>14. Kept
    <2> HIDE DEF Kept
    <2> QED
      BY <1>4, <1>5, <1>6, <1>7, <1>8, <1>9, <1>10, <1>11, <1>12, <1>13 DEF Next
  <1> QED
    BY <1>3, <1>14 DEF ListInv, Arrangement

LEMMA ListsHold ==
    ASSUME Careful
    PROVE  Spec => []ListInv
  <1>1. ListInv /\ [Next]_vars => ListInv'
    BY StepKeepsLists
  <1> QED
    BY <1>1, InitLists, PTL DEF Spec

LEMMA ListsAreSound ==
    ASSUME ListInv
    PROVE  TypeOK /\ ListsSound
  <1>1. PICK lists \in [Fields -> Seq(Nodes)] : Arrangement(lists)
    BY DEF ListInv
  <1>2. Types
    BY DEF ListInv
  <1>3. TypeOK
    <2>1. ASSUME NEW f \in Fields, NEW n \in ToSet(Walk(f))
          PROVE  next[n] \in Nodes \cup {Null} /\ val[n] \in Values \cup {Unset}
      <3>1. PICK s : s = lists[f]
        OBVIOUS
      <3>2. On(n, s)
        BY <3>1, <1>1, <1>2, ListFacts
      <3>3. PICK k \in 1 .. Len(s) : s[k] = n
        BY <3>2 DEF On
      <3>4. /\ Len(s) \in Nat /\ val[s[k]] \in Values \cup {Unset}
            /\ next[s[k]] = IF k = Len(s) THEN Null ELSE s[k + 1]
            /\ \A j \in 1 .. Len(s) : s[j] \in Nodes
        BY <3>1, <1>1, <1>2, ListFacts
      <3>5. k # Len(s) => k + 1 \in 1 .. Len(s)
        BY <3>4
      <3> QED
        BY <3>3, <3>4, <3>5
    <2> QED
      BY <2>1, <1>2 DEF TypeOK, Types, ListInv, IInv
  <1>4. ASSUME NEW f \in Fields
        PROVE  /\ Len(Walk(f)) = count[f]
               /\ IsInjective(Walk(f))
               /\ tail[f] = IF Walk(f) = <<>> THEN Null ELSE Last(Walk(f))
               /\ \A g \in Fields \ {f} : ToSet(Walk(f)) \cap ToSet(Walk(g)) = {}
               /\ \A n \in ToSet(Walk(f)) \ Slots :
                     \E b \in blocks : b.at = n[2] /\ b.bytes = NodeRequest.bytes
    <2>1. PICK s : s = lists[f]
      OBVIOUS
    <2>2. /\ s \in Seq(Nodes) /\ Len(s) \in Nat /\ Len(s) = count[f] /\ Walk(f) = s
          /\ DOMAIN s = 1 .. Len(s)
          /\ tail[f] = IF Len(s) = 0 THEN Null ELSE s[Len(s)]
          /\ \A j, k \in 1 .. Len(s) : s[j] = s[k] => j = k
      BY <2>1, <1>1, <1>2, ListFacts
    <2>2a. \A n : n \in ToSet(Walk(f)) <=> On(n, s)
      BY <2>1, <1>1, <1>2, ListFacts
    <2>3. IsInjective(Walk(f))
      BY <2>2 DEF IsInjective
    <2>4. tail[f] = IF Walk(f) = <<>> THEN Null ELSE Last(Walk(f))
      <3>1. s = <<>> <=> Len(s) = 0
        BY <2>2, EmptySeq
      <3> QED
        BY <3>1, <2>2 DEF Last
    <2>5. ASSUME NEW g \in Fields \ {f}, NEW n \in ToSet(Walk(f)) \cap ToSet(Walk(g))
          PROVE  FALSE
      <3>1. On(n, lists[f]) /\ On(n, lists[g])
        BY <2>5, <1>1, <1>2, ListFacts
      <3> QED
        BY <3>1, <1>1, NodesOfLists DEF On
    <2>6. ASSUME NEW n \in ToSet(Walk(f)) \ Slots
          PROVE  InUse(n)
      <3>1. PICK k \in 1 .. Len(s) : s[k] = n
        BY <2>2a DEF On
      <3>2. s[k] \notin Slots => InUse(s[k])
        BY <2>1, <1>1 DEF Arrangement, ListOf
      <3> QED
        BY <3>1, <3>2
    <2> QED
      BY <2>2, <2>3, <2>4, <2>5, <2>6 DEF InUse
  <1> QED
    BY <1>3, <1>4 DEF ListsSound, CountsItems

\* A field with fewer items than slots has a free one: otherwise each slot would be
\* on its list, which is too short for that.
LEMMA ASlotIsFree ==
    ASSUME ListInv
    PROVE  SlotAvailable
  <1> SUFFICES ASSUME NEW f \in Fields, count[f] < Inplace
               PROVE  FreeInplace(f) # Null
    BY DEF SlotAvailable
  <1>1. PICK lists \in [Fields -> Seq(Nodes)] : Arrangement(lists)
    BY DEF ListInv
  <1>2. PICK s : s = lists[f]
    OBVIOUS
  <1>3. Len(s) \in Nat /\ Len(s) = count[f]
    BY <1>1, <1>2, ListFacts DEF ListInv
  <1>4. ASSUME Unused(f) = {} PROVE FALSE
    <2> DEFINE place == [i \in 1 .. Inplace |-> CHOOSE k \in 1 .. Len(s) : s[k] = <<f, i>>]
    <2>1. ASSUME NEW i \in 1 .. Inplace
          PROVE  place[i] \in 1 .. Len(s) /\ s[place[i]] = <<f, i>>
      <3>1. val[<<f, i>>] # Unset
        BY <1>4 DEF Unused
      <3>2. \E k \in 1 .. Len(s) : s[k] = <<f, i>>
        <4>1. ListOf(f, s)
          BY <1>1, <1>2 DEF Arrangement
        <4> QED
          BY <3>1, <4>1 DEF ListOf
      <3> QED
        BY <3>2
    <2>2. place \in [1 .. Inplace -> 1 .. Len(s)]
      BY <2>1
    <2> HIDE DEF place
    <2>3. /\ IsFiniteSet(1 .. Inplace) /\ Cardinality(1 .. Inplace) = Inplace
          /\ IsFiniteSet(1 .. Len(s)) /\ Cardinality(1 .. Len(s)) = Len(s)
      <3>1. /\ IsFiniteSet(1 .. Inplace)
            /\ Cardinality(1 .. Inplace) = IF 1 > Inplace THEN 0 ELSE Inplace - 1 + 1
        <4>1. 1 \in Int /\ Inplace \in Int
          OBVIOUS
        <4> QED
          BY ONLY <4>1, FS_Interval
      <3>2. /\ IsFiniteSet(1 .. Len(s))
            /\ Cardinality(1 .. Len(s)) = IF 1 > Len(s) THEN 0 ELSE Len(s) - 1 + 1
        <4>1. 1 \in Int /\ Len(s) \in Int
          BY <1>3
        <4> QED
          BY ONLY <4>1, FS_Interval
      <3> QED
        BY <3>1, <3>2, <1>3
    <2>4. Cardinality(1 .. Len(s)) < Cardinality(1 .. Inplace)
      BY <2>3, <1>3
    <2>5. \E i, j \in 1 .. Inplace : i # j /\ place[i] = place[j]
      BY ONLY <2>2, <2>3, <2>4, FS_PigeonHole
    <2> QED
      BY <2>1, <2>5
  <1>5. Min(Unused(f)) \in Unused(f)
    <2>1. Unused(f) \subseteq Nat
      BY DEF Unused
    <2> QED
      BY <2>1, <1>4, MinFacts
  <1>6. <<f, Min(Unused(f))>> \in Nodes
    BY <1>5 DEF Unused, Nodes, Slots
  <1> QED
    BY <1>4, <1>6 DEF FreeInplace

-----------------------------------------------------------------------------
(* The results.                                                            *)

\* Only nodes are linked, and nothing that was never written is reached
\* (field.hpp, append, pop_back, erase, clear).
THEOREM ListTypes ==
    ASSUME Careful
    PROVE  Spec => []TypeOK
  BY ListsHold, ListsAreSound, PTL

\* As many items are visited as are counted, no node is on two lists or twice on
\* one, the tail is the last node, and nodes out of the field are blocks in use
\* (field.hpp, append, pop_back, erase, clear).
THEOREM ListSafety ==
    ASSUME Careful
    PROVE  Spec => []ListsSound
  BY ListsHold, ListsAreSound, PTL

\* A field with fewer items than slots always has a slot to append to, whatever
\* was removed before (field.hpp get_free_inplace).
THEOREM SlotsSuffice ==
    ASSUME Careful
    PROVE  Spec => []SlotAvailable
  BY ListsHold, ASlotIsFree, PTL

-----------------------------------------------------------------------------
(* MultiField implements ItemLists: whatever happens to slots, nodes and   *)
(* links, the user of the fields sees sequences of items and an iterator   *)
(* that stays on its item.                                                 *)

\* What the user sees: the substitution of Abstract.
Contents == [f \in Fields |-> Items(f)]
At == IF iter = Null THEN 0 ELSE IndexOnWalk(walked, iter)

\* The values v of the nodes of lists.
Seen(lists, v) == [f \in Fields |-> [k \in 1 .. Len(lists[f]) |-> v[lists[f][k]]]]

\* The place of node n in s, 0 when it is not there.
PlaceIn(s, n) == IF On(n, s) THEN CHOOSE k \in 1 .. Len(s) : s[k] = n ELSE 0

LEMMA PlaceUnique ==
    ASSUME NEW s, NEW k \in 1 .. Len(s), \A i, j \in 1 .. Len(s) : s[i] = s[j] => i = j
    PROVE  PlaceIn(s, s[k]) = k
  BY DEF PlaceIn, On

LEMMA Image ==
    ASSUME Types, NEW lists, Arrangement(lists)
    PROVE  Contents = Seen(lists, val) /\ At = PlaceIn(lists[walked], iter)
  <1>1. ASSUME NEW f \in Fields
        PROVE  Items(f) = [k \in 1 .. Len(lists[f]) |-> val[lists[f][k]]]
    <2>1. PICK s : s = lists[f]
      OBVIOUS
    <2>2. Walk(f) = s /\ DOMAIN s = 1 .. Len(s)
      BY <2>1, ListFacts
    <2> QED
      BY <2>1, <2>2 DEF Items
  <1>2. Contents = Seen(lists, val)
    BY <1>1 DEF Contents, Seen
  <1>3. At = PlaceIn(lists[walked], iter)
    <2>1. PICK f \in Fields : f = walked
      BY DEF Types
    <2>2. PICK s : s = lists[f]
      OBVIOUS
    <2>3. Walk(f) = s /\ DOMAIN s = 1 .. Len(s) /\ \A k \in 1 .. Len(s) : s[k] # Null
      BY <2>2, ListFacts
    <2>4. CASE iter = Null
      BY <2>1, <2>2, <2>3, <2>4 DEF At, PlaceIn, On
    <2>5. CASE iter # Null
      <3>1. On(iter, s)
        BY <2>1, <2>2, <2>5 DEF Arrangement
      <3>2. IndexOnWalk(walked, iter) = CHOOSE k \in 1 .. Len(s) : s[k] = iter
        BY <2>1, <2>3 DEF IndexOnWalk
      <3> QED
        BY <3>1, <3>2, <2>1, <2>2, <2>5 DEF At, PlaceIn
    <2> QED
      BY <2>4, <2>5
  <1> QED
    BY <1>2, <1>3

LEMMA ImageOfAll ==
    \A l : Types /\ Arrangement(l) =>
           Contents = Seen(l, val) /\ At = PlaceIn(l[walked], iter)
  BY Image

LEMMA ImageNext ==
    ASSUME NEW lists, Types', Arrangement(lists)'
    PROVE  Contents' = Seen(lists, val') /\ At' = PlaceIn(lists[walked'], iter')
  <1>1. (\A l : Types /\ Arrangement(l) =>
               Contents = Seen(l, val) /\ At = PlaceIn(l[walked], iter))'
    BY ImageOfAll, PTL
  <1> QED
    BY <1>1

-----------------------------------------------------------------------------
(* The first states, and each action.                                      *)

LEMMA NoItems ==
    ASSUME NEW s, Len(s) = 0, NEW v
    PROVE  [k \in 1 .. Len(s) |-> v[s[k]]] = <<>>
  OBVIOUS

LEMMA InitImplements == Init => Abstract!Init
  <1> SUFFICES ASSUME Init PROVE Abstract!Init
    OBVIOUS
  <1>1. PICK lists \in [Fields -> Seq(Nodes)] : Arrangement(lists)
    BY InitLists DEF ListInv
  <1>2. Types
    BY InitLists DEF ListInv
  <1>3. \A f \in Fields : Len(lists[f]) = 0
    <2>1. \A f \in Fields : Len(lists[f]) = count[f] /\ count[f] = 0
      BY <1>1, <1>2, ListFacts DEF Init
    <2> QED
      BY <2>1
  <1>4. Contents = [f \in Fields |-> <<>>]
    <2>1. \A f \in Fields : [k \in 1 .. Len(lists[f]) |-> val[lists[f][k]]] = <<>>
      BY <1>3, NoItems
    <2>2. Contents = Seen(lists, val)
      BY <1>1, <1>2, Image
    <2> QED
      BY <2>1, <2>2 DEF Seen
  <1>5. At = 0
    BY DEF At, Init
  <1> QED
    BY <1>4, <1>5 DEF Abstract!Init, Contents, At, Init

\* When one list changes, one sequence does.
LEMMA OneContentReplaced ==
    ASSUME NEW f \in Fields, NEW lists, NEW lists2,
           Contents = Seen(lists, val), Contents' = Seen(lists2, val'),
           \A g \in Fields : g # f => lists2[g] = lists[g],
           \A g \in Fields : g # f =>
              \A k \in 1 .. Len(lists[g]) : val'[lists[g][k]] = val[lists[g][k]]
    PROVE  Contents' = [Contents EXCEPT ![f] =
                            [k \in 1 .. Len(lists2[f]) |-> val'[lists2[f][k]]]]
  <1>1. ASSUME NEW g \in Fields, g # f PROVE Contents'[g] = Contents[g]
    <2>1. /\ Contents'[g] = [k \in 1 .. Len(lists[g]) |-> val'[lists[g][k]]]
          /\ Contents[g] = [k \in 1 .. Len(lists[g]) |-> val[lists[g][k]]]
      BY <1>1 DEF Seen
    <2> QED
      BY <2>1, <1>1
  <1>2. Contents'[f] = [k \in 1 .. Len(lists2[f]) |-> val'[lists2[f][k]]]
    BY DEF Seen
  <1>3. /\ Contents = [g \in Fields |-> Contents[g]]
        /\ Contents' = [g \in Fields |-> Contents'[g]]
    BY DEF Seen
  <1> QED
    BY <1>1, <1>2, <1>3

LEMMA PushImplements ==
    ASSUME Careful, IInv, arena \in Arenas, Types, NEW lists, Arrangement(lists),
           NEW f \in Fields, PushBack(f) \/ PushBackExternal(f)
    PROVE  Abstract!Push(f)
  <1>1. PICK n \in Nodes :
              /\ \A g \in Fields : ~On(n, lists[g])
              /\ val'[n] = Unset
              /\ \A m \in Nodes : m # n => val'[m] = val[m]
              /\ UNCHANGED <<walked, iter>>
              /\ Types'
              /\ Arrangement([lists EXCEPT ![f] = Append(@, n)])'
    BY PushArranges
  <1>2. PICK s : s = lists[f]
    OBVIOUS
  <1>3. PICK t : t = Append(s, n)
    OBVIOUS
  <1>4. PICK lists2 : lists2 = [lists EXCEPT ![f] = t]
    OBVIOUS
  <1>5. Arrangement(lists2)' /\ Types'
    BY <1>1, <1>2, <1>3, <1>4
  <1>6. /\ Contents = Seen(lists, val) /\ At = PlaceIn(lists[walked], iter)
        /\ Contents' = Seen(lists2, val') /\ At' = PlaceIn(lists2[walked'], iter')
    BY <1>5, Image, ImageNext
  <1>7. /\ lists2[f] = t /\ \A g \in Fields : g # f => lists2[g] = lists[g]
        /\ s \in Seq(Nodes) /\ Len(s) \in Nat
    BY <1>2, <1>4, NodesOfLists DEF Arrangement
  <1>8. Len(t) = Len(s) + 1 /\ t[Len(s) + 1] = n /\ \A k \in 1 .. Len(s) : t[k] = s[k]
    BY <1>3, <1>7, AppendProperties
  <1>9. \A g \in Fields : \A k \in 1 .. Len(lists[g]) : val'[lists[g][k]] = val[lists[g][k]]
    BY <1>1, NodesOfLists DEF On
  <1>10. Contents' = [Contents EXCEPT ![f] = Append(@, Unset)]
    <2> DEFINE c == [k \in 1 .. Len(s) |-> val[s[k]]]
               d == [k \in 1 .. Len(t) |-> val'[t[k]]]
    <2>1. d = Append(c, Unset)
      <3>1. \A k \in 1 .. Len(s) : val'[t[k]] = val[s[k]]
        BY <1>2, <1>8, <1>9
      <3>2. val'[t[Len(s) + 1]] = Unset
        BY <1>1, <1>8
      <3>3. Len(c) = Len(s)
        BY <1>7
      <3>4. Append(c, Unset) = [k \in 1 .. Len(s) + 1 |-> IF k <= Len(s) THEN c[k] ELSE Unset]
        BY <1>7, <3>3
      <3> QED
        BY <3>1, <3>2, <3>4, <1>7, <1>8
    <2>2. Contents' = [Contents EXCEPT ![f] = d]
      <3>1. PICK d0 : d0 = d
        OBVIOUS
      <3> HIDE DEF c
      <3> QED
        BY <3>1, <1>6, <1>7, <1>9, OneContentReplaced
    <2>3. Contents[f] = c
      BY <1>6, <1>2 DEF Seen
    <2> HIDE DEF c, d
    <2> QED
      BY <2>1, <2>2, <2>3
  <1>11. At' = At
    <2>1. walked' = walked /\ iter' = iter /\ walked \in Fields
      BY <1>1 DEF Types
    <2>2. CASE walked # f
      BY <2>1, <2>2, <1>6, <1>7
    <2>3. CASE walked = f
      <3>1. ~On(n, s) /\ (iter # Null => On(iter, s)) /\ (iter = Null => At = 0 /\ At' = 0)
        BY <2>1, <2>3, <1>1, <1>2 DEF Arrangement, At
      <3>2. ASSUME iter # Null PROVE At' = At
        <4>1. PICK k \in 1 .. Len(s) : s[k] = iter
          BY <3>1, <3>2 DEF On
        <4>2. k \in 1 .. Len(t) /\ t[k] = iter
          BY <4>1, <1>7, <1>8
        <4>3. PlaceIn(s, iter) = k
          <5>1. \A i, j \in 1 .. Len(s) : s[i] = s[j] => i = j
            BY <1>2, ListFacts
          <5> QED
            BY <5>1, <4>1, PlaceUnique
        <4>4. PlaceIn(t, iter) = k
          <5>1. \A i, j \in 1 .. Len(t) : t[i] = t[j] => i = j
            BY <1>5, <1>7 DEF Arrangement, ListOf
          <5> QED
            BY <5>1, <4>2, PlaceUnique
        <4> QED
          BY <4>3, <4>4, <2>1, <2>3, <1>2, <1>6, <1>7
      <3> QED
        BY <3>1, <3>2
    <2> QED
      BY <2>2, <2>3
  <1> QED
    BY <1>1, <1>10, <1>11 DEF Abstract!Push, Contents, At

\* An item is taken out.  When it is the one the iterator is at, or the last one,
\* the iterator keeps its place, or is at the end if the last item was there.
LEMMA RemovalSeen ==
    ASSUME Types, NEW lists, Arrangement(lists), NEW f \in Fields,
           NEW k \in 1 .. Len(lists[f]), Removal(f, lists[f], k),
           k = Len(lists[f]) \/ lists[f][k] = iter
    PROVE  /\ Contents' = [Contents EXCEPT ![f] = RemoveAt(@, k)]
           /\ k = Len(Contents[f]) => Contents' = [Contents EXCEPT ![f] = Front(@)]
           /\ At' = IF walked = f /\ At = k /\ k = Len(Contents[f]) THEN 0 ELSE At
           /\ lists[f][k] = iter => walked = f /\ At = k
           /\ Contents[f] # <<>> /\ Len(Contents[f]) = Len(lists[f])
  <1>1. PICK s : s = lists[f]
    OBVIOUS
  <1>2. PICK t : t = Without(s, k)
    OBVIOUS
  <1>3. PICK lists2 : lists2 = [lists EXCEPT ![f] = t]
    OBVIOUS
  <1>4. /\ Types' /\ Arrangement(lists2)'
        /\ \A n \in Nodes : n # s[k] => val'[n] = val[n]
    <2>1. /\ Types'
          /\ \A n \in Nodes : n # lists[f][k] => val'[n] = val[n]
          /\ Arrangement([lists EXCEPT ![f] = Without(@, k)])'
      BY RemovalArranges
    <2> QED
      BY <2>1, <1>1, <1>2, <1>3
  <1>5. /\ Contents = Seen(lists, val) /\ At = PlaceIn(lists[walked], iter)
        /\ Contents' = Seen(lists2, val') /\ At' = PlaceIn(lists2[walked'], iter')
    BY <1>4, Image, ImageNext
  <1>6. lists2[f] = t /\ \A g \in Fields : g # f => lists2[g] = lists[g]
    BY <1>3 DEF Arrangement
  <1>7. /\ s \in Seq(Nodes) /\ Len(s) \in Nat /\ k \in 1 .. Len(s)
        /\ \A j \in 1 .. Len(s) : s[j] \in Nodes /\ s[j] # Null
        /\ \A j \in 1 .. Len(s) : next[s[j]] = IF j = Len(s) THEN Null ELSE s[j + 1]
        /\ \A i, j \in 1 .. Len(s) : s[i] = s[j] => i = j
    BY <1>1, ListFacts
  <1>8. /\ Len(t) = Len(s) - 1
        /\ \A j \in 1 .. Len(t) : t[j] = IF j < k THEN s[j] ELSE s[j + 1]
    BY <1>2, <1>7, WithoutFacts, SMTT(30)
  <1> DEFINE c == [j \in 1 .. Len(s) |-> val[s[j]]]
             d == [j \in 1 .. Len(t) |-> val'[t[j]]]
  <1>9. Contents' = [Contents EXCEPT ![f] = d] /\ Contents[f] = c
    <2>1. ASSUME NEW g \in Fields, g # f, NEW j \in 1 .. Len(lists[g])
          PROVE  val'[lists[g][j]] = val[lists[g][j]]
      <3>1. lists[g][j] \in Nodes /\ lists[g][j] # s[k]
        BY <2>1, <1>1, <1>7, NodesOfLists DEF Arrangement
      <3> QED
        BY <3>1, <1>4
    <2>2. Contents[f] = c
      BY <1>1, <1>5 DEF Seen
    <2>3. Contents' = [Contents EXCEPT ![f] =
                           [j \in 1 .. Len(lists2[f]) |-> val'[lists2[f][j]]]]
      BY <2>1, <1>5, <1>6, OneContentReplaced
    <2> QED
      BY <2>2, <2>3, <1>6
  <1>10. d = Without(c, k) /\ Len(c) = Len(s) /\ c \in Seq(Values \cup {Unset})
    <2>1. \A j \in 1 .. Len(s) : val[s[j]] \in Values \cup {Unset}
      BY <1>1, ListFacts
    <2>2. c \in Seq(Values \cup {Unset}) /\ Len(c) = Len(s)
      BY <2>1, <1>7
    <2>3. ASSUME NEW j \in 1 .. Len(s) - 1
          PROVE  val'[t[j]] = IF j < k THEN c[j] ELSE c[j + 1]
      <3>1. j \in 1 .. Len(s) /\ j + 1 \in 1 .. Len(s)
        BY <1>7
      <3>2. CASE j < k
        <4>1. t[j] = s[j] /\ s[j] # s[k] /\ s[j] \in Nodes
          BY <3>1, <3>2, <1>7, <1>8
        <4> QED
          BY <4>1, <3>1, <3>2, <1>4
      <3>3. CASE ~(j < k)
        <4>1. t[j] = s[j + 1] /\ s[j + 1] # s[k] /\ s[j + 1] \in Nodes
          BY <3>1, <3>3, <1>7, <1>8
        <4> QED
          BY <4>1, <3>1, <3>3, <1>4
      <3> QED
        BY <3>2, <3>3
    <2>4. d = [j \in 1 .. Len(s) - 1 |-> IF j < k THEN c[j] ELSE c[j + 1]]
      BY <2>3, <1>8
    <2> HIDE DEF c, d
    <2>5. d = Without(c, k)
      BY <2>2, <2>4 DEF Without
    <2> QED
      BY <2>2, <2>5
  <1> HIDE DEF c, d
  <1>11. RemoveAt(c, k) = d /\ (k = Len(c) => Front(c) = d) /\ c # <<>>
    <2>1. k \in 1 .. Len(c)
      BY <1>7, <1>10
    <2>2. RemoveAt(c, k) = d /\ (k = Len(c) => Front(c) = d)
      BY <2>1, <1>10, WithoutFacts
    <2>3. c # <<>>
      <3>1. Len(c) # 0
        BY <1>7, <1>10
      <3> QED
        BY <3>1, EmptySeq
    <2> QED
      BY <2>2, <2>3
  <1>12. UNCHANGED walked /\ iter' = IF iter = s[k] THEN next[s[k]] ELSE iter
    BY <1>1 DEF Removal
  <1>13. \A i, j \in 1 .. Len(t) : t[i] = t[j] => i = j
    BY <1>4, <1>6 DEF Arrangement, ListOf
  <1>14. s[k] = iter => walked = f /\ At = k
    <2>1. ASSUME s[k] = iter PROVE walked = f
      <3>1. iter # Null /\ walked \in Fields /\ On(s[k], lists[f])
        BY <2>1, <1>1, <1>7 DEF On, Types
      <3> QED
        BY <3>1, <2>1, NodesOfLists DEF Arrangement, On
    <2>2. PlaceIn(s, s[k]) = k
      BY <1>7, PlaceUnique
    <2> QED
      BY <2>1, <2>2, <1>1, <1>5
  <1>15. At' = IF walked = f /\ At = k /\ k = Len(s) THEN 0 ELSE At
    <2>1. CASE iter = s[k]
      <3>1. walked = f /\ At = k /\ At' = PlaceIn(t, next[s[k]])
        BY <2>1, <1>5, <1>6, <1>12, <1>14
      <3>2. CASE k = Len(s)
        <4>1. next[s[k]] = Null
          BY <3>2, <1>7
        <4>2. At' = 0
          BY <4>1, <2>1, <1>12 DEF At
        <4> QED
          BY <4>2, <3>1, <3>2
      <3>3. CASE k # Len(s)
        <4>1. k \in 1 .. Len(t) /\ t[k] = s[k + 1] /\ next[s[k]] = t[k]
          BY <3>3, <1>7, <1>8
        <4>2. PlaceIn(t, t[k]) = k
          BY <4>1, <1>13, PlaceUnique
        <4> QED
          BY <4>1, <4>2, <3>1, <3>3
      <3> QED
        BY <3>2, <3>3
    <2>2. CASE iter # s[k]
      <3>1. k = Len(s) /\ iter' = iter /\ walked' = walked /\ walked \in Fields
        BY <2>2, <1>1, <1>12 DEF Types
      <3>2. CASE iter = Null
        BY <3>1, <3>2, <1>7 DEF At
      <3>3. CASE iter # Null /\ walked # f
        BY <3>1, <3>3, <1>5, <1>6
      <3>4. CASE iter # Null /\ walked = f
        <4>1. PICK j \in 1 .. Len(s) : s[j] = iter /\ j # k
          BY <3>4, <2>2, <1>1 DEF Arrangement, On
        <4>2. j \in 1 .. Len(t) /\ t[j] = iter
          BY <4>1, <3>1, <1>7, <1>8
        <4>3. PlaceIn(s, s[j]) = j /\ PlaceIn(t, t[j]) = j
          BY <4>1, <4>2, <1>7, <1>13, PlaceUnique
        <4> QED
          BY <4>1, <4>2, <4>3, <3>1, <3>4, <1>1, <1>5, <1>6
      <3> QED
        BY <3>2, <3>3, <3>4
    <2> QED
      BY <2>1, <2>2
  <1> QED
    BY <1>1, <1>9, <1>10, <1>11, <1>14, <1>15

LEMMA PopBackImplements ==
    ASSUME Types, NEW lists, Arrangement(lists), NEW f \in Fields, PopBack(f)
    PROVE  Abstract!Shorten(f)
  <1>1. PICK k : k = Len(lists[f])
    OBVIOUS
  <1>2. k \in 1 .. Len(lists[f]) /\ Removal(f, lists[f], k)
    BY <1>1, PopBackRemoves
  <1>3. /\ k = Len(Contents[f]) => Contents' = [Contents EXCEPT ![f] = Front(@)]
        /\ At' = IF walked = f /\ At = k /\ k = Len(Contents[f]) THEN 0 ELSE At
        /\ Contents[f] # <<>> /\ Len(Contents[f]) = Len(lists[f])
    BY <1>1, <1>2, RemovalSeen
  <1>4. /\ UNCHANGED walked
        /\ At' = IF walked = f /\ At = Len(Contents[f]) THEN 0 ELSE At
        /\ Contents[f] # <<>>
        /\ Contents' = [Contents EXCEPT ![f] = Front(@)]
    BY <1>1, <1>3 DEF PopBack
  <1> QED
    BY ONLY <1>4, f \in Fields DEF Abstract!Shorten, Abstract!Front, Front, Contents, At

LEMMA EraseImplements ==
    ASSUME Types, NEW lists, Arrangement(lists), Erase
    PROVE  Abstract!EraseHere
  <1>1. PICK f \in Fields : f = walked
    BY DEF Types
  <1>2. PICK k \in 1 .. Len(lists[f]) : lists[f][k] = iter /\ Removal(f, lists[f], k)
    <2>1. PICK s : s = lists[walked]
      OBVIOUS
    <2>2. \E k \in 1 .. Len(s) : s[k] = iter /\ Removal(walked, s, k)
      BY <2>1, EraseRemoves
    <2> QED
      BY <2>1, <2>2, <1>1
  <1>3. /\ Contents' = [Contents EXCEPT ![f] = RemoveAt(@, k)]
        /\ At' = IF walked = f /\ At = k /\ k = Len(Contents[f]) THEN 0 ELSE At
        /\ At = k
    BY <1>2, RemovalSeen
  <1>4. /\ UNCHANGED walked
        /\ At > 0
        /\ At' = IF At = Len(Contents[walked]) THEN 0 ELSE At
        /\ Contents' = [Contents EXCEPT ![walked] = RemoveAt(@, At)]
    <2>1. UNCHANGED walked
      BY DEF Erase
    <2>2. At > 0
      BY <1>2, <1>3
    <2> QED
      BY <2>1, <2>2, <1>1, <1>3
  <1> QED
    BY ONLY <1>4 DEF Abstract!EraseHere, Abstract!RemoveAt, RemoveAt, Contents, At

LEMMA ClearImplements ==
    ASSUME Types, NEW lists, Arrangement(lists), NEW f \in Fields, Clear(f)
    PROVE  Abstract!Empty(f)
  <1>1. PICK lists2 : lists2 = [lists EXCEPT ![f] = <<>>]
    OBVIOUS
  <1>2. Types' /\ Arrangement(lists2)'
    <2>1. Types' /\ Arrangement([lists EXCEPT ![f] = <<>>])'
      BY ClearArranges
    <2> QED
      BY <2>1, <1>1
  <1>3. /\ Contents = Seen(lists, val) /\ At = PlaceIn(lists[walked], iter)
        /\ Contents' = Seen(lists2, val') /\ At' = PlaceIn(lists2[walked'], iter')
    BY <1>2, Image, ImageNext
  <1>4. lists2[f] = <<>> /\ \A g \in Fields : g # f => lists2[g] = lists[g]
    BY <1>1 DEF Arrangement
  <1>5. Contents' = [Contents EXCEPT ![f] = <<>>]
    <2>1. ASSUME NEW g \in Fields, g # f, NEW j \in 1 .. Len(lists[g])
          PROVE  val'[lists[g][j]] = val[lists[g][j]]
      <3>1. lists[g][j] \in Nodes /\ ~On(lists[g][j], lists[f])
        BY <2>1, NodesOfLists
      <3>2. \A n \in Nodes : ~On(n, lists[f]) => val'[n] = val[n]
        BY ClearArranges
      <3> QED
        BY <3>1, <3>2
    <2>2. Contents' = [Contents EXCEPT ![f] =
                           [j \in 1 .. Len(lists2[f]) |-> val'[lists2[f][j]]]]
      BY <2>1, <1>3, <1>4, OneContentReplaced
    <2>3. Len(lists2[f]) = 0
      BY <1>4, EmptySeq
    <2> QED
      BY <2>2, <2>3, NoItems
  <1>6. At' = IF walked = f THEN 0 ELSE At
    <2>1. walked \in Fields /\ walked' = walked /\ iter' = IF walked = f THEN Null ELSE iter
      BY DEF Clear, Types
    <2>2. CASE walked = f
      BY <2>1, <2>2 DEF At
    <2>3. CASE walked # f
      BY <2>1, <2>3, <1>3, <1>4
    <2> QED
      BY <2>2, <2>3
  <1>7. UNCHANGED walked
    BY DEF Clear
  <1> QED
    BY <1>5, <1>6, <1>7 DEF Abstract!Empty, Contents, At

\* Steps that change no list and no value.
LEMMA SameContents ==
    ASSUME NEW lists, Contents = Seen(lists, val), Contents' = Seen(lists, val'),
           \A g \in Fields : \A k \in 1 .. Len(lists[g]) : val'[lists[g][k]] = val[lists[g][k]]
    PROVE  Contents' = Contents
  <1>1. ASSUME NEW g \in Fields
        PROVE  [k \in 1 .. Len(lists[g]) |-> val'[lists[g][k]]] =
               [k \in 1 .. Len(lists[g]) |-> val[lists[g][k]]]
    OBVIOUS
  <1> QED
    BY <1>1 DEF Seen

LEMMA SetImplements ==
    ASSUME Types, NEW lists, Arrangement(lists), NEW f \in Fields,
           NEW n, On(n, lists[f]), NEW v \in Values \cup {Unset}, Set(n, v)
    PROVE  Abstract!Put(f)
  <1>1. Types' /\ Arrangement(lists)'
    BY SetArranges
  <1>2. /\ Contents = Seen(lists, val) /\ At = PlaceIn(lists[walked], iter)
        /\ Contents' = Seen(lists, val') /\ At' = PlaceIn(lists[walked'], iter')
    BY <1>1, Image, ImageNext
  <1>3. UNCHANGED <<walked, iter>> /\ val' = [val EXCEPT ![n] = v]
    BY DEF Set
  <1>4. PICK s : s = lists[f]
    OBVIOUS
  <1>5. PICK k \in 1 .. Len(s) : s[k] = n
    BY <1>4 DEF On
  <1>6. /\ s \in Seq(Nodes) /\ Len(s) \in Nat /\ \A j \in 1 .. Len(s) : s[j] \in Nodes
        /\ \A i, j \in 1 .. Len(s) : s[i] = s[j] => i = j
    BY <1>4, ListFacts
  <1>7. \A j \in 1 .. Len(s) : val'[s[j]] = IF j = k THEN v ELSE val[s[j]]
    BY <1>3, <1>5, <1>6 DEF Types
  <1>8. /\ Contents[f] = [j \in 1 .. Len(s) |-> val[s[j]]]
        /\ Contents'[f] = [j \in 1 .. Len(s) |-> val'[s[j]]]
    BY <1>2, <1>4 DEF Seen
  <1>9. /\ Contents'[f] = [Contents[f] EXCEPT ![k] = v]
        /\ DOMAIN Contents[f] = 1 .. Len(s)
        /\ Len(Contents'[f]) = Len(Contents[f])
    <2>1. Contents'[f] = [Contents[f] EXCEPT ![k] = v]
      BY <1>7, <1>8
    <2>2. DOMAIN Contents[f] = 1 .. Len(s)
      BY <1>8
    <2>3. Len(Contents'[f]) = Len(s) /\ Len(Contents[f]) = Len(s)
      BY <1>6, <1>8
    <2> QED
      BY <2>1, <2>2, <2>3
  <1>10. ASSUME NEW g \in Fields \ {f} PROVE Contents'[g] = Contents[g]
    <2>1. \A j \in 1 .. Len(lists[g]) : lists[g][j] \in Nodes /\ lists[g][j] # n
      BY NodesOfLists
    <2>2. \A j \in 1 .. Len(lists[g]) : val'[lists[g][j]] = val[lists[g][j]]
      BY <2>1, <1>3 DEF Types
    <2> QED
      BY <2>2, <1>2 DEF Seen
  <1>11. At' = At
    BY <1>2, <1>3
  <1>12. \E j \in DOMAIN Contents[f], w \in Values \cup {Unset} :
            /\ Contents'[f] = [Contents[f] EXCEPT ![j] = w]
            /\ \A g \in Fields \ {f} : Contents'[g] = Contents[g]
    BY <1>5, <1>9, <1>10
  <1>13. UNCHANGED walked /\ Len(Contents'[f]) = Len(Contents[f])
    BY <1>3, <1>9
  <1> QED
    BY ONLY <1>11, <1>12, <1>13 DEF Abstract!Put, Contents, At

LEMMA BeginImplements ==
    ASSUME Types, NEW lists, Arrangement(lists), NEW f \in Fields, Begin(f)
    PROVE  Abstract!StartWalk(f)
  <1>1. Types' /\ Arrangement(lists)'
    BY BeginArranges
  <1>2. /\ Contents = Seen(lists, val)
        /\ Contents' = Seen(lists, val') /\ At' = PlaceIn(lists[walked'], iter')
    BY <1>1, Image, ImageNext
  <1>3. walked' = f /\ iter' = head[f] /\ val' = val
    BY DEF Begin
  <1>4. PICK s : s = lists[f]
    OBVIOUS
  <1>5. /\ s \in Seq(Nodes) /\ Len(s) \in Nat
        /\ head[f] = IF Len(s) = 0 THEN Null ELSE s[1]
        /\ \A i, j \in 1 .. Len(s) : s[i] = s[j] => i = j
    BY <1>4, ListFacts
  <1>6. Contents[f] = <<>> <=> Len(s) = 0
    <2>1. Contents[f] = [j \in 1 .. Len(s) |-> val[s[j]]]
      BY <1>2, <1>4 DEF Seen
    <2>2. Len(Contents[f]) = Len(s)
      BY <2>1, <1>5
    <2>3. Len(s) = 0 => Contents[f] = <<>>
      BY <2>1, NoItems
    <2> QED
      BY <2>2, <2>3, EmptySeq
  <1>7. At' = IF Contents[f] = <<>> THEN 0 ELSE 1
    <2>1. CASE Len(s) = 0
      BY <2>1, <1>3, <1>5, <1>6 DEF At
    <2>2. CASE Len(s) # 0
      <3>1. 1 \in 1 .. Len(s)
        BY <2>2, <1>5
      <3>2. PlaceIn(s, s[1]) = 1
        BY <3>1, <1>5, PlaceUnique
      <3> QED
        BY <3>2, <2>2, <1>2, <1>3, <1>4, <1>5, <1>6
    <2> QED
      BY <2>1, <2>2
  <1>8. Contents' = Contents
    BY <1>2, <1>3
  <1> QED
    BY <1>3, <1>7, <1>8 DEF Abstract!StartWalk, Contents, At

LEMMA IncrementImplements ==
    ASSUME Types, NEW lists, Arrangement(lists), Increment
    PROVE  Abstract!Step
  <1>1. Types' /\ Arrangement(lists)'
    BY IncrementArranges
  <1>2. /\ Contents = Seen(lists, val) /\ At = PlaceIn(lists[walked], iter)
        /\ Contents' = Seen(lists, val') /\ At' = PlaceIn(lists[walked'], iter')
    BY <1>1, Image, ImageNext
  <1>3. walked' = walked /\ iter # Null /\ iter' = next[iter] /\ val' = val
    BY DEF Increment
  <1>4. PICK f \in Fields : f = walked
    BY DEF Types
  <1>5. PICK s : s = lists[f]
    OBVIOUS
  <1>6. PICK k \in 1 .. Len(s) : s[k] = iter
    BY <1>3, <1>4, <1>5 DEF Arrangement, On
  <1>7. /\ s \in Seq(Nodes) /\ Len(s) \in Nat
        /\ next[s[k]] = IF k = Len(s) THEN Null ELSE s[k + 1]
        /\ \A i, j \in 1 .. Len(s) : s[i] = s[j] => i = j
    BY <1>5, ListFacts
  <1>8. At = k
    <2>1. PlaceIn(s, s[k]) = k
      BY <1>7, PlaceUnique
    <2> QED
      BY <2>1, <1>2, <1>4, <1>5, <1>6
  <1>9. Len(Contents[walked]) = Len(s)
    <2>1. Contents[f] = [j \in 1 .. Len(s) |-> val[s[j]]]
      BY <1>2, <1>5 DEF Seen
    <2>2. Len(Contents[f]) = Len(s)
      BY <2>1, <1>7
    <2> QED
      BY <2>2, <1>4
  <1>10. At' = IF At = Len(Contents[walked]) THEN 0 ELSE At + 1
    <2>1. CASE k = Len(s)
      <3>1. iter' = Null
        BY <2>1, <1>3, <1>6, <1>7
      <3>2. At' = 0
        BY <3>1 DEF At
      <3> QED
        BY <3>2, <2>1, <1>8, <1>9
    <2>2. CASE k # Len(s)
      <3>1. k + 1 \in 1 .. Len(s) /\ iter' = s[k + 1]
        BY <2>2, <1>3, <1>6, <1>7
      <3>2. PlaceIn(s, s[k + 1]) = k + 1
        BY <3>1, <1>7, PlaceUnique
      <3> QED
        BY <3>1, <3>2, <2>2, <1>2, <1>3, <1>4, <1>5, <1>8, <1>9
    <2> QED
      BY <2>1, <2>2
  <1>11. UNCHANGED walked /\ At > 0 /\ Contents' = Contents
    <2>1. At > 0
      BY <1>6, <1>8
    <2> QED
      BY <2>1, <1>2, <1>3
  <1> QED
    BY ONLY <1>10, <1>11 DEF Abstract!Step, Contents, At

\* The arena is no business of the abstract fields.
LEMMA RecycleStutters ==
    ASSUME Types, arena \in Arenas, NEW lists, Arrangement(lists), Recycle
    PROVE  UNCHANGED Abstract!vars
  <1>1. /\ Contents = Seen(lists, val) /\ At = PlaceIn(lists[walked], iter)
        /\ Contents' = Seen(lists, val') /\ At' = PlaceIn(lists[walked'], iter')
    BY Image, ImageNext, RecycleArranges
  <1>2. \A g \in Fields : \A k \in 1 .. Len(lists[g]) : val'[lists[g][k]] = val[lists[g][k]]
    <2>1. \A g \in Fields : Len(lists[g]) = 0
      BY ListFacts DEF Recycle
    <2> QED
      BY <2>1
  <1>3. UNCHANGED <<walked, iter>>
    BY DEF Recycle
  <1>4. Contents' = Contents /\ At' = At /\ walked' = walked
    BY <1>1, <1>2, <1>3, SameContents
  <1> QED
    BY ONLY <1>4 DEF Abstract!vars, Contents, At

LEMMA OthersStutter ==
    ASSUME UNCHANGED fieldVars
    PROVE  UNCHANGED Abstract!vars
  <1>1. UNCHANGED <<head, next, val, walked, iter>>
    BY DEF fieldVars
  <1>2. \A f \in Fields : Items(f)' = Items(f)
    BY <1>1 DEF Items, Walk
  <1>3. IndexOnWalk(walked, iter)' = IndexOnWalk(walked, iter)
    BY <1>1 DEF IndexOnWalk, Walk
  <1>4. Contents' = Contents /\ At' = At /\ walked' = walked
    BY <1>1, <1>2, <1>3 DEF Contents, At
  <1> QED
    BY ONLY <1>4 DEF Abstract!vars, Contents, At

-----------------------------------------------------------------------------
(* The result.                                                             *)

LEMMA StepImplements ==
    ASSUME Careful, ListInv, [Next]_vars
    PROVE  [Abstract!Next]_(Abstract!vars)
  <1>1. PICK lists \in [Fields -> Seq(Nodes)] : Arrangement(lists)
    BY DEF ListInv
  <1>2. IInv /\ arena \in Arenas /\ Types
    BY DEF ListInv
  <1> DEFINE Allowed == Abstract!Next \/ UNCHANGED Abstract!vars
  <1>3. ASSUME NEW f \in Fields, PushBack(f) \/ PushBackExternal(f) PROVE Allowed
    BY <1>1, <1>2, <1>3, PushImplements DEF Abstract!Next
  <1>4. ASSUME NEW f \in Fields, PopBack(f) PROVE Allowed
    BY <1>1, <1>2, <1>4, PopBackImplements DEF Abstract!Next
  <1>5. ASSUME NEW f \in Fields, Clear(f) PROVE Allowed
    BY <1>1, <1>2, <1>5, ClearImplements DEF Abstract!Next
  <1>6. ASSUME NEW f \in Fields, Begin(f) PROVE Allowed
    BY <1>1, <1>2, <1>6, BeginImplements DEF Abstract!Next
  <1>7. ASSUME NEW f \in Fields, NEW n \in ToSet(Walk(f)), NEW v \in Values \cup {Unset}, Set(n, v)
        PROVE  Allowed
    <2>1. On(n, lists[f])
      BY <1>1, <1>2, ListFacts
    <2>2. Abstract!Put(f)
      BY <2>1, <1>1, <1>2, <1>7, SetImplements
    <2> QED
      BY <2>2 DEF Abstract!Next
  <1>8. ASSUME NEW r \in Requests, CreateOther(r) PROVE Allowed
    BY <1>8, OthersStutter DEF CreateOther
  <1>9. ASSUME Erase PROVE Allowed
    BY <1>1, <1>2, <1>9, EraseImplements DEF Abstract!Next
  <1>10. ASSUME Increment PROVE Allowed
    BY <1>1, <1>2, <1>10, IncrementImplements DEF Abstract!Next
  <1>11. ASSUME Recycle PROVE Allowed
    BY <1>1, <1>2, <1>11, RecycleStutters
  <1>12. ASSUME UNCHANGED vars PROVE Allowed
    BY <1>12, OthersStutter DEF vars
  <1>13. Allowed
    <2> HIDE DEF Allowed
    <2> QED
      BY <1>3, <1>4, <1>5, <1>6, <1>7, <1>8, <1>9, <1>10, <1>11, <1>12 DEF Next
  <1> QED
    BY <1>13

\* The fields are sequences of items, each with its place in the order it was
\* appended, and the iterator stays on its item (field.hpp, class multi_field).
THEOREM FieldsAreItemLists ==
    ASSUME Careful
    PROVE  Spec => ImplementsItemLists
  <1>1. ListInv /\ [Next]_vars => [Abstract!Next]_(Abstract!vars)
    BY StepImplements
  <1> QED
    BY <1>1, InitImplements, ListsHold, PTL DEF Spec, ImplementsItemLists, Abstract!Spec
=============================================================================
