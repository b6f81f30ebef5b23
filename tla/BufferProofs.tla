---------------------------- MODULE BufferProofs ----------------------------
(***************************************************************************)
(* Theorems about Buffer for every memory size, LEN_DEPTH and nesting.     *)
(***************************************************************************)
EXTENDS Buffer, SequenceTheorems, TLAPS

\* What holds of the bookkeeping whatever kinds of length the message has.
Bookkeeping ==
    /\ TypeOK
    /\ SlotsOwned
    /\ \A i \in DOMAIN scopes : scopes[i].index < LenDepth
    /\ Deferred => eobIndex <= LenDepth

\* What holds in addition when every length is known before its window opens:
\* window i owns slot i - 1, and the slot keeps the end it must give back.
SlotsKeepOuter ==
    \A i \in DOMAIN scopes :
        /\ scopes[i].commited
        /\ scopes[i].index = i - 1
        /\ eob[i - 1] = scopes[i].outer

Immediate ==
    /\ IndexCountsScopes
    /\ Len(scopes) <= Nesting
    /\ SlotsKeepOuter
    /\ WindowsNested
    /\ LookAheadBehind

IInv == Bookkeeping /\ (~Deferred => Immediate)

-----------------------------------------------------------------------------
\* A prefix of a sequence.
LEMMA PrefixFacts ==
    ASSUME NEW S, NEW s \in Seq(S), NEW n \in 0 .. Len(s)
    PROVE  /\ SubSeq(s, 1, n) \in Seq(S)
           /\ Len(SubSeq(s, 1, n)) = n
           /\ \A i \in 1 .. n : SubSeq(s, 1, n)[i] = s[i]
  OBVIOUS

\* Dropping the innermost size_state keeps the others as they are.
LEMMA InnerFacts ==
    ASSUME NEW S, NEW s \in Seq(S), s # <<>>
    PROVE  LET t == SubSeq(s, 1, Len(s) - 1)
           IN /\ t \in Seq(S)
              /\ Len(t) = Len(s) - 1
              /\ Len(s) \in Nat \ {0}
              /\ DOMAIN t = 1 .. Len(s) - 1
              /\ DOMAIN s = 1 .. Len(s)
              /\ \A i \in 1 .. Len(s) - 1 : t[i] = s[i]
  <1>1. Len(s) \in Nat \ {0} /\ DOMAIN s = 1 .. Len(s)
    BY EmptySeq, LenProperties
  <1>2. Len(s) - 1 \in 0 .. Len(s)
    BY <1>1
  <1>3. QED
    BY <1>1, <1>2, PrefixFacts, LenProperties

LEMMA AppendFacts ==
    ASSUME NEW S, NEW s \in Seq(S), NEW e \in S
    PROVE  /\ Append(s, e) \in Seq(S)
           /\ Len(Append(s, e)) = Len(s) + 1
           /\ DOMAIN Append(s, e) = 1 .. Len(s) + 1
           /\ DOMAIN s = 1 .. Len(s)
           /\ Len(s) \in Nat
           /\ Append(s, e)[Len(s) + 1] = e
           /\ \A i \in 1 .. Len(s) : Append(s, e)[i] = s[i]
  OBVIOUS

\* A store to a slot keeps m_eob an array of positions and the other slots.
LEMMA SetSlotFacts ==
    ASSUME TypeOK, NEW i \in Nat, NEW p \in Mem
    PROVE  /\ SetSlot(i, p) \in [Slots -> Mem]
           /\ i \in Slots => SetSlot(i, p)[i] = p
           /\ \A j \in Slots : j # i => SetSlot(i, p)[j] = eob[j]
  BY DEF SetSlot, TypeOK

USE MemAssumption, DepthAssumption, DeferredAssumption, NoStateAssumption

-----------------------------------------------------------------------------
\* The initial buffer has no window open.
LEMMA InitIInv == Init => IInv
  <1> SUFFICES ASSUME Init PROVE IInv
    OBVIOUS
  <1>1. TypeOK
    <2>1. 0 \in Mem /\ end \in Mem /\ start \in Mem
      BY DEF Init, Mem
    <2>2. eob \in [Slots -> Mem] /\ scopes \in Seq(Scope)
      BY <2>1 DEF Init
    <2> QED
      BY <2>1, <2>2 DEF Init, TypeOK
  <1>2. DOMAIN scopes = {} /\ Len(scopes) = 0
    BY DEF Init
  <1>3. QED
    BY <1>1, <1>2 DEF Init, IInv, Bookkeeping, Immediate, SlotsOwned,
       SlotsKeepOuter, IndexCountsScopes, WindowsNested, LookAheadBehind, Mem

\* A step that throws, catches, or only touches the look-ahead keeps it.
LEMMA ThrowIInv == IInv /\ Throw => IInv'
  BY DEF Throw, IInv, Bookkeeping, Immediate, TypeOK, SlotsOwned,
     SlotsKeepOuter, IndexCountsScopes, WindowsNested, LookAheadBehind, Scope, Innermost

LEMMA PushSizeIInv ==
    ASSUME IInv, NEW n \in Mem, NEW commit \in BOOLEAN,
           Deferred \/ commit, PushSize(n, commit)
    PROVE  IInv'
  <1>1. CASE ~(cursor + n <= end)
    BY <1>1, ThrowIInv DEF PushSize
  <1>2. CASE cursor + n <= end
    <2> DEFINE e == [index |-> eobIndex, commited |-> commit, outer |-> end]
               p == IF commit THEN end ELSE cursor + n
    <2>1. /\ eob' = SetSlot(eobIndex, p)
          /\ end' = IF commit THEN cursor + n ELSE end
          /\ scopes' = Append(scopes, e)
          /\ eobIndex' = eobIndex + 1
          /\ UNCHANGED <<start, cursor, store, looked, throwing>>
          /\ Len(scopes) < Nesting
          /\ Deferred => eobIndex < LenDepth
      BY <1>2 DEF PushSize
    <2>2. TypeOK /\ SlotsOwned /\ (~Deferred => Immediate)
      BY DEF IInv, Bookkeeping
    <2>3. p \in Mem /\ cursor + n \in Mem /\ e \in Scope /\ eobIndex \in Nat
      BY <1>2, <2>2 DEF TypeOK, Mem, Scope
    <2>4. eobIndex < LenDepth
      BY <2>1, <2>2 DEF Immediate, IndexCountsScopes, TypeOK
    <2>5. /\ Len(scopes') = Len(scopes) + 1
          /\ DOMAIN scopes' = 1 .. Len(scopes) + 1
          /\ DOMAIN scopes = 1 .. Len(scopes)
          /\ Len(scopes) \in Nat
          /\ scopes'[Len(scopes) + 1] = e
          /\ \A i \in 1 .. Len(scopes) : scopes'[i] = scopes[i]
          /\ scopes' \in Seq(Scope)
      BY <2>1, <2>2, <2>3, AppendFacts DEF TypeOK
    <2>6. TypeOK'
      BY <2>1, <2>2, <2>3, <2>5, SetSlotFacts DEF TypeOK
    <2>7. /\ SlotsOwned'
          /\ \A i \in DOMAIN scopes' : scopes'[i].index < LenDepth
      <3>1. \A i \in DOMAIN scopes : scopes[i] \in Scope
        BY <2>2, <2>5 DEF TypeOK
      <3> QED
        BY <3>1, <2>1, <2>2, <2>3, <2>4, <2>5 DEF SlotsOwned, IInv, Bookkeeping, Scope
    <2>8. (Deferred => eobIndex <= LenDepth)'
      BY <2>1, <2>3, <2>4
    <2>9. ~Deferred => Immediate'
      <3> SUFFICES ASSUME ~Deferred PROVE Immediate'
        BY DEF Immediate
      <3>1. Immediate /\ commit
        BY <2>2
      <3>2. \A i \in DOMAIN scopes : scopes[i] \in Scope
        BY <2>2, <2>5 DEF TypeOK
      <3>3. IndexCountsScopes' /\ Len(scopes') <= Nesting
        BY <3>1, <2>1, <2>4, <2>5, <2>3 DEF Immediate, IndexCountsScopes
      <3>4. SlotsKeepOuter'
        <4>1. eobIndex = Len(scopes) /\ SlotsKeepOuter
          BY <3>1 DEF Immediate, IndexCountsScopes
        <4>2. eobIndex \in Slots /\ \A i \in DOMAIN scopes : i - 1 \in Slots /\ i - 1 # eobIndex
          BY <4>1, <2>3, <2>4, <2>5 DEF Slots
        <4>3. eob'[eobIndex] = p /\ \A j \in Slots : j # eobIndex => eob'[j] = eob[j]
          BY <4>2, <2>1, <2>2, <2>3, SetSlotFacts
        <4>4. \A i \in DOMAIN scopes : eob'[i - 1] = eob[i - 1]
          BY <4>2, <4>3
        <4> QED
          BY <4>1, <4>3, <4>4, <2>5, <3>1 DEF SlotsKeepOuter
      <3>5. WindowsNested'
        <4>1. WindowsNested
          BY <3>1 DEF Immediate
        <4>2. start \in Nat /\ cursor \in Nat /\ end \in Nat /\ n \in Nat
          BY <2>2 DEF TypeOK, Mem
        <4>3. end' = cursor + n /\ cursor' = cursor /\ start' = start
          BY <2>1, <3>1
        <4>4. \A i \in DOMAIN scopes : scopes[i].outer \in Nat
          BY <3>2 DEF Scope, Mem
        <4>5. e.outer = end
          OBVIOUS
        <4>6. \A i \in DOMAIN scopes' : end' <= scopes'[i].outer /\ end <= scopes'[i].outer
          BY <4>1, <4>2, <4>3, <4>4, <4>5, <2>5, <1>2 DEF WindowsNested
        <4>7. \A i, j \in DOMAIN scopes' : i < j => scopes'[j].outer <= scopes'[i].outer
          <5> SUFFICES ASSUME NEW i \in DOMAIN scopes', NEW j \in DOMAIN scopes', i < j
                       PROVE  scopes'[j].outer <= scopes'[i].outer
            OBVIOUS
          <5>1. CASE j = Len(scopes) + 1
            BY <5>1, <4>5, <4>6, <2>5
          <5>2. CASE j \in 1 .. Len(scopes)
            BY <5>2, <4>1, <2>5 DEF WindowsNested
          <5> QED
            BY <5>1, <5>2, <2>5
        <4> QED
          BY <4>1, <4>2, <4>3, <4>6, <4>7, <1>2 DEF WindowsNested
      <3>6. LookAheadBehind'
        BY <3>1, <2>1 DEF Immediate, LookAheadBehind
      <3> QED
        BY <3>3, <3>4, <3>5, <3>6 DEF Immediate
    <2> QED
      BY <2>6, <2>7, <2>8, <2>9 DEF IInv, Bookkeeping
  <1> QED
    BY <1>1, <1>2

LEMMA CommitIInv ==
    ASSUME IInv, NEW delta \in Mem, Commit(delta)
    PROVE  IInv'
  <1> DEFINE n == Len(scopes)
             i == Innermost.index
             e == eob[i] + delta
  <1>1. TypeOK /\ SlotsOwned /\ (~Deferred => Immediate)
    BY DEF IInv, Bookkeeping
  <1>2. /\ n \in Nat \ {0}
        /\ DOMAIN scopes = 1 .. n
        /\ \A k \in 1 .. n : scopes[k] \in Scope
    BY <1>1, EmptySeq, LenProperties, ElementOfSeq DEF Commit, TypeOK
  <1>3. Deferred
    BY <1>1, <1>2 DEF Commit, Immediate, SlotsKeepOuter, Innermost
  <1>4. eobIndex \in 0 .. LenDepth /\ i \in Slots /\ i < eobIndex /\ i \in Nat
    BY <1>1, <1>2, <1>3 DEF IInv, Bookkeeping, SlotsOwned, TypeOK, Slots, Innermost, Scope
  <1>5. scopes' = [scopes EXCEPT ![n].commited = TRUE]
    BY DEF Commit
  <1>6. /\ scopes' \in Seq(Scope)
        /\ DOMAIN scopes' = 1 .. n
        /\ \A k \in 1 .. n : scopes'[k].index = scopes[k].index
    <2>1. [scopes[n] EXCEPT !.commited = TRUE] \in Scope
      <3>1. scopes[n] \in Scope
        BY <1>2
      <3> QED
        BY <3>1 DEF Scope
    <2>2. scopes' = [scopes EXCEPT ![n] = [scopes[n] EXCEPT !.commited = TRUE]]
      BY <1>5
    <2>3. scopes' \in Seq(Scope) /\ Len(scopes') = n
      BY <2>1, <2>2, <1>1, <1>2, ExceptSeq DEF TypeOK
    <2> QED
      BY <2>2, <2>3, <1>2, LenProperties DEF Scope
  <1>7. eob' \in [Slots -> Mem] /\ end' \in Mem
    <2>1. e \in Mem
      BY <1>1 DEF Commit, TypeOK, Mem
    <2>2. CASE i + 1 < eobIndex
      <3>1. i + 1 \in Slots /\ eob[i + 1] \in Mem
        BY <2>2, <1>1, <1>4 DEF Slots, TypeOK
      <3>2. SetSlot(i, eob[i + 1]) \in [Slots -> Mem]
        BY <3>1, <1>1, <1>4, SetSlotFacts
      <3>3. eob' = [SetSlot(i, eob[i + 1]) EXCEPT ![i + 1] = e] /\ end' = end
        BY <2>2, <1>4 DEF Commit, Slots
      <3> QED
        BY <3>1, <3>2, <3>3, <2>1, <1>1 DEF TypeOK
    <2>3. CASE i + 1 >= eobIndex
      <3>1. end' = e /\ eob' = SetSlot(i, IF i > 0 THEN eob[i - 1] ELSE e)
        BY <2>3, <1>4 DEF Commit, Slots
      <3>2. (IF i > 0 THEN eob[i - 1] ELSE e) \in Mem
        BY <1>1, <1>4, <2>1 DEF TypeOK, Slots
      <3> QED
        BY <3>1, <3>2, <2>1, <1>1, <1>4, SetSlotFacts
    <2> QED
      BY <2>2, <2>3, <1>4
  <1>8. UNCHANGED <<start, cursor, store, eobIndex, looked, throwing>>
    BY DEF Commit
  <1>9. TypeOK'
    BY <1>1, <1>6, <1>7, <1>8 DEF TypeOK
  <1>10. SlotsOwned'
    BY <1>1, <1>2, <1>6, <1>8 DEF SlotsOwned
  <1>11. /\ \A k \in DOMAIN scopes' : scopes'[k].index < LenDepth
         /\ (Deferred => eobIndex <= LenDepth)'
    BY <1>1, <1>2, <1>6, <1>8 DEF IInv, Bookkeeping
  <1> QED
    BY <1>3, <1>9, <1>10, <1>11 DEF IInv, Bookkeeping

LEMMA CloseScopeIInv == IInv /\ CloseScope => IInv'
  <1> SUFFICES ASSUME IInv, CloseScope PROVE IInv'
    OBVIOUS
  <1> DEFINE n == Len(scopes)
  <1>1. TypeOK /\ SlotsOwned /\ (~Deferred => Immediate)
    BY DEF IInv, Bookkeeping
  <1>2. /\ scopes' \in Seq(Scope)
        /\ Len(scopes') = n - 1
        /\ n \in Nat \ {0}
        /\ DOMAIN scopes' = 1 .. n - 1
        /\ DOMAIN scopes = 1 .. n
        /\ \A k \in 1 .. n - 1 : scopes'[k] = scopes[k]
        /\ \A k \in 1 .. n : scopes[k] \in Scope
    BY <1>1, InnerFacts, ElementOfSeq DEF CloseScope, Inner, TypeOK
  <1>3. /\ Innermost = scopes[n]
        /\ scopes[n].index \in Slots
        /\ scopes[n].index < eobIndex
        /\ eobIndex \in Nat \ {0}
        /\ eobIndex - 1 \in Nat
    BY <1>1, <1>2 DEF IInv, Bookkeeping, SlotsOwned, Innermost, TypeOK, Slots, Scope
  <1>4. /\ end' = IF scopes[n].commited THEN eob[scopes[n].index] ELSE end
        /\ eobIndex' = IF scopes[n].commited THEN eobIndex - 1 ELSE eobIndex
        /\ UNCHANGED <<start, cursor, store, eob, looked, throwing>>
    BY <1>3 DEF CloseScope
  <1>5. TypeOK'
    BY <1>1, <1>2, <1>3, <1>4 DEF TypeOK
  <1>6. /\ SlotsOwned'
        /\ \A k \in DOMAIN scopes' : scopes'[k].index < LenDepth
        /\ (Deferred => eobIndex <= LenDepth)'
    <2>1. \A k \in 1 .. n - 1 : scopes[k].index < scopes[n].index
      BY <1>1, <1>2 DEF SlotsOwned
    <2>2. \A k \in 1 .. n : scopes[k].index \in Nat
      BY <1>2 DEF Scope
    <2>3. \A k \in 1 .. n - 1 : scopes[k].index < eobIndex'
      BY SMTT(30), <2>1, <2>2, <1>2, <1>3, <1>4
    <2>4. SlotsOwned'
      BY <2>3, <1>1, <1>2 DEF SlotsOwned
    <2>5. \A k \in DOMAIN scopes' : scopes'[k].index < LenDepth
      BY <1>2 DEF IInv, Bookkeeping
    <2>6. (Deferred => eobIndex <= LenDepth)'
      BY <1>3, <1>4 DEF IInv, Bookkeeping
    <2> QED
      BY <2>4, <2>5, <2>6
  <1>7. ~Deferred => Immediate'
    <2> SUFFICES ASSUME ~Deferred PROVE Immediate'
      BY DEF Immediate
    <2>1. Immediate
      BY <1>1
    <2>2. end' = scopes[n].outer /\ eobIndex' = eobIndex - 1
      BY <2>1, <1>2, <1>3, <1>4 DEF Immediate, SlotsKeepOuter
    <2>3. IndexCountsScopes' /\ Len(scopes') <= Nesting
      BY <2>1, <2>2, <1>2, <1>3 DEF Immediate, IndexCountsScopes
    <2>4. SlotsKeepOuter'
      BY SMTT(30), <2>1, <1>2, <1>4 DEF Immediate, SlotsKeepOuter
    <2>5. WindowsNested'
      <3>1. WindowsNested
        BY <2>1 DEF Immediate
      <3>2. /\ start' <= cursor'
            /\ cursor' <= end'
        <4>1. start \in Nat /\ cursor \in Nat /\ end \in Nat /\ scopes[n].outer \in Nat
          BY SMTT(30), <1>1, <1>2 DEF TypeOK, Scope, Mem
        <4>2. end <= scopes[n].outer
          BY <3>1, <1>2 DEF WindowsNested
        <4> QED
          BY <3>1, <4>1, <4>2, <2>2, <1>4 DEF WindowsNested
      <3>3. \A k \in DOMAIN scopes' : end' <= scopes'[k].outer
        BY <3>1, <2>2, <1>2 DEF WindowsNested
      <3>4. \A k, m \in DOMAIN scopes' : k < m => scopes'[m].outer <= scopes'[k].outer
        BY <3>1, <1>2 DEF WindowsNested
      <3> QED
        BY <3>2, <3>3, <3>4 DEF WindowsNested
    <2>6. LookAheadBehind'
      BY <2>1, <1>4 DEF Immediate, LookAheadBehind
    <2> QED
      BY <2>3, <2>4, <2>5, <2>6 DEF Immediate
  <1> QED
    BY <1>5, <1>6, <1>7 DEF IInv, Bookkeeping

-----------------------------------------------------------------------------
\* The steps that open and close no window and leave m_eob alone.
LEMMA CursorStepsIInv ==
    ASSUME IInv,
           \/ Catch
           \/ Pop
           \/ \E need \in Mem : \E move \in {need, need - 1} \cap Mem : Advance(need, move)
           \/ PushState
           \/ PopState
           \/ Reset
           \/ \E p, s \in Mem : ResetTo(p, s)
    PROVE  IInv'
  <1>1. TypeOK /\ SlotsOwned /\ (~Deferred => Immediate)
    BY DEF IInv, Bookkeeping
  <1>2. CASE Throw
    BY <1>2, ThrowIInv
  <1>3. CASE ~Throw
    <2>1. UNCHANGED <<scopes, eob, eobIndex>>
      BY <1>3 DEF Catch, Pop, Advance, PushState, PopState, Reset, ResetTo
    <2>2. TypeOK'
      <3>1. CASE Catch \/ PopState \/ Reset
        BY <3>1, <1>1 DEF TypeOK, Catch, PopState, Reset
      <3>5. CASE PushState
        <4>1. looked' \in BOOLEAN
          BY <3>5, <1>1, Zenon DEF PushState, TypeOK
        <4>2. store' \in Mem \cup {NoState}
          BY <3>5, <1>1 DEF TypeOK, PushState
        <4> QED
          BY <3>5, <4>1, <4>2, <1>1 DEF TypeOK, PushState
      <3>2. CASE Pop
        BY <3>2, <1>1, <1>3 DEF TypeOK, Mem, Pop
      <3>3. CASE \E need \in Mem : \E move \in {need, need - 1} \cap Mem : Advance(need, move)
        BY <3>3, <1>1, <1>3 DEF TypeOK, Advance
      <3>4. CASE \E p, s \in Mem : ResetTo(p, s)
        <4>1. start' \in Mem /\ cursor' \in Mem /\ end' \in Mem
          BY <3>4 DEF Mem, ResetTo
        <4> QED
          BY <3>4, <4>1, <1>1 DEF TypeOK, ResetTo
      <3> QED
        BY <3>1, <3>2, <3>3, <3>4, <3>5
    <2>3. ~Deferred => WindowsNested' /\ LookAheadBehind'
      <3> SUFFICES ASSUME ~Deferred PROVE WindowsNested' /\ LookAheadBehind'
        OBVIOUS
      <3>1. WindowsNested /\ LookAheadBehind
        BY <1>1 DEF Immediate
      <3>2. CASE Catch
        BY <3>1, <3>2 DEF Catch, WindowsNested, LookAheadBehind
      <3>3. CASE Pop
        BY <3>1, <3>3, <1>1, <1>3 DEF Pop, WindowsNested, LookAheadBehind, TypeOK, Mem
      <3>4. ASSUME NEW need \in Mem, NEW move \in {need, need - 1} \cap Mem,
                   Advance(need, move)
            PROVE  WindowsNested' /\ LookAheadBehind'
        BY <3>1, <3>4, <1>1, <1>3 DEF Advance, WindowsNested, LookAheadBehind, TypeOK, Mem
      <3>5. CASE PushState
        BY <3>1, <3>5, <1>1 DEF PushState, WindowsNested, LookAheadBehind, TypeOK, Mem
      <3>6. CASE PopState
        BY <3>1, <3>6, <1>1 DEF PopState, WindowsNested, LookAheadBehind, TypeOK, Mem
      <3>7. CASE Reset
        BY <3>1, <3>7, <1>1 DEF Reset, WindowsNested, LookAheadBehind, TypeOK, Mem
      <3>8. ASSUME NEW p \in Mem, NEW s \in Mem, ResetTo(p, s)
            PROVE  WindowsNested' /\ LookAheadBehind'
        BY <3>1, <3>8, <1>1 DEF ResetTo, WindowsNested, LookAheadBehind, TypeOK, Mem
      <3> QED
        BY <3>2, <3>3, <3>4, <3>5, <3>6, <3>7, <3>8
    <2> QED
      BY <1>1, <2>1, <2>2, <2>3 DEF IInv, Bookkeeping, SlotsOwned, Immediate,
         IndexCountsScopes, SlotsKeepOuter
  <1> QED
    BY <1>2, <1>3

LEMMA NextIInv == IInv /\ [Next]_vars => IInv'
  <1> SUFFICES ASSUME IInv, [Next]_vars PROVE IInv'
    OBVIOUS
  <1>1. ASSUME NEW n \in Mem, PushSize(n, TRUE) PROVE IInv'
    BY <1>1, PushSizeIInv
  <1>2. ASSUME Deferred, NEW n \in Mem, PushSize(n, FALSE) PROVE IInv'
    BY <1>2, PushSizeIInv
  <1>3. ASSUME NEW d \in Mem, Commit(d) PROVE IInv'
    BY <1>3, CommitIInv
  <1>4. CASE CloseScope
    BY <1>4, CloseScopeIInv
  <1>5. CASE UNCHANGED vars
    BY <1>5 DEF vars, IInv, Bookkeeping, Immediate, TypeOK, SlotsOwned,
       SlotsKeepOuter, IndexCountsScopes, WindowsNested, LookAheadBehind
  <1>6. CASE Raise
    BY <1>6, ThrowIInv DEF Raise
  <1> QED
    BY <1>1, <1>2, <1>3, <1>4, <1>5, <1>6, CursorStepsIInv DEF Next

LEMMA Invariance == Spec => []IInv
  BY InitIInv, NextIInv, PTL DEF Spec

-----------------------------------------------------------------------------
\* Every variable of the buffer keeps its type, with lengths of every kind.
THEOREM TypeCorrect == Spec => []TypeOK
  BY Invariance, PTL DEF IInv, Bookkeeping

\* Open windows never share a slot of m_eob, with lengths of every kind.
THEOREM SlotsStayOwned == Spec => []SlotsOwned
  BY Invariance, PTL DEF IInv, Bookkeeping

\* With immediate lengths the cursor stays in its window and the windows nest.
THEOREM WindowSafety ==
    ASSUME ~Deferred
    PROVE  Spec => []WindowsNested
  <1>1. IInv => WindowsNested
    BY DEF IInv, Immediate
  <1>2. QED
    BY <1>1, Invariance, PTL

\* With immediate lengths a tag read ahead can be put back: what push_state()
\* remembered is of this message and not ahead of the cursor, whatever was
\* opened, closed, thrown or remembered in an earlier message since.
THEOREM LookAheadSafety ==
    ASSUME ~Deferred
    PROVE  Spec => []LookAheadBehind
  <1>1. IInv => LookAheadBehind
    BY DEF IInv, Immediate
  <1>2. QED
    BY <1>1, Invariance, PTL

\* With immediate lengths nested at most LEN_DEPTH deep m_eob is never
\* indexed out of its bounds, exceptions included.
THEOREM IndexInBounds ==
    ASSUME ~Deferred
    PROVE  Spec => []IndexCountsScopes
  <1>1. IInv => IndexCountsScopes
    BY DEF IInv, Immediate
  <1>2. QED
    BY <1>1, Invariance, PTL

-----------------------------------------------------------------------------
\* Only CloseScope drops a size_state, and it restores what m_eob kept.
LEMMA CloseStep ==
    ASSUME ~Deferred, IInv, [Next]_vars,
           NEW i \in DOMAIN scopes, scopes' = Inner, i = Len(scopes)
    PROVE  end' = scopes[i].outer
  <1>1. /\ TypeOK /\ Immediate
        /\ Len(scopes) \in Nat \ {0}
        /\ Len(scopes') = Len(scopes) - 1
        /\ scopes # <<>>
    <2>1. TypeOK /\ Immediate
      BY DEF IInv, Bookkeeping
    <2>2. scopes # <<>>
      OBVIOUS
    <2> QED
      BY <2>1, <2>2, InnerFacts DEF TypeOK, Inner
  <1>2. CASE CloseScope
    BY <1>1, <1>2 DEF CloseScope, Innermost, Immediate, SlotsKeepOuter
  <1>3. ASSUME UNCHANGED scopes PROVE FALSE
    BY <1>1, <1>3
  <1>4. ASSUME NEW n \in Mem, NEW c \in BOOLEAN, PushSize(n, c) PROVE FALSE
    <2>1. CASE Throw
      BY <2>1, <1>3 DEF Throw
    <2>2. CASE ~Throw
      <3>1. scopes' = Append(scopes, [index |-> eobIndex, commited |-> c, outer |-> end])
        BY <2>2, <1>4 DEF PushSize
      <3>2. [index |-> eobIndex, commited |-> c, outer |-> end] \in Scope
        BY <1>1 DEF TypeOK, Scope
      <3> QED
        BY <3>1, <3>2, <1>1, AppendFacts DEF TypeOK
    <2> QED
      BY <2>1, <2>2
  <1>5. ASSUME NEW d \in Mem, Commit(d) PROVE FALSE
    BY <1>1, <1>5 DEF Commit, Innermost, Immediate, SlotsKeepOuter
  <1>6. CASE \/ Raise \/ Catch \/ Pop \/ PushState \/ PopState \/ Reset
             \/ \E need \in Mem : \E move \in {need, need - 1} \cap Mem : Advance(need, move)
             \/ \E p, s \in Mem : ResetTo(p, s)
             \/ UNCHANGED vars
    BY <1>6, <1>3 DEF Raise, Catch, Pop, Throw, PushState, PopState, Reset, Advance,
       ResetTo, vars
  <1> QED
    BY <1>2, <1>4, <1>5, <1>6 DEF Next

\* size_state's destructor gives back the window it was created in.
THEOREM ClosingRestores ==
    ASSUME ~Deferred
    PROVE  Spec => CloseRestores
  <1>1. ASSUME IInv, [Next]_vars
        PROVE  [\A i \in DOMAIN scopes :
                  scopes' = Inner /\ i = Len(scopes) => end' = scopes[i].outer]_vars
    BY <1>1, CloseStep
  <1>2. QED
    BY <1>1, Invariance, PTL DEF Spec, CloseRestores

-----------------------------------------------------------------------------
(***************************************************************************)
(* The refinement: Win(scopes, end) is the stack of windows the buffer     *)
(* stands for.                                                             *)
(***************************************************************************)
Win(s, e) == [i \in 1 .. Len(s) + 1 |-> IF i \in DOMAIN s THEN s[i].outer ELSE e]

LEMMA WinFacts ==
    ASSUME NEW s \in Seq(Scope), NEW e \in Mem
    PROVE  /\ Win(s, e) \in Seq(Mem)
           /\ Len(Win(s, e)) = Len(s) + 1
           /\ Len(s) \in Nat
           /\ Win(s, e)[Len(s) + 1] = e
           /\ \A i \in 1 .. Len(s) : Win(s, e)[i] = s[i].outer
  <1>1. Len(s) \in Nat /\ DOMAIN s = 1 .. Len(s)
    BY LenProperties
  <1>2. \A i \in DOMAIN s : s[i] \in Scope
    BY <1>1, ElementOfSeq
  <1>3. Win(s, e) \in [1 .. Len(s) + 1 -> Mem]
    BY <1>1, <1>2 DEF Win, Scope
  <1>4. Win(s, e) \in Seq(Mem) /\ Len(Win(s, e)) = Len(s) + 1
    BY <1>1, <1>3, IsASeq, LenProperties
  <1>5. QED
    BY <1>1, <1>2, <1>4 DEF Win

\* Opening a window appends its end to the stack.
LEMMA WinAppend ==
    ASSUME NEW s \in Seq(Scope), NEW x \in Scope, NEW e \in Mem
    PROVE  Win(Append(s, x), e) = Append(Win(s, x.outer), e)
  <1> DEFINE s2 == Append(s, x)
             w == Win(s, x.outer)
             w2 == Win(s2, e)
  <1>1. x.outer \in Mem
    BY DEF Scope
  <1>2. /\ s2 \in Seq(Scope) /\ Len(s2) = Len(s) + 1 /\ Len(s) \in Nat
        /\ s2[Len(s) + 1] = x /\ \A i \in 1 .. Len(s) : s2[i] = s[i]
    BY AppendFacts
  <1>3. /\ w \in Seq(Mem) /\ Len(w) = Len(s) + 1 /\ w[Len(s) + 1] = x.outer
        /\ \A i \in 1 .. Len(s) : w[i] = s[i].outer
    BY <1>1, WinFacts
  <1>4. /\ w2 \in Seq(Mem) /\ Len(w2) = Len(s) + 2 /\ w2[Len(s) + 2] = e
        /\ \A i \in 1 .. Len(s) + 1 : w2[i] = s2[i].outer
    <2> HIDE DEF s2
    <2>1. /\ w2 \in Seq(Mem) /\ Len(w2) = Len(s2) + 1 /\ w2[Len(s2) + 1] = e
          /\ \A i \in 1 .. Len(s2) : w2[i] = s2[i].outer
      BY <1>2, WinFacts
    <2> QED
      BY <2>1, <1>2
  <1> HIDE DEF w, w2, s2
  <1>5. /\ Append(w, e) \in Seq(Mem) /\ Len(Append(w, e)) = Len(s) + 2
        /\ Append(w, e)[Len(s) + 2] = e
        /\ \A i \in 1 .. Len(s) + 1 : Append(w, e)[i] = w[i]
    BY <1>3, <1>2, AppendFacts
  <1>6. \A i \in 1 .. Len(s) + 2 : w2[i] = Append(w, e)[i]
    BY <1>2, <1>3, <1>4, <1>5
  <1>7. w2 = Append(w, e)
    BY <1>2, <1>4, <1>5, <1>6, SeqEqual
  <1>8. QED
    BY <1>7 DEF w, w2, s2

\* Closing the innermost window takes its end off the stack.
LEMMA WinInner ==
    ASSUME NEW s \in Seq(Scope), s # <<>>, NEW e \in Mem
    PROVE  Win(SubSeq(s, 1, Len(s) - 1), s[Len(s)].outer)
           = SubSeq(Win(s, e), 1, Len(Win(s, e)) - 1)
  <1> DEFINE n == Len(s)
             t == SubSeq(s, 1, n - 1)
             w == Win(s, e)
             v == Win(t, s[n].outer)
  <1>1. /\ t \in Seq(Scope) /\ Len(t) = n - 1 /\ n \in Nat \ {0}
        /\ \A i \in 1 .. n - 1 : t[i] = s[i]
    BY InnerFacts
  <1>2. s[n].outer \in Mem
    <2>1. s[n] \in Scope
      BY <1>1, ElementOfSeq
    <2> QED
      BY <2>1 DEF Scope
  <1>3. w \in Seq(Mem) /\ Len(w) = n + 1 /\ \A i \in 1 .. n : w[i] = s[i].outer
    BY WinFacts
  <1> HIDE DEF t
  <1>4. /\ v \in Seq(Mem) /\ Len(v) = Len(t) + 1 /\ v[Len(t) + 1] = s[n].outer
        /\ \A i \in 1 .. Len(t) : v[i] = t[i].outer
    BY <1>1, <1>2, WinFacts
  <1> HIDE DEF w, v
  <1>5. /\ SubSeq(w, 1, n) \in Seq(Mem) /\ Len(SubSeq(w, 1, n)) = n
        /\ \A i \in 1 .. n : SubSeq(w, 1, n)[i] = w[i]
    BY <1>1, <1>3, PrefixFacts
  <1>6. \A i \in 1 .. n : v[i] = SubSeq(w, 1, n)[i]
    BY SMTT(30), <1>1, <1>3, <1>4, <1>5
  <1>7. v = SubSeq(w, 1, n)
    BY <1>1, <1>4, <1>5, <1>6, SeqEqual
  <1>8. Len(w) - 1 = n
    BY <1>1, <1>3
  <1>9. QED
    BY <1>7, <1>8 DEF v, w, t

LEMMA RefineInit == Init => W!Init
  <1> SUFFICES ASSUME Init PROVE W!Init
    OBVIOUS
  <1>1. Len(scopes) = 0 /\ DOMAIN scopes = {}
    BY DEF Init
  <1>2. [i \in 1 .. Len(scopes) + 1 |-> IF i \in DOMAIN scopes THEN scopes[i].outer ELSE end]
        = <<end>>
    BY <1>1
  <1>3. QED
    BY <1>2 DEF Init, W!Init, Mem

\* Steps that change neither the open windows nor the end are moves of the
\* codec inside the current window.
LEMMA RefineMove ==
    ASSUME TypeOK, start' = start, end' = end, scopes' = scopes,
           cursor' \in start .. end
    PROVE  [W!Next]_(W!wvars)
  <1>1. Len(Win(scopes, end)) = Len(scopes) + 1 /\ Win(scopes, end)[Len(scopes) + 1] = end
    BY WinFacts DEF TypeOK
  <1>2. W!Move
    BY <1>1 DEF W!Move, W!Limit, Win
  <1>3. QED
    BY <1>2 DEF W!Next

LEMMA RefinePush ==
    ASSUME ~Deferred, IInv, NEW n \in Mem, PushSize(n, TRUE)
    PROVE  [W!Next]_(W!wvars)
  <1>1. TypeOK /\ TypeOK' /\ WindowsNested
    BY PushSizeIInv DEF IInv, Bookkeeping, Immediate
  <1>2. start \in Nat /\ cursor \in Nat /\ end \in Nat /\ start <= cursor /\ cursor <= end
    BY <1>1 DEF TypeOK, Mem, WindowsNested
  <1>3. CASE ~(cursor + n <= end)
    BY <1>1, <1>2, <1>3, RefineMove DEF PushSize, Throw
  <1>4. CASE cursor + n <= end
    <2> DEFINE e == [index |-> eobIndex, commited |-> TRUE, outer |-> end]
    <2>1. /\ end' = cursor + n
          /\ scopes' = Append(scopes, e)
          /\ UNCHANGED <<start, cursor>>
      BY <1>4 DEF PushSize
    <2>2. e \in Scope /\ e.outer = end /\ end' \in Mem
      BY <1>1 DEF TypeOK, Scope
    <2>3. Win(scopes', end') = Append(Win(scopes, end), end')
      BY <2>1, <2>2, <1>1, WinAppend DEF TypeOK
    <2>4. Len(Win(scopes, end)) = Len(scopes) + 1 /\ Win(scopes, end)[Len(scopes) + 1] = end
      BY <1>1, WinFacts DEF TypeOK
    <2>5. end' \in cursor .. end
      BY <1>2, <1>4, <2>1 DEF Mem
    <2>6. W!Open
      BY <2>1, <2>3, <2>4, <2>5 DEF W!Open, W!Limit, Win
    <2> QED
      BY <2>6 DEF W!Next
  <1> QED
    BY <1>3, <1>4

LEMMA RefineClose ==
    ASSUME ~Deferred, IInv, CloseScope
    PROVE  [W!Next]_(W!wvars)
  <1>1. TypeOK /\ Immediate
    BY DEF IInv, Bookkeeping
  <1>2. /\ scopes' = SubSeq(scopes, 1, Len(scopes) - 1)
        /\ scopes # <<>>
        /\ UNCHANGED <<start, cursor>>
        /\ Len(scopes) \in Nat \ {0}
    BY <1>1, InnerFacts DEF CloseScope, Inner, TypeOK
  <1>3. end' = scopes[Len(scopes)].outer
    BY <1>1, <1>2 DEF CloseScope, Innermost, Immediate, SlotsKeepOuter, TypeOK
  <1>4. Win(scopes', end') = SubSeq(Win(scopes, end), 1, Len(Win(scopes, end)) - 1)
    BY <1>1, <1>2, <1>3, WinInner DEF TypeOK
  <1>5. Len(Win(scopes, end)) > 1
    BY <1>1, <1>2, WinFacts DEF TypeOK
  <1>6. W!Close
    BY <1>2, <1>4, <1>5 DEF W!Close, Win
  <1>7. QED
    BY <1>6 DEF W!Next

LEMMA RefineRestart ==
    ASSUME TypeOK, NEW p \in Mem, NEW s \in Mem, ResetTo(p, s)
    PROVE  [W!Next]_(W!wvars)
  <1>1. /\ scopes = <<>> /\ scopes' = <<>>
        /\ start' = p /\ cursor' = p /\ end' = p + s
        /\ p + s <= MemSize
    BY DEF ResetTo
  <1>2. Win(scopes, end) = <<end>> /\ Win(scopes', end') = <<end'>>
    BY <1>1 DEF Win
  <1>3. end' \in start' .. MemSize /\ start' \in 0 .. MemSize
    BY <1>1 DEF Mem
  <1>4. W!Restart
    BY <1>1, <1>2, <1>3 DEF W!Restart, Win
  <1>5. QED
    BY <1>4 DEF W!Next

LEMMA RefineNext ==
    ASSUME ~Deferred, IInv, [Next]_vars
    PROVE  [W!Next]_(W!wvars)
  <1>1. TypeOK /\ WindowsNested /\ LookAheadBehind /\ SlotsKeepOuter
    BY DEF IInv, Bookkeeping, Immediate
  <1>2. start \in Nat /\ cursor \in Nat /\ end \in Nat /\ start <= cursor /\ cursor <= end
    BY <1>1 DEF TypeOK, Mem, WindowsNested
  <1>3. ASSUME start' = start, end' = end, scopes' = scopes, cursor' = cursor
        PROVE  [W!Next]_(W!wvars)
    BY <1>1, <1>2, <1>3, RefineMove
  <1>4. CASE Throw \/ UNCHANGED vars
    BY <1>3, <1>4 DEF Throw, vars
  <1>5. ASSUME NEW n \in Mem, PushSize(n, TRUE) PROVE [W!Next]_(W!wvars)
    BY <1>5, RefinePush
  <1>6. ASSUME NEW d \in Mem, Commit(d) PROVE FALSE
    BY <1>1, <1>6, InnerFacts DEF Commit, Innermost, SlotsKeepOuter, TypeOK
  <1>7. CASE CloseScope
    BY <1>7, RefineClose
  <1>8. CASE Catch \/ PushState
    BY <1>3, <1>8 DEF Catch, PushState
  <1>9. CASE Pop
    BY <1>1, <1>2, <1>4, <1>9, RefineMove DEF Pop
  <1>10. ASSUME NEW need \in Mem, NEW move \in {need, need - 1} \cap Mem, Advance(need, move)
         PROVE  [W!Next]_(W!wvars)
    <2>1. CASE Throw
      BY <2>1, <1>4
    <2>2. CASE ~Throw
      <3>1. /\ start' = start /\ end' = end /\ scopes' = scopes
            /\ cursor' = cursor + move /\ need <= end - cursor
        BY <2>2, <1>2, <1>10 DEF Advance, Mem
      <3>2. cursor' \in start .. end
        BY <3>1, <1>2 DEF Mem
      <3> QED
        BY <3>1, <3>2, <1>1, RefineMove
    <2> QED
      BY <2>1, <2>2
  <1>11. CASE PopState
    <2>1. cursor' \in start .. end /\ start' = start /\ end' = end /\ scopes' = scopes
      BY <1>1, <1>2, <1>11 DEF PopState, LookAheadBehind, TypeOK, Mem
    <2> QED
      BY <2>1, <1>1, RefineMove
  <1>12. CASE Reset
    BY <1>1, <1>2, <1>12, RefineMove DEF Reset
  <1>13. ASSUME NEW p \in Mem, NEW s \in Mem, ResetTo(p, s) PROVE [W!Next]_(W!wvars)
    BY <1>1, <1>13, RefineRestart
  <1> QED
    BY <1>4, <1>5, <1>6, <1>7, <1>8, <1>9, <1>10, <1>11, <1>12, <1>13 DEF Next, Raise

\* With immediate lengths the buffer implements the stack of windows.
THEOREM Refinement ==
    ASSUME ~Deferred
    PROVE  Spec => ImplementsWindowStack
  BY RefineInit, RefineNext, Invariance, PTL DEF Spec, W!Spec, ImplementsWindowStack
=============================================================================
