------------------------------- MODULE Buffer -------------------------------
(***************************************************************************)
(* The state behind every octet codec of med: class med::buffer with its   *)
(* RAII helper size_state (med/buffer.hpp).                                *)
(*                                                                         *)
(* Pointers are positions 0 .. MemSize of the memory that holds the        *)
(* messages.  A codec opens a window (push_size) for every length it       *)
(* meets; the size_state it gets back lives on the C++ stack, so the live  *)
(* ones form a stack ("scopes") that is closed in LIFO order, also when an *)
(* exception unwinds it.  A window is either committed at once (the length *)
(* was read first) or pending (an explicit or a dependent length), and     *)
(* then committed later or never.                                          *)
(***************************************************************************)
EXTENDS Integers, Sequences

CONSTANTS MemSize,     \* positions of memory
          LenDepth,    \* LEN_DEPTH: slots of m_eob
          Nesting,     \* deepest nesting of length fields in the message type
          Deferred,    \* does the message type have explicit/dependent lengths
          NoState      \* the null cursor

ASSUME MemAssumption == MemSize \in Nat
ASSUME DepthAssumption == /\ LenDepth \in Nat
                          /\ Nesting \in 0 .. LenDepth
ASSUME DeferredAssumption == Deferred \in BOOLEAN
ASSUME NoStateAssumption == NoState \notin 0 .. MemSize

VARIABLES start,       \* m_start
          cursor,      \* m_state.cursor
          end,         \* m_end
          store,       \* m_store.cursor, the one remembered position
          eob,         \* m_eob
          eobIndex,    \* m_eob_index
          scopes,      \* the live size_state objects, outermost first
          looked,      \* push_state() succeeded since this message was begun
          throwing     \* an exception is unwinding the codec

vars == <<start, cursor, end, store, eob, eobIndex, scopes, looked, throwing>>

Mem == 0 .. MemSize
Slots == 0 .. LenDepth - 1

\* size_state; "outer" records, for the properties, the end that was current
\* when the window was opened.
Scope == [index : Nat, commited : BOOLEAN, outer : Mem]

Innermost == scopes[Len(scopes)]
Inner == SubSeq(scopes, 1, Len(scopes) - 1)

\* A store to m_eob[i]; one past the array changes nothing the model keeps.
SetSlot(i, p) == [j \in Slots |-> IF j = i THEN p ELSE eob[j]]

Init ==
    /\ start \in Mem
    /\ cursor = start
    /\ end \in start .. MemSize
    /\ store = NoState
    /\ eob = [i \in Slots |-> 0]     \* nullptr; no slot is read before it is written
    /\ eobIndex = 0
    /\ scopes = <<>>
    /\ looked = FALSE
    /\ throwing = FALSE

-----------------------------------------------------------------------------
Throw ==
    /\ throwing' = TRUE
    /\ looked' = FALSE
    /\ UNCHANGED <<start, cursor, end, store, eob, eobIndex, scopes>>

\* Slips PushSize could make: the window checked against the memory instead of
\* the current end, the new end saved instead of the one to go back to, and a
\* pending window that does not take its slot.
PushSizeOfMemory(n, commit) ==
    /\ ~throwing
    /\ Len(scopes) < Nesting
    /\ cursor + n <= MemSize
    /\ eob' = SetSlot(eobIndex, IF commit THEN end ELSE cursor + n)
    /\ end' = IF commit THEN cursor + n ELSE end
    /\ scopes' = Append(scopes, [index |-> eobIndex, commited |-> commit, outer |-> end])
    /\ eobIndex' = eobIndex + 1
    /\ UNCHANGED <<start, cursor, store, looked, throwing>>

PushSizeSavingNew(n, commit) ==
    /\ ~throwing /\ commit
    /\ Len(scopes) < Nesting
    /\ cursor + n <= end
    /\ eob' = SetSlot(eobIndex, cursor + n)
    /\ end' = cursor + n
    /\ scopes' = Append(scopes, [index |-> eobIndex, commited |-> TRUE, outer |-> end])
    /\ eobIndex' = eobIndex + 1
    /\ UNCHANGED <<start, cursor, store, looked, throwing>>

PushSizeSharingSlot(n, commit) ==
    /\ ~throwing
    /\ Len(scopes) < Nesting
    /\ eobIndex < LenDepth
    /\ cursor + n <= end
    /\ eob' = SetSlot(eobIndex, IF commit THEN end ELSE cursor + n)
    /\ end' = IF commit THEN cursor + n ELSE end
    /\ scopes' = Append(scopes, [index |-> eobIndex, commited |-> commit, outer |-> end])
    /\ eobIndex' = IF commit THEN eobIndex + 1 ELSE eobIndex
    /\ UNCHANGED <<start, cursor, store, looked, throwing>>

\* push_size(n, commit_): the window of the next n octets.
\* Bound: once deferred lengths have filled m_eob, no further one is followed.
PushSize(n, commit) ==
    /\ ~throwing
    /\ Len(scopes) < Nesting
    /\ Deferred => eobIndex < LenDepth
    /\ IF cursor + n <= end
       THEN /\ eob' = SetSlot(eobIndex, IF commit THEN end ELSE cursor + n)
            /\ end' = IF commit THEN cursor + n ELSE end
            /\ scopes' = Append(scopes, [index |-> eobIndex,
                                         commited |-> commit, outer |-> end])
            /\ eobIndex' = eobIndex + 1
            /\ UNCHANGED <<start, cursor, store, looked, throwing>>
       ELSE Throw

\* commit_end(ss, delta) on the innermost window, once its length is known.
\* Bound: ends beyond the modelled memory are not followed.
Commit(delta) ==
    /\ ~throwing
    /\ scopes # <<>>
    /\ ~Innermost.commited
    /\ LET i == Innermost.index
           e == eob[i] + delta
       IN /\ e \in cursor .. MemSize
          /\ \/ /\ i + 1 < eobIndex           \* "adjust the deeper level's ends"
                /\ eob' = [SetSlot(i, eob[i + 1]) EXCEPT ![i + 1] = e]
                /\ UNCHANGED end
             \/ /\ i + 1 >= eobIndex
                /\ end' = e
                /\ eob' = SetSlot(i, IF i > 0 THEN eob[i - 1] ELSE e)
    /\ scopes' = [scopes EXCEPT ![Len(scopes)].commited = TRUE]
    /\ UNCHANGED <<start, cursor, store, eobIndex, looked, throwing>>

\* A slip: the end is only restored on the normal path, not while unwinding.
CloseScopeNotUnwinding ==
    /\ scopes # <<>>
    /\ scopes' = Inner
    /\ IF Innermost.commited /\ ~throwing
       THEN /\ end' = eob[Innermost.index]
            /\ eobIndex' = eobIndex - 1
       ELSE UNCHANGED <<end, eobIndex>>
    /\ UNCHANGED <<start, cursor, store, eob, looked, throwing>>

\* ~size_state, or restore_end() called on it before its time is over.
CloseScope ==
    /\ scopes # <<>>
    /\ scopes' = Inner
    /\ IF Innermost.commited
       THEN /\ end' = eob[Innermost.index]
            /\ eobIndex' = eobIndex - 1
       ELSE UNCHANGED <<end, eobIndex>>
    /\ UNCHANGED <<start, cursor, store, eob, looked, throwing>>

\* The codec reports an error of its own: an arity, a tag, octets left over.
Raise == ~throwing /\ Throw

\* The caller of decode() catches the exception.
Catch ==
    /\ throwing
    /\ scopes = <<>>
    /\ throwing' = FALSE
    /\ UNCHANGED <<start, cursor, end, store, eob, eobIndex, scopes, looked>>

-----------------------------------------------------------------------------
\* A slip: one octet more than empty() allows.
PopAtEnd ==
    /\ ~throwing
    /\ cursor <= end
    /\ cursor' = cursor + 1
    /\ UNCHANGED <<start, end, store, eob, eobIndex, scopes, looked, throwing>>

\* push, pop: one octet, guarded by empty().
Pop ==
    /\ ~throwing
    /\ IF cursor < end
       THEN /\ cursor' = cursor + 1
            /\ UNCHANGED <<start, end, store, eob, eobIndex, scopes,
                           looked, throwing>>
       ELSE Throw

\* advance, advance_bits, fill: "need" octets must be left and the cursor
\* moves over "move" of them.  size() is unsigned: with the cursor past the
\* end it is huge.  Bound: no position beyond the modelled memory.
Advance(need, move) ==
    /\ ~throwing
    /\ IF end - cursor \in 0 .. need - 1
       THEN Throw
       ELSE /\ cursor + move \in Mem
            /\ cursor' = cursor + move
            /\ UNCHANGED <<start, end, store, eob, eobIndex, scopes,
                           looked, throwing>>

\* A slip: the state is remembered after the tag was read, not before.
PushStateLate ==
    /\ ~throwing
    /\ \/ cursor < end /\ store' = cursor + 1 /\ looked' = TRUE
       \/ cursor >= end /\ store' = NoState /\ UNCHANGED looked
    /\ UNCHANGED <<start, cursor, end, eob, eobIndex, scopes, throwing>>

\* push_state() before a tag is read ahead.
PushState ==
    /\ ~throwing
    /\ \/ cursor < end /\ store' = cursor /\ looked' = TRUE
       \/ cursor >= end /\ store' = NoState /\ UNCHANGED looked
    /\ UNCHANGED <<start, cursor, end, eob, eobIndex, scopes, throwing>>

\* pop_state().  A codec only calls it for a tag it has read ahead in this
\* message; in between the one remembered position may have been given up, or
\* overwritten by the containers inside.
PopState ==
    /\ ~throwing
    /\ looked
    /\ cursor' = IF store # NoState THEN store ELSE cursor
    /\ store' = NoState
    /\ UNCHANGED <<start, end, eob, eobIndex, scopes, looked, throwing>>

\* reset() of the context between messages: back to the same memory ...
Reset ==
    /\ ~throwing
    /\ scopes = <<>>
    /\ cursor' = start
    /\ looked' = FALSE
    /\ UNCHANGED <<start, end, store, eob, eobIndex, scopes, throwing>>

\* ... or reset(p, s): on to other memory.
ResetTo(p, s) ==
    /\ ~throwing
    /\ scopes = <<>>
    /\ p + s <= MemSize
    /\ start' = p
    /\ cursor' = p
    /\ end' = p + s
    /\ looked' = FALSE
    /\ UNCHANGED <<store, eob, eobIndex, scopes, throwing>>

Next ==
    \/ \E n \in Mem : PushSize(n, TRUE)
    \/ Deferred /\ \E n \in Mem : PushSize(n, FALSE)
    \/ \E d \in Mem : Commit(d)
    \/ CloseScope
    \/ Raise
    \/ Catch
    \/ Pop
    \/ \E need \in Mem : \E move \in {need, need - 1} \cap Mem : Advance(need, move)
    \/ PushState
    \/ PopState
    \/ Reset
    \/ \E p, s \in Mem : ResetTo(p, s)

Spec == Init /\ [][Next]_vars

-----------------------------------------------------------------------------
TypeOK ==
    /\ start \in Mem
    /\ cursor \in Mem
    /\ end \in Mem
    /\ store \in Mem \cup {NoState}
    /\ eob \in [Slots -> Mem]
    /\ eobIndex \in Nat
    /\ scopes \in Seq(Scope)
    /\ looked \in BOOLEAN
    /\ throwing \in BOOLEAN

\* The codec never stands outside of the window it decodes, and every open
\* window lies inside the ones that enclose it: the check in push_size and
\* the ends kept in m_eob together.
WindowsNested ==
    /\ start <= cursor
    /\ cursor <= end
    /\ \A i \in DOMAIN scopes : end <= scopes[i].outer
    /\ \A i, j \in DOMAIN scopes : i < j => scopes[j].outer <= scopes[i].outer

\* A tag read ahead can be put back: the remembered position is one of this
\* message and not ahead of the cursor, whatever windows were opened and closed
\* meanwhile and whatever position an earlier message left behind.
LookAheadBehind ==
    looked /\ store # NoState => start <= store /\ store <= cursor

\* m_eob_index counts the open windows, so a message type whose lengths nest
\* at most LEN_DEPTH deep never indexes past m_eob, in this message or in the
\* next one, whatever exceptions ended the earlier messages.
IndexCountsScopes ==
    /\ eobIndex = Len(scopes)
    /\ eobIndex <= LenDepth

\* No window that is still open shares its slot of m_eob with another one or
\* has it handed out again by the next push_size, even after pending windows
\* were dropped.
SlotsOwned ==
    /\ \A i \in DOMAIN scopes : scopes[i].index < eobIndex
    /\ \A i, j \in DOMAIN scopes : i < j => scopes[i].index < scopes[j].index

\* buffer.hpp:57 "memorizing current end to rollback in dtor": closing a
\* window brings back the end that was current when it was opened.
CloseRestores ==
    [][\A i \in DOMAIN scopes :
          scopes' = Inner /\ i = Len(scopes) => end' = scopes[i].outer]_vars

\* The buffer implements the stack of windows.
W == INSTANCE WindowStack WITH
        low <- start,
        pos <- cursor,
        windows <- [i \in 1 .. Len(scopes) + 1 |->
                       IF i \in DOMAIN scopes THEN scopes[i].outer ELSE end]

ImplementsWindowStack == W!Spec
=============================================================================
