---------------------------- MODULE WindowStack ----------------------------
(***************************************************************************)
(* What med::buffer promises the codecs built on it: a position that moves *)
(* inside a stack of windows.  The bottom window is the message; every     *)
(* window opened by a length field lies inside the one that encloses it,   *)
(* a window may only be narrowed while it is open, and closing it gives    *)
(* back exactly the window that was current when it was opened.            *)
(***************************************************************************)
EXTENDS Integers, Sequences

CONSTANT MemSize       \* positions are 0 .. MemSize

VARIABLES low,         \* where the message starts
          pos,         \* the position of the codec
          windows      \* the ends of the open windows, outermost first

wvars == <<low, pos, windows>>

Limit == windows[Len(windows)]

Init ==
    /\ low \in 0 .. MemSize
    /\ pos = low
    /\ \E e \in low .. MemSize : windows = <<e>>

\* Reading, writing, peeking and going back to a remembered place.
Move ==
    /\ pos' \in low .. Limit
    /\ UNCHANGED <<low, windows>>

Open ==
    /\ \E e \in pos .. Limit : windows' = Append(windows, e)
    /\ UNCHANGED <<low, pos>>

\* A window whose size becomes known after it was opened.
Narrow ==
    /\ Len(windows) > 1
    /\ \E e \in pos .. Limit : windows' = [windows EXCEPT ![Len(windows)] = e]
    /\ UNCHANGED <<low, pos>>

Close ==
    /\ Len(windows) > 1
    /\ windows' = SubSeq(windows, 1, Len(windows) - 1)
    /\ UNCHANGED <<low, pos>>

\* A new message; only between messages.
Restart ==
    /\ Len(windows) = 1
    /\ low' \in 0 .. MemSize
    /\ pos' = low'
    /\ \E e \in low' .. MemSize : windows' = <<e>>

Next == Move \/ Open \/ Narrow \/ Close \/ Restart

Spec == Init /\ [][Next]_wvars
=============================================================================
