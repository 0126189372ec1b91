------------------------------ MODULE History -------------------------------
(***************************************************************************)
(* What undo and redo promise a sender: one line of versions and a place   *)
(* on it.  An edit forgets what was undone and, when the line is full, the *)
(* oldest versions; going back and forth changes no version.               *)
(***************************************************************************)
EXTENDS Integers, Sequences

CONSTANTS Limit     \* versions kept besides the one on screen

VARIABLES
    line,           \* the versions, oldest first
    at              \* the one on screen

vars == <<line, at>>

TypeOK == at \in 1 .. Len(line) /\ Len(line) <= Limit + 1

Init == Len(line) = 1 /\ at = 1

\* A new version after this one; the oldest may drop off.
Edit(v) ==
    \E oldest \in 1 .. at :
        /\ line' = Append(SubSeq(line, oldest, at), v)
        /\ Len(line') <= Limit + 1
        /\ oldest = 1 \/ Len(line') = Limit + 1
        /\ at' = Len(line')

\* Dragging changes the version on screen in place.
Drag(v) ==
    /\ line' = [line EXCEPT ![at] = v]
    /\ UNCHANGED at

Back == at > 1 /\ at' = at - 1 /\ UNCHANGED line
Forth == at < Len(line) /\ at' = at + 1 /\ UNCHANGED line

Next ==
    \/ Back
    \/ Forth
    \/ Edit(line'[at'])
    \/ Drag(line'[at'])

Spec == Init /\ [][Next]_vars
=============================================================================
