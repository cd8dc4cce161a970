------------------------------ MODULE MCTimeLog ------------------------------
(* TimeLog for TLC: a threshold is one unit of the clock, or three (the     *)
(* comparisons are strict, so the user is away after two, or four).         *)
EXTENDS TimeLog

CONSTANT Other  \* a second task name

Short == [stopTimeMs |-> 1, startTimeMs |-> 1, idleDuringStartTimeMs |-> 1]
Long == [stopTimeMs |-> 3, startTimeMs |-> 1, idleDuringStartTimeMs |-> 1]

OneChoice == {Short}
OnlyLong == {Long}
=============================================================================
