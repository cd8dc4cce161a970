--------------------------- MODULE MCIdleTracking ---------------------------
(* IdleTracking for TLC.  Two settings of the thresholds: in the first     *)
(* every period is the minimum, in the second the three periods differ.    *)
EXTENDS IdleTracking

Short == [stopTimeMs |-> 2, startTimeMs |-> 2, idleDuringStartTimeMs |-> 1]
Long == [stopTimeMs |-> 9, startTimeMs |-> 4, idleDuringStartTimeMs |-> 2]

Choices == {Short, Long}
OneChoice == {Short}
=============================================================================
