------------------------------ MODULE MCIdleDialog ----------------------------
(* Days for IdleDialog: one in January, one that the month before does not  *)
(* have, and two that it has.                                               *)
EXTENDS IdleDialog

SomeDates == {<<0, 15>>, <<2, 31>>, <<5, 10>>, <<3, 30>>}
=============================================================================
