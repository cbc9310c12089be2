------------------------------ MODULE MCGoalFifo -----------------------------
(***************************************************************************)
(* Bounds for TLC: three slots, so that the buffer wraps around, is full   *)
(* and is empty at every index; two kinds of goals and three ids.          *)
(***************************************************************************)
EXTENDS GoalFifo

MCIds == 0 .. 2
=============================================================================
