---------------------------- MODULE MCPathfinding ----------------------------
(* Two kinds of query stand for the two robots. *)
EXTENDS Pathfinding
=============================================================================
