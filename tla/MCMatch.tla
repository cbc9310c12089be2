------------------------------ MODULE MCMatch ------------------------------
(* The delays in the order of those of the code, on a coarser clock. *)
EXTENDS Match
=============================================================================
