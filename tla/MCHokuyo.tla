------------------------------ MODULE MCHokuyo ------------------------------
(* Two programs, one after the other; three lines lost, cut or on stderr,  *)
(* and three strays between two of them.                                   *)
EXTENDS Hokuyo
=============================================================================
