---------------------------- MODULE MCAsservClient ----------------------------
(* The orders of one or two paths of a robot. *)
EXTENDS AsservClient

(* A path that no message or setting follows, for the longer runs that     *)
(* three collisions need.                                                  *)
OnlyMoves ==
  /\ client.messages = <<>>
  /\ \A i \in 1 .. Len(client.fifo) : client.fifo[i].kind \in {"move", "nothing"}
  /\ \A o \in ToSet(line) : o.kind = "setting" => o.nr = 0

MovesSpec == Init /\ [][Next /\ OnlyMoves']_vars
=============================================================================
