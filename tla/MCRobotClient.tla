--------------------------- MODULE MCRobotClient ---------------------------
(* Two orders for the extension and two starts of the robot. *)
EXTENDS RobotClient
=============================================================================
