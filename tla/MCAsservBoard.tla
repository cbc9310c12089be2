----------------------------- MODULE MCAsservBoard ---------------------------
(***************************************************************************)
(* Bounds for TLC: a list of two slots, so that it wraps around, is full   *)
(* for GOTOA and reuses slot 0 after a clean; three goal orders.           *)
(***************************************************************************)
EXTENDS AsservBoard

MCIds == 0 .. MaxOrders
MCData == {0, 1}
MCBackData == {-1, 0}
=============================================================================
