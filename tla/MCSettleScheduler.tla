------------------------- MODULE MCSettleScheduler -------------------------
(* Bounds for TLC: the queue holds up to three of the four requests, so a  *)
(* waiter can be passed over, served out of turn, or expire between others.*)
EXTENDS SettleScheduler
=============================================================================
