-------------------------- MODULE MCGatewayPayments --------------------------
(* Two requests carry the same payment, a third one another; two requests  *)
(* may be admitted at a time, and the process dies once.                   *)
EXTENDS GatewayPayments

CONSTANTS r1, r2, r3, p1, p2

MCPaymentOf == [r \in Requests |-> IF r = r3 THEN p2 ELSE p1]
=============================================================================
