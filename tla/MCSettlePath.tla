---------------------------- MODULE MCSettlePath ----------------------------
(* Three calls over two signers.  Two calls post the same upto payment,    *)
(* which only signer s1 may settle; the third posts an exact payment that  *)
(* takes any signer and may meet ledger skew once.                         *)
EXTENDS SettlePath

CONSTANTS s1, s2, c1, c2, c3, upto, exact

MCRequests == Calls \X (0..Retries)
MCPaymentOf == [c \in Calls |-> IF c = c3 THEN exact ELSE upto]
MCFacilitatorOf == [p \in Payments |-> IF p = upto THEN s1 ELSE None]
=============================================================================
