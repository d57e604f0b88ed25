---------------------------- MODULE MeteredCharge ----------------------------
(***************************************************************************)
(* What the upto settlement contract promises (the module comment of       *)
(* contracts/upto-settlement/src/lib.rs): an authorization a payer signed  *)
(* is charged at most once, inside its window, at most its ceiling, and    *)
(* the charge moves exactly that amount from the payer to the recipient.   *)
(***************************************************************************)
EXTENDS Integers

CONSTANTS
    Holders,    \* whoever can hold a token
    Tokens,
    Signable    \* <<payer, terms>> pairs a payer may sign

VARIABLES
    ledger,     \* current ledger sequence
    signed,     \* authorizations handed out
    charge,     \* amount charged under each authorization, -1 before
    funds       \* balances, per token and holder

Moved(b, from, to, n) ==
    [h \in Holders |->
        b[h] - (IF h = from THEN n ELSE 0) + (IF h = to THEN n ELSE 0)]

Start ==
    /\ ledger = 0
    /\ signed = {}
    /\ charge = [a \in Signable |-> -1]
    /\ funds \in [Tokens -> [Holders -> Nat]]

Close == ledger' \in Nat /\ ledger' > ledger /\ UNCHANGED <<signed, charge, funds>>

Sign(a) == signed' = signed \cup {a} /\ UNCHANGED <<ledger, charge, funds>>

(* The only way anyone but a holder moves its tokens.                      *)
Charge(p, t, n) ==
    /\ <<p, t>> \in signed
    /\ charge[<<p, t>>] = -1
    /\ t.valid_after <= ledger /\ ledger <= t.deadline
    /\ 0 <= n /\ n <= t.max_amount
    /\ charge' = [charge EXCEPT ![<<p, t>>] = n]
    /\ funds' = [funds EXCEPT ![t.token] = Moved(@, p, t.pay_to, n)]
    /\ UNCHANGED <<ledger, signed>>

(* A holder spends what it has; the token may keep a fee.                  *)
Spend(k, from, to, n, kept) ==
    /\ kept <= n /\ n <= funds[k][from]
    /\ funds' = [funds EXCEPT ![k] =
                    [h \in Holders |->
                        @[h] - (IF h = from THEN n ELSE 0)
                             + (IF h = to THEN n - kept ELSE 0)]]
    /\ UNCHANGED <<ledger, signed, charge>>

Next ==
    \/ Close
    \/ \E a \in Signable : Sign(a)
    \/ \E a \in Signable : \E n \in 0..a[2].max_amount : Charge(a[1], a[2], n)
    \/ \E k \in Tokens : \E from, to \in Holders :
        \E n \in 1..funds[k][from] : \E kept \in 0..n : Spend(k, from, to, n, kept)

Spec == Start /\ [][Next]_<<ledger, signed, charge, funds>>
=============================================================================
