---------------------------- MODULE SignerLease ----------------------------
(***************************************************************************)
(* What the settlement scheduler promises its callers, with no queue in    *)
(* it.  A signer account is one exclusive resource: it is held by at most  *)
(* one settlement, a settlement holds a signer at most once, a withdrawn   *)
(* signer is given to nobody, and no signer is ever lost from the pool.    *)
(*                                                                         *)
(* holder[s] is the SET of settlements that hold s, so that an             *)
(* implementation which leases s twice has no image here.                  *)
(***************************************************************************)
CONSTANTS
    Signers,    \* the addresses a facilitator may be configured with
    Requests    \* the settlements that may ask for a signer

VARIABLES
    pool,       \* the configured signers
    holder,     \* [Signers -> SUBSET Requests]
    withdrawn,  \* signers kept back until their last transaction is resolved
    served      \* settlements that have been given a signer

vars == <<pool, holder, withdrawn, served>>

Free(s) == s \in pool \ withdrawn /\ holder[s] = {}

Init ==
    /\ pool = {}
    /\ holder = [s \in Signers |-> {}]
    /\ withdrawn = {}
    /\ served = {}

(* The pool may be chosen until the first settlement has been served.      *)
Configure(new) ==
    /\ served = {}
    /\ pool' = new
    /\ withdrawn' = withdrawn \cap new
    /\ UNCHANGED <<holder, served>>

(* s passes from whoever held it to h: to nobody, or to one settlement     *)
(* that has never held a signer.                                           *)
PassTo(s, h) ==
    /\ h = {} \/ \E r \in Requests \ served : h = {r}
    /\ holder' = [holder EXCEPT ![s] = h]
    /\ served' = served \cup h

Take(s) ==
    /\ Free(s)
    /\ \E r \in Requests : PassTo(s, {r})
    /\ UNCHANGED <<pool, withdrawn>>

GiveBack(s) ==
    /\ holder[s] # {}
    /\ PassTo(s, {}) \/ \E r \in Requests : PassTo(s, {r})
    /\ UNCHANGED <<pool, withdrawn>>

Withdraw(s) ==
    /\ holder[s] # {}
    /\ withdrawn' = withdrawn \cup {s}
    /\ PassTo(s, {})
    /\ UNCHANGED pool

Restore(s) ==
    /\ s \in withdrawn
    /\ withdrawn' = withdrawn \ {s}
    /\ PassTo(s, {}) \/ \E r \in Requests : PassTo(s, {r})
    /\ UNCHANGED pool

Next ==
    \/ \E new \in SUBSET Signers : Configure(new)
    \/ \E s \in Signers : Take(s) \/ GiveBack(s) \/ Withdraw(s) \/ Restore(s)

Spec == Init /\ [][Next]_vars
=============================================================================
