--------------------------- MODULE UptoSettlement ---------------------------
(***************************************************************************)
(* The upto settlement contract (contracts/upto-settlement/src/lib.rs) on  *)
(* its ledger: payers sign authorizations with a ceiling, a facilitator    *)
(* settles the amount used, and the contract pulls the ceiling, pays the   *)
(* recipient and refunds the rest in one invocation.                       *)
(*                                                                         *)
(* An invocation that panics has no effect, so every check is a guard of   *)
(* Settle.  A facilitator may attest any amount, at any time, as often as  *)
(* it likes, and a signed authorization may be presented again and again:  *)
(* nothing here relies on the nonce of an auth entry.  Tokens need not be  *)
(* well behaved: one may keep a fee, one may not consume an allowance.     *)
(* The terms stand for every field the payer signs, request digest and all.*)
(***************************************************************************)
EXTENDS Integers

CONSTANTS
    Accounts,
    Contract,   \* env.current_contract_address()
    Tokens,
    Ids,        \* settlement ids
    Signable,   \* <<payer, terms>> pairs a payer may sign
    Amounts,    \* amounts a facilitator may attest
    Sends,      \* <<token, from, to, n>>: transfers accounts make themselves
    Approvals,  \* <<token, from, n>>: allowances they grant the contract
    Fee,        \* what each token keeps of every transfer
    Sticky,     \* tokens whose transfer_from leaves the allowance as it was
    Funds,      \* balances at the start
    MinTTL,     \* TTL of a fresh persistent entry
    MaxLedger   \* bound on the ledger sequence

Holders == Accounts \cup {Contract}

PayerTerms ==
    [pay_to : Holders, token : Tokens \cup {Contract}, max_amount : Int,
     valid_after : Nat, deadline : Nat, facilitator : Holders, settlement_id : Ids]

ASSUME ContractAssumption ==
    /\ Contract \notin Accounts
    /\ Signable \subseteq Accounts \X PayerTerms
    /\ Amounts \subseteq Int
    /\ Sends \subseteq Tokens \X Accounts \X Holders \X (Nat \ {0})
    /\ Approvals \subseteq Tokens \X Accounts \X Nat
    /\ Fee \in [Tokens -> Nat]
    /\ Sticky \subseteq Tokens
    /\ Funds \in [Tokens -> [Holders -> Nat]]
    /\ MinTTL \in Nat /\ MaxLedger \in Nat

VARIABLES
    now,         \* env.ledger().sequence()
    authorized,  \* what payers have signed
    guard,       \* last live ledger of each DataKey::Settled entry, -1 if none
    balance,
    allowance,   \* what each account lets the contract spend
    published    \* `actual` of the Settled event of each authorization, or -1

vars == <<now, authorized, guard, balance, allowance, published>>

Init ==
    /\ now = 0
    /\ authorized = {}
    /\ guard = [k \in Accounts \X Ids |-> -1]
    /\ balance = Funds
    /\ allowance = [k \in Tokens |-> [h \in Accounts |-> 0]]
    /\ published = [a \in Signable |-> -1]

----------------------------------------------------------------------------
(* validate, and the attestation being about the same settlement.          *)
Valid(p, t, id, actual) ==
    /\ t.max_amount > 0
    /\ actual >= 0 /\ actual <= t.max_amount
    /\ id = t.settlement_id
    /\ t.valid_after <= t.deadline
    /\ t.valid_after <= now /\ now <= t.deadline
    /\ p # t.facilitator /\ p # Contract
    /\ t.pay_to # Contract
    /\ t.token # Contract

(* Storage may forget an entry past its TTL.  The ledger only archives a   *)
(* persistent one, which is no worse for a replay guard.                   *)
IsSettled(p, id) == guard[<<p, id>>] >= now

(* set and extend_ttl: live until one ledger past the deadline at least.   *)
(* The network's cap on a TTL, about half a year, is out of the model.     *)
GuardUntil(t) ==
    LET ttl == t.deadline - now + 1
    IN  now + (IF ttl > MinTTL THEN ttl ELSE MinTTL)

(* A token moves n and delivers n less its fee.                            *)
Delivered(k, n) == IF n > Fee[k] THEN n - Fee[k] ELSE 0

Transfer(b, k, from, to, n) ==
    [h \in Holders |->
        b[h] - (IF h = from THEN n ELSE 0)
             + (IF h = to THEN Delivered(k, n) ELSE 0)]

(* Mutant of BalancesMoved: only the recipient's balance is checked.       *)
BalancesMovedForPayee(before, after, p, payTo, actual) ==
    after[payTo] = before[payTo] + actual

(* enforce_balance_invariants.                                             *)
BalancesMoved(before, after, p, payTo, actual) ==
    /\ after[Contract] = before[Contract]
    /\ IF p = payTo
          THEN after[p] = before[p]
          ELSE /\ after[p] = before[p] - actual
               /\ after[payTo] = before[payTo] + actual

(* Mutant of AllowanceConsumed: the check is left out.                     *)
AllowanceUnchecked(k) == TRUE

(* The allowance approved for the pull is used up by it.                   *)
AllowanceConsumed(k) == k \notin Sticky

(* The `actual` field of the Settled event.                                *)
Charged(actual) == actual

(* The balances after the pull, the payment and the refund of a settle.    *)
Pulled(p, t) == Transfer(balance[t.token], t.token, p, Contract, t.max_amount)

Paid(p, t, actual) ==
    IF actual > 0 THEN Transfer(Pulled(p, t), t.token, Contract, t.pay_to, actual)
    ELSE Pulled(p, t)

Refunded(p, t, actual) ==
    IF actual < t.max_amount
    THEN Transfer(Paid(p, t, actual), t.token, Contract, p, t.max_amount - actual)
    ELSE Paid(p, t, actual)

(* No check of settle panics.                                              *)
Accepts(p, t, id, actual) ==
    /\ Valid(p, t, id, actual)
    /\ <<p, t>> \in authorized
    /\ ~IsSettled(p, id)
    /\ balance[t.token][p] >= t.max_amount
    /\ Pulled(p, t)[Contract] >= actual
    /\ Paid(p, t, actual)[Contract] >= t.max_amount - actual
    /\ AllowanceConsumed(t.token)
    /\ BalancesMoved(balance[t.token], Refunded(p, t, actual), p, t.pay_to, actual)

(* settle.                                                                 *)
Settle(p, t, id, actual) ==
    /\ Accepts(p, t, id, actual)
    /\ guard' = [guard EXCEPT ![<<p, id>>] = GuardUntil(t)]
    /\ allowance' = [allowance EXCEPT ![t.token][p] =
                        IF t.token \in Sticky THEN t.max_amount ELSE 0]
    /\ balance' = [balance EXCEPT ![t.token] = Refunded(p, t, actual)]
    /\ published' = [published EXCEPT ![<<p, t>>] = Charged(actual)]
    /\ UNCHANGED <<now, authorized>>

----------------------------------------------------------------------------
(* The world around the contract.                                          *)

CloseLedger ==
    /\ now < MaxLedger
    /\ now' = now + 1
    /\ UNCHANGED <<authorized, guard, balance, allowance, published>>

Authorize(a) ==
    /\ a \notin authorized
    /\ authorized' = authorized \cup {a}
    /\ UNCHANGED <<now, guard, balance, allowance, published>>

(* An account spends its own tokens, on the contract's address too.        *)
Send(k, from, to, n) ==
    /\ n <= balance[k][from]
    /\ balance' = [balance EXCEPT ![k] = Transfer(@, k, from, to, n)]
    /\ UNCHANGED <<now, authorized, guard, allowance, published>>

(* A payer approves the contract by itself, which settle must not use.     *)
Approve(k, from, n) ==
    /\ allowance' = [allowance EXCEPT ![k][from] = n]
    /\ UNCHANGED <<now, authorized, guard, balance, published>>

Next ==
    \/ CloseLedger
    \/ \E a \in Signable : Authorize(a)
    \/ \E a \in Signable : \E id \in Ids : \E actual \in Amounts :
        Settle(a[1], a[2], id, actual)
    \/ \E s \in Sends : Send(s[1], s[2], s[3], s[4])
    \/ \E s \in Approvals : Approve(s[1], s[2], s[3])

Spec == Init /\ [][Next]_vars

----------------------------------------------------------------------------
(* Every variable keeps its type; no balance is ever negative.             *)
TypeOK ==
    /\ now \in Nat
    /\ authorized \subseteq Signable
    /\ guard \in [Accounts \X Ids -> Int]
    /\ balance \in [Tokens -> [Holders -> Nat]]
    /\ allowance \in [Tokens -> [Accounts -> Nat]]
    /\ published \in [Signable -> Nat \cup {-1}]

(* "The guard only has to outlive the window in which the authorization    *)
(* could still be presented": an authorization that settled cannot expire  *)
(* from the replay guard before its own deadline, although another one     *)
(* with the same settlement id may have rewritten the entry.               *)
GuardOutlivesWindow ==
    \A a \in Signable : published[a] # -1 =>
        guard[<<a[1], a[2].settlement_id>>] > a[2].deadline

(* "Nothing may be left standing": a settlement leaves the contract no     *)
(* allowance of the payer, not even one the payer had granted by itself.   *)
NothingStanding ==
    [][\A a \in Signable : published'[a] # published[a] =>
            allowance'[a[2].token][a[1]] = 0]_vars

(* The contract implements the one-time metered charge: each authorization *)
(* is charged at most once, in its window, at most its ceiling, and moves  *)
(* exactly that amount whatever the token does.                            *)
Charges == INSTANCE MeteredCharge WITH
    ledger <- now, signed <- authorized, charge <- published, funds <- balance

ImplementsCharge == Charges!Spec
=============================================================================
