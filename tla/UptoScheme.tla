----------------------------- MODULE UptoScheme -----------------------------
(***************************************************************************)
(* The facilitator's side of the upto scheme (stellar/upto-scheme.ts): it  *)
(* verifies a payer's authorization, attests the amount used, submits      *)
(* settle to the contract of UptoSettlement and polls for what became of   *)
(* it.  Each read of the RPC is a step of its own, so ledgers close, funds *)
(* move and another request settles the same authorization in between; an  *)
(* RPC node may be Lag ledgers behind.                                     *)
(*                                                                         *)
(* Here the contract is called by this facilitator only, and payers sign   *)
(* exactly the authorizations that reach it.                               *)
(***************************************************************************)
EXTENDS UptoSettlement

CONSTANTS
    Jobs,       \* calls of settle
    Requests,   \* what they may carry
    Signers,    \* signingAddresses
    Network,    \* the network it serves
    Lag         \* how many ledgers behind an RPC node may be

\* What a request carries is something its payer may sign; a call is no number.
ASSUME SchemeAssumption ==
    /\ \A r \in Requests :
        <<r.payer, r.terms>> \in Signable /\ {r.attested, r.required.amount} \subseteq Int
    /\ -1 \notin Jobs

VARIABLES
    request,    \* [Jobs -> Requests]
    at,         \* how far each call is
    actual,     \* actualAmount of each call, once determined
    charged     \* the call whose transaction charged each authorization, or -1

jobVars == <<request, at, actual, charged>>

schemeVars == <<vars, jobVars>>

Payer(j) == request[j].payer
Terms(j) == request[j].terms

-----------------------------------------------------------------------------
\* What _verify looks at before it reads the ledger.

\* One InvokeHostFunction of settle on the configured contract, for the scheme
\* and the network both halves of the request name.
WellFormed(r) ==
    /\ r.version = 2
    /\ r.schemes = {"upto"}
    /\ r.networks = {Network}
    /\ r.operations = 1
    /\ r.contract = Contract /\ r.function = "settle"

\* The signed terms against the requirements. The ceiling is compared with the
\* amount the payload says was accepted: requirements.amount may already be the
\* metered charge.
TermsFit(r) ==
    /\ r.payer \notin Signers
    /\ r.terms.pay_to = r.required.pay_to
    /\ r.terms.token = r.required.token
    /\ r.terms.max_amount = r.accepted
    /\ r.terms.facilitator \in Signers

\* validateAuthEntries: address credentials only, none of the facilitator's
\* own, none that outlives the deadline by more than the tolerance, and the
\* payer's signature among them.
WellSigned(r) ==
    /\ r.auth # {}
    /\ \A a \in r.auth :
        /\ a.credentials = "address"
        /\ a.address \notin Signers
        /\ a.expires <= r.terms.deadline + 2
    /\ \E a \in r.auth : a.address = r.payer /\ a.signed

\* A simulation: the contract run on the ledger as it is, by someone who has
\* every authorization.
Simulates(j, amount) ==
    Accepts(Payer(j), Terms(j), Terms(j).settlement_id, amount)

\* The metered amount is the requirement's and must stay within the ceiling.
AmountAllowed(j) ==
    0 <= request[j].required.amount
        /\ request[j].required.amount <= Terms(j).max_amount

-----------------------------------------------------------------------------

Goes(j, stage) ==
    /\ at' = [at EXCEPT ![j] = stage]
    /\ UNCHANGED <<vars, request, actual, charged>>

\* settle answers with a failure, before anything was submitted.
Refuses(j) == Goes(j, "refused")

\* _verify up to its first read. What the payer signed is out now.
Receive(j) ==
    /\ at[j] = "new"
    /\ authorized' = authorized \cup
            (IF \E a \in request[j].auth : a.address = Payer(j) /\ a.signed
             THEN {<<Payer(j), Terms(j)>>} ELSE {})
    /\ at' = [at EXCEPT ![j] =
                IF WellFormed(request[j]) /\ TermsFit(request[j])
                THEN "window" ELSE "refused"]
    /\ UNCHANGED <<now, guard, balance, allowance, published, request, actual, charged>>

\* getLatestLedger, from a node that may be behind.
CheckWindow(j) ==
    /\ at[j] = "window"
    /\ \E seen \in 0..now :
        /\ seen >= now - Lag
        /\ IF Terms(j).valid_after <= seen /\ seen <= Terms(j).deadline
           THEN Goes(j, "replay") ELSE Refuses(j)

\* readSettledState. A read that fails refuses the payment as well.
CheckReplay(j) ==
    /\ at[j] = "replay"
    /\ \/ /\ ~IsSettled(Payer(j), Terms(j).settlement_id)
          /\ Goes(j, "simulate")
       \/ Refuses(j)

\* Mutant of Simulate: the payment is taken on the strength of its entries.
SimulateUnread(j) ==
    /\ at[j] = "simulate"
    /\ \/ WellSigned(request[j]) /\ Goes(j, "verified")
       \/ Refuses(j)

\* The client's own call, attesting nothing yet, simulated without its auth
\* entries; then the fee ceiling, which may refuse any payment, and the entries.
Simulate(j) ==
    /\ at[j] = "simulate"
    /\ \/ /\ Simulates(j, request[j].attested)
          /\ WellSigned(request[j])
          /\ Goes(j, "verified")
       \/ Refuses(j)

\* getAuthorizedFacilitator: the signer the scheduler is asked to lease is the
\* one the terms name; of a payload that cannot be read, any.
Designated(r) ==
    IF r.operations = 1 /\ r.contract = Contract /\ r.function = "settle"
    THEN {r.terms.facilitator} ELSE Signers

\* The signer leased to the call must be the one the payer designated. Then the
\* amount is determined, and the digest of the result is required.
Attest(j) ==
    /\ at[j] = "verified"
    /\ \E signer \in Designated(request[j]) :
        IF signer = Terms(j).facilitator /\ AmountAllowed(j) /\ request[j].digest
        THEN /\ at' = [at EXCEPT ![j] = "attested"]
             /\ actual' = [actual EXCEPT ![j] = request[j].required.amount]
             /\ UNCHANGED <<vars, request, charged>>
        ELSE Refuses(j)

\* The call is rebuilt with its attestation and simulated, and the entry the
\* simulation asks of the facilitator is signed beside the payer's own.
Rebuild(j) ==
    /\ at[j] = "attested"
    /\ \/ Simulates(j, actual[j]) /\ Goes(j, "rebuilt")
       \/ Refuses(j)

\* Simulated again with its signed entries, the transaction is signed, by the
\* fee sponsor as well where there is one, and sent.
Submit(j) ==
    /\ at[j] = "rebuilt"
    /\ \/ Simulates(j, actual[j]) /\ Goes(j, "sent")
       \/ Refuses(j)

\* The transaction makes it into a ledger, and the contract accepts it.
Charge(j) ==
    /\ at[j] = "sent"
    /\ Settle(Payer(j), Terms(j), Terms(j).settlement_id, actual[j])
    /\ at' = [at EXCEPT ![j] = "included"]
    /\ charged' = [charged EXCEPT ![<<Payer(j), Terms(j)>>] = j]
    /\ UNCHANGED <<request, actual>>

\* The contract refuses it.
Fail(j) ==
    /\ at[j] = "sent"
    /\ ~Simulates(j, actual[j])
    /\ Goes(j, "failed")

\* Mutant of Answer: a transaction the contract reverted is seen as included.
AnswerAnyOutcome(j) ==
    \/ at[j] \in {"included", "failed"} /\ (Goes(j, "success") \/ Goes(j, "unseen"))
    \/ at[j] = "sent" /\ Goes(j, "dropped")

\* pollForTransaction sees the outcome, or gives up after the time the
\* transaction was valid for: what it has not seen by then it answers as failed.
Answer(j) ==
    \/ at[j] = "included" /\ (Goes(j, "success") \/ Goes(j, "unseen"))
    \/ at[j] = "failed" /\ Goes(j, "reverted")
    \/ at[j] = "sent" /\ Goes(j, "dropped")

JobStep ==
    \E j \in Jobs :
        Receive(j) \/ CheckWindow(j) \/ CheckReplay(j) \/ Simulate(j) \/ Attest(j)
            \/ Rebuild(j) \/ Submit(j) \/ Charge(j) \/ Fail(j) \/ Answer(j)

\* Ledgers close and accounts spend meanwhile.
World ==
    /\ CloseLedger \/ \E s \in Sends : Send(s[1], s[2], s[3], s[4])
    /\ UNCHANGED jobVars

SchemeInit ==
    /\ Init
    /\ request \in [Jobs -> Requests]
    /\ at = [j \in Jobs |-> "new"]
    /\ actual = [j \in Jobs |-> -1]
    /\ charged = [a \in Signable |-> -1]

SchemeNext == JobStep \/ World

SchemeSpec == SchemeInit /\ [][SchemeNext]_schemeVars

-----------------------------------------------------------------------------
\* Properties

\* What verification lets through, on a simulated call that attests nothing, the
\* contract would at that moment settle for any amount up to the ceiling: no
\* token, recipient or window is found unusable only after the seller has done
\* the work (upto-scheme.ts 690-735 and the checks of settle in lib.rs).
VerifiedIsSettleable ==
    [][\A j \in Jobs : at[j] = "simulate" /\ at'[j] = "verified" =>
        \A n \in 0..Terms(j).max_amount : Simulates(j, n)]_schemeVars

\* Whatever two calls do with the same authorization, each charge on the ledger
\* is the amount its call was told to charge, to the recipient and in the asset
\* the seller required.
ChargedAsRequired ==
    \A a \in Signable : charged[a] # -1 =>
        LET r == request[charged[a]]
        IN  /\ published[a] = r.required.amount
            /\ a[2].pay_to = r.required.pay_to /\ a[2].token = r.required.token

\* A call that answers success has charged, by its own transaction and no
\* other: of two calls with one authorization at most one is told it was paid.
SuccessIsOwnCharge ==
    \A j \in Jobs : at[j] = "success" => charged[<<Payer(j), Terms(j)>>] = j

\* A call is told success for a charge of its own, of the amount and to the
\* recipient its seller required, and every other charge is as required too.
SuccessIsExactCharge == ChargedAsRequired /\ SuccessIsOwnCharge

=============================================================================
