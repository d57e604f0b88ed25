-------------------------- MODULE MCUptoSettlement --------------------------
(***************************************************************************)
(* The contract, called in any way whatever, and the contract called by a  *)
(* facilitator, explored one at a time (scenario).                         *)
(*                                                                         *)
(* One buyer signs two authorizations with the same settlement id and      *)
(* different windows, one in a token that keeps a fee, one in a token that *)
(* does not consume allowances, one that pays the buyer itself, and one    *)
(* the contract must refuse. The facilitator gets two calls, which may be  *)
(* about the same authorization.                                           *)
(***************************************************************************)
EXTENDS UptoScheme, TLC

CONSTANTS buyer, seller, fac, other, plain, greedy, sticky, i1, i2, net, j1, j2

VARIABLE scenario

MCTerms(payTo, token, max, from, until, id) ==
    [pay_to |-> payTo, token |-> token, max_amount |-> max, valid_after |-> from,
     deadline |-> until, facilitator |-> fac, settlement_id |-> id]

MCTwice == MCTerms(seller, plain, 2, 0, 1, i1)

MCSignable ==
    {buyer} \X
        {MCTwice,
         MCTerms(seller, plain, 1, 1, 3, i1),
         MCTerms(seller, greedy, 1, 0, 3, i2),
         MCTerms(seller, sticky, 1, 0, 3, i2),
         MCTerms(buyer, plain, 1, 0, 3, i2),
         MCTerms(Contract, plain, 1, 0, 3, i2)}

MCAmounts == -1..2
MCSends ==
    {<<plain, buyer, Contract, 1>>, <<plain, seller, buyer, 1>>,
     <<greedy, buyer, Contract, 2>>}
MCApprovals == {<<plain, buyer, 1>>}
MCFee == [k \in Tokens |-> IF k = greedy THEN 1 ELSE 0]
MCFunds ==
    [k \in Tokens |->
        [h \in Holders |-> IF h = buyer THEN IF k = sticky THEN 1 ELSE 3 ELSE 0]]

\* A request for the terms signed, in order, and ways in which it may not be.
MCAsked(terms, amount) ==
    [version |-> 2, schemes |-> {"upto"}, networks |-> {net}, operations |-> 1,
     contract |-> Contract, function |-> "settle", payer |-> buyer, terms |-> terms,
     attested |-> 0, accepted |-> terms.max_amount, digest |-> TRUE,
     required |-> [pay_to |-> terms.pay_to, token |-> terms.token, amount |-> amount],
     auth |-> {[address |-> buyer, credentials |-> "address", signed |-> TRUE,
                expires |-> terms.deadline]}]

MCRequests ==
    {MCAsked(a[2], 1) : a \in Signable}
        \cup {MCAsked(MCTwice, n) : n \in {0, 2, 3}}
        \cup {[MCAsked(MCTwice, 1) EXCEPT !.contract = other],
               [MCAsked(MCTwice, 1) EXCEPT !.required.pay_to = buyer],
               [MCAsked(MCTwice, 1) EXCEPT !.digest = FALSE],
               [MCAsked(MCTwice, 1) EXCEPT !.auth = {}]}

RunInit ==
    /\ SchemeInit
    /\ scenario \in {"contract", "facilitator"}
    /\ scenario = "contract" => \A j \in Jobs : request[j] = MCAsked(MCTwice, 1)

RunNext ==
    \/ scenario = "contract" /\ Next /\ UNCHANGED <<jobVars, scenario>>
    \/ scenario = "facilitator" /\ SchemeNext /\ UNCHANGED scenario

MCCalls == Permutations(Jobs)

RunSpec == RunInit /\ [][RunNext]_<<schemeVars, scenario>>

=============================================================================
