------------------------- MODULE MCProviderQuality --------------------------
(***************************************************************************)
(* PaidCall and ProviderQuality in one run.  They share no state, so each  *)
(* is explored while the other rests.  Calls: of a public and of a metadata*)
(* address, an offer that rises above the ceiling or ends, both seller     *)
(* integrations.  Reports: of two calls of two endpoints with a queue for  *)
(* one, the first call observed twice; one of them of a signer that is no  *)
(* observer, one by a clock that is ahead.  The two loops of the queue run *)
(* the same code, so they are symmetric.                                   *)
(***************************************************************************)
EXTENDS PaidCall, ProviderQuality, TLC

CONSTANTS c1, c2, e1, e2, p, d1, d2

MCEndpointOf == c1 :> e1 @@ c2 :> e2
Reported(c, source, verdict, settled) ==
    [call |-> c, source |-> source, verdict |-> verdict, settled |-> settled,
     signer |-> IF source = "in_band" THEN "payee" ELSE "observer", ahead |-> 0]
MCReported == {Reported(c1, "in_band", "usable", TRUE),
               [Reported(c1, "independent", "usable", TRUE) EXCEPT !.signer = "payee"],
               [Reported(c1, "independent", "provider", FALSE) EXCEPT !.ahead = 1],
               Reported(c2, "in_band", "usable", FALSE)}
MCPushed == {[endpoint |-> e1, n |-> 1, faults |-> 1, retrievedAt |-> 0]}
MCHoldAbove == {<<1, 1>>}

MCUrl == [c \in Calls |-> [protocol |-> "https", host |-> IF c = c1 THEN "public" ELSE "metadata"]]

Exact(amount) == [network |-> "ours", scheme |-> "exact", amount |-> amount, payTo |-> p]
MCOffers == {{}, {Exact(1), [Exact(1) EXCEPT !.network = "other"]}, {Exact(2)},
             {[Exact(1) EXCEPT !.scheme = "upto"]}}

Seller(integration, required, caller, ambiguous) ==
    [integration |-> integration, requireOutcome |-> required,
     callerFailurePolicy |-> caller, ambiguousFailurePolicy |-> ambiguous]

(* Two of them charge for what nobody is known to be at fault of.          *)
MCSellers == {Seller("demo", TRUE, "skip", "settle"), Seller("sdk", FALSE, "settle", "skip"),
              Seller("sdk", TRUE, "skip", "settle")}

Outcome(valid, verdict, usage) == [valid |-> valid, verdict |-> verdict, usage |-> usage]
MCReports == {Outcome(TRUE, "provider", None), Outcome(TRUE, "usable", 1),
              Outcome(TRUE, "caller", 1), Outcome(FALSE, "usable", 1)}

DrainSymmetry == Permutations(Drains)

RunInit == CallInit /\ Init
RunNext ==
    \/ Init /\ CallNext /\ UNCHANGED vars
    \/ /\ \A c \in Calls : call[c] = "new"
       /\ offer = {} /\ changes = 0 /\ seller.integration = "demo"
       /\ Next /\ UNCHANGED callVars
RunSpec == RunInit /\ [][RunNext]_<<callVars, vars>>

=============================================================================
