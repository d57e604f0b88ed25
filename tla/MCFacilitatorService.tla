------------------------ MODULE MCFacilitatorService ------------------------
(***************************************************************************)
(* The facilitator's process and, explored apart from it (scenario), the   *)
(* front every request passes and the coordinator of the RPC providers it  *)
(* talks to: FacilitatorService with two channels, four legacy settlements *)
(* (three payments that pass verification, and a Soroban call that only    *)
(* passes while the RPC cannot be asked) and six environments that between *)
(* them take every branch of start(); FacilitatorFront with three          *)
(* workloads, directly and behind a proxy; RpcCoordinator with two         *)
(* providers, the first of which may lie: a submission, to which both may  *)
(* fail, races a status request of the same transaction and a read, which  *)
(* the second provider always answers.                                     *)
(***************************************************************************)
EXTENDS FacilitatorService, FacilitatorFront, RpcCoordinator, TLC

CONSTANTS c1, c2, r1, r2, r3, r4, key, a, b, q1, q2, q3, q4, send, status, read, h1

VARIABLE scenario

Payment ==
    [network |-> "ours", operation |-> "payment", toFacilitator |-> TRUE,
     native |-> TRUE, amount |-> 1, feeTooHigh |-> FALSE, signed |-> TRUE,
     simulates |-> TRUE]

MCTransaction ==
    [r \in Requests |->
        IF r = r4 THEN [Payment EXCEPT !.operation = "soroban", !.simulates = FALSE]
                  ELSE Payment]

Legacy ==
    [sponsors |-> TRUE, keysAgree |-> TRUE, pool |-> {c1, c2}, durable |-> TRUE,
     autoCreate |-> FALSE, providers |-> 1, testnet |-> TRUE, contract |-> TRUE,
     jobs |-> {"upto"}]

MCConfigs ==
    {Legacy,
     \* nobody sponsors and the key is no channel: can never serve
     [Legacy EXCEPT !.sponsors = FALSE],
     \* no pool, several RPC providers
     [Legacy EXCEPT !.pool = {}, !.providers = 2, !.contract = FALSE, !.jobs = {"exact"}],
     \* the coordinator is for testnet only
     [Legacy EXCEPT !.pool = {}, !.providers = 2, !.testnet = FALSE],
     \* too few channel secrets, no sponsorship, keys that disagree
     [Legacy EXCEPT !.durable = FALSE, !.sponsors = FALSE],
     [Legacy EXCEPT !.pool = {}, !.sponsors = FALSE, !.keysAgree = FALSE]}

Ask(endpoint, peer, claimed, payment) ==
    [endpoint |-> endpoint, peer |-> peer, claimed |-> claimed,
     shape |-> "sound", payment |-> payment]
Read(claimed) == Ask("read", a, claimed, "bad")

MCWorkloads ==
    {\* one peer under several names
     q1 :> Read(<<>>) @@ q2 :> Read(<<b>>) @@ q3 :> Read(<<b, b>>)
        @@ q4 :> [Ask("verify", a, <<a>>, "good") EXCEPT !.shape = "malformed"],
     \* two payments while the nodes disagree
     q1 :> Ask("verify", a, <<>>, "good") @@ q2 :> Ask("settle", a, <<b>>, "good"),
     \* what cannot be paid
     q1 :> Ask("verify", b, <<>>, "bad") @@ q2 :> Ask("verify", b, <<a>>, "unknownScheme")
        @@ q3 :> [Ask("settle", b, <<>>, "good") EXCEPT !.shape = "tooLarge"]}

MCMethod == send :> "send" @@ status :> "status" @@ read :> "read"
MCSteady == send :> {} @@ status :> {2} @@ read :> {2}
MCHashOf == [r \in {send, status, read} |-> h1]

RunInit ==
    /\ ServiceInit /\ FrontInit /\ Init
    /\ scenario \in {"service", "front", "rpc"}
    /\ scenario # "front" => asked = (CHOOSE w \in Workloads : TRUE) /\ trusted = 0
    /\ scenario # "service" => config = Legacy

RunNext ==
    \/ scenario = "service" /\ ServiceNext /\ UNCHANGED <<frontVars, vars, scenario>>
    \/ scenario = "front" /\ FrontNext /\ UNCHANGED <<serviceVars, vars, scenario>>
    \/ scenario = "rpc" /\ Next /\ UNCHANGED <<serviceVars, frontVars, scenario>>

RunSpec == RunInit /\ [][RunNext]_<<serviceVars, frontVars, vars, scenario>>

=============================================================================
