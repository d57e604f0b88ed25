------------------------------ MODULE PaidCall ------------------------------
(***************************************************************************)
(* One paid call from the agent to the seller's decision to charge for it: *)
(* the pay_resource tool (mcp-server/src/index.ts, security.ts), the upto  *)
(* client (sdk-typescript/src/upto-client.ts) and the two response-aware   *)
(* seller integrations (sdk-typescript/src/x402-provider-extension.ts and  *)
(* demo-server/src/provider-quality.ts).                                   *)
(*                                                                         *)
(* The tool holds no key and keeps no state between its two phases: it     *)
(* fetches the challenge again, and the seller may have changed its offer  *)
(* before, between and after.  The seller charges after its handler has    *)
(* answered.  The x402 core that calls the hooks, and the facilitator it   *)
(* settles with, are external.                                             *)
(*                                                                         *)
(* Digests, signatures and timestamps are one verdict on an outcome, and   *)
(* asset and timeout are part of what payTo stands for.                    *)
(***************************************************************************)
EXTENDS Naturals, FiniteSets

CONSTANTS
    Calls,
    Url,           \* [Calls -> Urls]: the resource each call asks for
    AllowLocal,    \* MCP_ALLOW_LOCAL_URLS
    Payees,
    Offers,        \* what the seller may ask for: sets of requirements
    Ceilings,      \* maxAmount, or the configured default
    Sellers,       \* configurations of the seller
    Reports,       \* outcomes that handlers may sign
    MaxUsage,      \* bound on usageAtomic
    MaxChanges,    \* bound on changes of the offer
    None

Urls == [protocol : {"http", "https", "other"},
         host : {"public", "local", "metadata", "encoded", "private"}]
Requirements ==
    [network : {"ours", "other"}, scheme : {"exact", "upto"}, amount : Nat, payTo : Payees]
Verdicts == {"usable", "provider", "caller", "unknown"}
Outcomes ==
    [valid : BOOLEAN, verdict : Verdicts, usage : (0..MaxUsage) \cup {None}]
SellerConfigs ==
    [integration : {"sdk", "demo"}, requireOutcome : BOOLEAN,
     callerFailurePolicy : {"settle", "skip"}, ambiguousFailurePolicy : {"settle", "skip"}]

ASSUME PaidCallAssumption ==
    /\ Url \in [Calls -> Urls] /\ AllowLocal \in BOOLEAN
    /\ Offers \subseteq SUBSET Requirements
    /\ Ceilings \subseteq Nat /\ Sellers \subseteq SellerConfigs
    /\ Reports \subseteq Outcomes /\ MaxUsage \in Nat /\ MaxChanges \in Nat
    /\ None \notin Nat /\ None \notin Outcomes /\ None \notin Requirements

VARIABLES
    offer,       \* the requirements of the challenge now; none: it is free
    changes,
    seller,      \* its configuration
    call,        \* where each call stands
    ceiling,     \* effectiveMaxAmount of the last tool call
    challenge,   \* the bounded challenge handed to the wallet
    payload,     \* the requirement the wallet signed
    outcome,     \* the signed outcome of the handler
    charged,     \* what the payer was charged
    reported     \* calls whose outcome is on its way to the Bazaar

agent == <<ceiling, challenge>>
callVars == <<offer, changes, seller, call, agent, payload, outcome, charged, reported>>

Ended == {"free", "refused", "unpaid", "paid", "failed"}
Stages == {"new", "sign", "signed", "checked", "executing", "executed", "settling",
           "settled"} \cup Ended

CallInit ==
    /\ offer \in Offers /\ changes = 0
    /\ seller \in Sellers
    /\ call = [c \in Calls |-> "new"]
    /\ ceiling = [c \in Calls |-> None]
    /\ challenge = [c \in Calls |-> {}]
    /\ payload = [c \in Calls |-> None]
    /\ outcome = [c \in Calls |-> None]
    /\ charged = [c \in Calls |-> None]
    /\ reported = {}

ChangeOffer(o) ==
    /\ changes < MaxChanges /\ o # offer
    /\ offer' = o /\ changes' = changes + 1
    /\ UNCHANGED <<seller, call, agent, payload, outcome, charged, reported>>

----------------------------------------------------------------------------
(* The agent's side.                                                       *)

(* validateSafeResourceUrl.                                                *)
SafeResourceUrl(u) ==
    /\ u.protocol \in {"http", "https"}
    /\ ~AllowLocal => u.host = "public"

(* Mutant of WithinCeiling: the challenge is taken as it is.               *)
AnyAmount(r, max) == TRUE

WithinCeiling(r, max) == r.amount <= max

(* The requirements of a challenge that the tool may have signed.          *)
Qualified(o, max) ==
    {r \in o : r.network = "ours" /\ r.scheme = "exact" /\ WithinCeiling(r, max)}

(* An agent makes its calls one after the other.                           *)
AgentIdle == \A c \in Calls : call[c] \in {"new", "sign"} \cup Ended

(* handlePayResource without a payment payload: nothing is signed here.    *)
Prepare(c, max) ==
    /\ call[c] = "new" /\ AgentIdle
    /\ ceiling' = [ceiling EXCEPT ![c] = max]
    /\ \/ /\ ~SafeResourceUrl(Url[c])
          /\ call' = [call EXCEPT ![c] = "refused"]
          /\ UNCHANGED challenge
       \/ /\ SafeResourceUrl(Url[c]) /\ offer = {}
          /\ call' = [call EXCEPT ![c] = "free"]
          /\ UNCHANGED challenge
       \/ /\ SafeResourceUrl(Url[c]) /\ offer # {}
          /\ call' = [call EXCEPT ![c] =
                 IF Qualified(offer, max) = {} THEN "refused" ELSE "sign"]
          /\ challenge' = [challenge EXCEPT ![c] = Qualified(offer, max)]
    /\ UNCHANGED <<offer, changes, seller, payload, outcome, charged, reported>>

(* The wallet signs one of the requirements it was shown.                  *)
Sign(c) ==
    /\ call[c] = "sign" /\ AgentIdle
    /\ call' = [call EXCEPT ![c] = "signed"]
    /\ \E r \in challenge[c] : payload' = [payload EXCEPT ![c] = r]
    /\ UNCHANGED <<offer, changes, seller, agent, outcome, charged, reported>>

(* handlePayResource with the payload: the challenge is fetched again, and *)
(* the signed terms must be among those that qualify now.                  *)
Submit(c, max) ==
    /\ call[c] = "signed"
    /\ ceiling' = [ceiling EXCEPT ![c] = max]
    /\ call' = [call EXCEPT ![c] =
           IF offer = {} THEN "free"
           ELSE IF payload[c] \in Qualified(offer, max) THEN "checked" ELSE "refused"]
    /\ UNCHANGED <<offer, changes, seller, challenge, payload, outcome, charged, reported>>

(* The paid request: the seller serves terms that it asks for, and answers *)
(* any other with a new challenge, which the tool reports as a failure.    *)
SendPayment(c) ==
    /\ call[c] = "checked"
    /\ call' = [call EXCEPT ![c] = IF payload[c] \in offer THEN "executing" ELSE "unpaid"]
    /\ UNCHANGED <<offer, changes, seller, agent, payload, outcome, charged, reported>>

(* The upto client signs the maximum of one upto requirement.              *)
UptoPay(c) ==
    /\ call[c] = "new" /\ AgentIdle
    /\ \E r \in offer :
        /\ r.scheme = "upto"
        /\ payload' = [payload EXCEPT ![c] = r]
    /\ call' = [call EXCEPT ![c] = "executing"]
    /\ UNCHANGED <<offer, changes, seller, agent, outcome, charged, reported>>

----------------------------------------------------------------------------
(* The seller's side.                                                      *)

(* The handler answers, with or without a signed outcome.                  *)
Execute(c) ==
    /\ call[c] = "executing"
    /\ call' = [call EXCEPT ![c] = "executed"]
    /\ \E o \in Reports \cup {None} : outcome' = [outcome EXCEPT ![c] = o]
    /\ UNCHANGED <<offer, changes, seller, agent, payload, charged, reported>>

(* verifyProviderOutcome and the digest of the returned bytes.             *)
Verified(c) == outcome[c] # None /\ outcome[c].valid

(* The SDK also wants the usage of an upto call, within its maximum.       *)
UsageFits(c) ==
    payload[c].scheme = "upto" =>
        outcome[c].usage # None /\ outcome[c].usage <= payload[c].amount

Accepted(c) == Verified(c) /\ (seller.integration = "sdk" => UsageFits(c))

(* The demo integration, and decideChargeDisposition of response-aware.ts. *)
DemoSettles(v) ==
    \/ v = "usable"
    \/ v = "caller" /\ seller.callerFailurePolicy = "settle"
    \/ v = "unknown" /\ seller.ambiguousFailurePolicy = "settle"

(* The SDK's hook asks for usable or the policy before it asks for fault.  *)
SdkSettles(v) ==
    \/ v = "usable"
    \/ IF v = "caller" THEN seller.callerFailurePolicy = "settle"
                       ELSE seller.ambiguousFailurePolicy = "settle"

(* Mutant of Settles: what the provider reports is not looked at.          *)
SettlesAll(v) == TRUE

Settles(v) ==
    \/ seller.integration = "demo" /\ DemoSettles(v)
    \/ seller.integration = "sdk" /\ SdkSettles(v)

(* onBeforeSettle: an accepted outcome is reported whatever is decided, a  *)
(* missing one is charged unless outcomes are required.                    *)
BeforeSettle(c) ==
    /\ call[c] = "executed"
    /\ call' = [call EXCEPT ![c] =
           IF \/ outcome[c] = None /\ ~seller.requireOutcome
              \/ Accepted(c) /\ Settles(outcome[c].verdict)
           THEN "settling" ELSE "unpaid"]
    /\ reported' = IF Accepted(c) THEN reported \cup {c} ELSE reported
    /\ UNCHANGED <<offer, changes, seller, agent, payload, outcome, charged>>

(* Settlement-Overrides carries the usage of an upto call.                 *)
Amount(c) ==
    IF payload[c].scheme = "upto" /\ outcome[c] # None /\ outcome[c].usage # None
    THEN outcome[c].usage ELSE payload[c].amount

(* The facilitator settles, and the contract takes no more than was        *)
(* signed.  Its answer may be lost: the seller then treats the call as not *)
(* paid.                                                                   *)
Settle(c) ==
    /\ call[c] = "settling" /\ Amount(c) <= payload[c].amount
    /\ charged' = [charged EXCEPT ![c] = Amount(c)]
    /\ \E a \in {"settled", "unpaid"} : call' = [call EXCEPT ![c] = a]
    /\ UNCHANGED <<offer, changes, seller, agent, payload, outcome, reported>>

(* Refused by the facilitator, or by the check of the outcome that is made *)
(* again to add its digest to the settlement.                              *)
SettleFails(c) ==
    /\ call[c] = "settling"
    /\ call' = [call EXCEPT ![c] = "unpaid"]
    /\ UNCHANGED <<offer, changes, seller, agent, payload, outcome, charged, reported>>

(* The answer with its PAYMENT-RESPONSE reaches the client, or does not.   *)
Answer(c) ==
    /\ call[c] = "settled"
    /\ \E a \in {"paid", "failed"} : call' = [call EXCEPT ![c] = a]
    /\ UNCHANGED <<offer, changes, seller, agent, payload, outcome, charged, reported>>

CallStep(c) ==
    \/ \E max \in Ceilings : Prepare(c, max) \/ Submit(c, max)
    \/ Sign(c) \/ SendPayment(c) \/ UptoPay(c)
    \/ Execute(c) \/ BeforeSettle(c) \/ Settle(c) \/ SettleFails(c) \/ Answer(c)

CallNext ==
    (\E c \in Calls : CallStep(c)) \/ (\E o \in Offers : ChangeOffer(o))

CallSpec == CallInit /\ [][CallNext]_callVars

----------------------------------------------------------------------------
(* Properties.                                                             *)

(* What a payer is charged stays within what was signed, and what the tool *)
(* submits within the ceiling of the call that submits it, on our network  *)
(* and in terms the wallet was shown, however the offer moves between the  *)
(* two phases (handlePayResource).                                         *)
ChargedWithinBounds ==
    \A c \in Calls :
        charged[c] # None =>
            /\ charged[c] <= payload[c].amount
            /\ payload[c].scheme = "exact" =>
                   /\ payload[c].amount <= ceiling[c]
                   /\ payload[c].network = "ours"
                   /\ payload[c] \in challenge[c]

(* "Provider-attributed unusable results skip settlement"                  *)
(* (docs/provider-quality.md:27), except where a seller that uses the SDK's*)
(* hook has ambiguousFailurePolicy "settle": the hook applies that policy  *)
(* to every outcome the caller is not at fault for, the provider's too.    *)
ProviderFaultIsNotCharged ==
    \A c \in Calls :
        /\ charged[c] # None /\ outcome[c] # None
        /\ outcome[c].verdict = "provider"
        => seller.integration = "sdk" /\ seller.ambiguousFailurePolicy = "settle"

=============================================================================
