---------------------------- MODULE CatalogScreen ----------------------------
(***************************************************************************)
(* What one submission to the catalog has to pass before its transaction   *)
(* may write: the messages of CatalogIngestion are those that pass.        *)
(*                                                                         *)
(*   - a request of the facilitator: its metadata and the owner's          *)
(*     signature (validateExtension, owner-signature.ts), the seller's     *)
(*     live challenge (live-payment-terms.ts), then the settlement on      *)
(*     Horizon and on Soroban RPC (settlement-proof.ts);                   *)
(*   - a signed delta: its schema, authority and lifetime                  *)
(*     (verifyCatalogDelta), then the settlement, then the challenge.      *)
(*     A revoke has only the first of these.                               *)
(*                                                                         *)
(* Between two checks the seller changes its challenge and time passes.    *)
(* A submission that was turned down may come again.  Texts are classes    *)
(* (plain, too long, ...), a URL is its origin, path and fragment, a JSON  *)
(* specification is a tree of nodes.                                       *)
(***************************************************************************)
EXTENDS Integers, FiniteSets, Sequences

CONSTANTS
    Forms,            \* submissions
    Ledger,           \* what Horizon and the RPC know of each transaction
    Children,         \* of each node of a specification, the nodes below it
    External,         \* nodes with a $ref, $id or $schema to another host
    DeepestSpec,      \* nesting a specification may have (16)
    ProofAge,         \* maxAgeMs of verifySettlement (24 h)
    OwnerAge,         \* DEFAULT_SIGNATURE_MAX_AGE_MS (7 days)
    Lifetime,         \* maxLifetimeSeconds of a delta (24 h)
    Skew,             \* how far in the future a signature may be
    Delegates,        \* authorizedCatalogSigners: signers of some payees
    AllowedOrigins,   \* livePaymentTerms.allowedOrigins
    TransportOrigin,  \* livePaymentTerms.transportOriginMap
    Protocol,         \* of each origin
    LocalNames,       \* origins on localhost, .local, .internal, ...
    Addresses,        \* what each host may resolve to
    SiteAnswers,      \* what the seller may answer to the GET
    MaxSubmissions, MaxClock,  \* bounds
    Nothing

Fields == <<"network", "scheme", "asset", "payTo", "amount">>

ASSUME ScreenAssumption ==
    /\ Nothing \notin Forms
    /\ \A f \in Forms : f.kind \in {"request", "delta"}
    /\ \A f \in Forms : f.specs \subseteq DOMAIN Children
    /\ IsFiniteSet(DOMAIN Children)
    /\ \A n \in DOMAIN Children : Children[n] \subseteq DOMAIN Children
    /\ Skew \in Nat /\ DeepestSpec \in Nat /\ MaxClock \in Nat

VARIABLES
    clock, submissions,
    site,      \* what a GET of the listed resource answers now
    form,      \* the submission under way
    passed,    \* how many of its checks it has passed
    answer,    \* what became of the last one
    fetched,   \* history: what the site answered to its GET, and from where
    admitted   \* history: the submissions that reached their write

screenVars == <<clock, submissions, site, form, passed, answer, fetched, admitted>>

----------------------------------------------------------------------------
(* validateExtension.  A field that is absent is of class "none".          *)

NameOk(f) == f.name \in {"none", "plain"}

TagsOk(f) == Len(f.tags) <= 5 /\ \A i \in 1..Len(f.tags) : f.tags[i] = "plain"

\* Not a number, not a name of this host, http or https; a text that is no
\* URL throws, and ingest turns down what throws.
IconOk(f) == f.icon \in {"none", "remote"}

\* Decoded once, then without ".." and without "://".
RouteOk(f) == f.route \in {"none", "plain"}

(* validateJsonSpec: every object, array and scalar counts as a level.     *)
(* These are the nodes it accepts with so many levels left.                *)
Fitting[left \in 0..DeepestSpec + 1] ==
    IF left = 0 THEN {}
    ELSE {n \in DOMAIN Children \ External : Children[n] \subseteq Fitting[left - 1]}

SpecOk(spec) == spec \in Fitting[DeepestSpec + 1]

SpecsOk(f) == \A spec \in f.specs : SpecOk(spec)

(* verifyOwnerSignature, of a signature that is there at all.  A time of   *)
(* zero is no time.                                                        *)
OwnerSigned(f) ==
    f.owner # Nothing =>
        /\ f.owner.key = "classic" /\ f.owner.verifies
        /\ f.owner.at > 0 => /\ clock - f.owner.at <= OwnerAge
                             /\ f.owner.at - clock <= Skew

MetadataOk(f) ==
    OwnerSigned(f) /\ NameOk(f) /\ TagsOk(f) /\ IconOk(f) /\ RouteOk(f) /\ SpecsOk(f)

----------------------------------------------------------------------------
(* verifyCatalogDelta.                                                     *)

\* Lengths only: none of the rules of validateExtension.
DeltaSchemaOk(f) ==
    /\ f.name # "long" /\ Len(f.tags) <= 5
    /\ \A i \in 1..Len(f.tags) : f.tags[i] # "long"
    /\ f.icon # "malformed"
    /\ f.expires > f.issued /\ f.expires - f.issued <= Lifetime
    /\ f.op = "upsert" /\ f.offer.scheme = "upto" => f.proof # Nothing

(* The signers POST /catalog/delta allows; Nothing is undefined.           *)
Allowed(f) ==
    IF f.offer.payTo \in DOMAIN Delegates THEN Delegates[f.offer.payTo]
    ELSE IF f.signer = f.offer.payTo THEN {f.signer} ELSE Nothing

Authorized(f) ==
    /\ Allowed(f) # Nothing => f.signer \in Allowed(f)
    /\ Allowed(f) = Nothing => f.signer = f.offer.payTo

InLifetime(f) ==
    /\ f.issued <= clock + Skew /\ f.expires >= clock
    /\ f.expires - f.issued <= Lifetime

DeltaOk(f) == DeltaSchemaOk(f) /\ Authorized(f) /\ f.verifies /\ InLifetime(f)

----------------------------------------------------------------------------
(* validateLivePaymentTerms.                                               *)

(* isPrivateOrReservedAddress.  An IPv4 address is its first three bytes,  *)
(* an IPv6 address its class.                                              *)
Reserved4(a) ==
    \/ a[1] \in {0, 10, 127} \/ a[1] >= 224
    \/ a[1] = 169 /\ a[2] = 254
    \/ a[1] = 172 /\ a[2] \in 16..31
    \/ a[1] = 192 /\ a[2] \in {0, 168}
    \/ a[1] = 100 /\ a[2] \in 64..127
    \/ a[1] = 198 /\ a[2] \in {18, 19, 51}
    \/ a[1] = 203 /\ a[2] = 0 /\ a[3] = 113

Reserved(address) ==
    IF address.version = 4 THEN Reserved4(address.bytes)
    ELSE address.class \in {"unspecified", "loopback", "unique local",
                            "link local", "multicast", "malformed"}

(* validateTarget, with the addresses the name resolved to.                *)
TargetOk(url, addresses) ==
    /\ Protocol[url.origin] \in {"http", "https"} /\ ~url.credentials
    /\ \/ url.origin \in AllowedOrigins
       \/ /\ url.origin \notin LocalNames
          /\ addresses # {} /\ \A a \in addresses : ~Reserved(a)

(* transportUrl.                                                           *)
Transport(url) ==
    IF url.origin \in DOMAIN TransportOrigin
    THEN [url EXCEPT !.origin = TransportOrigin[url.origin]] ELSE url

Canonical(url) == [url EXCEPT !.fragment = ""]

(* Mutant of Agreeing: each field is looked for among all the terms.       *)
AgreeingApart(accepts, offer) ==
    IF \A i \in 1..Len(Fields) : \E term \in accepts : term[Fields[i]] = offer[Fields[i]]
    THEN accepts ELSE {}

(* The terms of a challenge that are left once every field has been        *)
(* compared, each among those that agreed in the fields before it.         *)
Agreeing(accepts, offer) ==
    LET candidates[i \in 0..Len(Fields)] ==
            IF i = 0 THEN accepts
            ELSE {term \in candidates[i - 1] : term[Fields[i]] = offer[Fields[i]]}
    IN  candidates[Len(Fields)]

ChallengeOk(f, reply) ==
    /\ reply.status = 402
    /\ Canonical(reply.resource) \in {Canonical(f.url), Canonical(Transport(f.url))}
    /\ Agreeing(reply.accepts, f.offer) # {}

----------------------------------------------------------------------------
(* verifySettlement.                                                       *)

TransactionOk(f) ==
    /\ f.tx \in DOMAIN Ledger
    /\ Ledger[f.tx].successful
    /\ clock - Ledger[f.tx].at <= ProofAge

CreditOk(f) == f.offer.payTo \in Ledger[f.tx].credits

(* What the proof of an upto payment binds.                                *)
Bound == {"contract", "token", "max", "actual", "digest"}

(* verifyUptoSettlementEvent: the first event by which this contract paid  *)
(* this payee, and no other, is compared with what the proof says.         *)
Settled(f) ==
    LET events  == Ledger[f.tx].events
        Ours(i) == /\ events[i].contract = f.proof.contract
                   /\ events[i].payTo = f.offer.payTo
    IN  \E first \in 1..Len(events) :
            /\ Ours(first) /\ \A i \in 1..first - 1 : ~Ours(i)
            /\ \A name \in Bound : events[first][name] = f.proof[name]

(* settlementProof of a request is optional, and its scheme is its own.    *)
EventOk(f) == f.proof # Nothing => Settled(f)

----------------------------------------------------------------------------
SettlementChecks == <<"transaction", "effects", "event">>

LiveChecks(f) == IF f.type = "mcp" THEN <<>> ELSE <<"target", "challenge">>

(* The checks of a submission in their order.                              *)
Checks(f) ==
    IF f.kind = "request" THEN <<"metadata">> \o LiveChecks(f) \o SettlementChecks
    ELSE IF f.op = "revoke" THEN <<"delta">>
    ELSE <<"delta">> \o SettlementChecks \o LiveChecks(f)

ScreenInit ==
    /\ clock = 0 /\ submissions = 0
    /\ site \in SiteAnswers
    /\ form = Nothing /\ passed = 0 /\ answer = "none"
    /\ fetched = {} /\ admitted = {}

Pass ==
    /\ passed' = passed + 1
    /\ UNCHANGED <<clock, submissions, site, form, answer, admitted>>

(* ROLLBACK, and 400 with the reason.                                      *)
TurnDown ==
    /\ form' = Nothing /\ passed' = 0 /\ answer' = "rejected" /\ fetched' = {}
    /\ UNCHANGED <<clock, submissions, site, admitted>>

Decide(ok) == IF ok THEN Pass /\ UNCHANGED fetched ELSE TurnDown

Facing(check) ==
    /\ form # Nothing /\ passed < Len(Checks(form))
    /\ Checks(form)[passed + 1] = check

Submit(f) ==
    /\ form = Nothing /\ submissions < MaxSubmissions
    /\ submissions' = submissions + 1
    /\ form' = f /\ passed' = 0 /\ answer' = "none"
    /\ UNCHANGED <<clock, site, fetched, admitted>>

CheckMetadata == Facing("metadata") /\ Decide(MetadataOk(form))

CheckDelta == Facing("delta") /\ Decide(DeltaOk(form))

(* The request names no asset, the URL is refused, the name does not       *)
(* resolve (addresses is {}) or resolves to a host of an inner network.    *)
CheckTarget(addresses) ==
    /\ Facing("target")
    /\ Decide(form.offer.asset # Nothing /\ TargetOk(form.url, addresses))

CheckChallenge ==
    /\ Facing("challenge")
    /\ IF ChallengeOk(form, site)
       THEN Pass /\ fetched' = {site}
       ELSE TurnDown

CheckTransaction == Facing("transaction") /\ Decide(TransactionOk(form))
CheckEffects == Facing("effects") /\ Decide(CreditOk(form))
CheckEvent == Facing("event") /\ Decide(EventOk(form))

(* Horizon, the RPC or the seller does not answer.                         *)
Unreachable ==
    /\ \E check \in {"transaction", "effects", "event", "challenge"} : Facing(check)
    /\ TurnDown

(* Everything passed: the transaction writes.                              *)
Admit ==
    /\ form # Nothing /\ passed = Len(Checks(form))
    /\ admitted' = admitted \cup {[form |-> form, seen |-> fetched]}
    /\ form' = Nothing /\ passed' = 0 /\ answer' = "admitted" /\ fetched' = {}
    /\ UNCHANGED <<clock, submissions, site>>

ChangeSite(reply) ==
    /\ reply # site
    /\ site' = reply
    /\ UNCHANGED <<clock, submissions, form, passed, answer, fetched, admitted>>

PassTime ==
    /\ clock < MaxClock
    /\ clock' = clock + 1
    /\ UNCHANGED <<submissions, site, form, passed, answer, fetched, admitted>>

ScreenNext ==
    \/ \E f \in Forms : Submit(f)
    \/ CheckMetadata \/ CheckDelta
    \/ \E resolved \in Addresses : CheckTarget(resolved)
    \/ CheckChallenge
    \/ CheckTransaction \/ CheckEffects \/ CheckEvent
    \/ Unreachable \/ Admit
    \/ \E reply \in SiteAnswers : ChangeSite(reply)
    \/ PassTime

ScreenSpec == ScreenInit /\ [][ScreenNext]_screenVars

----------------------------------------------------------------------------
Passed(f, check) == \E i \in 1..Len(Checks(f)) : Checks(f)[i] = check

(* An http listing is admitted only if its seller, asked for it, listed    *)
(* one offer that agrees in all of network, scheme, asset, payee and       *)
(* amount, and not several that agree in one each, however its challenge   *)
(* changes while the other checks run (validateLivePaymentTerms).          *)
OneOfferAgreed ==
    \A a \in admitted : Passed(a.form, "challenge") =>
        \E reply \in a.seen : \E term \in reply.accepts :
            \A i \in 1..Len(Fields) : term[Fields[i]] = a.form.offer[Fields[i]]

(* A listing of an upto payment is admitted only with an event by which    *)
(* the contract it names settled exactly this payment: payee, token,       *)
(* ceiling, amount and result (verifyUptoSettlementEvent).                 *)
EventIsOfThisPayment ==
    \A a \in admitted :
        Passed(a.form, "event") /\ a.form.proof # Nothing =>
            \E i \in 1..Len(Ledger[a.form.tx].events) :
                LET e == Ledger[a.form.tx].events[i]
                IN  /\ e.payTo = a.form.offer.payTo
                    /\ \A name \in Bound : e[name] = a.form.proof[name]

(* Every node below a specification.                                       *)
Under(n) ==
    LET level[i \in 0..Cardinality(DOMAIN Children)] ==
            IF i = 0 THEN {n}
            ELSE level[i - 1] \cup UNION {Children[m] : m \in level[i - 1]}
    IN  level[Cardinality(DOMAIN Children)]

(* No specification that a request brings in refers to another host, at    *)
(* any depth and behind arrays as well as objects (validateJsonSpec).      *)
SpecsStayLocal ==
    \A a \in admitted : a.form.kind = "request" =>
        \A n \in a.form.specs : Under(n) \cap External = {}

(* What a submission must have proved when its transaction writes, however *)
(* the seller's site and the time moved while it was checked (ingest).     *)
AdmittedIsProven == OneOfferAgreed /\ EventIsOfThisPayment /\ SpecsStayLocal
=============================================================================
