----------------------- MODULE ProviderQuality_proofs -----------------------
(***************************************************************************)
(* What is charged for a call, for any number of calls, offers, ceilings   *)
(* and seller configurations; and what becomes of the reports on calls,    *)
(* for any number of reports, endpoints and drain loops.                   *)
(***************************************************************************)
EXTENDS PaidCall, ProviderQuality, TLAPS

----------------------------------------------------------------------------
(* The paid call.                                                          *)
(*                                                                         *)
(* The seller works on a call from "checked" on; until then nothing was    *)
(* charged, and from then on neither the payload nor the ceiling changes.  *)

Submitted == {"checked", "executing", "executed", "settling", "settled", "unpaid", "paid",
              "failed"}
Answered == {"executed", "settling", "settled", "unpaid", "paid", "failed"}

(* The wallet signed terms that it was shown.                              *)
SignedAsShown(c) ==
    payload[c].scheme = "exact" =>
        payload[c] \in challenge[c] /\ payload[c].network = "ours"

(* The tool submitted terms within its ceiling.                            *)
SubmittedInBounds(c) ==
    payload[c].scheme = "exact" => payload[c].amount <= ceiling[c]

(* The seller had reason to settle.                                        *)
Justified(c) == outcome[c] # None => Settles(outcome[c].verdict)

CallOK(c) ==
    /\ call[c] \in {"new", "sign"} => outcome[c] = None
    /\ call[c] = "sign" =>
           \A r \in challenge[c] : r.network = "ours" /\ r.scheme = "exact"
    /\ call[c] \in {"signed"} \cup Submitted => SignedAsShown(c)
    /\ call[c] \in Submitted => SubmittedInBounds(c)
    /\ call[c] \notin Answered => outcome[c] = None
    /\ call[c] = "settling" => Justified(c)
    /\ charged[c] # None =>
           /\ call[c] \in {"settled", "unpaid", "paid", "failed"}
           /\ charged[c] <= payload[c].amount
           /\ Justified(c)

CallTypes ==
    /\ seller \in SellerConfigs
    /\ call \in [Calls -> Stages]
    /\ ceiling \in [Calls -> Ceilings \cup {None}]
    /\ DOMAIN challenge = Calls /\ DOMAIN payload = Calls
    /\ DOMAIN outcome = Calls /\ DOMAIN charged = Calls

CallInv == CallTypes /\ \A c \in Calls : CallOK(c)

LEMMA CallInitially == CallInit => CallInv
BY PaidCallAssumption
   DEF CallInit, CallInv, CallTypes, CallOK, Stages, Ended, Submitted, Answered

(* A step of one call leaves every other as it was.                        *)
LEMMA OtherCalls ==
    ASSUME NEW c \in Calls, CallOK(c), seller' = seller,
           call'[c] = call[c], ceiling'[c] = ceiling[c], challenge'[c] = challenge[c],
           payload'[c] = payload[c], outcome'[c] = outcome[c], charged'[c] = charged[c]
    PROVE  CallOK(c)'
BY DEF CallOK, SignedAsShown, SubmittedInBounds, Justified, Settles, DemoSettles, SdkSettles

LEMMA CallStepKeeps ==
    ASSUME CallInv, NEW c \in Calls, CallStep(c)
    PROVE  CallInv'
<1> USE DEF CallTypes, callVars, agent, Stages, Ended
<1>0. CallTypes /\ CallOK(c)
  BY DEF CallInv
<1>1. /\ CallTypes' /\ seller' = seller
      /\ \A d \in Calls \ {c} :
            /\ call'[d] = call[d] /\ ceiling'[d] = ceiling[d]
            /\ challenge'[d] = challenge[d] /\ payload'[d] = payload[d]
            /\ outcome'[d] = outcome[d] /\ charged'[d] = charged[d]
  <2>1. CASE \E max \in Ceilings : Prepare(c, max)
    BY <1>0, <2>1 DEF Prepare
  <2>2. CASE \E max \in Ceilings : Submit(c, max)
    BY <1>0, <2>2 DEF Submit
  <2>3. CASE Sign(c)
    BY <1>0, <2>3 DEF Sign
  <2>4. CASE SendPayment(c)
    BY <1>0, <2>4 DEF SendPayment
  <2>5. CASE UptoPay(c)
    BY <1>0, <2>5 DEF UptoPay
  <2>6. CASE Execute(c)
    BY <1>0, <2>6 DEF Execute
  <2>7. CASE BeforeSettle(c)
    BY <1>0, <2>7 DEF BeforeSettle
  <2>8. CASE Settle(c)
    BY <1>0, <2>8 DEF Settle
  <2>9. CASE SettleFails(c)
    BY <1>0, <2>9 DEF SettleFails
  <2>10. CASE Answer(c)
    BY <1>0, <2>10 DEF Answer
  <2> QED
    BY <2>1, <2>2, <2>3, <2>4, <2>5, <2>6, <2>7, <2>8, <2>9, <2>10 DEF CallStep
<1>2. CallOK(c)'
  <2> USE DEF CallOK, SignedAsShown, SubmittedInBounds, Submitted, Answered
  <2>1. CASE \E max \in Ceilings : Prepare(c, max)
    BY <1>0, <2>1 DEF Prepare, Qualified
  <2>2. CASE \E max \in Ceilings : Submit(c, max)
    BY <1>0, <2>2 DEF Submit, Qualified, WithinCeiling
  <2>3. CASE Sign(c)
    BY <1>0, <2>3 DEF Sign
  <2>4. CASE SendPayment(c)
    BY <1>0, <2>4 DEF SendPayment
  <2>5. CASE UptoPay(c)
    BY <1>0, <2>5 DEF UptoPay
  <2>6. CASE Execute(c)
    BY <1>0, <2>6 DEF Execute
  <2>7. CASE BeforeSettle(c)
    BY <1>0, <2>7 DEF BeforeSettle, Justified, Settles, DemoSettles, SdkSettles, Accepted, Verified
  <2>8. CASE Settle(c)
    BY <1>0, <2>8 DEF Settle, Justified, Settles, DemoSettles, SdkSettles
  <2>9. CASE SettleFails(c)
    BY <1>0, <2>9 DEF SettleFails, Justified
  <2>10. CASE Answer(c)
    BY <1>0, <2>10 DEF Answer, Justified, Settles, DemoSettles, SdkSettles
  <2> QED
    BY <2>1, <2>2, <2>3, <2>4, <2>5, <2>6, <2>7, <2>8, <2>9, <2>10 DEF CallStep
<1>3. ASSUME NEW d \in Calls, d # c PROVE CallOK(d)'
  BY <1>1, <1>3, OtherCalls DEF CallInv
<1> QED
  BY <1>1, <1>2, <1>3 DEF CallInv

LEMMA CallInvariant == CallSpec => []CallInv
<1>1. CallInv /\ [CallNext]_callVars => CallInv'
  <2> SUFFICES ASSUME CallInv, [CallNext]_callVars PROVE CallInv'
    OBVIOUS
  <2>1. CASE \E c \in Calls : CallStep(c)
    BY <2>1, CallStepKeeps
  <2>2. CASE (\E o \in Offers : ChangeOffer(o)) \/ UNCHANGED callVars
    <3>1. UNCHANGED <<seller, call, agent, payload, outcome, charged>>
      BY <2>2 DEF ChangeOffer, callVars
    <3>2. \A c \in Calls : CallOK(c)'
      BY <3>1, OtherCalls DEF CallInv, agent
    <3> QED
      BY <3>1, <3>2 DEF CallInv, CallTypes, agent
  <2> QED
    BY <2>1, <2>2 DEF CallNext
<1> QED
  BY <1>1, CallInitially, PTL DEF CallSpec

(* The payer is charged no more than was signed, and the tool submitted    *)
(* within its ceiling, on our network, terms the wallet was shown          *)
(* (handlePayResource, settle).                                            *)
THEOREM ChargesInBounds == CallSpec => []ChargedWithinBounds
<1>1. CallInv => ChargedWithinBounds
  BY DEF CallInv, CallOK, ChargedWithinBounds, SignedAsShown, SubmittedInBounds, Submitted
<1> QED
  BY <1>1, CallInvariant, PTL

(* No call is charged whose signed outcome blames the provider, the SDK's  *)
(* policy for ambiguous failures aside (onBeforeSettle of both             *)
(* integrations).                                                          *)
THEOREM FaultSkipsSettlement == CallSpec => []ProviderFaultIsNotCharged
<1>1. CallInv => ProviderFaultIsNotCharged
  BY DEF CallInv, CallTypes, SellerConfigs, CallOK, ProviderFaultIsNotCharged, Justified,
         Settles, DemoSettles, SdkSettles
<1> QED
  BY <1>1, CallInvariant, PTL

----------------------------------------------------------------------------
(* The reports and the aggregates.                                         *)

Rows == [verdict : STRING, at : Nat, createdAt : Nat, settled : BOOLEAN]
Posts == [kind : {"observation", "settlement"}, call : CallIds, source : Sources,
          signer : STRING, verdict : STRING, at : Nat]

QualityTypes ==
    /\ now \in Nat /\ posts \subseteq Posts
    /\ rows \in [Keys -> Rows \cup {Absent}]
    /\ \A k \in Keys : rows[k] # Absent => rows[k].createdAt <= now
    /\ handling \subseteq Keys
    /\ pending \in Seq(Endpoints)
    /\ DOMAIN drain = Drains

Loops == {drain[d] : d \in Drains}

(* A loop that has read what is stored of e, or signed what counts it.     *)
HasRead(x, e) ==
    /\ x.at = "reading" /\ x.endpoint = e
    /\ \E t \in 0..now : KnowsAll(e, t) /\ x.keys = Counted(e, t)
HasBuilt(x, e) == x.at = "saving" /\ CountsAll(x, e)

(* What is stored of an endpoint is on its way into an aggregate: a        *)
(* handler will enqueue it, it is queued, a loop has read all of it, or it *)
(* is there.                                                               *)
OnItsWay(e) ==
    \/ \E k \in handling : EndpointOf[k[1]] = e
    \/ Queued(e)
    \/ \E x \in Loops : x.queued /\ (HasRead(x, e) \/ HasBuilt(x, e))
    \/ \E a \in aggregates : CountsAll(a, e)

Excused(e) == e \in missed \/ \E k \in cut : EndpointOf[k[1]] = e

Accounted(e) == Recorded(e) = {} \/ Excused(e) \/ OnItsWay(e)

QualityInv ==
    /\ QualityTypes /\ DisagreementsAreRecorded
    /\ \A e \in Endpoints : Accounted(e)

(* While the cache holds an aggregate, it was fresh when it was cached.    *)
EvidenceInv ==
    /\ now \in Nat
    /\ \A a \in aggregates : a.retrievedAt \in Nat
    /\ \A x \in Loops : x.retrievedAt \in Nat
    /\ cache # Absent =>
           /\ cache.cachedAt \in Nat /\ cache.aggregate.retrievedAt \in Nat
           /\ cache.cachedAt - cache.aggregate.retrievedAt <= MaxAge
    /\ HoldRestsOnFreshEvidence

(* A report that is there stays, and says what it said.                    *)
SameReport(k) ==
    /\ rows'[k] # Absent <=> rows[k] # Absent
    /\ rows[k] # Absent => /\ rows'[k].verdict = rows[k].verdict
                           /\ rows'[k].at = rows[k].at
                           /\ rows'[k].createdAt = rows[k].createdAt
SameReports(e) == \A k \in Keys : EndpointOf[k[1]] = e => SameReport(k)

(* What was read or counted of an endpoint's reports still is all there is.*)
SameCountsOf(e) ==
    /\ Recorded(e)' = Recorded(e)
    /\ \A x : /\ CountsAll(x, e) => CountsAll(x, e)'
              /\ HasRead(x, e) => HasRead(x, e)'
              /\ HasBuilt(x, e) => HasBuilt(x, e)'

LEMMA OppositeKey ==
    ASSUME NEW k \in Keys
    PROVE  Opposite(k) \in Keys /\ Opposite(k)[1] = k[1]
BY DEF Opposite, Keys, Sources

(* It is, whatever the clock does, while the reports stay as they are.     *)
LEMMA SameCounts ==
    ASSUME NEW e \in Endpoints, SameReports(e), now \in Nat, now' \in Nat, now <= now'
    PROVE  SameCountsOf(e)
<1>1. Recorded(e)' = Recorded(e)
  BY DEF Recorded, SameReports, SameReport
<1>2. ASSUME NEW t PROVE KnowsAll(e, t) => KnowsAll(e, t)'
  BY <1>1 DEF KnowsAll, Early, Recorded, SameReports, SameReport
<1>3. ASSUME NEW k \in Keys, EndpointOf[k[1]] = e, NEW t PROVE Eligible(k, t)' <=> Eligible(k, t)
  BY <1>3 DEF Eligible, InWindow, SameReports, SameReport
<1>4. ASSUME NEW t PROVE Counted(e, t)' = Counted(e, t)
  <2>1. ASSUME NEW k \in Keys PROVE k \in Counted(e, t)' <=> k \in Counted(e, t)
    BY <1>3, OppositeKey DEF Counted
  <2> QED
    BY <2>1 DEF Counted
<1>5. ASSUME NEW t, NEW u
      PROVE  /\ Within(Counted(e, t), u)' = Within(Counted(e, t), u)
             /\ Faults(Within(Counted(e, t), u))' = Faults(Within(Counted(e, t), u))
  <2>1. \A k \in Counted(e, t) : k \in Keys /\ EndpointOf[k[1]] = e /\ rows[k] # Absent
    BY DEF Counted, Eligible
  <2>2. \A k \in Counted(e, t) : rows'[k].at = rows[k].at /\ rows'[k].verdict = rows[k].verdict
    BY <2>1 DEF SameReports, SameReport
  <2>3. Within(Counted(e, t), u)' = Within(Counted(e, t), u)
    BY <1>4, <2>2 DEF Within, InWindow
  <2>4. Within(Counted(e, t), u) \subseteq Counted(e, t)
    BY DEF Within
  <2> QED
    BY <2>2, <2>3, <2>4 DEF Faults
<1>6. ASSUME NEW x PROVE CountsAll(x, e) => CountsAll(x, e)'
  BY <1>2, <1>5 DEF CountsAll
<1>7. ASSUME NEW x PROVE HasRead(x, e) => HasRead(x, e)'
  <2> SUFFICES ASSUME HasRead(x, e) PROVE HasRead(x, e)'
    OBVIOUS
  <2>1. PICK t \in 0..now : KnowsAll(e, t) /\ x.keys = Counted(e, t)
    BY DEF HasRead
  <2>2. t \in 0..now'
    OBVIOUS
  <2> QED
    BY <1>2, <1>4, <2>1, <2>2 DEF HasRead
<1> QED
  BY <1>1, <1>6, <1>7 DEF HasBuilt, SameCountsOf

(* What is queued stays so when another endpoint is added.                 *)
LEMMA EnqueueKeeps ==
    ASSUME pending \in Seq(Endpoints), NEW e \in Endpoints, Enqueue(e)
    PROVE  /\ pending' \in Seq(Endpoints)
           /\ missed \subseteq missed'
           /\ e \in missed' \/ Queued(e)'
           /\ \A f \in Endpoints : Queued(f) => Queued(f)'
<1>1. CASE ~Queued(e) /\ Len(pending) >= QueueLimit
  BY <1>1 DEF Enqueue, Queued
<1>2. CASE Queued(e)
  BY <1>2 DEF Enqueue, Queued
<1>3. CASE ~Queued(e) /\ ~(Len(pending) >= QueueLimit)
  <2>1. pending' = Append(pending, e) /\ UNCHANGED missed
    BY <1>3 DEF Enqueue
  <2>2. Len(pending') = Len(pending) + 1 /\ pending'[Len(pending) + 1] = e
        /\ \A i \in 1..Len(pending) : pending'[i] = pending[i]
    BY <2>1
  <2>3. Len(pending) \in Nat
    OBVIOUS
  <2>4. Queued(e)'
    BY <2>2, <2>3 DEF Queued
  <2>5. ASSUME NEW f \in Endpoints, Queued(f) PROVE Queued(f)'
    BY <2>2, <2>3, <2>5 DEF Queued
  <2> QED
    BY <2>1, <2>4, <2>5
<1> QED
  BY <1>1, <1>2, <1>3

(* Taking the first key out of the queue leaves the others.                *)
LEMMA DequeueKeeps ==
    ASSUME pending \in Seq(Endpoints), pending # <<>>, pending' = Tail(pending)
    PROVE  /\ pending' \in Seq(Endpoints) /\ Head(pending) \in Endpoints
           /\ \A e \in Endpoints : Queued(e) => e = Head(pending) \/ Queued(e)'
<1>1. Len(pending) \in Nat \ {0} /\ Head(pending) = pending[1]
      /\ Len(pending') = Len(pending) - 1
      /\ \A i \in 1..(Len(pending) - 1) : pending'[i] = pending[i + 1]
  OBVIOUS
<1>2. ASSUME NEW e \in Endpoints, Queued(e), e # Head(pending) PROVE Queued(e)'
  <2>1. PICK i \in 1..Len(pending) : pending[i] = e
    BY <1>2 DEF Queued
  <2>2. i # 1 /\ i - 1 \in 1..(Len(pending) - 1)
    BY <1>1, <1>2, <2>1
  <2>3. pending'[i - 1] = pending[i]
    BY <1>1, <2>2
  <2> QED
    BY <1>1, <2>1, <2>2, <2>3 DEF Queued
<1> QED
  BY <1>1, <1>2

LEMMA QualityInitially == Init => QualityInv /\ EvidenceInv
<1> SUFFICES ASSUME Init PROVE QualityInv /\ EvidenceInv
  OBVIOUS
<1>1. QualityTypes
  BY DEF Init, QualityTypes
<1>2. \A e \in Endpoints : Recorded(e) = {}
  BY DEF Init, Recorded
<1>3. DisagreementsAreRecorded
  BY DEF Init, DisagreementsAreRecorded, Keys, Sources
<1>4. EvidenceInv
  BY DEF Init, EvidenceInv, HoldRestsOnFreshEvidence, Sell, IdleDrain, Loops
<1> QED
  BY <1>1, <1>2, <1>3, <1>4 DEF QualityInv, Accounted

(* What is on its way stays so while its reports stay as they are, unless  *)
(* a handler, the queue, a loop or an aggregate lets go of it.             *)
LEMMA StaysOnItsWay ==
    ASSUME NEW e \in Endpoints, SameReports(e), now \in Nat, now' \in Nat, now <= now',
           handling \subseteq handling', Queued(e) => Queued(e)',
           Loops \subseteq Loops', aggregates \subseteq aggregates',
           missed \subseteq missed', cut \subseteq cut', Accounted(e)
    PROVE  Accounted(e)'
<1>1. SameCountsOf(e)
  BY SameCounts
<1>2. Excused(e) => Excused(e)'
  BY DEF Excused
<1>3. OnItsWay(e) => OnItsWay(e)'
  BY <1>1 DEF OnItsWay, SameCountsOf
<1> QED
  BY <1>1, <1>2, <1>3 DEF Accounted, SameCountsOf

(* A step that stores nothing and leaves the queue alone.                  *)
LEMMA Untouched ==
    ASSUME QualityInv, UNCHANGED <<store, pending, drain, missed>>,
           aggregates \subseteq aggregates', now' \in Nat, now <= now', posts' \subseteq Posts
    PROVE  QualityInv'
<1>1. QualityTypes'
  BY DEF QualityInv, QualityTypes, store, Rows
<1>2. DisagreementsAreRecorded'
  BY DEF QualityInv, DisagreementsAreRecorded, store
<1>3. \A e \in Endpoints : Accounted(e)'
  BY StaysOnItsWay DEF QualityInv, QualityTypes, SameReports, SameReport, store, Queued, Loops
<1> QED
  BY <1>1, <1>2, <1>3 DEF QualityInv

(* A report that is stored has a handler, which will compare it.           *)
LEMMA RecordKeeps ==
    ASSUME QualityInv, NEW p \in posts, RecordObservation(p)
    PROVE  QualityInv'
<1> DEFINE k == <<p.call, p.source>>
<1>0. k \in Keys /\ k[1] = p.call /\ k[2] = p.source /\ p.verdict \in STRING /\ p.at \in Nat
  BY DEF QualityInv, QualityTypes, Posts, Keys
<1>1. /\ rows' = [rows EXCEPT ![k] = Stored(@, p)]
      /\ handling' = handling \cup {k}
      /\ UNCHANGED <<posts, now, disagreements, cut, queue>>
  BY DEF RecordObservation
<1>2. Stored(rows[k], p) \in Rows /\ Absent \notin Rows
      /\ Stored(rows[k], p).createdAt <= now
  BY <1>0, QualityAssumption DEF QualityInv, QualityTypes, Stored, Rows
<1> HIDE DEF k
<1>3. QualityTypes'
  <2>1. \A j \in Keys : rows'[j] # Absent => rows'[j].createdAt <= now
    BY <1>0, <1>1, <1>2 DEF QualityInv, QualityTypes
  <2> QED
    BY <1>0, <1>1, <1>2, <2>1 DEF QualityInv, QualityTypes, queue
<1>4. DisagreementsAreRecorded'
  <2> SUFFICES ASSUME NEW c \in CallIds,
                      rows'[<<c, "in_band">>] # Absent, rows'[<<c, "independent">>] # Absent,
                      rows'[<<c, "in_band">>].verdict # rows'[<<c, "independent">>].verdict,
                      {<<c, "in_band">>, <<c, "independent">>} \cap (handling' \cup cut') = {}
               PROVE  c \in disagreements'
    BY DEF DisagreementsAreRecorded
  <2>1. <<c, "in_band">> # k /\ <<c, "independent">> # k
        /\ <<c, "in_band">> \in Keys /\ <<c, "independent">> \in Keys
    BY <1>1 DEF Keys, Sources
  <2>2. rows'[<<c, "in_band">>] = rows[<<c, "in_band">>]
        /\ rows'[<<c, "independent">>] = rows[<<c, "independent">>]
    BY <1>1, <2>1 DEF QualityInv, QualityTypes
  <2> QED
    BY <1>1, <2>2 DEF QualityInv, DisagreementsAreRecorded
<1>5. ASSUME NEW e \in Endpoints PROVE Accounted(e)'
  <2>1. CASE EndpointOf[k[1]] = e
    BY <1>1, <2>1 DEF Accounted, OnItsWay
  <2>2. CASE EndpointOf[k[1]] # e
    <3>1. SameReports(e)
      BY <1>0, <1>1, <2>2 DEF SameReports, SameReport, QualityInv, QualityTypes
    <3> QED
      BY <1>1, <3>1, StaysOnItsWay DEF QualityInv, QualityTypes, Queued, Loops, queue
  <2> QED
    BY <2>1, <2>2
<1> QED
  BY <1>3, <1>4, <1>5 DEF QualityInv

(* A settlement that is attached changes no verdict and no date.           *)
LEMMA AttachKeeps ==
    ASSUME QualityInv, NEW p \in posts, AttachSettlement(p)
    PROVE  QualityInv'
<1> DEFINE k == <<p.call, p.source>>
<1>0. k \in Keys
  BY DEF QualityInv, QualityTypes, Posts, Keys
<1>1. /\ rows' = [rows EXCEPT ![k] = [rows[k] EXCEPT !.settled = TRUE]]
      /\ rows[k] # Absent
      /\ UNCHANGED <<posts, now, handling, disagreements, cut, queue>>
  BY DEF AttachSettlement
<1> HIDE DEF k
<1>2. rows[k] \in Rows /\ Absent \notin Rows
  BY <1>0, <1>1, QualityAssumption DEF QualityInv, QualityTypes, Rows
<1> DEFINE r == [rows[k] EXCEPT !.settled = TRUE]
<1>3. /\ r \in Rows /\ r.verdict = rows[k].verdict
      /\ r.at = rows[k].at /\ r.createdAt = rows[k].createdAt
  BY <1>2 DEF Rows
<1> HIDE DEF r
<1>4. \A j \in Keys : SameReport(j)
  BY <1>1, <1>2, <1>3 DEF QualityInv, QualityTypes, SameReport, r
<1>5. QualityTypes'
  <2>1. rows' \in [Keys -> Rows \cup {Absent}]
    BY <1>0, <1>1, <1>3 DEF QualityInv, QualityTypes, r
  <2>2. \A j \in Keys : rows'[j] # Absent => rows'[j].createdAt <= now
    BY <1>4 DEF QualityInv, QualityTypes, SameReport
  <2> QED
    BY <1>1, <2>1, <2>2 DEF QualityInv, QualityTypes, queue
<1>6. DisagreementsAreRecorded'
  <2> SUFFICES ASSUME NEW c \in CallIds,
                      rows'[<<c, "in_band">>] # Absent, rows'[<<c, "independent">>] # Absent,
                      rows'[<<c, "in_band">>].verdict # rows'[<<c, "independent">>].verdict,
                      {<<c, "in_band">>, <<c, "independent">>} \cap (handling' \cup cut') = {}
               PROVE  c \in disagreements'
    BY DEF DisagreementsAreRecorded
  <2>1. <<c, "in_band">> \in Keys /\ <<c, "independent">> \in Keys
    BY DEF Keys, Sources
  <2> QED
    BY <1>1, <1>4, <2>1 DEF QualityInv, DisagreementsAreRecorded, SameReport
<1>7. \A e \in Endpoints : Accounted(e)'
  BY <1>1, <1>4, StaysOnItsWay DEF QualityInv, QualityTypes, SameReports, Queued, Loops, queue
<1> QED
  BY <1>5, <1>6, <1>7 DEF QualityInv

(* A handler that compares records the disagreement and enqueues.          *)
LEMMA CompareKeeps ==
    ASSUME QualityInv, NEW k \in handling, CompareObservation(k)
    PROVE  QualityInv'
<1>0. k \in Keys /\ EndpointOf[k[1]] \in Endpoints /\ k[1] \in CallIds
      /\ k = <<k[1], k[2]>> /\ k[2] \in {"in_band", "independent"}
  BY QualityAssumption DEF QualityInv, QualityTypes, Keys, Sources
<1>1. /\ handling' = handling \ {k}
      /\ disagreements' = IF Disagrees(k) THEN WithDisagreement(k[1]) ELSE disagreements
      /\ Enqueue(EndpointOf[k[1]])
      /\ UNCHANGED <<posts, now, rows, cut, drain, aggregates>>
  BY DEF CompareObservation
<1>2. /\ pending' \in Seq(Endpoints)
      /\ missed \subseteq missed'
      /\ EndpointOf[k[1]] \in missed' \/ Queued(EndpointOf[k[1]])'
      /\ \A f \in Endpoints : Queued(f) => Queued(f)'
  BY <1>0, <1>1, EnqueueKeeps DEF QualityInv, QualityTypes
<1>3. QualityTypes'
  BY <1>1, <1>2 DEF QualityInv, QualityTypes
<1>4. DisagreementsAreRecorded'
  <2> SUFFICES ASSUME NEW c \in CallIds,
                      rows[<<c, "in_band">>] # Absent, rows[<<c, "independent">>] # Absent,
                      rows[<<c, "in_band">>].verdict # rows[<<c, "independent">>].verdict,
                      {<<c, "in_band">>, <<c, "independent">>} \cap (handling' \cup cut') = {}
               PROVE  c \in disagreements'
    BY <1>1 DEF DisagreementsAreRecorded
  <2>1. CASE k[1] = c
    <3>1. Disagrees(k)
      BY <1>0, <2>1 DEF Disagrees, Opposite
    <3> QED
      BY <1>1, <2>1, <3>1 DEF WithDisagreement
  <2>2. CASE k[1] # c
    <3>1. k # <<c, "in_band">> /\ k # <<c, "independent">>
      BY <1>0, <2>2
    <3>2. {<<c, "in_band">>, <<c, "independent">>} \cap (handling \cup cut) = {}
      BY <1>1, <3>1
    <3> QED
      BY <1>1, <3>2 DEF QualityInv, DisagreementsAreRecorded, WithDisagreement
  <2> QED
    BY <2>1, <2>2
<1>5. ASSUME NEW e \in Endpoints PROVE Accounted(e)'
  <2>1. CASE EndpointOf[k[1]] = e
    BY <1>2, <2>1 DEF Accounted, Excused, OnItsWay
  <2>2. CASE EndpointOf[k[1]] # e
    <3>1. SameCountsOf(e)
      BY <1>1, SameCounts
         DEF SameReports, SameReport, QualityInv, QualityTypes
    <3>2. (\E j \in handling : EndpointOf[j[1]] = e) => \E j \in handling' : EndpointOf[j[1]] = e
      BY <1>1, <2>2
    <3>3. OnItsWay(e) => OnItsWay(e)'
      BY <1>1, <1>2, <3>1, <3>2 DEF OnItsWay, SameCountsOf, Loops
    <3> QED
      BY <1>1, <1>2, <3>1, <3>3 DEF QualityInv, Accounted, Excused, SameCountsOf
  <2> QED
    BY <2>1, <2>2
<1> QED
  BY <1>3, <1>4, <1>5 DEF QualityInv

(* A handler that fails is remembered.                                     *)
LEMMA CompareFailsKeeps ==
    ASSUME QualityInv, NEW k \in handling, CompareFails(k)
    PROVE  QualityInv'
<1>1. /\ handling' = handling \ {k} /\ cut' = cut \cup {k}
      /\ UNCHANGED <<posts, now, rows, disagreements, queue>>
  BY DEF CompareFails
<1>2. QualityTypes'
  BY <1>1 DEF QualityInv, QualityTypes, queue
<1>3. DisagreementsAreRecorded'
  BY <1>1 DEF QualityInv, DisagreementsAreRecorded
<1>4. ASSUME NEW e \in Endpoints PROVE Accounted(e)'
  <2>1. SameCountsOf(e)
    BY <1>1, SameCounts DEF SameReports, SameReport, QualityInv, QualityTypes
  <2>2. CASE EndpointOf[k[1]] = e
    BY <1>1, <2>2 DEF Accounted, Excused
  <2>3. CASE EndpointOf[k[1]] # e
    <3>1. (\E j \in handling : EndpointOf[j[1]] = e) => \E j \in handling' : EndpointOf[j[1]] = e
      BY <1>1, <2>3
    <3>2. OnItsWay(e) => OnItsWay(e)'
      BY <1>1, <2>1, <3>1 DEF OnItsWay, SameCountsOf, Loops, Queued, queue
    <3> QED
      BY <1>1, <2>1, <3>2 DEF QualityInv, Accounted, Excused, SameCountsOf, queue
  <2> QED
    BY <2>2, <2>3
<1> QED
  BY <1>2, <1>3, <1>4 DEF QualityInv

(* What a step of one drain loop has to show.                              *)
LEMMA DrainKeeps ==
    ASSUME QualityInv, UNCHANGED <<posts, now, store>>,
           pending' \in Seq(Endpoints), DOMAIN drain' = Drains,
           missed \subseteq missed',
           \A e \in Endpoints : OnItsWay(e) => e \in missed' \/ OnItsWay(e)'
    PROVE  QualityInv'
<1>1. QualityTypes'
  BY DEF QualityInv, QualityTypes, store, Rows
<1>2. DisagreementsAreRecorded'
  BY DEF QualityInv, DisagreementsAreRecorded, store
<1>3. ASSUME NEW e \in Endpoints PROVE Accounted(e)'
  <2>1. Recorded(e)' = Recorded(e)
    BY DEF Recorded, store
  <2> QED
    BY <2>1 DEF QualityInv, Accounted, Excused, store
<1> QED
  BY <1>1, <1>2, <1>3 DEF QualityInv

(* A step of loop d, whose record is before until then and after from then *)
(* on: what it held it has handed on, and the others hold what they held.  *)
LEMMA LoopHandsOn ==
    ASSUME QualityInv, UNCHANGED <<now, store>>, NEW d \in Drains, NEW after,
           drain' = [drain EXCEPT ![d] = after],
           aggregates \subseteq aggregates', NEW e \in Endpoints,
           Queued(e) => Queued(e)' \/ e \in missed' \/ (after.queued /\ HasRead(after, e)),
           drain[d].queued /\ HasRead(drain[d], e)
              => e \in missed' \/ (after.queued /\ HasBuilt(after, e)),
           drain[d].queued /\ HasBuilt(drain[d], e)
              => e \in missed' \/ \E a \in aggregates' : CountsAll(a, e),
           OnItsWay(e)
    PROVE  e \in missed' \/ OnItsWay(e)'
<1>1. SameCountsOf(e)
  BY SameCounts DEF SameReports, SameReport, QualityInv, QualityTypes, store
<1>2. after \in Loops' /\ \A x \in Loops : x = drain[d] \/ x \in Loops'
  BY DEF Loops, QualityInv, QualityTypes
<1>3. CASE \E k \in handling : EndpointOf[k[1]] = e
  BY <1>3 DEF OnItsWay, store
<1>4. CASE Queued(e)
  BY <1>1, <1>2, <1>4 DEF OnItsWay, SameCountsOf
<1>5. CASE \E x \in Loops : x.queued /\ (HasRead(x, e) \/ HasBuilt(x, e))
  <2>1. PICK x \in Loops : x.queued /\ (HasRead(x, e) \/ HasBuilt(x, e))
    BY <1>5
  <2>2. CASE x = drain[d]
    BY <1>1, <1>2, <2>1, <2>2 DEF OnItsWay, SameCountsOf
  <2>3. CASE x \in Loops'
    BY <1>1, <2>1, <2>3 DEF OnItsWay, SameCountsOf
  <2> QED
    BY <1>2, <2>2, <2>3
<1>6. CASE \E a \in aggregates : CountsAll(a, e)
  BY <1>1, <1>6 DEF OnItsWay, SameCountsOf
<1> QED
  BY <1>3, <1>4, <1>5, <1>6 DEF OnItsWay

LEMMA LoopRecords ==
    /\ IdleDrain.at = "idle" /\ IdleDrain.retrievedAt = 0
    /\ Looping.at = "looping" /\ Looping.retrievedAt = 0
    /\ \A e, q : /\ Reading(e, q).at = "reading" /\ Reading(e, q).queued = q
                 /\ Reading(e, q).endpoint = e /\ Reading(e, q).keys = Counted(e, now)
                 /\ Reading(e, q).retrievedAt = 0
    /\ \A x : Built(x).at = "saving" /\ Built(x).queued = x.queued /\ Built(x).retrievedAt = now
BY DEF IdleDrain, Looping, Reading, Built

(* What is read now is all there is: what is dated later was early.        *)
LEMMA ReadsAll ==
    ASSUME QualityTypes, NEW e \in Endpoints, NEW q
    PROVE  HasRead(Reading(e, q), e)
<1>1. KnowsAll(e, now)
  <2> SUFFICES ASSUME NEW k \in Recorded(e), ~(rows[k].at <= now)
               PROVE  rows[k].at > rows[k].createdAt
    BY DEF KnowsAll, Early
  <2>1. k \in Keys /\ rows[k] # Absent
    BY DEF Recorded
  <2>2. rows[k] \in Rows /\ rows[k].createdAt <= now /\ now \in Nat
    BY <2>1 DEF QualityTypes
  <2> QED
    BY <2>2 DEF Rows
<1>2. now \in 0..now
  BY DEF QualityTypes
<1> QED
  BY <1>1, <1>2, LoopRecords DEF HasRead

(* What is built of it counts all there is.                                *)
LEMMA BuildsAll ==
    ASSUME NEW e \in Endpoints, NEW x, HasRead(x, e)
    PROVE  HasBuilt(Built(x), e)
<1>1. PICK t \in 0..now : KnowsAll(e, t) /\ x.keys = Counted(e, t)
  BY DEF HasRead
<1>2. /\ Built(x).endpoint = e /\ Built(x).retrievedAt = now
      /\ Built(x).n = Cardinality(Within(Counted(e, t), now))
      /\ Built(x).faults = Cardinality(Faults(Within(Counted(e, t), now)))
  BY <1>1 DEF Built, HasRead
<1>3. CountsAll(Built(x), e)
  BY <1>1, <1>2 DEF CountsAll
<1> QED
  BY <1>3, LoopRecords DEF HasBuilt

(* A step of a loop, which moves what it worked on to where it is counted. *)
LEMMA LoopKeeps ==
    ASSUME QualityInv, NEW d \in Drains,
           \/ StartDrain(d) \/ ReadObservations(d) \/ BuildAggregate(d)
           \/ SaveAggregate(d) \/ RecomputeFails(d) \/ EndDrain(d)
           \/ \E e \in Endpoints : Recompute(d, e)
    PROVE  QualityInv'
<1>0. QualityTypes
  BY DEF QualityInv
<1>1. UNCHANGED <<posts, now, store>>
  BY DEF StartDrain, ReadObservations, BuildAggregate, SaveAggregate, RecomputeFails,
         EndDrain, Recompute
<1>2. CASE StartDrain(d) \/ EndDrain(d)
  <2>1. PICK after \in {Looping, IdleDrain} : drain' = [drain EXCEPT ![d] = after]
    BY <1>2 DEF StartDrain, EndDrain
  <2>2. drain[d].at \notin {"reading", "saving"} /\ UNCHANGED <<pending, aggregates, missed>>
    BY <1>2, LoopRecords DEF StartDrain, EndDrain
  <2>3. ASSUME NEW e \in Endpoints, OnItsWay(e) PROVE e \in missed' \/ OnItsWay(e)'
    <3>1. ~HasRead(drain[d], e) /\ ~HasBuilt(drain[d], e)
      BY <2>2 DEF HasRead, HasBuilt
    <3>2. Queued(e) => Queued(e)'
      BY <2>2 DEF Queued
    <3> QED
      BY <1>1, <2>1, <2>2, <2>3, <3>1, <3>2, LoopHandsOn
  <2> QED
    BY <1>0, <1>1, <2>1, <2>2, <2>3, DrainKeeps DEF QualityTypes
<1>3. CASE ReadObservations(d)
  <2>0. pending # <<>> /\ pending' = Tail(pending)
    BY <1>3 DEF ReadObservations
  <2> PICK f \in Endpoints : f = Head(pending)
    BY <1>0, <2>0, DequeueKeeps DEF QualityTypes
  <2>1. /\ drain[d].at = "looping" /\ drain' = [drain EXCEPT ![d] = Reading(f, TRUE)]
        /\ UNCHANGED <<aggregates, missed>>
    BY <1>3 DEF ReadObservations
  <2>2. /\ pending' \in Seq(Endpoints)
        /\ \A e \in Endpoints : Queued(e) => e = f \/ Queued(e)'
    BY <1>0, <2>0, DequeueKeeps DEF QualityTypes
  <2>3. Reading(f, TRUE).queued /\ HasRead(Reading(f, TRUE), f)
    BY <1>0, ReadsAll, LoopRecords
  <2>4. ASSUME NEW e \in Endpoints, OnItsWay(e) PROVE e \in missed' \/ OnItsWay(e)'
    <3>1. ~HasRead(drain[d], e) /\ ~HasBuilt(drain[d], e)
      BY <2>1 DEF HasRead, HasBuilt
    <3> QED
      BY <1>1, <2>1, <2>2, <2>3, <2>4, <3>1, LoopHandsOn
  <2> QED
    BY <1>0, <1>1, <2>1, <2>2, <2>4, DrainKeeps DEF QualityTypes
<1>4. CASE BuildAggregate(d)
  <2>1. /\ drain[d].at = "reading" /\ drain' = [drain EXCEPT ![d] = Built(drain[d])]
        /\ UNCHANGED <<pending, aggregates, missed>>
    BY <1>4 DEF BuildAggregate
  <2>2. ASSUME NEW e \in Endpoints, OnItsWay(e) PROVE e \in missed' \/ OnItsWay(e)'
    <3>1. HasRead(drain[d], e) => HasBuilt(Built(drain[d]), e)
      BY BuildsAll
    <3>2. Built(drain[d]).queued = drain[d].queued /\ ~HasBuilt(drain[d], e)
      BY <2>1, LoopRecords DEF HasBuilt
    <3>3. Queued(e) => Queued(e)'
      BY <2>1 DEF Queued
    <3> QED
      BY <1>1, <2>1, <2>2, <3>1, <3>2, <3>3, LoopHandsOn
  <2> QED
    BY <1>0, <1>1, <2>1, <2>2, DrainKeeps DEF QualityTypes
<1>5. CASE SaveAggregate(d)
  <2> DEFINE a == Aggregate(drain[d].endpoint, drain[d].n, drain[d].faults, drain[d].retrievedAt)
  <2>1. /\ drain[d].at = "saving" /\ drain' = [drain EXCEPT ![d] = Onward(d)]
        /\ aggregates' = aggregates \cup {a}
        /\ UNCHANGED <<pending, missed>>
    BY <1>5 DEF SaveAggregate, LeftPending
  <2>2. ASSUME NEW e \in Endpoints, OnItsWay(e) PROVE e \in missed' \/ OnItsWay(e)'
    <3>1. HasBuilt(drain[d], e) => CountsAll(a, e)
      BY DEF HasBuilt, CountsAll, Aggregate
    <3> HIDE DEF a
    <3>2. ~HasRead(drain[d], e)
      BY <2>1 DEF HasRead
    <3>3. Queued(e) => Queued(e)'
      BY <2>1 DEF Queued
    <3> QED
      BY <1>1, <2>1, <2>2, <3>1, <3>2, <3>3, LoopHandsOn
  <2> HIDE DEF a
  <2> QED
    BY <1>0, <1>1, <2>1, <2>2, DrainKeeps DEF QualityTypes
<1>6. CASE RecomputeFails(d)
  <2>1. /\ missed' = IF drain[d].queued THEN missed \cup {drain[d].endpoint} ELSE missed
        /\ drain' = [drain EXCEPT ![d] = Onward(d)]
        /\ UNCHANGED <<pending, aggregates>>
    BY <1>6 DEF RecomputeFails
  <2>2. ASSUME NEW e \in Endpoints, OnItsWay(e) PROVE e \in missed' \/ OnItsWay(e)'
    <3>1. HasRead(drain[d], e) \/ HasBuilt(drain[d], e) => drain[d].endpoint = e
      BY DEF HasRead, HasBuilt, CountsAll
    <3>2. drain[d].queued /\ (HasRead(drain[d], e) \/ HasBuilt(drain[d], e)) => e \in missed'
      BY <2>1, <3>1
    <3>3. Queued(e) => Queued(e)'
      BY <2>1 DEF Queued
    <3> QED
      BY <1>1, <2>1, <2>2, <3>2, <3>3, LoopHandsOn
  <2> QED
    BY <1>0, <1>1, <2>1, <2>2, DrainKeeps DEF QualityTypes
<1>7. CASE \E e \in Endpoints : Recompute(d, e)
  <2>1. PICK f \in Endpoints : Recompute(d, f)
    BY <1>7
  <2>2. /\ drain[d].at = "idle" /\ drain' = [drain EXCEPT ![d] = Reading(f, FALSE)]
        /\ UNCHANGED <<pending, aggregates, missed>>
    BY <2>1, LoopRecords DEF Recompute
  <2>3. ASSUME NEW e \in Endpoints, OnItsWay(e) PROVE e \in missed' \/ OnItsWay(e)'
    <3>1. ~HasRead(drain[d], e) /\ ~HasBuilt(drain[d], e)
      BY <2>2 DEF HasRead, HasBuilt
    <3>2. Queued(e) => Queued(e)'
      BY <2>2 DEF Queued
    <3> QED
      BY <1>1, <2>2, <2>3, <3>1, <3>2, LoopHandsOn
  <2> QED
    BY <1>0, <1>1, <2>2, <2>3, DrainKeeps DEF QualityTypes
<1> QED
  BY <1>2, <1>3, <1>4, <1>5, <1>6, <1>7

(* A crash is remembered for what it takes with it.                        *)
LEMMA CrashKeeps ==
    ASSUME QualityInv, Crash
    PROVE  QualityInv'
<1>1. /\ cut' = cut \cup handling /\ handling' = {}
      /\ missed' = missed \cup {pending[i] : i \in 1..Len(pending)}
            \cup {drain[d].endpoint : d \in {x \in Drains : drain[x].endpoint # Absent}}
      /\ pending' = <<>>
      /\ drain' = [d \in Drains |-> IdleDrain]
      /\ UNCHANGED <<posts, now, rows, disagreements, aggregates>>
  BY DEF Crash
<1>2. QualityTypes'
  BY <1>1 DEF QualityInv, QualityTypes, Rows
<1>3. DisagreementsAreRecorded'
  BY <1>1 DEF QualityInv, DisagreementsAreRecorded
<1>4. ASSUME NEW e \in Endpoints PROVE Accounted(e)'
  <2>1. SameCountsOf(e)
    BY <1>1, SameCounts DEF SameReports, SameReport, QualityInv, QualityTypes
  <2>2. CASE Recorded(e) = {} \/ Excused(e)
    BY <1>1, <2>1, <2>2 DEF Accounted, Excused, SameCountsOf
  <2>3. CASE \E k \in handling : EndpointOf[k[1]] = e
    BY <1>1, <2>3 DEF Accounted, Excused
  <2>4. CASE Queued(e)
    BY <1>1, <2>4 DEF Accounted, Excused, Queued
  <2>5. CASE \E x \in Loops : HasRead(x, e) \/ HasBuilt(x, e)
    <3>1. PICK d \in Drains : drain[d].endpoint = e
      BY <2>5 DEF HasRead, HasBuilt, CountsAll, Loops
    <3>2. drain[d].endpoint # Absent
      BY <3>1, QualityAssumption
    <3>3. e \in missed'
      BY <1>1, <3>1, <3>2
    <3> QED
      BY <3>3 DEF Accounted, Excused
  <2>6. CASE \E a \in aggregates : CountsAll(a, e)
    BY <1>1, <2>1, <2>6 DEF Accounted, OnItsWay, SameCountsOf
  <2> QED
    BY <2>2, <2>3, <2>4, <2>5, <2>6 DEF QualityInv, Accounted, OnItsWay
<1> QED
  BY <1>2, <1>3, <1>4 DEF QualityInv

(* A report that is sent is well formed.                                   *)
LEMMA SendReportTypes ==
    ASSUME QualityTypes, NEW r \in Observations, SendReport(r)
    PROVE  posts' \subseteq Posts
<1>1. \A kind \in {"observation", "settlement"} : Post(kind, r) \in Posts
  BY QualityAssumption DEF QualityTypes, Post, Posts
<1> QED
  BY <1>1 DEF SendReport, QualityTypes

LEMMA QualityInductive == QualityInv /\ [Next]_vars => QualityInv'
<1> SUFFICES ASSUME QualityInv, [Next]_vars PROVE QualityInv'
  OBVIOUS
<1>0. QualityTypes
  BY DEF QualityInv
<1>1. CASE Tick \/ UNCHANGED vars \/ RefreshCached \/ RefreshInsufficient
         \/ RefreshFetched \/ RefreshUnavailable
  <2>1. UNCHANGED <<store, queue, posts>> /\ now' \in Nat /\ now <= now'
    BY <1>0, <1>1
       DEF QualityTypes, Tick, vars, RefreshCached, RefreshInsufficient, RefreshFetched,
           RefreshUnavailable
  <2> QED
    BY <1>0, <2>1, Untouched DEF QualityTypes, queue
<1>2. CASE \E r \in Observations : SendReport(r)
  <2>1. posts' \subseteq Posts /\ UNCHANGED <<now, store, queue>>
    BY <1>0, <1>2, SendReportTypes DEF SendReport
  <2> QED
    BY <1>0, <2>1, Untouched DEF QualityTypes, queue
<1>3. CASE \E a \in Pushed, issuer \in Issuers : PushAggregate(a, issuer)
  <2>1. UNCHANGED <<posts, now, store, pending, drain, missed>> /\ aggregates \subseteq aggregates'
    BY <1>3 DEF PushAggregate
  <2> QED
    BY <1>0, <2>1, Untouched DEF QualityTypes
<1>4. CASE \E p \in posts : RecordObservation(p) \/ AttachSettlement(p)
  BY <1>4, RecordKeeps, AttachKeeps
<1>5. CASE \E k \in handling : CompareObservation(k) \/ CompareFails(k)
  BY <1>5, CompareKeeps, CompareFailsKeeps
<1>6. CASE \/ \E d \in Drains : StartDrain(d) \/ ReadObservations(d) \/ BuildAggregate(d)
                              \/ SaveAggregate(d) \/ RecomputeFails(d) \/ EndDrain(d)
           \/ \E d \in Drains, e \in Endpoints : Recompute(d, e)
  BY <1>6, LoopKeeps
<1>7. CASE Crash
  BY <1>7, CrashKeeps
<1> QED
  BY <1>1, <1>2, <1>3, <1>4, <1>5, <1>6, <1>7 DEF Next

(* Every report the Bazaar accepted leaves its trace: in a disagreement    *)
(* when the sources differ, and in an aggregate computed when it was known *)
(* and in the window, once the queue is at rest and whatever arrives       *)
(* between the reading and the saving of an aggregate; but for one dated   *)
(* ahead of its arrival (recordDisagreements, the recompute queue).        *)
THEOREM ReportsLeaveTheirTrace == Spec => []NothingReportedIsLost
<1>1. QualityInv => NothingReportedIsLost
  <2> SUFFICES ASSUME QualityInv PROVE AggregateCatchesUp
    BY DEF QualityInv, NothingReportedIsLost
  <2> SUFFICES ASSUME QueueIdle, NEW e \in Endpoints, Recorded(e) # {}, ~Excused(e)
               PROVE  \E a \in aggregates : CountsAll(a, e)
    BY DEF AggregateCatchesUp, Excused
  <2>1. \A x \in Loops : x.at = "idle"
    BY LoopRecords DEF QueueIdle, Loops
  <2>2. \A x \in Loops : ~HasRead(x, e) /\ ~HasBuilt(x, e)
    BY <2>1 DEF HasRead, HasBuilt
  <2>3. ~Queued(e) /\ handling = {}
    BY DEF QueueIdle, Queued
  <2> QED
    BY <2>2, <2>3 DEF QualityInv, Accounted, OnItsWay
<1> QED
  BY <1>1, QualityInitially, QualityInductive, PTL DEF Spec

----------------------------------------------------------------------------
(* The gateway's evidence.                                                 *)

(* A step of the Bazaar.                                                   *)
BazaarStep ==
    \/ Tick \/ Crash
    \/ \E r \in Observations : SendReport(r)
    \/ \E p \in posts : RecordObservation(p) \/ AttachSettlement(p)
    \/ \E k \in handling : CompareObservation(k) \/ CompareFails(k)
    \/ \E d \in Drains : StartDrain(d) \/ ReadObservations(d) \/ BuildAggregate(d)
                            \/ SaveAggregate(d) \/ RecomputeFails(d) \/ EndDrain(d)
    \/ \E d \in Drains, e \in Endpoints : Recompute(d, e)
    \/ \E a \in Pushed, issuer \in Issuers : PushAggregate(a, issuer)

(* It leaves the gateway alone, and dates aggregates by the clock.         *)
LEMMA BazaarDates ==
    ASSUME EvidenceInv, QualityTypes, BazaarStep
    PROVE  EvidenceInv'
<1>0. DOMAIN drain = Drains
  BY DEF QualityTypes
<1>1. UNCHANGED policy /\ now' \in Nat
  <2>1. CASE Tick
    BY <2>1 DEF EvidenceInv, Tick
  <2>2. CASE ~Tick
    <3>1. UNCHANGED <<now, policy>>
      BY <2>2 DEF BazaarStep, Crash, SendReport, RecordObservation, AttachSettlement,
                  CompareObservation, CompareFails, StartDrain, ReadObservations,
                  BuildAggregate, SaveAggregate, RecomputeFails, EndDrain, Recompute,
                  PushAggregate
    <3> QED
      BY <3>1 DEF EvidenceInv
  <2> QED
    BY <2>1, <2>2
<1>2. \A x \in Loops' : x.retrievedAt \in Nat
  <2>1. CASE UNCHANGED drain
    BY <2>1 DEF EvidenceInv, Loops
  <2>2. CASE Crash
    BY <2>2, LoopRecords DEF Crash, Loops
  <2>3. ASSUME NEW d \in Drains,
               \/ StartDrain(d) \/ ReadObservations(d) \/ BuildAggregate(d)
               \/ SaveAggregate(d) \/ RecomputeFails(d) \/ EndDrain(d)
               \/ \E e \in Endpoints : Recompute(d, e)
        PROVE  \A x \in Loops' : x.retrievedAt \in Nat
    <3>1. \E after : /\ drain' = [drain EXCEPT ![d] = after]
                     /\ after.retrievedAt \in {0, now}
      <4>1. CASE StartDrain(d) \/ EndDrain(d)
        BY <4>1, LoopRecords DEF StartDrain, EndDrain
      <4>2. CASE ReadObservations(d)
        <5>1. drain' = [drain EXCEPT ![d] = Reading(Head(pending), TRUE)]
          BY <4>2 DEF ReadObservations
        <5>2. Reading(Head(pending), TRUE).retrievedAt = 0
          BY LoopRecords
        <5> QED
          BY <5>1, <5>2, Zenon
      <4>3. CASE BuildAggregate(d)
        BY <4>3, LoopRecords DEF BuildAggregate
      <4>4. CASE SaveAggregate(d) \/ RecomputeFails(d)
        BY <4>4, LoopRecords DEF SaveAggregate, RecomputeFails, Onward
      <4>5. CASE \E e \in Endpoints : Recompute(d, e)
        <5>1. PICK e \in Endpoints : drain' = [drain EXCEPT ![d] = Reading(e, FALSE)]
          BY <4>5 DEF Recompute
        <5>2. Reading(e, FALSE).retrievedAt = 0
          BY LoopRecords
        <5> QED
          BY <5>1, <5>2, Zenon
      <4> QED
        BY <2>3, <4>1, <4>2, <4>3, <4>4, <4>5
    <3>2. PICK after : /\ drain' = [drain EXCEPT ![d] = after]
                       /\ after.retrievedAt \in {0, now}
      BY <3>1
    <3>3. \A x \in Loops' : x = after \/ x \in Loops
      BY <1>0, <3>2 DEF Loops
    <3> QED
      BY <3>2, <3>3 DEF EvidenceInv
  <2> QED
    BY <2>1, <2>2, <2>3
       DEF BazaarStep, Tick, SendReport, RecordObservation, AttachSettlement,
           CompareObservation, CompareFails, PushAggregate, queue
<1>3. \A a \in aggregates' : a.retrievedAt \in Nat
  <2>1. CASE UNCHANGED aggregates
    BY <2>1 DEF EvidenceInv
  <2>2. CASE \E d \in Drains : SaveAggregate(d)
    BY <2>2 DEF EvidenceInv, SaveAggregate, Aggregate, Loops
  <2>3. CASE \E a \in Pushed, issuer \in Issuers : PushAggregate(a, issuer)
    BY <2>3, QualityAssumption DEF EvidenceInv, PushAggregate
  <2> QED
    BY <2>1, <2>2, <2>3
       DEF BazaarStep, Tick, Crash, SendReport, RecordObservation, AttachSettlement,
           CompareObservation, CompareFails, StartDrain, ReadObservations, BuildAggregate,
           RecomputeFails, EndDrain, Recompute, queue
<1> QED
  BY <1>1, <1>2, <1>3 DEF EvidenceInv, HoldRestsOnFreshEvidence, policy

LEMMA EvidenceInductive == EvidenceInv /\ QualityTypes /\ [Next]_vars => EvidenceInv'
<1> SUFFICES ASSUME EvidenceInv, QualityTypes, [Next]_vars PROVE EvidenceInv'
  OBVIOUS
<1>0. MaxAge \in Nat /\ CacheTtl \in Nat
  BY QualityAssumption
<1>1. CASE UNCHANGED vars
  BY <1>1 DEF EvidenceInv, HoldRestsOnFreshEvidence, Loops, vars, queue, policy
<1>2. CASE RefreshCached
  <2>1. cache # Absent /\ now - cache.cachedAt <= CacheTtl
        /\ UNCHANGED <<now, drain, aggregates, cache>>
        /\ Decide(Evaluate(cache.aggregate), cache.aggregate)
    BY <1>2 DEF RefreshCached, CacheFresh, queue
  <2>2. now - cache.aggregate.retrievedAt <= MaxAge + CacheTtl
    BY <1>0, <2>1 DEF EvidenceInv
  <2>3. Evaluate(cache.aggregate) = "sell" \/ cache.aggregate.n # 0
    BY QualityAssumption DEF Evaluate
  <2>4. HoldRestsOnFreshEvidence'
    BY <2>1, <2>2, <2>3 DEF Decide, HoldRestsOnFreshEvidence, Sell
  <2> QED
    BY <2>1, <2>4 DEF EvidenceInv, Loops
<1>3. CASE RefreshInsufficient
  <2>1. UNCHANGED <<now, drain, aggregates, cache>>
    BY <1>3 DEF RefreshInsufficient, queue
  <2>2. HoldRestsOnFreshEvidence'
    BY <1>3 DEF RefreshInsufficient, Unobserved, Decide, HoldRestsOnFreshEvidence, Sell
  <2> QED
    BY <2>1, <2>2 DEF EvidenceInv, Loops
<1>4. CASE RefreshFetched
  <2>1. PICK a \in Served(Watched) :
            /\ ~Unobserved(a)
            /\ IF Verifies(a) THEN /\ cache' = [aggregate |-> a, cachedAt |-> now]
                                   /\ Decide(Evaluate(a), a)
                              ELSE Decide("sell", Absent) /\ UNCHANGED cache
    BY <1>4 DEF RefreshFetched
  <2>2. UNCHANGED <<now, drain, aggregates>> /\ now \in Nat
    BY <1>4 DEF EvidenceInv, RefreshFetched, queue
  <2>3. a.retrievedAt \in Nat
    BY <2>2 DEF EvidenceInv, Served, Latest, Aggregate
  <2>4. CASE ~Verifies(a)
    BY <2>1, <2>2, <2>4 DEF EvidenceInv, HoldRestsOnFreshEvidence, Decide, Sell, Loops
  <2>5. CASE Verifies(a)
    <3>1. now - a.retrievedAt <= MaxAge
      BY <2>5 DEF Verifies, Fresh
    <3>2. now - a.retrievedAt <= MaxAge + CacheTtl
      BY <1>0, <2>2, <2>3, <3>1
    <3>3. HoldRestsOnFreshEvidence'
      BY <2>1, <2>5, <3>2 DEF Unobserved, Decide, HoldRestsOnFreshEvidence, Sell
    <3> QED
      BY <2>1, <2>2, <2>3, <2>5, <3>1, <3>3 DEF EvidenceInv, Loops
  <2> QED
    BY <2>4, <2>5
<1>5. CASE RefreshUnavailable
  BY <1>5 DEF RefreshUnavailable, StaleAction, Decide, Sell, EvidenceInv,
              HoldRestsOnFreshEvidence, Loops, queue
<1>6. CASE BazaarStep
  BY <1>6, BazaarDates
<1> QED
  BY <1>1, <1>2, <1>3, <1>4, <1>5, <1>6 DEF Next, BazaarStep

(* A gateway that holds sales does so by an aggregate no older than the    *)
(* age it accepts and the time it may cache it, whether or not the Bazaar  *)
(* can be reached, or because it was configured to hold what nobody has    *)
(* observed (ProviderAggregateClient.get, evaluate, decisionFor).          *)
THEOREM HoldsAreRecent == Spec => []HoldRestsOnFreshEvidence
<1>1. QualityInv => QualityTypes
  BY DEF QualityInv
<1>2. EvidenceInv => HoldRestsOnFreshEvidence
  BY DEF EvidenceInv
<1> QED
  BY <1>1, <1>2, QualityInitially, QualityInductive, EvidenceInductive, PTL DEF Spec

=============================================================================
