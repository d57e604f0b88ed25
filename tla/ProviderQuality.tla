--------------------------- MODULE ProviderQuality ---------------------------
(***************************************************************************)
(* What becomes of the reports on calls (PaidCall says when a seller sends *)
(* them): the Bazaar's store of observations, the disagreements between    *)
(* the seller's own reports and independent ones, the queue that           *)
(* recomputes signed aggregates, and the gateway that holds sales by them  *)
(* (bazaar-service/src/provider-quality/, server.ts, sdk-typescript/src/   *)
(* provider-quality.ts and gateway-service/src/provider-policy.ts).        *)
(*                                                                         *)
(* A handler of the Bazaar waits for its database between storing a report *)
(* and comparing it; a recomputation waits between the database's reading  *)
(* of the observations and the signing of the aggregate, and again until   *)
(* it is saved.  Each source reports a call once, by a clock of its own    *)
(* that may run ahead; its signed report may arrive again.  The Bazaar and *)
(* the gateway share a clock.  Payees are accounts, not contracts.         *)
(***************************************************************************)
EXTENDS Integers, FiniteSets, Sequences

CONSTANTS
    CallIds,
    EndpointOf,      \* [CallIds -> Endpoints]
    Endpoints,
    Observations,    \* what the sources may come to report of the calls, and
                     \* how far ahead the reporter's clock is
    QueueLimit,      \* providerAggregateRecomputeQueueLimit
    Drains,          \* bound: drain loops and recompute requests at once
    OwnSigners,      \* providerQualityAuthorizedSigners, or Absent
    Observers,       \* providerObserverAuthorizedSigners
    Pushed,          \* aggregates that issuers may send to the Bazaar
    Issuers,         \* providerAggregateAuthorizedIssuers
    ReportAge,       \* how old a report or a pushed aggregate may be (15 min)
    Skew,            \* futureSkewSeconds: how far ahead either may be dated
    Window,          \* windowSeconds of an aggregate (30 days)
    ServeAge,        \* how old a served aggregate may be (30 days)
    Watched,         \* the endpoint of the gateway's route
    HoldAbove,       \* pairs <<faults, n>>, n > 0, that the policy holds on:
                     \* published with a Wilson bound above holdMax, or in a
                     \* state that it is configured to hold on
    InsufficientData,   \* of the policy: what to do without observations
    MaxAge, CacheTtl, MaxStale,   \* of the aggregate client
    MaxTime, MaxFailures,         \* bounds: seconds; crashes, failed
                                  \* queries and reports that arrive again
    Absent

Sources == {"in_band", "independent"}

ASSUME QualityAssumption ==
    /\ EndpointOf \in [CallIds -> Endpoints]
    /\ Observations \subseteq [call : CallIds, source : Sources, signer : STRING,
                    verdict : STRING, settled : BOOLEAN, ahead : Nat]
    /\ QueueLimit \in Nat \ {0} /\ Watched \in Endpoints
    /\ HoldAbove \subseteq Nat \X (Nat \ {0}) /\ InsufficientData \in {"sell", "hold"}
    /\ {MaxAge, CacheTtl, MaxStale, ReportAge, Skew, Window, ServeAge, MaxTime, MaxFailures}
           \subseteq Nat
    /\ Pushed \subseteq [endpoint : Endpoints, n : Nat, faults : Nat, retrievedAt : Nat]
    /\ Absent \notin Endpoints
    /\ Absent \notin [verdict : STRING, at : Nat, createdAt : Nat, settled : BOOLEAN]

Keys == CallIds \X Sources

VARIABLES
    now,             \* in seconds, as retrievedAt
    posts,           \* sent to the Bazaar; each may arrive at any time, also
                     \* again, or never
    rows,            \* provider_observations: the verdict, date, arrival and
                     \* settlement of each source's report of a call
    handling,        \* reports stored and not compared yet
    disagreements,   \* calls in provider_observation_disagreements
    pending,         \* pendingProviderAggregateRecomputes, in its order
    scheduled,       \* providerAggregateRecomputeScheduled
    drain,           \* what each drain loop does
    aggregates,      \* provider_quality_aggregates
    failures,        \* crashes, failed queries, repeated reports, pushed
                     \* aggregates and recompute requests so far
    cache,           \* of ProviderAggregateClient for the watched endpoint
    decision,        \* of the gateway's policy for it
    \* History, read by the properties only:
    cut,             \* reports whose handler died before it compared them
    missed           \* endpoints a recomputation was dropped for

store == <<rows, handling, disagreements, cut>>
queue == <<pending, scheduled, drain, aggregates, missed>>
policy == <<cache, decision>>
vars == <<posts, now, store, queue, failures, policy>>

(* A decision remembers the evidence of a hold: how many observations, and *)
(* how long ago they were counted.                                         *)
Sell == [action |-> "sell", n |-> 0, age |-> 0]
IdleDrain == [at |-> "idle", queued |-> FALSE, endpoint |-> Absent, keys |-> {},
              n |-> 0, faults |-> 0, retrievedAt |-> 0]

Init ==
    /\ now = 0 /\ posts = {} /\ failures = 0
    /\ rows = [k \in Keys |-> Absent] /\ handling = {} /\ disagreements = {} /\ cut = {}
    /\ pending = <<>> /\ scheduled = FALSE /\ missed = {}
    /\ drain = [d \in Drains |-> IdleDrain]
    /\ aggregates = {}
    /\ cache = Absent
    /\ decision = Sell

Tick ==
    /\ now < MaxTime
    /\ now' = now + 1
    /\ UNCHANGED <<posts, store, queue, failures, policy>>

Post(kind, r) ==
    [kind |-> kind, call |-> r.call, source |-> r.source, signer |-> r.signer,
     verdict |-> r.verdict, at |-> now + r.ahead]

(* The seller's onBeforeSettle and onAfterSettle: the report of a call and,*)
(* if it is settled, the transaction, neither waited for.  A gateway, whose*)
(* source is independent, sends a transaction too, but with a token that   *)
(* the route refuses.                                                      *)
SendReport(r) ==
    /\ \A p \in posts : p.call = r.call => p.source # r.source
    /\ posts' = posts \cup {Post("observation", r)}
                    \cup (IF r.settled THEN {Post("settlement", r)} ELSE {})
    /\ UNCHANGED <<now, store, queue, failures, policy>>

----------------------------------------------------------------------------
(* POST /provider-quality/observations and .../observations/settlement.    *)

(* INSERT ... ON CONFLICT (signer, signature) DO UPDATE SET settlement_tx  *)
(* = COALESCE(EXCLUDED.settlement_tx, ...).                                *)
Stored(row, p) ==
    IF row = Absent
    THEN [verdict |-> p.verdict, at |-> p.at, createdAt |-> now, settled |-> FALSE]
    ELSE row

(* verifyFreshness.                                                        *)
Fresh(at, age) == at <= now + Skew /\ now - at <= age

(* verifyProviderObservation.  The token tells the source; the seller's own*)
(* report is signed by the payee, who must be among the signers configured *)
(* for it, if there are any, and an independent one by a known observer.   *)
Authentic(p) ==
    /\ IF p.source = "in_band"
       THEN p.signer = "payee" /\ (OwnSigners # Absent => p.signer \in OwnSigners)
       ELSE p.signer \in Observers
    /\ Fresh(p.at, ReportAge)

RecordObservation(p) ==
    LET k == <<p.call, p.source>> IN
    /\ p.kind = "observation" /\ k \notin handling
    /\ Authentic(p)
    /\ rows[k] # Absent => failures < MaxFailures
    /\ failures' = IF rows[k] = Absent THEN failures ELSE failures + 1
    /\ rows' = [rows EXCEPT ![k] = Stored(@, p)]
    /\ handling' = handling \cup {k}
    /\ UNCHANGED <<posts, now, disagreements, cut, queue, policy>>

(* The route takes the internal token only, the one of in-band reports.    *)
Correlates(p) == p.kind = "settlement" /\ p.source = "in_band"

(* attachSettlement, of a report that is there; else 404, for ever: nobody *)
(* sends it again.                                                         *)
AttachSettlement(p) ==
    LET k == <<p.call, p.source>> IN
    /\ Correlates(p) /\ rows[k] # Absent
    /\ rows' = [rows EXCEPT ![k].settled = TRUE]
    /\ UNCHANGED <<posts, now, handling, disagreements, cut, queue, failures, policy>>

Opposite(k) == <<k[1], IF k[2] = "in_band" THEN "independent" ELSE "in_band">>

(* recordDisagreements: the other source has reported something else.      *)
Disagrees(k) == rows[Opposite(k)] # Absent /\ rows[Opposite(k)].verdict # rows[k].verdict

(* INSERT ... ON CONFLICT DO NOTHING: one row for a pair of reports.       *)
WithDisagreement(c) == disagreements \cup {c}

Queued(e) == \E i \in 1..Len(pending) : pending[i] = e

(* enqueueProviderAggregateRecompute.                                      *)
Enqueue(e) ==
    IF ~Queued(e) /\ Len(pending) >= QueueLimit
    THEN missed' = missed \cup {e} /\ UNCHANGED <<pending, scheduled>>
    ELSE /\ pending' = IF Queued(e) THEN pending ELSE Append(pending, e)
         /\ scheduled' = TRUE
         /\ UNCHANGED missed

(* The comparison, and the recomputation it ends with.                     *)
CompareObservation(k) ==
    /\ k \in handling
    /\ handling' = handling \ {k}
    /\ disagreements' = IF Disagrees(k) THEN WithDisagreement(k[1]) ELSE disagreements
    /\ Enqueue(EndpointOf[k[1]])
    /\ UNCHANGED <<posts, now, rows, cut, drain, aggregates, failures, policy>>

(* Its query fails: answered with an error, nothing is enqueued.           *)
CompareFails(k) ==
    /\ k \in handling /\ failures < MaxFailures
    /\ failures' = failures + 1
    /\ handling' = handling \ {k} /\ cut' = cut \cup {k}
    /\ UNCHANGED <<posts, now, rows, disagreements, queue, policy>>

----------------------------------------------------------------------------
(* The recompute queue.                                                    *)

Looping == [IdleDrain EXCEPT !.at = "looping", !.queued = TRUE]

(* The zero timeout: the flag is cleared before the loop runs, so that the *)
(* next report starts another loop beside it.                              *)
StartDrain(d) ==
    /\ scheduled /\ drain[d] = IdleDrain
    /\ scheduled' = FALSE
    /\ drain' = [drain EXCEPT ![d] = Looping]
    /\ UNCHANGED <<posts, now, store, pending, aggregates, missed, failures, policy>>

(* The thirty days before t: neither older nor of the future.              *)
InWindow(at, t) == t - Window <= at /\ at <= t

(* One observation per call of those in the window of t, an independent one*)
(* before the seller's own.                                                *)
Eligible(k, t) == rows[k] # Absent /\ InWindow(rows[k].at, t)
Counted(e, t) ==
    {k \in Keys : /\ EndpointOf[k[1]] = e /\ Eligible(k, t)
                  /\ k[2] = "in_band" => ~Eligible(Opposite(k), t)}

Within(ks, t) == {k \in ks : InWindow(rows[k].at, t)}
Faults(ks) == {k \in ks : rows[k].verdict = "provider"}

Reading(e, queued) ==
    [IdleDrain EXCEPT !.at = "reading", !.queued = queued, !.endpoint = e,
                      !.keys = Counted(e, now)]

(* The first key is taken out of the queue and its observations are read.  *)
ReadObservations(d) ==
    /\ drain[d].at = "looping" /\ pending # <<>>
    /\ pending' = Tail(pending)
    /\ drain' = [drain EXCEPT ![d] = Reading(Head(pending), TRUE)]
    /\ UNCHANGED <<posts, now, store, scheduled, aggregates, missed, failures, policy>>

(* POST /provider-quality/aggregates/recompute: the same beside the queue. *)
Recompute(d, e) ==
    /\ drain[d] = IdleDrain /\ failures < MaxFailures
    /\ failures' = failures + 1
    /\ drain' = [drain EXCEPT ![d] = Reading(e, FALSE)]
    /\ UNCHANGED <<posts, now, store, pending, scheduled, aggregates, missed, policy>>

(* buildProviderAggregate, when the answer of the database is here: what   *)
(* left the window meanwhile is left out.                                  *)
Built(x) ==
    [at |-> "saving", queued |-> x.queued, endpoint |-> x.endpoint, keys |-> {},
     n |-> Cardinality(Within(x.keys, now)),
     faults |-> Cardinality(Faults(Within(x.keys, now))), retrievedAt |-> now]

BuildAggregate(d) ==
    /\ drain[d].at = "reading"
    /\ drain' = [drain EXCEPT ![d] = Built(@)]
    /\ UNCHANGED <<posts, now, store, pending, scheduled, aggregates, missed,
                   failures, policy>>

EndDrain(d) ==
    /\ drain[d].at = "looping" /\ pending = <<>>
    /\ drain' = [drain EXCEPT ![d] = IdleDrain]
    /\ UNCHANGED <<posts, now, store, pending, scheduled, aggregates, missed, failures, policy>>

(* Mutant of LeftPending: the key leaves the queue when its aggregate is   *)
(* saved.                                                                  *)
LeftPendingSaved(e) == SelectSeq(pending, LAMBDA x : x # e)

(* What is still to do once an aggregate of e is saved.                    *)
LeftPending(e) == pending

Aggregate(e, n, f, at) == [endpoint |-> e, n |-> n, faults |-> f, retrievedAt |-> at]

(* A loop goes on with the next key; a request is answered.                *)
Onward(d) == IF drain[d].queued THEN Looping ELSE IdleDrain

SaveAggregate(d) ==
    /\ drain[d].at = "saving"
    /\ aggregates' = aggregates \cup {Aggregate(drain[d].endpoint, drain[d].n,
                                                drain[d].faults, drain[d].retrievedAt)}
    /\ pending' = IF drain[d].queued THEN LeftPending(drain[d].endpoint) ELSE pending
    /\ drain' = [drain EXCEPT ![d] = Onward(d)]
    /\ UNCHANGED <<posts, now, store, scheduled, missed, failures, policy>>

(* POST /provider-quality/aggregates: one that an authorized issuer signed *)
(* a moment ago.                                                           *)
PushAggregate(a, issuer) ==
    /\ failures < MaxFailures
    /\ issuer \in Issuers
    /\ Fresh(a.retrievedAt, ReportAge)
    /\ failures' = failures + 1
    /\ aggregates' = aggregates \cup {a}
    /\ UNCHANGED <<posts, now, store, pending, scheduled, drain, missed, policy>>

(* The read or the save fails: logged, and the loop goes on.               *)
RecomputeFails(d) ==
    /\ drain[d].at \in {"reading", "saving"} /\ failures < MaxFailures
    /\ failures' = failures + 1
    /\ missed' = IF drain[d].queued THEN missed \cup {drain[d].endpoint} ELSE missed
    /\ drain' = [drain EXCEPT ![d] = Onward(d)]
    /\ UNCHANGED <<posts, now, store, pending, scheduled, aggregates, policy>>

(* The Bazaar stops or dies, and comes up again.                           *)
Crash ==
    /\ failures < MaxFailures
    /\ failures' = failures + 1
    /\ cut' = cut \cup handling /\ handling' = {}
    /\ missed' = missed \cup {pending[i] : i \in 1..Len(pending)}
                        \cup {drain[d].endpoint : d \in {x \in Drains : drain[x].endpoint # Absent}}
    /\ pending' = <<>> /\ scheduled' = FALSE
    /\ drain' = [d \in Drains |-> IdleDrain]
    /\ UNCHANGED <<posts, now, rows, disagreements, aggregates, policy>>

----------------------------------------------------------------------------
(* GET /v1/provider and the gateway's policy controller.                   *)

(* getAggregate: ORDER BY retrieved_at DESC LIMIT 1 picks any of these.    *)
Latest(e) ==
    {a \in aggregates : a.endpoint = e /\ \A b \in aggregates :
                            b.endpoint = e => b.retrievedAt <= a.retrievedAt}

(* What GET /v1/provider answers with: an aggregate it can still vouch for,*)
(* or, if there is none at all, an unsigned one without observations.  With*)
(* an older one it answers 503.                                            *)
Served(e) ==
    IF Latest(e) = {} THEN {Aggregate(e, 0, 0, now)}
    ELSE {a \in Latest(e) : Fresh(a.retrievedAt, ServeAge)}

(* SellerPolicyEngine.evaluate of an aggregate that is fresh.              *)
Evaluate(a) == IF <<a.faults, a.n>> \in HoldAbove THEN "hold" ELSE "sell"

Decide(action, a) ==
    decision' = IF action = "sell" THEN Sell
                ELSE [action |-> action, n |-> a.n, age |-> now - a.retrievedAt]

CacheFresh == cache # Absent /\ now - cache.cachedAt <= CacheTtl

RefreshCached ==
    /\ CacheFresh
    /\ Decide(Evaluate(cache.aggregate), cache.aggregate)
    /\ UNCHANGED <<posts, now, store, queue, failures, cache>>

(* isInsufficientDataAggregate: signed or not, and of any date.            *)
Unobserved(a) == a.n = 0

(* An answer without observations is a state of its own, with an action of *)
(* its own; it is not cached, and what is cached is kept.                  *)
RefreshInsufficient ==
    /\ ~CacheFresh
    /\ \E a \in Served(Watched) : Unobserved(a) /\ Decide(InsufficientData, a)
    /\ UNCHANGED <<posts, now, store, queue, failures, cache>>

(* verifyProviderAggregate, of genuine ones.                               *)
Verifies(a) == Fresh(a.retrievedAt, MaxAge)

(* The lookup finds observations: an aggregate that is too old is invalid, *)
(* which preserves the sale.                                               *)
RefreshFetched ==
    /\ ~CacheFresh
    /\ \E a \in Served(Watched) :
        /\ ~Unobserved(a)
        /\ IF Verifies(a)
           THEN /\ cache' = [aggregate |-> a, cachedAt |-> now]
                /\ Decide(Evaluate(a), a)
           ELSE Decide("sell", Absent) /\ UNCHANGED cache
    /\ UNCHANGED <<posts, now, store, queue, failures>>

(* Mutant of StaleAction: a stale aggregate is evaluated like a fresh one. *)
StaleActionEvaluated(a) == Evaluate(a)
StaleAction(a) == "sell"

(* The lookup fails, is in backoff, or is answered 503: the cached         *)
(* aggregate is used as stale for a while.                                 *)
RefreshUnavailable ==
    /\ ~CacheFresh
    /\ IF cache # Absent /\ now - cache.cachedAt <= MaxStale
       THEN Decide(StaleAction(cache.aggregate), cache.aggregate)
       ELSE Decide("sell", Absent)
    /\ UNCHANGED <<posts, now, store, queue, failures, cache>>

Next ==
    \/ Tick \/ Crash
    \/ \E r \in Observations : SendReport(r)
    \/ \E p \in posts : RecordObservation(p) \/ AttachSettlement(p)
    \/ \E k \in handling : CompareObservation(k) \/ CompareFails(k)
    \/ \E d \in Drains : StartDrain(d) \/ ReadObservations(d) \/ BuildAggregate(d)
                            \/ SaveAggregate(d) \/ RecomputeFails(d) \/ EndDrain(d)
    \/ \E d \in Drains, e \in Endpoints : Recompute(d, e)
    \/ \E a \in Pushed, issuer \in Issuers : PushAggregate(a, issuer)
    \/ RefreshCached \/ RefreshInsufficient \/ RefreshFetched \/ RefreshUnavailable

Spec == Init /\ [][Next]_vars

----------------------------------------------------------------------------
(* Properties.                                                             *)

(* Two sources that differ about a call leave a disagreement, whichever of *)
(* them is stored first or while the other is compared, unless the handler *)
(* of one was cut off (recordObservation, recordDisagreements).            *)
DisagreementsAreRecorded ==
    \A c \in CallIds :
        LET own == <<c, "in_band">>
            other == <<c, "independent">>
        IN  /\ rows[own] # Absent /\ rows[other] # Absent
            /\ rows[own].verdict # rows[other].verdict
            /\ {own, other} \cap (handling \cup cut) = {}
            => c \in disagreements

QueueIdle ==
    /\ pending = <<>> /\ ~scheduled /\ handling = {}
    /\ \A d \in Drains : drain[d] = IdleDrain

Recorded(e) == {k \in Keys : EndpointOf[k[1]] = e /\ rows[k] # Absent}

(* Dated after its arrival, by a reporter whose clock is ahead.            *)
Early(k) == rows[k].at > rows[k].createdAt

(* A moment by which every report of e that was not early is dated.        *)
KnowsAll(e, t) == \A k \in Recorded(e) : rows[k].at <= t \/ Early(k)

(* An aggregate a that was computed from what is stored of e at such a     *)
(* moment, and signed after it.                                            *)
CountsAll(a, e) ==
    /\ a.endpoint = e
    /\ \E t \in 0..a.retrievedAt :
          /\ KnowsAll(e, t)
          /\ a.n = Cardinality(Within(Counted(e, t), a.retrievedAt))
          /\ a.faults = Cardinality(Faults(Within(Counted(e, t), a.retrievedAt)))

(* When the queue has come to rest, some aggregate of every endpoint counts*)
(* what is stored for it and in its window, each call once, whatever       *)
(* reports arrived while an earlier one was being read, signed and saved;  *)
(* unless a recomputation was dropped or failed, or a handler was cut off  *)
(* (enqueueProviderAggregateRecompute).  It need not be the newest: of two *)
(* loops, the one that read first may sign last.  A report that was early  *)
(* may be left out: it is not in the window of the recomputation that it   *)
(* asks for, and nothing asks for another when its time has come.          *)
AggregateCatchesUp ==
    QueueIdle =>
        \A e \in Endpoints :
            /\ Recorded(e) # {} /\ e \notin missed
            /\ \A k \in cut : EndpointOf[k[1]] # e
            => \E a \in aggregates : CountsAll(a, e)

(* What the Bazaar accepted of a call leaves its trace, in a disagreement  *)
(* and in an aggregate of its endpoint.                                    *)
NothingReportedIsLost == DisagreementsAreRecorded /\ AggregateCatchesUp

(* A gateway holds sales by evidence that was recent when it decided: an   *)
(* unreachable Bazaar cannot prolong a hold.  A hold without any evidence  *)
(* is one that the policy was configured for (ProviderAggregateClient,     *)
(* SellerPolicyEngine).                                                    *)
HoldRestsOnFreshEvidence ==
    decision.action = "hold" =>
        IF decision.n = 0 THEN InsufficientData = "hold"
        ELSE decision.age <= MaxAge + CacheTtl

=============================================================================
