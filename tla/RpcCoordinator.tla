---------------------------- MODULE RpcCoordinator ----------------------------
(***************************************************************************)
(* The Soroban RPC coordinator (facilitator-service/src/rpc-coordinator.ts)*)
(* between the facilitator and several RPC providers.  Reads fail over; a  *)
(* submission is posted to one probed provider and never again, and when   *)
(* its answer is lost, or a status is asked for, every provider is asked   *)
(* what became of the hash.                                                *)
(*                                                                         *)
(* Requests run concurrently: each await of a call is a step, and the      *)
(* health flags that order the providers are shared.  A provider may time  *)
(* out, answer with an error, lag behind the ledger, or (Faulty) report a  *)
(* final status that is not the ledger's.                                  *)
(***************************************************************************)
EXTENDS Naturals, FiniteSets

CONSTANTS
    Providers,  \* positions in the configured list of providers
    Faulty,     \* providers whose reports of a final status may be wrong
    RpcRequests,
    Steady,     \* [RpcRequests -> SUBSET Providers]: those that answer every
                \* call this request makes, though others may see them fail
    Method,     \* [RpcRequests -> {"send", "status", "read"}]
    Hashes,
    HashOf      \* [RpcRequests -> Hashes], for a submission computed locally

ASSUME CoordinatorAssumption ==
    /\ Providers \subseteq Nat /\ IsFiniteSet(Providers)
    /\ Faulty \subseteq Providers
    /\ Steady \in [RpcRequests -> SUBSET Providers]
    /\ Method \in [RpcRequests -> {"send", "status", "read"}]
    /\ HashOf \in [RpcRequests -> Hashes]

VARIABLES
    healthy,  \* providers whose last call succeeded
    stage,    \* where each request stands
    todo,     \* providers its current loop has still to call
    order,    \* the healthy ones when that loop was ordered
    posted,   \* providers its transaction was posted to
    statuses, \* <<provider, status>> answers of its reconciliation
    answer,   \* what it was answered
    fate      \* of each transaction on the ledger

vars == <<healthy, stage, todo, order, posted, statuses, answer, fate>>

Final == {"SUCCESS", "FAILED"}
Statuses == Final \cup {"NOT_FOUND"}
RpcAnswers ==
    {"none", "forwarded", "unavailable", "unreconciled", "disagree", "invalid",
     "PENDING", "uncertain", "ERROR"} \cup Statuses

(* orderedProviders: a stable sort by health.                              *)
Before(up, p, q) == IF (p \in up) = (q \in up) THEN p <= q ELSE p \in up

(* The loop of request r, in stage s, is at provider p.                    *)
AtProvider(r, s, p) ==
    /\ stage[r] = s
    /\ p \in todo[r]
    /\ \A q \in todo[r] : Before(order[r], p, q)

Init ==
    /\ healthy = Providers
    /\ stage = [r \in RpcRequests |-> "new"]
    /\ todo = [r \in RpcRequests |-> {}]
    /\ order = [r \in RpcRequests |-> {}]
    /\ posted = [r \in RpcRequests |-> {}]
    /\ statuses = [r \in RpcRequests |-> {}]
    /\ answer = [r \in RpcRequests |-> "none"]
    /\ fate = [h \in Hashes |-> "none"]

----------------------------------------------------------------------------
(* call(): an answer, be it a JSON-RPC error outside the retryable range,  *)
(* makes the provider healthy; a timeout, an HTTP error or a retryable     *)
(* error makes it unhealthy.                                               *)
CallAnswers(p) == healthy' = healthy \cup {p}
CallFails(r, p) == p \notin Steady[r] /\ healthy' = healthy \ {p}

(* A loop is over, its locals forgotten.                                   *)
Leave(r, s) ==
    /\ stage' = [stage EXCEPT ![r] = s]
    /\ todo' = [todo EXCEPT ![r] = {}]
    /\ order' = [order EXCEPT ![r] = {}]

Answer(r, a) ==
    /\ Leave(r, "done")
    /\ answer' = [answer EXCEPT ![r] = a]

(* Mutant of Loop: unhealthy providers are skipped.                        *)
LoopOverHealthy(r, s) ==
    /\ stage' = [stage EXCEPT ![r] = s]
    /\ todo' = [todo EXCEPT ![r] = IF healthy' = {} THEN Providers ELSE healthy']
    /\ order' = [order EXCEPT ![r] = healthy']

(* A loop over all providers, ordered by their health now.                 *)
Loop(r, s) ==
    /\ stage' = [stage EXCEPT ![r] = s]
    /\ todo' = [todo EXCEPT ![r] = Providers]
    /\ order' = [order EXCEPT ![r] = healthy']

(* The loop goes on past p; after the last provider the answer is a.       *)
Continue(r, p, a) ==
    \/ /\ todo[r] = {p}
       /\ Answer(r, a)
    \/ /\ todo[r] # {p}
       /\ todo' = [todo EXCEPT ![r] = @ \ {p}]
       /\ UNCHANGED <<stage, order, answer>>

----------------------------------------------------------------------------
(* handle().                                                               *)
Receive(r) ==
    /\ stage[r] = "new"
    /\ UNCHANGED healthy
    /\ Loop(r, CASE Method[r] = "send"   -> "probe"
                 [] Method[r] = "status" -> "reconcile"
                 [] Method[r] = "read"   -> "read")
    /\ UNCHANGED <<posted, statuses, answer, fate>>

(* A missing parameter, or an envelope that has no hash.                   *)
Reject(r) ==
    /\ stage[r] = "new" /\ Method[r] # "read"
    /\ Answer(r, "invalid")
    /\ UNCHANGED <<healthy, posted, statuses, fate>>

(* handleRead.                                                             *)
ReadForwarded(r, p) ==
    /\ AtProvider(r, "read", p)
    /\ CallAnswers(p)
    /\ Answer(r, "forwarded")
    /\ UNCHANGED <<posted, statuses, fate>>

ReadFails(r, p) ==
    /\ AtProvider(r, "read", p)
    /\ CallFails(r, p)
    /\ Continue(r, p, "unavailable")
    /\ UNCHANGED <<posted, statuses, fate>>

----------------------------------------------------------------------------
(* handleSubmission.                                                       *)

(* probe() succeeds and the transaction is posted to this provider.        *)
ProbeAndPost(r, p) ==
    /\ AtProvider(r, "probe", p)
    /\ CallAnswers(p)
    /\ posted' = [posted EXCEPT ![r] = @ \cup {p}]
    /\ Leave(r, "sent")
    /\ UNCHANGED <<statuses, answer, fate>>

ProbeFails(r, p) ==
    /\ AtProvider(r, "probe", p)
    /\ \/ CallFails(r, p)
       \/ p \notin Steady[r] /\ CallAnswers(p)
    /\ Continue(r, p, "unavailable")
    /\ UNCHANGED <<posted, statuses, fate>>

(* The provider's answer is forwarded: PENDING or DUPLICATE when it has    *)
(* the transaction, or a refusal.                                          *)
SubmitAnswered(r, p) ==
    /\ stage[r] = "sent" /\ p \in posted[r]
    /\ CallAnswers(p)
    /\ \/ fate[HashOf[r]] # "none" /\ Answer(r, "PENDING")
       \/ Answer(r, "ERROR")
    /\ UNCHANGED <<posted, statuses, fate>>

(* Mutant of SubmitFails: a failed submission fails over like a read.      *)
SubmitFailsOver(r, p) ==
    /\ stage[r] = "sent" /\ p \in posted[r]
    /\ CallFails(r, p)
    /\ Loop(r, "probe")
    /\ UNCHANGED <<posted, statuses, answer, fate>>

(* The call fails, and nobody knows whether it was taken: reconcile.       *)
SubmitFails(r, p) ==
    /\ stage[r] = "sent" /\ p \in posted[r]
    /\ CallFails(r, p)
    /\ Loop(r, "reconcile")
    /\ UNCHANGED <<posted, statuses, answer, fate>>

----------------------------------------------------------------------------
(* reconcile().                                                            *)
Finals(pairs) == {pair[2] : pair \in pairs} \cap Final

(* Mutant of Verdict: a final status wins without a second look.           *)
VerdictOfFirst(pairs) ==
    IF \E pair \in pairs : pair[2] \in Final
    THEN (CHOOSE pair \in pairs :
            /\ pair[2] \in Final
            /\ \A other \in pairs : other[2] \in Final => pair[1] <= other[1])[2]
    ELSE IF pairs = {} THEN "unreconciled" ELSE "NOT_FOUND"

(* Two providers that report different final states void each other; one   *)
(* final status outweighs any NOT_FOUND.                                   *)
Verdict(pairs) ==
    CASE Finals(pairs) = Final                   -> "disagree"
      [] Finals(pairs) = {"SUCCESS"}             -> "SUCCESS"
      [] Finals(pairs) = {"FAILED"}              -> "FAILED"
      [] Finals(pairs) = {} /\ pairs # {}        -> "NOT_FOUND"
      [] pairs = {}                              -> "unreconciled"

(* What a submission makes of it: only FAILED and the errors pass through. *)
Outcome(r, v) ==
    IF Method[r] # "send" THEN v
    ELSE CASE v = "SUCCESS"   -> "PENDING"
           [] v = "NOT_FOUND" -> "uncertain"
           [] OTHER           -> v

Reported(r, pairs, p) == Continue(r, p, Outcome(r, Verdict(pairs)))

(* What p may report of hash h: a provider may lag behind the ledger.      *)
MayReport(p, h, status) ==
    \/ status = "NOT_FOUND"
    \/ status \in Final /\ (p \in Faulty \/ status = fate[h])

ReconcileHears(r, p) ==
    /\ AtProvider(r, "reconcile", p)
    /\ CallAnswers(p)
    /\ \E status \in Statuses :
        /\ MayReport(p, HashOf[r], status)
        /\ statuses' = [statuses EXCEPT ![r] = @ \cup {<<p, status>>}]
        /\ Reported(r, statuses[r] \cup {<<p, status>>}, p)
    /\ UNCHANGED <<posted, fate>>

(* The call fails, or its answer is an error that is not retryable.        *)
ReconcileFails(r, p) ==
    /\ AtProvider(r, "reconcile", p)
    /\ \/ CallFails(r, p)
       \/ p \notin Steady[r] /\ CallAnswers(p)
    /\ Reported(r, statuses[r], p)
    /\ UNCHANGED <<posted, statuses, fate>>

----------------------------------------------------------------------------
(* The network takes a transaction that was posted, maybe after the        *)
(* coordinator stopped waiting, and the ledger decides it for good.        *)
Take(h) ==
    /\ fate[h] = "none"
    /\ \E r \in RpcRequests : HashOf[r] = h /\ posted[r] # {}
    /\ fate' = [fate EXCEPT ![h] = "pending"]
    /\ UNCHANGED <<healthy, stage, todo, order, posted, statuses, answer>>

Decide(h) ==
    /\ fate[h] = "pending"
    /\ \E status \in Final : fate' = [fate EXCEPT ![h] = status]
    /\ UNCHANGED <<healthy, stage, todo, order, posted, statuses, answer>>

CallEnds(r, p) ==
    \/ ReadForwarded(r, p) \/ ReadFails(r, p)
    \/ ProbeAndPost(r, p) \/ ProbeFails(r, p)
    \/ SubmitAnswered(r, p) \/ SubmitFails(r, p)
    \/ ReconcileHears(r, p) \/ ReconcileFails(r, p)

Next ==
    \/ \E r \in RpcRequests : Receive(r) \/ Reject(r)
    \/ \E r \in RpcRequests, p \in Providers : CallEnds(r, p)
    \/ \E h \in Hashes : Take(h) \/ Decide(h)

Spec == Init /\ [][Next]_vars

----------------------------------------------------------------------------
(* Every variable keeps its type.                                          *)
TypeOK ==
    /\ healthy \subseteq Providers
    /\ stage \in [RpcRequests -> {"new", "probe", "sent", "reconcile", "read", "done"}]
    /\ todo \in [RpcRequests -> SUBSET Providers]
    /\ order \in [RpcRequests -> SUBSET Providers]
    /\ posted \in [RpcRequests -> SUBSET Providers]
    /\ statuses \in [RpcRequests -> SUBSET (Providers \X Statuses)]
    /\ answer \in [RpcRequests -> RpcAnswers]
    /\ fate \in [Hashes -> {"none", "pending"} \cup Final]

(* A submission is posted to one provider: "no blind resubmission".        *)
SubmittedOnce == \A r \in RpcRequests : \A p, q \in posted[r] : p = q

(* "no healthy RPC provider is available before submission" is only        *)
(* answered when no provider can have the transaction.                     *)
UnavailableMeansUnsent ==
    \A r \in RpcRequests : answer[r] = "unavailable" => posted[r] = {}

(* A final status is reported only when the ledger has decided so, as long *)
(* as one provider that is not faulty has reported the decision, whatever  *)
(* the others said and in whatever order they were asked.                  *)
FinalIsTrue ==
    \A r \in RpcRequests :
        /\ answer[r] \in Final
        /\ \E pair \in statuses[r] : pair[1] \notin Faulty /\ pair[2] \in Final
        => answer[r] = fate[HashOf[r]]

(* Failover: when one provider answers every call a request makes, the     *)
(* request is not told that all providers failed, whatever other requests  *)
(* did meanwhile to the health flags it is ordered by.                     *)
SteadyProviderFound ==
    \A r \in RpcRequests :
        Steady[r] # {} => answer[r] \notin {"unavailable", "unreconciled"}
=============================================================================
