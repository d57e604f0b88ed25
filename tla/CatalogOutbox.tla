---------------------------- MODULE CatalogOutbox ----------------------------
(***************************************************************************)
(* The durable outbox between a settlement and the Bazaar catalog          *)
(* (facilitator-service/src/catalog-outbox.ts and the code of server.ts    *)
(* that fills and drains it).  One JSON file per settled transaction, put  *)
(* in place by a rename; a drain lists the first files in name order and   *)
(* delivers them one by one; a file is removed when the Bazaar answered.   *)
(*                                                                         *)
(* Every await is a point where the process may die and where other        *)
(* requests run.  What must survive: an event whose seller was told        *)
(* "queued" stays on disk until it was answered, and an answered event     *)
(* never comes back.                                                       *)
(*                                                                         *)
(* The names are transaction hashes; their order is the order of Ids.  The *)
(* attempts counter is only logged and is left out.                        *)
(***************************************************************************)
EXTENDS Naturals, FiniteSets

CONSTANTS
    Ids,         \* transaction hashes
    Batch,       \* catalogOutboxBatchSize, as list() clamps it
    Drains,      \* runs of drainCatalogOutbox
    MaxCrashes,  \* bound on process deaths
    MaxDamaged   \* bound on files damaged on disk

ASSUME OutboxAssumption ==
    /\ Ids \subseteq Nat /\ IsFiniteSet(Ids)
    /\ Batch \in Nat \ {0}
    /\ MaxCrashes \in Nat /\ MaxDamaged \in Nat

VARIABLES
    event,     \* where the handler of each settlement stands
    spool,     \* what the file of each id holds
    batch,     \* ids each drain has still to deliver
    stage,     \* what each drain does for the first of them
    answered,  \* ids the Bazaar has answered, with a listing or a rejection
    crashes,
    damaged

vars == <<event, spool, batch, stage, answered, crashes, damaged>>

FirstOf(S, n) == {i \in S : Cardinality({j \in S : j < i}) < n}

Files == {i \in Ids : spool[i] # "none"}
Delivering(d, i) == i \in batch[d] /\ \A j \in batch[d] : i <= j

Init ==
    /\ event = [i \in Ids |-> "none"]
    /\ spool = [i \in Ids |-> "none"]
    /\ batch = [d \in Drains |-> {}]
    /\ stage = [d \in Drains |-> "idle"]
    /\ answered = {}
    /\ crashes = 0
    /\ damaged = {}

----------------------------------------------------------------------------
(* catalogSuccessfulPayment and enqueue.                                   *)

(* The payment settled.  A transaction settles once, so enqueue finds no   *)
(* file of its hash and writes the temporary one, which list() skips.      *)
WriteTemporary(i) ==
    /\ event[i] = "none"
    /\ event' = [event EXCEPT ![i] = "writing"]
    /\ UNCHANGED <<spool, batch, stage, answered, crashes, damaged>>

(* The write fails: the settlement succeeds without a queued status.       *)
EnqueueFails(i) ==
    /\ event[i] = "writing"
    /\ event' = [event EXCEPT ![i] = "lost"]
    /\ UNCHANGED <<spool, batch, stage, answered, crashes, damaged>>

(* rename, and the answer "queued" to the seller.                          *)
Rename(i) ==
    /\ event[i] = "writing"
    /\ event' = [event EXCEPT ![i] = "queued"]
    /\ spool' = [spool EXCEPT ![i] = "event"]
    /\ UNCHANGED <<batch, stage, answered, crashes, damaged>>

----------------------------------------------------------------------------
(* drainCatalogOutbox: after an enqueue, at boot and on the replay timer.  *)

(* this.catalogOutboxDrain is set while a drain runs.                      *)
MayDrain(d) == \A e \in Drains : stage[e] = "idle"

(* Mutant of Listed: a file that does not parse fails the whole list.      *)
ListedOrNothing ==
    LET first == FirstOf(Files, Batch)
    IN  {i \in first : \A j \in first : spool[j] = "event"}

(* list(): the first names, then the ones among them that parse.           *)
Listed == {i \in FirstOf(Files, Batch) : spool[i] = "event"}

DrainStart(d) ==
    /\ MayDrain(d)
    /\ Listed # {}
    /\ batch' = [batch EXCEPT ![d] = Listed]
    /\ stage' = [stage EXCEPT ![d] = "mark"]
    /\ UNCHANGED <<event, spool, answered, crashes, damaged>>

(* The loop of the drain goes on to its next event, or the drain ends.     *)
NextEvent(d, i) ==
    /\ batch' = [batch EXCEPT ![d] = @ \ {i}]
    /\ stage' = [stage EXCEPT ![d] = IF batch[d] = {i} THEN "idle" ELSE "mark"]

(* markAttempt writes the event it holds over the file, wherever that is.  *)
Mark(d, i) ==
    /\ stage[d] = "mark" /\ Delivering(d, i)
    /\ spool' = [spool EXCEPT ![i] = "event"]
    /\ damaged' = damaged \ {i}
    /\ stage' = [stage EXCEPT ![d] = "post"]
    /\ UNCHANGED <<event, batch, answered, crashes>>

(* The disk refuses the attempt: the event is retained.                    *)
MarkFails(d, i) ==
    /\ stage[d] = "mark" /\ Delivering(d, i)
    /\ NextEvent(d, i)
    /\ UNCHANGED <<event, spool, answered, crashes, damaged>>

(* POST /catalog/ingest is answered: success, or a rejection with the      *)
(* EXTENSION-RESPONSES header.                                             *)
PostAnswered(d, i) ==
    /\ stage[d] = "post" /\ Delivering(d, i)
    /\ answered' = answered \cup {i}
    /\ stage' = [stage EXCEPT ![d] = "ack"]
    /\ UNCHANGED <<event, spool, batch, crashes, damaged>>

(* Mutant of PostFails: a failed delivery is acknowledged too.             *)
PostFailsAcknowledged(d, i) ==
    /\ stage[d] = "post" /\ Delivering(d, i)
    /\ stage' = [stage EXCEPT ![d] = "ack"]
    /\ UNCHANGED <<event, spool, batch, answered, crashes, damaged>>

(* Unavailable, timed out or a 5xx: the event is retained.                 *)
PostFails(d, i) ==
    /\ stage[d] = "post" /\ Delivering(d, i)
    /\ NextEvent(d, i)
    /\ UNCHANGED <<event, spool, answered, crashes, damaged>>

(* acknowledge removes the file.                                           *)
Acknowledge(d, i) ==
    /\ stage[d] = "ack" /\ Delivering(d, i)
    /\ spool' = [spool EXCEPT ![i] = "none"]
    /\ damaged' = damaged \ {i}
    /\ NextEvent(d, i)
    /\ UNCHANGED <<event, answered, crashes>>

(* The disk refuses the removal: the event will be delivered again.        *)
AcknowledgeFails(d, i) ==
    /\ stage[d] = "ack" /\ Delivering(d, i)
    /\ NextEvent(d, i)
    /\ UNCHANGED <<event, spool, answered, crashes, damaged>>

----------------------------------------------------------------------------
(* The process dies between any two steps and boots again on its disk.     *)
Crash ==
    /\ crashes < MaxCrashes
    /\ crashes' = crashes + 1
    /\ event' = [i \in Ids |-> IF event[i] = "writing" THEN "lost" ELSE event[i]]
    /\ batch' = [d \in Drains |-> {}]
    /\ stage' = [d \in Drains |-> "idle"]
    /\ UNCHANGED <<spool, answered, damaged>>

(* A file becomes unreadable.  list() retains it for the operator.         *)
Damage(i) ==
    /\ Cardinality(damaged) < MaxDamaged
    /\ spool[i] = "event"
    /\ spool' = [spool EXCEPT ![i] = "corrupt"]
    /\ damaged' = damaged \cup {i}
    /\ UNCHANGED <<event, batch, stage, answered, crashes>>

Deliver(d, i) ==
    \/ Mark(d, i) \/ MarkFails(d, i)
    \/ PostAnswered(d, i) \/ PostFails(d, i)
    \/ Acknowledge(d, i) \/ AcknowledgeFails(d, i)

Next ==
    \/ \E i \in Ids : WriteTemporary(i) \/ EnqueueFails(i) \/ Rename(i) \/ Damage(i)
    \/ \E d \in Drains : DrainStart(d)
    \/ \E d \in Drains : \E i \in Ids : Deliver(d, i)
    \/ Crash

Spec == Init /\ [][Next]_vars

(* The replay timer starts drains, a drain goes on, and neither the disk   *)
(* nor the Bazaar refuses the same event for ever.                         *)
Fairness ==
    /\ WF_vars(\E d \in Drains : DrainStart(d))
    /\ \A d \in Drains : WF_vars(\E i \in Ids : Deliver(d, i))
    /\ \A i \in Ids :
        /\ SF_vars(\E d \in Drains : Mark(d, i))
        /\ SF_vars(\E d \in Drains : PostAnswered(d, i))
        /\ SF_vars(\E d \in Drains : Acknowledge(d, i))

FairSpec == Spec /\ Fairness

----------------------------------------------------------------------------
(* Every variable keeps its type, and a drain is idle exactly when it has  *)
(* nothing to deliver.                                                     *)
TypeOK ==
    /\ event \in [Ids -> {"none", "writing", "queued", "lost"}]
    /\ spool \in [Ids -> {"none", "event", "corrupt"}]
    /\ batch \in [Drains -> SUBSET Ids]
    /\ stage \in [Drains -> {"idle", "mark", "post", "ack"}]
    /\ \A d \in Drains : stage[d] = "idle" <=> batch[d] = {}
    /\ answered \subseteq Ids
    /\ crashes \in Nat
    /\ damaged \in SUBSET Ids

(* Durability: an event the seller was told is queued is on disk until the *)
(* Bazaar has answered it, crashes and failed deliveries included.         *)
QueuedIsKept ==
    \A i \in Ids : event[i] = "queued" => spool[i] # "none" \/ i \in answered

(* An event that was answered and removed never comes back: no attempt     *)
(* marker, written late, brings the file to life again.                    *)
AnsweredStaysGone ==
    [][\A i \in answered : spool[i] = "none" => spool'[i] = "none"]_vars

(* Every queued event is answered and removed, unless its file was damaged.*)
QueuedIsAnswered ==
    \A i \in Ids : event[i] = "queued" ~>
        (i \in answered /\ spool[i] = "none") \/ i \in damaged
=============================================================================
