-------------------------- MODULE SettleScheduler --------------------------
(***************************************************************************)
(* The settlement scheduler of the facilitator service                     *)
(* (facilitator-service/src/settle-scheduler.ts): a pool of Stellar signer *)
(* accounts leased to settlements one at a time, with a wait queue, a      *)
(* per-waiter timer and a quarantine for signers whose last transaction    *)
(* has an unknown outcome.                                                 *)
(*                                                                         *)
(* Every method is synchronous JavaScript up to the promise it returns, so *)
(* one action is one run of the event loop: acquire() up to its answer,    *)
(* the timer callback, the tail of withSigner() (quarantine, release and   *)
(* the processQueue it runs), recoverSigner().                             *)
(*                                                                         *)
(* A request is ONE call of withSigner; a caller that tries again is a new *)
(* request.  The idle list is the set of its addresses: a request with no  *)
(* preference takes the head of the list, here any member.  The waiters    *)
(* array is the set of waiting requests ordered by the totalQueued count   *)
(* each one was pushed at.                                                 *)
(***************************************************************************)
EXTENDS Naturals

CONSTANTS
    Signers,    \* addresses that may be configured or preferred
    Requests,   \* calls of withSigner
    None        \* "undefined": no preferred address, no lease

ASSUME NoneAssumption == None \notin Signers

VARIABLES
    idle,         \* this.idle
    busy,         \* this.busy
    quarantined,  \* this.quarantined
    call,         \* where each withSigner call stands
    lease,        \* the address of the SignerLease each call holds
    preferred,    \* preferredAddress of each waiter
    ticket,       \* the totalQueued value at which a waiter was queued
    totalQueued   \* this.stats.totalQueued

vars == <<idle, busy, quarantined, call, lease, preferred, ticket, totalQueued>>
queueVars == <<preferred, ticket, totalQueued>>

CallStates == {"absent", "waiting", "leased", "done", "timedOut", "refused"}
MaybeSigner == Signers \cup {None}

(* poolSize counts idle, busy and quarantined signers.                     *)
Pool == idle \cup busy \cup quarantined

Waiting == {r \in Requests : call[r] = "waiting"}

(* Whether takeIdle(preferredAddress) may return a for request r.          *)
Serves(a, r) == preferred[r] \in {None, a}

(* Mutant of Ahead: the queue is served from its tail.                     *)
AheadNewestFirst(w, r) == ticket[w] > ticket[r]

(* The waiters array, oldest first.                                        *)
Ahead(w, r) == ticket[w] < ticket[r]

----------------------------------------------------------------------------
(* processQueue: while a signer is idle, the first waiter that one of the  *)
(* idle signers serves gets one.  A waiter passed over stays passed over,  *)
(* for the pool only shrinks meanwhile, so the loop is a single pass:      *)
(* g[r] is what r takes from the signers those ahead of it have left.      *)
Grants(pool) ==
    {g \in [Waiting -> pool \cup {None}] :
        \A r \in Waiting :
            LET left   == pool \ {g[w] : w \in {v \in Waiting : Ahead(v, r)}}
                usable == {a \in left : Serves(a, r)}
            IN  IF usable = {} THEN g[r] = None ELSE g[r] \in usable}

(* processQueue run on the given idle and busy sets and calls.             *)
ProcessQueue(pool, inFlight, calls, leases) ==
    \E g \in Grants(pool) :
        LET granted == {r \in Waiting : g[r] # None}
            taken   == {g[r] : r \in granted}
        IN  /\ idle' = pool \ taken
            /\ busy' = inFlight \cup taken
            /\ call' = [r \in Requests |->
                            IF r \in granted THEN "leased" ELSE calls[r]]
            /\ lease' = [r \in Requests |->
                            IF r \in granted THEN g[r] ELSE leases[r]]

----------------------------------------------------------------------------
Init ==
    /\ idle = {}
    /\ busy = {}
    /\ quarantined = {}
    /\ call = [r \in Requests |-> "absent"]
    /\ lease = [r \in Requests |-> None]
    /\ preferred = [r \in Requests |-> None]
    /\ ticket = [r \in Requests |-> 0]
    /\ totalQueued = 0

(* setSigners(addresses).  The constructor, refreshSigners, setRpcUrl and  *)
(* setFeeSponsorship call it while the service boots, before it listens:   *)
(* hence the first guard.  The second is the code's own.                   *)
SetSigners(addresses) ==
    /\ \A r \in Requests : call[r] = "absent"
    /\ busy = {}
    /\ quarantined' = quarantined \cap addresses
    /\ idle' = addresses \ quarantined
    /\ UNCHANGED <<busy, call, lease, queueVars>>

(* The three throws at the top of acquire.                                 *)
Refused(p) ==
    \/ Pool = {}
    \/ p \in quarantined
    \/ p # None /\ p \notin idle \cup busy

Refuse(r, p) ==
    /\ call[r] = "absent"
    /\ Refused(p)
    /\ call' = [call EXCEPT ![r] = "refused"]
    /\ UNCHANGED <<idle, busy, quarantined, lease, queueVars>>

(* acquire with a signer to hand: takeIdle succeeds, leaseFor.             *)
Lease(r, p) ==
    /\ call[r] = "absent"
    /\ ~Refused(p)
    /\ \E a \in idle :
        /\ p \in {None, a}
        /\ idle' = idle \ {a}
        /\ busy' = busy \cup {a}
        /\ call' = [call EXCEPT ![r] = "leased"]
        /\ lease' = [lease EXCEPT ![r] = a]
    /\ UNCHANGED <<quarantined, queueVars>>

(* acquire with none: the call joins the tail of the waiters.              *)
Enqueue(r, p) ==
    /\ call[r] = "absent"
    /\ ~Refused(p)
    /\ \A a \in idle : p \notin {None, a}
    /\ totalQueued' = totalQueued + 1
    /\ ticket' = [ticket EXCEPT ![r] = totalQueued']
    /\ call' = [call EXCEPT ![r] = "waiting"]
    /\ preferred' = [preferred EXCEPT ![r] = p]
    /\ UNCHANGED <<idle, busy, quarantined, lease>>

Acquire(r, p) == Refuse(r, p) \/ Lease(r, p) \/ Enqueue(r, p)

(* Mutant of Expire: only a waiter that takes any signer gets a timer.     *)
ExpireUnpreferred(r) ==
    /\ call[r] = "waiting"
    /\ preferred[r] = None
    /\ call' = [call EXCEPT ![r] = "timedOut"]
    /\ UNCHANGED <<idle, busy, quarantined, lease, queueVars>>

(* The timer of a waiter fires: it is spliced out and rejected with        *)
(* SignerBusyError.  processQueue clears the timer of a waiter it serves.  *)
Expire(r) ==
    /\ call[r] = "waiting"
    /\ call' = [call EXCEPT ![r] = "timedOut"]
    /\ UNCHANGED <<idle, busy, quarantined, lease, queueVars>>

(* Mutant of Release: release() ignores the quarantine flag.               *)
ReleaseToPoolAnyway(r, uncertain) ==
    /\ call[r] = "leased"
    /\ quarantined' = IF uncertain THEN quarantined \cup {lease[r]} ELSE quarantined
    /\ ProcessQueue(idle \cup {lease[r]},
                    busy \ {lease[r]},
                    [call EXCEPT ![r] = "done"],
                    [lease EXCEPT ![r] = None])
    /\ UNCHANGED queueVars

(* The end of withSigner: the operation returned or threw.  `uncertain` is *)
(* quarantineWhen(result); a throw quarantines nothing.  The finally block *)
(* releases the signer and runs processQueue.                              *)
Release(r, uncertain) ==
    /\ call[r] = "leased"
    /\ quarantined' = IF uncertain THEN quarantined \cup {lease[r]} ELSE quarantined
    /\ ProcessQueue(IF uncertain THEN idle ELSE idle \cup {lease[r]},
                    busy \ {lease[r]},
                    [call EXCEPT ![r] = "done"],
                    [lease EXCEPT ![r] = None])
    /\ UNCHANGED queueVars

(* Mutant of RecoverSigner: it does not run processQueue.                  *)
RecoverWithoutQueue(a) ==
    /\ a \in quarantined
    /\ quarantined' = quarantined \ {a}
    /\ idle' = IF a \in busy THEN idle ELSE idle \cup {a}
    /\ UNCHANGED <<busy, call, lease, queueVars>>

(* recoverSigner(address) of a quarantined signer; on any other address it *)
(* returns false and changes nothing.                                      *)
RecoverSigner(a) ==
    /\ a \in quarantined
    /\ quarantined' = quarantined \ {a}
    /\ ProcessQueue(IF a \in busy THEN idle ELSE idle \cup {a}, busy, call, lease)
    /\ UNCHANGED queueVars

Next ==
    \/ \E addresses \in SUBSET Signers : SetSigners(addresses)
    \/ \E r \in Requests :
        \/ \E p \in MaybeSigner : Acquire(r, p)
        \/ Expire(r)
        \/ \E uncertain \in BOOLEAN : Release(r, uncertain)
    \/ \E a \in Signers : RecoverSigner(a)

Spec == Init /\ [][Next]_vars

----------------------------------------------------------------------------
(* Every variable keeps its type.                                          *)
TypeOK ==
    /\ idle \in SUBSET Signers
    /\ busy \in SUBSET Signers
    /\ quarantined \in SUBSET Signers
    /\ call \in [Requests -> CallStates]
    /\ lease \in [Requests -> MaybeSigner]
    /\ preferred \in [Requests -> MaybeSigner]
    /\ ticket \in [Requests -> Nat]
    /\ totalQueued \in Nat

(* "No signer is ever leased twice at once" (the module comment of         *)
(* settle-scheduler.ts): two calls in flight hold different signers, and   *)
(* none of them is one that acquire could hand out or that is quarantined. *)
LeaseExclusive ==
    /\ \A r1, r2 \in Requests :
        r1 # r2 /\ lease[r1] # None => lease[r1] # lease[r2]
    /\ \A r \in Requests :
        lease[r] # None => lease[r] \in busy \ (idle \cup quarantined)

(* The pool leaks nothing: a signer is in exactly one of the three sets,   *)
(* and one that is in flight is in flight FOR some call, whose release     *)
(* brings it back.                                                         *)
PoolPartitioned ==
    /\ idle \cap busy = {}
    /\ idle \cap quarantined = {}
    /\ busy \cap quarantined = {}
    /\ \A a \in busy : \E r \in Requests : call[r] = "leased" /\ lease[r] = a

(* No lost wakeup: between two steps of the event loop, no signer is idle  *)
(* that a waiting request could use.                                       *)
NoServableWaiter == \A r \in Waiting : \A a \in idle : ~Serves(a, r)

(* FIFO: a step that leases a signer to a request leaves waiting no        *)
(* request that was queued before it and could have used that signer.      *)
(* That covers a request that arrives and barges past the queue too.       *)
NoOvertaking ==
    [][\A r, w \in Requests :
        /\ lease[r] = None /\ lease'[r] # None
        /\ call[w] = "waiting" /\ call'[w] = "waiting"
        /\ call[r] = "waiting" => ticket[w] < ticket[r]
        => ~Serves(lease'[r], w)]_vars

----------------------------------------------------------------------------
(* The scheduler implements the exclusive, conserved resource of           *)
(* SignerLease: each step moves at most one signer, from at most one       *)
(* holder to at most one other.                                            *)
Abstract == INSTANCE SignerLease WITH
    pool      <- Pool,
    holder    <- [s \in Signers |-> {r \in Requests : lease[r] = s}],
    withdrawn <- quarantined,
    served    <- {r \in Requests : call[r] \in {"leased", "done"}}

ImplementsLease == Abstract!Spec
=============================================================================
