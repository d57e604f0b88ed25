-------------------------- MODULE SettlePath_proofs --------------------------
(***************************************************************************)
(* Proofs about the settlement scheduler, for any sets of signers and      *)
(* requests, and about the settle path built on it, for any calls,         *)
(* payments, retries and restarts.                                         *)
(*                                                                         *)
(* The scheduler's inductive invariant IInv is the conjunction of the      *)
(* checked invariants with what makes them inductive: a call holds a lease *)
(* exactly while it is "leased", and no two waiters share a ticket.  It is *)
(* carried through the composition: every step of the path is a step of    *)
(* the scheduler, leaves it alone, or is a restart, which empties it.  On  *)
(* top of it PathInv says what each call can have submitted, by how far it *)
(* has come (Submitted), and what the ledger charged (Charged).            *)
(***************************************************************************)
EXTENDS SettlePath, TLAPS

(* A call holds a signer exactly while it is in flight.                    *)
LeaseMatchesCall ==
    \A r \in Requests : lease[r] # None <=> call[r] = "leased"

(* The waiters are totally ordered, and the next one goes to the tail.     *)
TicketsOrdered ==
    /\ \A r \in Waiting : ticket[r] <= totalQueued
    /\ \A r1, r2 \in Waiting : r1 # r2 => ticket[r1] # ticket[r2]

IInv ==
    /\ TypeOK
    /\ LeaseMatchesCall
    /\ TicketsOrdered
    /\ LeaseExclusive
    /\ PoolPartitioned
    /\ NoServableWaiter

----------------------------------------------------------------------------
(* What one run of processQueue gives: every grant is a signer of the pool *)
(* its waiter accepts, no signer is granted twice, and a waiter left       *)
(* without one accepts nothing that is left over.                          *)
LEMMA GrantsFacts ==
    ASSUME TypeOK, TicketsOrdered, NEW pool \in SUBSET Signers,
           NEW g \in Grants(pool)
    PROVE  /\ g \in [Waiting -> pool \cup {None}]
           /\ \A r \in Waiting : g[r] # None => g[r] \in pool /\ Serves(g[r], r)
           /\ \A r1, r2 \in Waiting :
                 r1 # r2 /\ g[r1] # None => g[r1] # g[r2]
           /\ \A r \in Waiting :
                 g[r] = None =>
                    \A a \in pool : Serves(a, r) =>
                        \E w \in Waiting : g[w] = a /\ Ahead(w, r)
           /\ \A r, w \in Waiting :
                 g[r] # None /\ g[w] = None /\ Serves(g[r], w) => ~Ahead(w, r)
  <1> DEFINE left(r)   == pool \ {g[w] : w \in {v \in Waiting : Ahead(v, r)}}
             usable(r) == {a \in left(r) : Serves(a, r)}
  <1>1. g \in [Waiting -> pool \cup {None}]
    BY DEF Grants
  <1>2. \A r \in Waiting : IF usable(r) = {} THEN g[r] = None ELSE g[r] \in usable(r)
    BY DEF Grants
  <1>3. None \notin pool
    BY NoneAssumption
  <1>4. \A r \in Waiting : g[r] # None => g[r] \in usable(r)
    BY <1>2
  <1>5. \A r \in Waiting : g[r] = None => usable(r) = {}
    BY <1>2, <1>3
  <1>6. \A r \in Waiting : g[r] # None => g[r] \in pool /\ Serves(g[r], r)
    BY <1>4
  <1>7. ASSUME NEW r1 \in Waiting, NEW r2 \in Waiting, Ahead(r1, r2), g[r2] # None
        PROVE  g[r1] # g[r2]
    BY <1>4, <1>7
  <1>8. \A r1, r2 \in Waiting : r1 # r2 => Ahead(r1, r2) \/ Ahead(r2, r1)
    BY DEF Ahead, TicketsOrdered, TypeOK, Waiting
  <1>9. ASSUME NEW r1 \in Waiting, NEW r2 \in Waiting, r1 # r2, g[r1] # None
        PROVE  g[r1] # g[r2]
    <2>1. CASE g[r2] = None
      BY <1>9, <2>1
    <2>2. CASE g[r2] # None
      BY <1>7, <1>8, <1>9, <2>2
    <2> QED BY <2>1, <2>2
  <1>10. ASSUME NEW r \in Waiting, g[r] = None, NEW a \in pool, Serves(a, r)
         PROVE  \E w \in Waiting : g[w] = a /\ Ahead(w, r)
    <2>1. a \notin left(r)
      BY <1>5, <1>10
    <2> QED BY <2>1
  <1>11. ASSUME NEW r \in Waiting, NEW w \in Waiting,
                g[r] # None, g[w] = None, Serves(g[r], w)
         PROVE  ~Ahead(w, r)
    <2>1. PICK v \in Waiting : g[v] = g[r] /\ Ahead(v, w)
      BY <1>6, <1>10, <1>11
    <2>2. v = r
      BY <1>9, <1>11, <2>1
    <2> QED BY <2>1, <2>2 DEF Ahead, TypeOK, Waiting
  <1> QED BY <1>1, <1>6, <1>9, <1>10, <1>11

(* A run of processQueue leaves nobody waiting for a signer it left idle,  *)
(* and turns waiting calls, and no others, into leased ones.               *)
LEMMA ProcessQueueInv ==
    ASSUME TypeOK, TicketsOrdered,
           NEW pool \in SUBSET Signers,
           NEW inFlight \in SUBSET Signers,
           NEW calls \in [Requests -> CallStates],
           NEW leases \in [Requests -> MaybeSigner],
           ProcessQueue(pool, inFlight, calls, leases),
           UNCHANGED queueVars,
           quarantined' \in SUBSET Signers,
           pool \cap inFlight = {},
           pool \cap quarantined' = {},
           inFlight \cap quarantined' = {},
           \A r \in Requests : calls[r] = "waiting" <=> call[r] = "waiting",
           \A r \in Requests : leases[r] # None <=> calls[r] = "leased",
           \A r \in Requests : leases[r] # None => leases[r] \in inFlight,
           \A r1, r2 \in Requests :
               r1 # r2 /\ leases[r1] # None => leases[r1] # leases[r2],
           \A a \in inFlight : \E r \in Requests : leases[r] = a
    PROVE  IInv'
  <1> USE NoneAssumption
  <1>1. PICK g \in Grants(pool) :
            LET granted == {r \in Waiting : g[r] # None}
                taken   == {g[r] : r \in granted}
            IN  /\ idle' = pool \ taken
                /\ busy' = inFlight \cup taken
                /\ call' = [r \in Requests |->
                                IF r \in granted THEN "leased" ELSE calls[r]]
                /\ lease' = [r \in Requests |->
                                IF r \in granted THEN g[r] ELSE leases[r]]
    BY DEF ProcessQueue
  <1> DEFINE granted == {r \in Waiting : g[r] # None}
             taken   == {g[r] : r \in granted}
  <1>2. /\ idle' = pool \ taken
        /\ busy' = inFlight \cup taken
        /\ call' = [r \in Requests |-> IF r \in granted THEN "leased" ELSE calls[r]]
        /\ lease' = [r \in Requests |-> IF r \in granted THEN g[r] ELSE leases[r]]
    BY <1>1
  <1>3. \A r \in granted : r \in Requests /\ g[r] \in pool /\ Serves(g[r], r)
    BY GrantsFacts DEF Waiting
  <1>4. \A r1, r2 \in granted : r1 # r2 => g[r1] # g[r2]
    BY GrantsFacts
  <1>5. taken \in SUBSET pool
    BY <1>3
  <1>6. preferred' = preferred /\ ticket' = ticket /\ totalQueued' = totalQueued
    BY DEF queueVars
  <1>7. TypeOK'
    <2>1. call' \in [Requests -> CallStates]
      BY <1>2 DEF CallStates
    <2>2. lease' \in [Requests -> MaybeSigner]
      BY <1>2, <1>3 DEF MaybeSigner
    <2> QED BY <1>2, <1>5, <1>6, <2>1, <2>2 DEF TypeOK
  <1>8. Waiting' = Waiting \ granted
    BY <1>2 DEF Waiting
  <1>9. \A r \in Requests \ granted : lease'[r] = leases[r] /\ call'[r] = calls[r]
    BY <1>2
  <1>10. \A r \in granted : lease'[r] = g[r] /\ call'[r] = "leased" /\ leases[r] = None
    BY <1>2, <1>3 DEF Waiting
  <1>11. LeaseMatchesCall'
    BY <1>9, <1>10 DEF LeaseMatchesCall
  <1>12. TicketsOrdered'
    BY <1>6, <1>8 DEF TicketsOrdered
  <1>13. LeaseExclusive'
    <2>1. ASSUME NEW r1 \in Requests, NEW r2 \in Requests, r1 # r2, lease'[r1] # None
          PROVE  lease'[r1] # lease'[r2]
      <3>1. CASE r1 \in granted /\ r2 \in granted
        BY <1>4, <1>10, <2>1, <3>1
      <3>2. CASE r1 \in granted /\ r2 \notin granted
        BY <1>3, <1>9, <1>10, <2>1, <3>2
      <3>3. CASE r1 \notin granted /\ r2 \in granted
        BY <1>3, <1>9, <1>10, <2>1, <3>3
      <3>4. CASE r1 \notin granted /\ r2 \notin granted
        BY <1>9, <2>1, <3>4
      <3> QED BY <3>1, <3>2, <3>3, <3>4
    <2>2. ASSUME NEW r \in Requests, lease'[r] # None
          PROVE  lease'[r] \in busy' \ (idle' \cup quarantined')
      <3>1. CASE r \in granted
        BY <1>2, <1>3, <1>10, <3>1
      <3>2. CASE r \notin granted
        BY <1>2, <1>9, <2>2, <3>2
      <3> QED BY <3>1, <3>2
    <2> QED BY <2>1, <2>2 DEF LeaseExclusive
  <1>14. PoolPartitioned'
    <2>1. ASSUME NEW a \in busy'
          PROVE  \E r \in Requests : call'[r] = "leased" /\ lease'[r] = a
      <3>1. CASE a \in taken
        BY <1>3, <1>10, <3>1
      <3>2. CASE a \in inFlight
        <4>1. PICK r \in Requests : leases[r] = a
          BY <3>2
        <4>2. r \notin granted /\ calls[r] = "leased"
          BY <1>10, <3>2, <4>1
        <4> QED BY <1>9, <4>1, <4>2
      <3> QED BY <1>2, <2>1, <3>1, <3>2
    <2> QED BY <1>2, <1>5, <2>1 DEF PoolPartitioned
  <1>15. NoServableWaiter'
    <2> SUFFICES ASSUME NEW r \in Waiting', NEW a \in idle', Serves(a, r)'
                 PROVE  FALSE
      BY DEF NoServableWaiter
    <2>1. r \in Waiting /\ g[r] = None
      BY <1>8
    <2>2. a \in pool /\ a \notin taken
      BY <1>2
    <2>3. Serves(a, r)
      BY <1>6 DEF Serves
    <2>4. PICK w \in Waiting : g[w] = a
      BY <2>1, <2>2, <2>3, GrantsFacts
    <2> QED BY <2>2, <2>4
  <1> QED BY <1>7, <1>11, <1>12, <1>13, <1>14, <1>15 DEF IInv

----------------------------------------------------------------------------
(* The initial state satisfies the invariant.                              *)
LEMMA InitIInv == Init => IInv
  BY DEF Init, IInv, TypeOK, LeaseMatchesCall, TicketsOrdered, LeaseExclusive,
         PoolPartitioned, NoServableWaiter, Waiting, CallStates, MaybeSigner

(* Choosing the pool: nothing waits yet and nothing is in flight.          *)
LEMMA SetSignersIInv ==
    ASSUME IInv, NEW addresses \in SUBSET Signers, SetSigners(addresses)
    PROVE  IInv'
  <1> USE DEF IInv
  <1>1. Waiting' = {} /\ \A r \in Requests : lease'[r] = None
    BY DEF SetSigners, Waiting, LeaseMatchesCall
  <1>2. TypeOK'
    BY DEF SetSigners, TypeOK, queueVars
  <1>3. PoolPartitioned'
    BY DEF SetSigners, PoolPartitioned
  <1>4. LeaseMatchesCall' /\ LeaseExclusive'
    BY <1>1 DEF SetSigners, LeaseMatchesCall, LeaseExclusive
  <1>5. TicketsOrdered' /\ NoServableWaiter'
    BY <1>1 DEF TicketsOrdered, NoServableWaiter
  <1> QED BY <1>2, <1>3, <1>4, <1>5

(* A refused call takes nothing.                                           *)
LEMMA RefuseIInv ==
    ASSUME IInv, NEW r \in Requests, NEW p \in MaybeSigner, Refuse(r, p)
    PROVE  IInv'
  <1> USE DEF IInv
  <1>1. Waiting' = Waiting
    BY DEF Refuse, Waiting, TypeOK
  <1>2. TypeOK'
    BY DEF Refuse, TypeOK, queueVars, CallStates
  <1>3. LeaseMatchesCall'
    BY DEF Refuse, LeaseMatchesCall, TypeOK
  <1>4. LeaseExclusive' /\ TicketsOrdered' /\ NoServableWaiter'
    BY <1>1 DEF Refuse, LeaseExclusive, TicketsOrdered, NoServableWaiter, Serves, queueVars
  <1>5. PoolPartitioned'
    BY DEF Refuse, PoolPartitioned, TypeOK
  <1> QED BY <1>2, <1>3, <1>4, <1>5

(* A fresh lease takes a signer out of the idle set, where nobody else's   *)
(* lease can be.                                                           *)
LEMMA LeaseIInv ==
    ASSUME IInv, NEW r \in Requests, NEW p \in MaybeSigner, Lease(r, p)
    PROVE  IInv'
  <1> USE DEF IInv
  <1>1. PICK a \in idle :
            /\ idle' = idle \ {a}
            /\ busy' = busy \cup {a}
            /\ call' = [call EXCEPT ![r] = "leased"]
            /\ lease' = [lease EXCEPT ![r] = a]
    BY DEF Lease
  <1>2. /\ call[r] = "absent"
        /\ quarantined' = quarantined
        /\ UNCHANGED queueVars
    BY DEF Lease
  <1>3. a \in Signers /\ a # None
    BY NoneAssumption DEF TypeOK
  <1>4. Waiting' = Waiting
    BY <1>1, <1>2 DEF Waiting, TypeOK
  <1>5. TypeOK'
    BY <1>1, <1>2, <1>3 DEF TypeOK, queueVars, CallStates, MaybeSigner
  <1>6. LeaseMatchesCall'
    BY <1>1, <1>2, <1>3 DEF LeaseMatchesCall, TypeOK
  <1>7. TicketsOrdered' /\ NoServableWaiter'
    BY <1>1, <1>2, <1>4 DEF TicketsOrdered, NoServableWaiter, Serves, queueVars
  <1>8. LeaseExclusive'
    BY <1>1, <1>2, <1>3 DEF LeaseExclusive, PoolPartitioned, TypeOK
  <1>9. PoolPartitioned'
    <2>1. \A s \in busy : \E q \in Requests : q # r /\ call[q] = "leased" /\ lease[q] = s
      BY <1>2 DEF PoolPartitioned
    <2>2. \A s \in busy : \E q \in Requests : call'[q] = "leased" /\ lease'[q] = s
      BY <1>1, <2>1 DEF TypeOK
    <2>3. call'[r] = "leased" /\ lease'[r] = a
      BY <1>1 DEF TypeOK
    <2>4. \A s \in busy' : \E q \in Requests : call'[q] = "leased" /\ lease'[q] = s
      BY <1>1, <2>2, <2>3
    <2> QED BY <1>1, <1>2, <2>4 DEF PoolPartitioned
  <1> QED BY <1>5, <1>6, <1>7, <1>8, <1>9

(* A call is queued only when no idle signer would do for it.              *)
LEMMA EnqueueIInv ==
    ASSUME IInv, NEW r \in Requests, NEW p \in MaybeSigner, Enqueue(r, p)
    PROVE  IInv'
  <1> USE DEF IInv, Enqueue
  <1>1. Waiting' = Waiting \cup {r} /\ r \notin Waiting
    BY DEF Waiting, TypeOK
  <1>2. TypeOK'
    BY DEF TypeOK, CallStates
  <1>3. LeaseMatchesCall' /\ LeaseExclusive'
    BY DEF LeaseMatchesCall, LeaseExclusive, TypeOK
  <1>4. PoolPartitioned'
    BY DEF PoolPartitioned, TypeOK
  <1>5. TicketsOrdered'
    <2>1. ticket'[r] = totalQueued + 1 /\ totalQueued' = totalQueued + 1
      BY DEF TypeOK
    <2>2. \A w \in Waiting : ticket'[w] = ticket[w] /\ ticket[w] \in Nat /\ ticket[w] <= totalQueued
      BY <1>1 DEF TypeOK, TicketsOrdered, Waiting
    <2>3. totalQueued \in Nat
      BY DEF TypeOK
    <2>4. \A w \in Waiting' : ticket'[w] <= totalQueued'
      BY <1>1, <2>1, <2>2, <2>3
    <2>5. \A w \in Waiting : ticket'[w] # ticket'[r]
      BY <2>1, <2>2, <2>3
    <2>6. \A r1, r2 \in Waiting' : r1 # r2 => ticket'[r1] # ticket'[r2]
      BY <1>1, <2>2, <2>5 DEF TicketsOrdered
    <2> QED BY <2>4, <2>6 DEF TicketsOrdered
  <1>6. NoServableWaiter'
    BY <1>1 DEF NoServableWaiter, Serves, TypeOK
  <1> QED BY <1>2, <1>3, <1>4, <1>5, <1>6

(* A waiter that leaves for its timer disturbs nobody.                     *)
LEMMA ExpireIInv ==
    ASSUME IInv, NEW r \in Requests, Expire(r)
    PROVE  IInv'
  <1> USE DEF IInv, Expire
  <1>1. Waiting' = Waiting \ {r}
    BY DEF Waiting, TypeOK
  <1>2. TypeOK'
    BY DEF TypeOK, CallStates, queueVars
  <1>3. LeaseMatchesCall' /\ LeaseExclusive'
    BY DEF LeaseMatchesCall, LeaseExclusive, TypeOK
  <1>4. PoolPartitioned'
    BY DEF PoolPartitioned, TypeOK
  <1>5. TicketsOrdered' /\ NoServableWaiter'
    BY <1>1 DEF TicketsOrdered, NoServableWaiter, Serves, queueVars
  <1> QED BY <1>2, <1>3, <1>4, <1>5

(* The end of a settlement returns its signer, or quarantines it, and then *)
(* runs the queue.                                                         *)
LEMMA ReleaseIInv ==
    ASSUME IInv, NEW r \in Requests, NEW uncertain \in BOOLEAN, Release(r, uncertain)
    PROVE  IInv'
  <1> USE DEF IInv
  <1> DEFINE s        == lease[r]
             pool     == IF uncertain THEN idle ELSE idle \cup {s}
             inFlight == busy \ {s}
             calls    == [call EXCEPT ![r] = "done"]
             leases   == [lease EXCEPT ![r] = None]
  <1>1. /\ call[r] = "leased" /\ s # None /\ s \in Signers
        /\ s \in busy /\ s \notin idle /\ s \notin quarantined
    BY DEF Release, LeaseMatchesCall, LeaseExclusive, TypeOK, MaybeSigner
  <1>2. /\ pool \in SUBSET Signers /\ inFlight \in SUBSET Signers
        /\ calls \in [Requests -> CallStates] /\ leases \in [Requests -> MaybeSigner]
    BY <1>1 DEF TypeOK, CallStates, MaybeSigner
  <1>3. ProcessQueue(pool, inFlight, calls, leases) /\ UNCHANGED queueVars
    BY DEF Release
  <1>4. quarantined' = IF uncertain THEN quarantined \cup {s} ELSE quarantined
    BY DEF Release
  <1>5. quarantined' \in SUBSET Signers
    BY <1>1, <1>4 DEF TypeOK
  <1>6. pool \cap inFlight = {} /\ pool \cap quarantined' = {} /\ inFlight \cap quarantined' = {}
    BY <1>1, <1>4 DEF PoolPartitioned
  <1>7. \A q \in Requests : calls[q] = "waiting" <=> call[q] = "waiting"
    BY <1>1 DEF TypeOK
  <1>8. \A q \in Requests : leases[q] # None <=> calls[q] = "leased"
    BY <1>1 DEF TypeOK, LeaseMatchesCall
  <1>9. \A q \in Requests : leases[q] # None => leases[q] \in inFlight
    BY <1>1 DEF TypeOK, LeaseExclusive
  <1>10. \A r1, r2 \in Requests : r1 # r2 /\ leases[r1] # None => leases[r1] # leases[r2]
    BY DEF TypeOK, LeaseExclusive
  <1>11. \A a \in inFlight : \E q \in Requests : leases[q] = a
    BY DEF TypeOK, PoolPartitioned
  <1> HIDE DEF pool, inFlight, calls, leases
  <1> QED
    BY <1>2, <1>3, <1>5, <1>6, <1>7, <1>8, <1>9, <1>10, <1>11, ProcessQueueInv

(* Recovery returns a signer that is neither idle nor in flight.           *)
LEMMA RecoverIInv ==
    ASSUME IInv, NEW a \in Signers, RecoverSigner(a)
    PROVE  IInv'
  <1> USE DEF IInv
  <1> DEFINE pool == IF a \in busy THEN idle ELSE idle \cup {a}
  <1>1. a \in quarantined /\ a \notin busy /\ a \notin idle
    BY DEF RecoverSigner, PoolPartitioned
  <1>2. quarantined' = quarantined \ {a}
    BY DEF RecoverSigner
  <1>3. pool \in SUBSET Signers /\ quarantined' \in SUBSET Signers
    BY <1>2 DEF TypeOK
  <1>4. ProcessQueue(pool, busy, call, lease) /\ UNCHANGED queueVars
    BY DEF RecoverSigner
  <1>5. pool \cap busy = {} /\ pool \cap quarantined' = {} /\ busy \cap quarantined' = {}
    BY <1>1, <1>2 DEF PoolPartitioned
  <1>6. \A q \in Requests : lease[q] # None => lease[q] \in busy
    BY DEF LeaseExclusive
  <1>7. \A s \in busy : \E q \in Requests : lease[q] = s
    BY DEF PoolPartitioned
  <1>8. TypeOK /\ TicketsOrdered /\ LeaseMatchesCall
    OBVIOUS
  <1>9. /\ busy \in SUBSET Signers
        /\ call \in [Requests -> CallStates]
        /\ lease \in [Requests -> MaybeSigner]
    BY DEF TypeOK
  <1>10. \A r1, r2 \in Requests : r1 # r2 /\ lease[r1] # None => lease[r1] # lease[r2]
    BY DEF LeaseExclusive
  <1> HIDE DEF pool, IInv
  <1> QED
    BY <1>3, <1>4, <1>5, <1>6, <1>7, <1>8, <1>9, <1>10, ProcessQueueInv
       DEF LeaseMatchesCall

(* Every step of the scheduler preserves the invariant.                    *)
LEMMA NextIInv == IInv /\ [Next]_vars => IInv'
  <1> SUFFICES ASSUME IInv, [Next]_vars PROVE IInv'
    OBVIOUS
  <1>1. CASE \E addresses \in SUBSET Signers : SetSigners(addresses)
    BY <1>1, SetSignersIInv
  <1>2. CASE \E r \in Requests : \E p \in MaybeSigner : Acquire(r, p)
    BY <1>2, RefuseIInv, LeaseIInv, EnqueueIInv DEF Acquire
  <1>3. CASE \E r \in Requests : Expire(r)
    BY <1>3, ExpireIInv
  <1>4. CASE \E r \in Requests : \E uncertain \in BOOLEAN : Release(r, uncertain)
    BY <1>4, ReleaseIInv
  <1>5. CASE \E a \in Signers : RecoverSigner(a)
    BY <1>5, RecoverIInv
  <1>6. CASE UNCHANGED vars
    BY <1>6 DEF vars, queueVars, IInv, TypeOK, LeaseMatchesCall, TicketsOrdered,
                LeaseExclusive, PoolPartitioned, NoServableWaiter, Waiting, Serves
  <1> QED BY <1>1, <1>2, <1>3, <1>4, <1>5, <1>6 DEF Next

(* The invariant holds in every reachable state.                           *)
THEOREM Invariance == Spec => []IInv
  BY InitIInv, NextIInv, PTL DEF Spec

(* Type correctness, for every pool and every load.                        *)
THEOREM TypeCorrectness == Spec => []TypeOK
  <1>1. IInv => TypeOK
    BY DEF IInv
  <1> QED BY <1>1, Invariance, PTL

(* No signer is ever leased twice at once, whatever the pool, the load and *)
(* the outcomes: the claim of the module comment of settle-scheduler.ts.   *)
THEOREM LeaseExclusion == Spec => []LeaseExclusive
  <1>1. IInv => LeaseExclusive
    BY DEF IInv
  <1> QED BY <1>1, Invariance, PTL

(* The pool never leaks a signer.                                          *)
THEOREM PoolConservation == Spec => []PoolPartitioned
  <1>1. IInv => PoolPartitioned
    BY DEF IInv
  <1> QED BY <1>1, Invariance, PTL

(* No wakeup is ever lost.                                                 *)
THEOREM NoLostWakeup == Spec => []NoServableWaiter
  <1>1. IInv => NoServableWaiter
    BY DEF IInv
  <1> QED BY <1>1, Invariance, PTL

----------------------------------------------------------------------------
(* One run of processQueue, seen from a single grant: nobody ahead in the  *)
(* queue is left waiting who would have taken the signer.                  *)
LEMMA ProcessQueueOrder ==
    ASSUME TypeOK, TicketsOrdered,
           NEW pool \in SUBSET Signers, NEW inFlight, NEW calls, NEW leases,
           ProcessQueue(pool, inFlight, calls, leases),
           NEW r \in Requests, NEW w \in Requests,
           leases[r] = None, lease'[r] # None,
           call[w] = "waiting", call'[w] = "waiting",
           call[r] = "waiting" => ticket[w] < ticket[r]
    PROVE  ~Serves(lease'[r], w)
  <1>1. PICK g \in Grants(pool) :
            /\ call' = [q \in Requests |->
                          IF q \in {v \in Waiting : g[v] # None} THEN "leased" ELSE calls[q]]
            /\ lease' = [q \in Requests |->
                          IF q \in {v \in Waiting : g[v] # None} THEN g[q] ELSE leases[q]]
    BY DEF ProcessQueue
  <1>2. r \in Waiting /\ g[r] # None /\ lease'[r] = g[r]
    BY <1>1
  <1>3. w \in Waiting /\ g[w] = None
    BY <1>1 DEF Waiting
  <1>4. Ahead(w, r)
    BY <1>2 DEF Ahead, Waiting
  <1> QED BY <1>2, <1>3, <1>4, GrantsFacts

(* One step serves no request with a signer that an earlier one is left    *)
(* waiting for: fresh requests find no such signer idle (NoServableWaiter) *)
(* and processQueue goes through the waiters in order.                     *)
LEMMA StepInOrder ==
    ASSUME IInv, Next,
           NEW r \in Requests, NEW w \in Requests,
           lease[r] = None, lease'[r] # None,
           call[w] = "waiting", call'[w] = "waiting",
           call[r] = "waiting" => ticket[w] < ticket[r]
    PROVE  ~Serves(lease'[r], w)
  <1> USE DEF IInv
  <1>1. CASE \E addresses \in SUBSET Signers : SetSigners(addresses)
    BY <1>1 DEF SetSigners
  <1>2. CASE \E q \in Requests : \E p \in MaybeSigner : Refuse(q, p)
    BY <1>2 DEF Refuse
  <1>3. CASE \E q \in Requests : \E p \in MaybeSigner : Lease(q, p)
    <2>1. PICK q \in Requests, a \in idle : lease' = [lease EXCEPT ![q] = a]
      BY <1>3 DEF Lease
    <2>2. lease'[r] = a
      BY <2>1 DEF TypeOK
    <2>3. w \in Waiting
      BY DEF Waiting
    <2> QED BY <2>2, <2>3 DEF NoServableWaiter
  <1>4. CASE \E q \in Requests : \E p \in MaybeSigner : Enqueue(q, p)
    BY <1>4 DEF Enqueue
  <1>5. CASE \E q \in Requests : Expire(q)
    BY <1>5 DEF Expire
  <1>6. CASE \E q \in Requests : \E uncertain \in BOOLEAN : Release(q, uncertain)
    <2>1. PICK q \in Requests, uncertain \in BOOLEAN : Release(q, uncertain)
      BY <1>6
    <2> DEFINE pool     == IF uncertain THEN idle ELSE idle \cup {lease[q]}
               inFlight == busy \ {lease[q]}
               calls    == [call EXCEPT ![q] = "done"]
               leases   == [lease EXCEPT ![q] = None]
    <2>2. ProcessQueue(pool, inFlight, calls, leases)
      BY <2>1 DEF Release
    <2>3. pool \in SUBSET Signers
      BY <2>1, NoneAssumption DEF Release, TypeOK, LeaseMatchesCall, MaybeSigner
    <2>4. leases[r] = None
      BY DEF TypeOK
    <2>5. TypeOK /\ TicketsOrdered
      OBVIOUS
    <2> HIDE DEF pool, inFlight, calls, leases, IInv
    <2> QED BY <2>2, <2>3, <2>4, <2>5, ProcessQueueOrder
  <1>7. CASE \E a \in Signers : RecoverSigner(a)
    <2>1. PICK a \in Signers : RecoverSigner(a)
      BY <1>7
    <2> DEFINE pool == IF a \in busy THEN idle ELSE idle \cup {a}
    <2>2. ProcessQueue(pool, busy, call, lease)
      BY <2>1 DEF RecoverSigner
    <2>3. pool \in SUBSET Signers
      BY DEF TypeOK
    <2>4. TypeOK /\ TicketsOrdered
      OBVIOUS
    <2> HIDE DEF pool, IInv
    <2> QED BY <2>2, <2>3, <2>4, ProcessQueueOrder
  <1> QED BY <1>1, <1>2, <1>3, <1>4, <1>5, <1>6, <1>7 DEF Next, Acquire

(* The queue is first come, first served among the requests a signer would *)
(* do for, whether they wait or have only just arrived.                    *)
THEOREM FirstComeFirstServed == Spec => NoOvertaking
  <1> DEFINE Order ==
        \A r, w \in Requests :
            /\ lease[r] = None /\ lease'[r] # None
            /\ call[w] = "waiting" /\ call'[w] = "waiting"
            /\ call[r] = "waiting" => ticket[w] < ticket[r]
            => ~Serves(lease'[r], w)
  <1>1. IInv /\ [Next]_vars => [Order]_vars
    BY StepInOrder
  <1> QED BY <1>1, Invariance, PTL DEF Spec, NoOvertaking

----------------------------------------------------------------------------
(* A step that frees s hands it to the waiters in h: to none, or to one.   *)
HandsOver(s, pool, inFlight, calls, leases, h) ==
    /\ h = {} \/ \E w \in Waiting : h = {w}
    /\ s \notin pool \ idle => h = {}
    /\ idle' \cup busy' = pool \cup inFlight
    /\ \A q \in Requests :
        /\ call'[q] = IF q \in h THEN "leased" ELSE calls[q]
        /\ lease'[q] = IF q \in h THEN s ELSE leases[q]

(* No waiter could use a signer that was idle before the step, so          *)
(* processQueue passes on at most the one signer s the step frees, to at   *)
(* most one waiter.                                                        *)
LEMMA OneGrant ==
    ASSUME TypeOK, TicketsOrdered, NoServableWaiter,
           NEW s \in Signers,
           NEW pool \in SUBSET Signers, pool \subseteq idle \cup {s},
           NEW inFlight, NEW calls, NEW leases,
           ProcessQueue(pool, inFlight, calls, leases)
    PROVE  \E h \in SUBSET Waiting :
               HandsOver(s, pool, inFlight, calls, leases, h)
  <1>1. PICK g \in Grants(pool) :
            LET granted == {r \in Waiting : g[r] # None}
                taken   == {g[r] : r \in granted}
            IN  /\ idle' = pool \ taken
                /\ busy' = inFlight \cup taken
                /\ call' = [r \in Requests |->
                                IF r \in granted THEN "leased" ELSE calls[r]]
                /\ lease' = [r \in Requests |->
                                IF r \in granted THEN g[r] ELSE leases[r]]
    BY DEF ProcessQueue
  <1> DEFINE h     == {r \in Waiting : g[r] # None}
             taken == {g[r] : r \in h}
  <1>2. /\ idle' = pool \ taken
        /\ busy' = inFlight \cup taken
        /\ call' = [q \in Requests |-> IF q \in h THEN "leased" ELSE calls[q]]
        /\ lease' = [q \in Requests |-> IF q \in h THEN g[q] ELSE leases[q]]
    BY <1>1
  <1>3. \A r \in h : g[r] \in pool /\ Serves(g[r], r)
    BY GrantsFacts
  <1>4. \A r \in h : g[r] = s /\ s \in pool \ idle
    BY <1>3 DEF NoServableWaiter
  <1>5. \A r1, r2 \in h : r1 = r2
    BY <1>4, GrantsFacts
  <1>6. h = {} \/ \E w \in Waiting : h = {w}
    <2>1. ASSUME NEW w \in h PROVE h = {w}
      BY <1>5
    <2> QED BY <2>1
  <1>7. idle' \cup busy' = pool \cup inFlight
    BY <1>2, <1>3
  <1>8. \A q \in Requests : lease'[q] = IF q \in h THEN s ELSE leases[q]
    BY <1>2, <1>4
  <1>9. s \notin pool \ idle => h = {}
    BY <1>4
  <1>10. h \in SUBSET Waiting
    OBVIOUS
  <1>11. \A q \in Requests : call'[q] = IF q \in h THEN "leased" ELSE calls[q]
    BY <1>2
  <1> HIDE DEF h, taken
  <1>12. HandsOver(s, pool, inFlight, calls, leases, h)
    BY <1>6, <1>7, <1>8, <1>9, <1>11 DEF HandsOver
  <1> QED BY <1>10, <1>12

(* The image of a state under the refinement mapping.                      *)
Holder == [s \in Signers |-> {r \in Requests : lease[r] = s}]
Served == {r \in Requests : call[r] \in {"leased", "done"}}

(* Handing s to h, in the terms of the scheduler's own variables.          *)
LEMMA PassToImage ==
    ASSUME TypeOK, NEW s \in Signers, NEW h \in SUBSET Requests,
           h = {} \/ \E w \in Requests \ Served : h = {w},
           Holder' = [Holder EXCEPT ![s] = h],
           Served' = Served \cup h
    PROVE  Abstract!PassTo(s, {}) \/ \E r \in Requests : Abstract!PassTo(s, {r})
  <1>1. CASE h = {}
    BY <1>1 DEF Abstract!PassTo, Holder, Served
  <1>2. CASE \E w \in Requests \ Served : h = {w}
    BY <1>2 DEF Abstract!PassTo, Holder, Served
  <1> QED BY <1>1, <1>2

(* A fresh lease is an abstract Take.                                      *)
LEMMA LeaseImage ==
    ASSUME IInv, NEW r \in Requests, NEW p \in MaybeSigner, Lease(r, p)
    PROVE  \E s \in Signers : Abstract!Take(s)
  <1> USE DEF IInv
  <1>1. PICK s \in idle :
            /\ idle' = idle \ {s}
            /\ busy' = busy \cup {s}
            /\ call' = [call EXCEPT ![r] = "leased"]
            /\ lease' = [lease EXCEPT ![r] = s]
    BY DEF Lease
  <1>2. call[r] = "absent" /\ quarantined' = quarantined /\ lease[r] = None
    BY DEF Lease, LeaseMatchesCall
  <1>3. s \in Signers /\ s # None
    BY NoneAssumption DEF TypeOK
  <1>4. \A q \in Requests : lease[q] # s
    BY <1>3 DEF LeaseExclusive
  <1>5. Holder' = [Holder EXCEPT ![s] = {r}]
    <2>1. ASSUME NEW a \in Signers
          PROVE  {q \in Requests : lease'[q] = a} =
                 IF a = s THEN {r} ELSE {q \in Requests : lease[q] = a}
      BY <1>1, <1>2, <1>3, <1>4, NoneAssumption DEF TypeOK
    <2> QED BY <2>1 DEF Holder
  <1>6. Served' = Served \cup {r} /\ r \notin Served
    BY <1>1, <1>2 DEF Served, TypeOK
  <1>7. Pool' = Pool /\ s \in Pool \ quarantined
    BY <1>1, <1>2 DEF Pool, PoolPartitioned
  <1>8. Abstract!PassTo(s, {r})
    BY <1>5, <1>6 DEF Abstract!PassTo, Holder, Served
  <1>9. Abstract!Free(s)
    BY <1>3, <1>4, <1>7 DEF Abstract!Free
  <1> QED BY <1>2, <1>3, <1>7, <1>8, <1>9 DEF Abstract!Take

(* The end of a settlement is an abstract GiveBack or Withdraw.            *)
LEMMA ReleaseImage ==
    ASSUME IInv, NEW r \in Requests, NEW uncertain \in BOOLEAN, Release(r, uncertain)
    PROVE  \E s \in Signers : Abstract!GiveBack(s) \/ Abstract!Withdraw(s)
  <1> USE DEF IInv
  <1>0. PICK s \in Signers : s = lease[r]
    BY DEF Release, LeaseMatchesCall, TypeOK, MaybeSigner
  <1> DEFINE pool     == IF uncertain THEN idle ELSE idle \cup {s}
             inFlight == busy \ {s}
             calls    == [call EXCEPT ![r] = "done"]
             leases   == [lease EXCEPT ![r] = None]
  <1>1. /\ call[r] = "leased" /\ s # None /\ s \in Signers
        /\ s \in busy /\ s \notin idle /\ s \notin quarantined
    BY <1>0, NoneAssumption DEF Release, LeaseExclusive
  <1>2. quarantined' = IF uncertain THEN quarantined \cup {s} ELSE quarantined
    BY <1>0 DEF Release
  <1>3. PICK h \in SUBSET Waiting :
            HandsOver(s, pool, inFlight, calls, leases, h)
    <2>1. ProcessQueue(pool, inFlight, calls, leases)
      BY <1>0 DEF Release
    <2>2. pool \in SUBSET Signers /\ pool \subseteq idle \cup {s}
      BY <1>1 DEF TypeOK
    <2>3. TypeOK /\ TicketsOrdered /\ NoServableWaiter
      OBVIOUS
    <2> HIDE DEF pool, inFlight, calls, leases, IInv
    <2> QED BY <1>1, <2>1, <2>2, <2>3, OneGrant
  <1>4. \A q \in h : q \in Requests /\ call[q] = "waiting"
    BY <1>3 DEF Waiting, HandsOver
  <1>5. Holder' = [Holder EXCEPT ![s] = h]
    <2>1. \A q \in Requests : q # r => lease[q] # s
      BY <1>0, <1>1 DEF LeaseExclusive
    <2>2. ASSUME NEW a \in Signers
          PROVE  {q \in Requests : lease'[q] = a} =
                 IF a = s THEN h ELSE {q \in Requests : lease[q] = a}
      <3>1. a # None
        BY NoneAssumption
      <3>2. \A q \in h : lease[q] = None /\ q # r
        BY <1>1, <1>4 DEF LeaseMatchesCall
      <3>3. \A q \in Requests :
               lease'[q] = IF q \in h THEN s ELSE IF q = r THEN None ELSE lease[q]
        BY <1>3 DEF TypeOK, HandsOver
      <3> QED BY <1>0, <1>4, <2>1, <3>1, <3>2, <3>3
    <2> QED BY <1>1, <2>2 DEF Holder
  <1>6. Served' = Served \cup h
    BY <1>1, <1>3, <1>4 DEF Served, TypeOK, HandsOver
  <1>7. h = {} \/ \E w \in Requests \ Served : h = {w}
    BY <1>3, <1>4 DEF Served, HandsOver
  <1>8. Pool' = Pool
    BY <1>1, <1>2, <1>3 DEF Pool, HandsOver
  <1>9. Holder[s] # {}
    BY <1>0 DEF Holder
  <1>10. CASE uncertain
    <2>1. h = {}
      BY <1>3, <1>10 DEF HandsOver
    <2>2. Abstract!PassTo(s, {})
      BY <1>5, <1>6, <2>1 DEF Abstract!PassTo, Holder, Served
    <2>3. quarantined' = quarantined \cup {s}
      BY <1>2, <1>10
    <2>4. Abstract!Withdraw(s)
      BY <1>8, <1>9, <2>2, <2>3 DEF Abstract!Withdraw, Holder
    <2> QED BY <2>4
  <1>11. CASE ~uncertain
    <2>1. TypeOK /\ h \in SUBSET Requests
      BY <1>4
    <2>2. Abstract!PassTo(s, {}) \/ \E q \in Requests : Abstract!PassTo(s, {q})
      <3> HIDE DEF IInv
      <3> QED BY <1>5, <1>6, <1>7, <2>1, PassToImage
    <2>3. quarantined' = quarantined
      BY <1>2, <1>11
    <2>4. Abstract!GiveBack(s)
      BY <1>8, <1>9, <2>2, <2>3 DEF Abstract!GiveBack, Holder
    <2> QED BY <2>4
  <1> QED BY <1>10, <1>11

(* A recovery is an abstract Restore.                                      *)
LEMMA RecoverImage ==
    ASSUME IInv, NEW s \in Signers, RecoverSigner(s)
    PROVE  Abstract!Restore(s)
  <1> USE DEF IInv
  <1> DEFINE pool == IF s \in busy THEN idle ELSE idle \cup {s}
  <1>1. s \in quarantined /\ s \notin busy /\ s \notin idle /\ s # None
    BY NoneAssumption DEF RecoverSigner, PoolPartitioned
  <1>2. quarantined' = quarantined \ {s}
    BY DEF RecoverSigner
  <1>3. PICK h \in SUBSET Waiting :
            HandsOver(s, pool, busy, call, lease, h)
    <2>1. ProcessQueue(pool, busy, call, lease)
      BY DEF RecoverSigner
    <2>2. pool \in SUBSET Signers /\ pool \subseteq idle \cup {s}
      BY <1>1 DEF TypeOK
    <2>3. TypeOK /\ TicketsOrdered /\ NoServableWaiter
      OBVIOUS
    <2> HIDE DEF pool, IInv
    <2> QED BY <2>1, <2>2, <2>3, OneGrant
  <1>4. \A q \in h : q \in Requests /\ call[q] = "waiting" /\ lease[q] = None
    BY <1>3 DEF Waiting, HandsOver, LeaseMatchesCall
  <1>5. Holder' = [Holder EXCEPT ![s] = h]
    <2>1. \A q \in Requests : lease[q] # s
      BY <1>1 DEF LeaseExclusive
    <2>2. ASSUME NEW a \in Signers
          PROVE  {q \in Requests : lease'[q] = a} =
                 IF a = s THEN h ELSE {q \in Requests : lease[q] = a}
      BY <1>3, <1>4, <2>1, NoneAssumption DEF HandsOver
    <2> QED BY <2>2 DEF Holder
  <1>6. Served' = Served \cup h
    BY <1>3, <1>4 DEF Served, HandsOver
  <1>7. h = {} \/ \E w \in Requests \ Served : h = {w}
    BY <1>3, <1>4 DEF Served, HandsOver
  <1>8. Pool' = Pool
    BY <1>1, <1>2, <1>3 DEF Pool, HandsOver
  <1>9. Abstract!PassTo(s, {}) \/ \E q \in Requests : Abstract!PassTo(s, {q})
    <2>1. TypeOK /\ h \in SUBSET Requests
      BY <1>4
    <2> HIDE DEF IInv
    <2> QED BY <1>5, <1>6, <1>7, <2>1, PassToImage
  <1> QED BY <1>1, <1>2, <1>8, <1>9 DEF Abstract!Restore

(* Every step of the scheduler maps to a step of SignerLease or a stutter. *)
LEMMA NextImage ==
    ASSUME IInv, [Next]_vars
    PROVE  [Abstract!Next]_Abstract!vars
  <1> USE DEF IInv
  <1> DEFINE Stutter == Pool' = Pool /\ Holder' = Holder /\ quarantined' = quarantined
                        /\ Served' = Served
  <1>0. Stutter => UNCHANGED Abstract!vars
    BY DEF Abstract!vars, Holder, Served
  <1>1. CASE \E addresses \in SUBSET Signers : SetSigners(addresses)
    <2>1. PICK addresses \in SUBSET Signers : SetSigners(addresses)
      BY <1>1
    <2>2. Pool' = addresses /\ Served = {} /\ Served' = {} /\ Holder' = Holder
      BY <2>1 DEF SetSigners, Pool, Served, Holder
    <2>3. Abstract!Configure(addresses)
      BY <2>1, <2>2 DEF Abstract!Configure, SetSigners, Holder, Served
    <2> QED BY <2>3 DEF Abstract!Next
  <1>2. CASE \E r \in Requests : \E p \in MaybeSigner : Refuse(r, p)
    <2>1. Stutter
      BY <1>2 DEF Refuse, Pool, Holder, Served, TypeOK
    <2> QED BY <1>0, <2>1
  <1>3. CASE \E r \in Requests : \E p \in MaybeSigner : Lease(r, p)
    BY <1>3, LeaseImage DEF Abstract!Next
  <1>4. CASE \E r \in Requests : \E p \in MaybeSigner : Enqueue(r, p)
    <2>1. Stutter
      BY <1>4 DEF Enqueue, Pool, Holder, Served, TypeOK
    <2> QED BY <1>0, <2>1
  <1>5. CASE \E r \in Requests : Expire(r)
    <2>1. Stutter
      BY <1>5 DEF Expire, Pool, Holder, Served, TypeOK
    <2> QED BY <1>0, <2>1
  <1>6. CASE \E r \in Requests : \E uncertain \in BOOLEAN : Release(r, uncertain)
    BY <1>6, ReleaseImage DEF Abstract!Next
  <1>7. CASE \E a \in Signers : RecoverSigner(a)
    BY <1>7, RecoverImage DEF Abstract!Next
  <1>8. CASE UNCHANGED vars
    <2>1. Stutter
      BY <1>8 DEF vars, Pool, Holder, Served
    <2> QED BY <1>0, <2>1
  <1> QED BY <1>1, <1>2, <1>3, <1>4, <1>5, <1>6, <1>7, <1>8 DEF Next, Acquire

(* The scheduler, with its queue, timers and quarantine, implements the    *)
(* exclusive resource of SignerLease: however many signers and requests    *)
(* there are, each step moves at most one signer between two holders.      *)
THEOREM ImplementsExclusiveResource == Spec => ImplementsLease
  <1>1. Init => Abstract!Init
    BY NoneAssumption DEF Init, Abstract!Init, Pool
  <1>2. IInv /\ [Next]_vars => [Abstract!Next]_Abstract!vars
    BY NextImage
  <1> QED BY <1>1, <1>2, Invariance, PTL DEF Spec, ImplementsLease, Abstract!Spec

----------------------------------------------------------------------------
(* The settle path.                                                        *)

USE PathAssumption, NoneAssumption

(* Only the current attempt of a call can have submitted, and it only has  *)
(* once it polls or has been answered; a call that is told "busy" waited.  *)
Submitted ==
    /\ \A c \in Calls : \A n \in 0..Retries :
        n # attempt[c] => tx[<<c, n>>].status = "none"
    /\ \A c \in Calls :
        /\ phase[c] \in {"new", "delay", "busy"} => tx[<<c, attempt[c]>>].status = "none"
        /\ phase[c] = "settling" /\ step[c] # "poll" =>
               tx[<<c, attempt[c]>>].status = "none"
        /\ phase[c] = "settling" /\ step[c] = "poll" =>
               call[<<c, attempt[c]>>] = "leased"
        /\ phase[c] = "delay" => attempt[c] < Retries

(* A payment is charged once, and is charged when a transaction of one of  *)
(* its calls was applied.                                                  *)
Charged ==
    /\ \A p \in Payments : charges[p] \in {0, 1}
    /\ \A c \in Calls : \A n \in 0..Retries :
        tx[<<c, n>>].status = "applied" => charges[PaymentOf[c]] = 1

(* A transaction that may still be included has a source account.          *)
PendingHasSource ==
    \A r \in Requests : tx[r].status = "pending" => tx[r].source \in Signers

PathInv ==
    /\ PathTypeOK
    /\ IInv
    /\ Submitted
    /\ Charged
    /\ PendingHasSource
    /\ UnresolvedHoldsSigner
    /\ SettledMeansCharged

----------------------------------------------------------------------------
(* What the scheduler's steps do, as far as the path looks at it.          *)

LEMMA AttemptsAreRequests ==
    /\ \A c \in Calls, n \in 0..Retries : <<c, n>> \in Requests
    /\ \A r \in Requests : \E c \in Calls, n \in 0..Retries : r = <<c, n>>
  OBVIOUS

(* processQueue changes calls that wait, and no other.                     *)
LEMMA QueueSparesOthers ==
    ASSUME NEW pool, NEW inFlight, NEW calls, NEW leases,
           ProcessQueue(pool, inFlight, calls, leases)
    PROVE  \A q \in Requests : call[q] # "waiting" =>
               call'[q] = calls[q] /\ lease'[q] = leases[q]
  BY DEF ProcessQueue, Waiting

(* A signer comes back, to the pool or to quarantine, and its call ends.   *)
LEMMA ReleaseEffect ==
    ASSUME IInv, NEW r \in Requests, NEW uncertain \in BOOLEAN, Release(r, uncertain)
    PROVE  /\ lease[r] \in Signers
           /\ quarantined' = IF uncertain THEN quarantined \cup {lease[r]} ELSE quarantined
           /\ \A q \in Requests : lease[q] # None /\ q # r => lease'[q] = lease[q]
           /\ \A q \in Requests : call[q] = "leased" /\ q # r => call'[q] = "leased"
  <1>1. TypeOK /\ LeaseMatchesCall
    BY DEF IInv
  <1>2. call[r] = "leased"
    BY DEF Release
  <1>3. lease[r] \in Signers
    BY <1>1, <1>2 DEF TypeOK, LeaseMatchesCall, MaybeSigner
  <1>4. quarantined' = IF uncertain THEN quarantined \cup {lease[r]} ELSE quarantined
    BY DEF Release
  <1>5. \A q \in Requests : call[q] # "waiting" =>
            /\ call'[q] = [call EXCEPT ![r] = "done"][q]
            /\ lease'[q] = [lease EXCEPT ![r] = None][q]
    <2> DEFINE pool     == IF uncertain THEN idle ELSE idle \cup {lease[r]}
               inFlight == busy \ {lease[r]}
               calls    == [call EXCEPT ![r] = "done"]
               leases   == [lease EXCEPT ![r] = None]
    <2>1. ProcessQueue(pool, inFlight, calls, leases)
      BY DEF Release
    <2> HIDE DEF pool, inFlight, calls, leases
    <2>2. \A q \in Requests : call[q] # "waiting" =>
              call'[q] = calls[q] /\ lease'[q] = leases[q]
      BY <2>1, QueueSparesOthers
    <2> QED BY <2>2 DEF calls, leases
  <1>6. \A q \in Requests : q # r =>
            /\ [call EXCEPT ![r] = "done"][q] = call[q]
            /\ [lease EXCEPT ![r] = None][q] = lease[q]
    BY <1>1 DEF TypeOK
  <1>7. \A q \in Requests : lease[q] # None => call[q] # "waiting"
    BY <1>1 DEF LeaseMatchesCall
  <1> QED BY <1>3, <1>4, <1>5, <1>6, <1>7

(* A recovered signer leaves quarantine; who holds one keeps it.           *)
LEMMA RecoverEffect ==
    ASSUME IInv, NEW s \in Signers, RecoverSigner(s)
    PROVE  /\ quarantined' = quarantined \ {s}
           /\ \A q \in Requests : lease[q] # None => lease'[q] = lease[q]
           /\ \A q \in Requests : call[q] = "leased" => call'[q] = "leased"
  <1>1. \A q \in Requests : lease[q] # None => call[q] # "waiting"
    BY DEF IInv, LeaseMatchesCall
  <1>2. \A q \in Requests : call[q] # "waiting" =>
            call'[q] = call[q] /\ lease'[q] = lease[q]
    <2> DEFINE pool == IF s \in busy THEN idle ELSE idle \cup {s}
    <2>1. ProcessQueue(pool, busy, call, lease)
      BY DEF RecoverSigner
    <2> HIDE DEF pool
    <2> QED BY <2>1, QueueSparesOthers
  <1>3. quarantined' = quarantined \ {s}
    BY DEF RecoverSigner
  <1> QED BY <1>1, <1>2, <1>3

(* A call that asks for a signer disturbs no other.                        *)
LEMMA AcquireEffect ==
    ASSUME IInv, NEW r \in Requests, NEW p \in MaybeSigner, Acquire(r, p)
    PROVE  /\ quarantined' = quarantined
           /\ \A q \in Requests : lease[q] # None => lease'[q] = lease[q]
           /\ \A q \in Requests : call[q] = "leased" => call'[q] = "leased"
           /\ call'[r] \in {"refused", "leased", "waiting"}
  <1>1. TypeOK /\ LeaseMatchesCall
    BY DEF IInv
  <1>2. CASE Refuse(r, p)
    BY <1>1, <1>2 DEF Refuse, TypeOK
  <1>3. CASE Lease(r, p)
    <2>1. call[r] = "absent" /\ lease[r] = None
      BY <1>1, <1>3 DEF Lease, LeaseMatchesCall
    <2>2. PICK a \in idle : /\ call' = [call EXCEPT ![r] = "leased"]
                            /\ lease' = [lease EXCEPT ![r] = a]
      BY <1>3 DEF Lease
    <2>3. quarantined' = quarantined
      BY <1>3 DEF Lease
    <2> QED BY <1>1, <2>1, <2>2, <2>3 DEF TypeOK
  <1>4. CASE Enqueue(r, p)
    BY <1>1, <1>4 DEF Enqueue, TypeOK
  <1> QED BY <1>2, <1>3, <1>4 DEF Acquire

----------------------------------------------------------------------------
TxRecords == [status : {"none", "pending", "applied", "void"},
              source : MaybeSigner, seq : Nat, known : BOOLEAN]

LEMMA PathInitInv == PathInit => PathInv
  <1> SUFFICES ASSUME PathInit PROVE PathInv
    OBVIOUS
  <1> USE DEF PathInit
  <1>1. TypeOK
    BY DEF TypeOK, CallStates, MaybeSigner
  <1>2. IInv
    BY <1>1 DEF IInv, LeaseMatchesCall, TicketsOrdered, LeaseExclusive,
         PoolPartitioned, NoServableWaiter, Waiting
  <1>3. NoTx \in TxRecords /\ NoTx.status = "none"
    BY DEF NoTx, Fate, TxRecords, MaybeSigner
  <1>4. \A r \in Requests : tx[r] = NoTx
    OBVIOUS
  <1>5. PathTypeOK
    BY <1>1, <1>3 DEF PathTypeOK, TxRecords
  <1>6. Submitted
    BY <1>3, <1>4, AttemptsAreRequests DEF Submitted
  <1>7. Charged /\ PendingHasSource /\ UnresolvedHoldsSigner
    BY <1>3, <1>4, AttemptsAreRequests DEF Charged, PendingHasSource, UnresolvedHoldsSigner
  <1>8. SettledMeansCharged
    BY DEF SettledMeansCharged
  <1> QED BY <1>2, <1>5, <1>6, <1>7, <1>8 DEF PathInv

(* A new attempt: the ones before it submitted nothing, and neither has it.*)
LEMMA AttemptInv ==
    ASSUME PathInv, NEW c \in Calls, NEW n \in 0..Retries,
           phase[c] \in {"new", "delay"}, n = 0 \/ n = attempt[c] + 1,
           Attempt(c, n)
    PROVE  PathInv'
  <1> DEFINE r == <<c, n>>
             p == FacilitatorOf[PaymentOf[c]]
  <1> USE DEF PathInv
  <1>1. r \in Requests /\ p \in MaybeSigner /\ Acquire(r, p)
    BY AttemptsAreRequests DEF Attempt, MaybeSigner
  <1>2. /\ quarantined' = quarantined
        /\ \A q \in Requests : lease[q] # None => lease'[q] = lease[q]
        /\ \A q \in Requests : call[q] = "leased" => call'[q] = "leased"
        /\ call'[r] \in {"refused", "leased", "waiting"}
    <2> HIDE DEF r, p
    <2> QED BY <1>1, AcquireEffect
  <1>3. IInv'
    <2> HIDE DEF r, p
    <2> QED BY <1>1, NextIInv DEF Next
  <1>4. /\ attempt' = [attempt EXCEPT ![c] = n]
        /\ step' = [step EXCEPT ![c] = "verify"]
        /\ phase' = [phase EXCEPT ![c] = IF call'[r] = "refused" THEN "error" ELSE "settling"]
        /\ UNCHANGED <<loaded, tx, sequence, charges, restarts>>
    BY DEF Attempt
  <1> HIDE DEF r, p
  <1>5. PathTypeOK'
    BY <1>3, <1>4 DEF PathTypeOK, IInv, Replies
  <1>6. \A m \in 0..Retries : tx[<<c, m>>].status = "none"
    BY DEF Submitted
  <1>7. Submitted'
    BY <1>2, <1>4, <1>6, AttemptsAreRequests DEF Submitted, PathTypeOK
  <1>8. (Charged /\ PendingHasSource)'
    BY <1>4 DEF Charged, PendingHasSource
  <1>9. UnresolvedHoldsSigner'
    BY <1>2, <1>4 DEF UnresolvedHoldsSigner, PendingHasSource
  <1>10. SettledMeansCharged'
    BY <1>4 DEF SettledMeansCharged, Current, PathTypeOK
  <1> QED BY <1>3, <1>5, <1>7, <1>8, <1>9, <1>10

(* Within one attempt, before the submission: nothing is at stake yet.     *)
LEMMA AdvanceInv ==
    ASSUME PathInv, NEW c \in Calls, NEW next \in {"load", "send"},
           phase[c] = "settling", step[c] # "poll",
           loaded' \in [Calls -> Nat], Advance(c, next)
    PROVE  PathInv'
  <1> USE DEF PathInv, Advance
  <1>1. IInv'
    BY NextIInv
  <1>2. PathTypeOK'
    BY <1>1 DEF PathTypeOK, IInv
  <1>3. Submitted'
    BY DEF Submitted, PathTypeOK, vars
  <1>4. (Charged /\ PendingHasSource /\ UnresolvedHoldsSigner)'
    BY DEF Charged, PendingHasSource, UnresolvedHoldsSigner, vars
  <1>5. SettledMeansCharged'
    BY DEF SettledMeansCharged, Current
  <1> QED BY <1>1, <1>2, <1>3, <1>4, <1>5

(* What the waiter's timer does to the others: nothing.                    *)
LEMMA AnswerBusyInv ==
    ASSUME PathInv, NEW c \in Calls, AnswerBusy(c)
    PROVE  PathInv'
  <1> DEFINE r == <<c, attempt[c]>>
  <1> USE DEF PathInv
  <1>1. r \in Requests
    BY AttemptsAreRequests DEF PathTypeOK
  <1>2. Expire(r) /\ phase[c] = "settling"
    BY DEF AnswerBusy, Current
  <1>3. /\ phase' = [phase EXCEPT ![c] = "busy"]
        /\ UNCHANGED <<attempt, step, loaded, tx, sequence, charges, restarts>>
    BY DEF AnswerBusy
  <1>4. IInv'
    <2> HIDE DEF r
    <2> QED BY <1>1, <1>2, NextIInv DEF Next
  <1>5. /\ call[r] = "waiting"
        /\ call' = [call EXCEPT ![r] = "timedOut"]
        /\ lease' = lease /\ quarantined' = quarantined
    BY <1>2 DEF Expire
  <1>6. PathTypeOK'
    BY <1>3, <1>4 DEF PathTypeOK, IInv, Replies
  <1>7. tx[r].status = "none"
    BY <1>2, <1>5 DEF Submitted
  <1>8. \A q \in Requests : call[q] = "leased" => call'[q] = "leased"
    BY <1>5 DEF PathTypeOK, TypeOK
  <1>9. Submitted'
    <2>1. \A d \in Calls : d # c => phase'[d] = phase[d]
      BY <1>3 DEF PathTypeOK
    <2>2. phase'[c] = "busy"
      BY <1>3 DEF PathTypeOK
    <2>3. \A d \in Calls : call[<<d, attempt[d]>>] = "leased" =>
                                call'[<<d, attempt[d]>>] = "leased"
      BY <1>8, AttemptsAreRequests DEF PathTypeOK
    <2> QED BY <1>3, <1>7, <2>1, <2>2, <2>3 DEF Submitted
  <1>10. (Charged /\ PendingHasSource /\ UnresolvedHoldsSigner)'
    BY <1>3, <1>5 DEF Charged, PendingHasSource, UnresolvedHoldsSigner
  <1>11. SettledMeansCharged'
    BY <1>3 DEF SettledMeansCharged, Current, PathTypeOK
  <1> QED BY <1>4, <1>6, <1>9, <1>10, <1>11

(* An operation that returns, whatever it returns and whatever became of   *)
(* its transaction t, as long as the result tells the truth about t: a     *)
(* hash the service has makes a pending t "uncertain", "settled" an        *)
(* applied one, and only a t that was never sent may be tried again.       *)
LEMMA ReturnInv ==
    ASSUME PathInv, NEW c \in Calls, NEW t \in TxRecords,
           NEW result \in {"settled", "failed", "uncertain", "skew"},
           phase[c] = "settling", Return(c, result),
           tx' = [tx EXCEPT ![<<c, attempt[c]>>] = t],
           t.status = "pending" => t.source \in Signers,
           t.status = "pending" /\ t.known =>
               result = "uncertain" /\
               t.source \in quarantined \cup {lease[<<c, attempt[c]>>]},
           result = "settled" => t.status = "applied",
           t.status = "applied" => tx[<<c, attempt[c]>>].status = "applied",
           result = "skew" => t.status = "none"
    PROVE  PathInv'
  <1> DEFINE r == <<c, attempt[c]>>
             uncertain == result = "uncertain"
  <1> USE DEF PathInv
  <1>1. r \in Requests /\ uncertain \in BOOLEAN
    BY AttemptsAreRequests DEF PathTypeOK
  <1>2. Release(r, uncertain)
    BY DEF Return, Current
  <1>3. /\ phase' = [phase EXCEPT ![c] = AfterResult(c, result)]
        /\ step' = [step EXCEPT ![c] = "verify"]
        /\ loaded' = [loaded EXCEPT ![c] = 0]
        /\ UNCHANGED <<attempt, sequence, charges, restarts>>
    BY DEF Return
  <1>4. tx' = [tx EXCEPT ![r] = t]
    OBVIOUS
  <1>5. /\ t.status = "pending" /\ t.known =>
               uncertain /\ t.source \in quarantined \cup {lease[r]}
        /\ t.status = "applied" => tx[r].status = "applied"
    OBVIOUS
  <1>6. IInv'
    <2> HIDE DEF r, uncertain
    <2> QED BY <1>1, <1>2, NextIInv DEF Next
  <1>7. /\ quarantined' = IF uncertain THEN quarantined \cup {lease[r]} ELSE quarantined
        /\ \A q \in Requests : lease[q] # None /\ q # r => lease'[q] = lease[q]
        /\ \A q \in Requests : call[q] = "leased" /\ q # r => call'[q] = "leased"
    <2> HIDE DEF r, uncertain
    <2> QED BY <1>1, <1>2, ReleaseEffect
  <1>8. AfterResult(c, result) \in {"delay"} \cup Replies
    BY DEF AfterResult, Replies
  <1>9. /\ AfterResult(c, result) = "settled" => result = "settled"
        /\ AfterResult(c, result) = "delay" => result = "skew" /\ attempt[c] < Retries
        /\ AfterResult(c, result) \notin {"new", "settling", "busy"}
    BY DEF AfterResult
  <1>10. PathTypeOK'
    BY <1>3, <1>4, <1>6, <1>8 DEF PathTypeOK, IInv, TxRecords
  <1> HIDE DEF r
  <1>11. \A q \in Requests : q # r => tx'[q] = tx[q]
    BY <1>4 DEF PathTypeOK
  <1>12. tx'[r] = t
    BY <1>1, <1>4 DEF PathTypeOK
  <1>13. \A d \in Calls : d # c => phase'[d] = phase[d] /\ step'[d] = step[d]
    BY <1>3 DEF PathTypeOK
  <1>14. phase'[c] = AfterResult(c, result) /\ step'[c] = "verify"
    BY <1>3 DEF PathTypeOK
  <1>15. \A d \in Calls, n \in 0..Retries :
            d # c \/ n # attempt[c] => <<d, n>> # r
    BY DEF r
  <1>16. Submitted'
    <2>1. \A d \in Calls : \A n \in 0..Retries :
            n # attempt[d] => tx'[<<d, n>>].status = "none"
      BY <1>11, <1>15, AttemptsAreRequests DEF Submitted
    <2>2. \A d \in Calls : d # c =>
            /\ tx'[<<d, attempt[d]>>] = tx[<<d, attempt[d]>>]
            /\ call[<<d, attempt[d]>>] = "leased" => call'[<<d, attempt[d]>>] = "leased"
      BY <1>7, <1>11, <1>15, AttemptsAreRequests DEF PathTypeOK
    <2>3. phase'[c] = "delay" => tx'[<<c, attempt[c]>>].status = "none" /\ attempt[c] < Retries
      BY <1>9, <1>12, <1>14 DEF r
    <2> QED BY <1>3, <1>9, <1>13, <1>14, <2>1, <2>2, <2>3 DEF Submitted
  <1>17. Charged'
    BY <1>1, <1>3, <1>4, <1>5, AttemptsAreRequests DEF Charged, PathTypeOK, r
  <1>18. PendingHasSource'
    BY <1>11, <1>12 DEF PendingHasSource
  <1>19. UnresolvedHoldsSigner'
    BY <1>5, <1>7, <1>11, <1>12 DEF UnresolvedHoldsSigner, PendingHasSource
  <1>20. SettledMeansCharged'
    <2>1. \A d \in Calls : d # c => tx'[<<d, attempt[d]>>] = tx[<<d, attempt[d]>>]
      BY <1>11, <1>15, AttemptsAreRequests DEF PathTypeOK
    <2>2. phase'[c] = "settled" =>
            tx'[<<c, attempt[c]>>].status = "applied" /\ charges[PaymentOf[c]] = 1
      BY <1>5, <1>9, <1>12, <1>14 DEF r, Charged, PathTypeOK
    <2> QED BY <1>3, <1>13, <2>1, <2>2 DEF SettledMeansCharged, Current
  <1> QED BY <1>6, <1>10, <1>16, <1>17, <1>18, <1>19, <1>20

(* What the transaction of a call is replaced by.                          *)
LEMMA SubmitShape ==
    ASSUME PathInv, NEW c \in Calls, NEW status \in {"pending", "void"},
           NEW known \in BOOLEAN, call[Current(c)] = "leased", Submit(c, status, known)
    PROVE  \E t \in TxRecords :
               /\ tx' = [tx EXCEPT ![<<c, attempt[c]>>] = t]
               /\ t.status = status
               /\ status = "pending" =>
                      t.source = lease[<<c, attempt[c]>>] /\ t.known = known
               /\ lease[<<c, attempt[c]>>] \in Signers
  <1> USE DEF PathInv
  <1> DEFINE r == <<c, attempt[c]>>
             t == IF status = "pending"
                    THEN [status |-> status, source |-> lease[r],
                          seq |-> loaded[c] + 1, known |-> known]
                    ELSE Fate(status)
  <1>1. r \in Requests /\ call[r] = "leased"
    BY AttemptsAreRequests DEF PathTypeOK, Current
  <1>2. lease[r] \in Signers
    BY <1>1 DEF IInv, TypeOK, LeaseMatchesCall, MaybeSigner
  <1>3. t \in TxRecords
    BY <1>2 DEF TxRecords, Fate, MaybeSigner, PathTypeOK
  <1>4. tx' = [tx EXCEPT ![r] = t]
    BY DEF Submit, Current
  <1>5. t.status = status /\ (status = "pending" => t.source = lease[r] /\ t.known = known)
    BY DEF Fate
  <1> HIDE DEF t
  <1> QED BY <1>2, <1>3, <1>4, <1>5

LEMMA OperationInv ==
    ASSUME PathInv, NEW c \in Calls,
           \/ Verify(c) \/ FailEarly(c) \/ FailForSkew(c) \/ LoadSequence(c)
           \/ SendPending(c) \/ SendRefused(c) \/ SendLost(c)
           \/ PollSuccess(c) \/ PollFailure(c)
    PROVE  PathInv'
  <1> USE DEF PathInv
  <1> DEFINE r == <<c, attempt[c]>>
  <1>1. r \in Requests /\ tx[r] \in TxRecords /\ tx = [tx EXCEPT ![r] = tx[r]]
    BY AttemptsAreRequests DEF PathTypeOK, TxRecords
  <1>2. /\ tx[r].status = "pending" => tx[r].source \in Signers
        /\ tx[r].status = "pending" /\ tx[r].known =>
               tx[r].source \in quarantined \cup {lease[r]}
    BY <1>1 DEF PendingHasSource, UnresolvedHoldsSigner
  <1>3. phase[c] = "settling" /\ step[c] # "poll" => tx[r].status = "none"
    BY DEF Submitted
  <1>4. CASE Verify(c)
    <2>1. phase[c] = "settling" /\ step[c] # "poll" /\ Advance(c, "load") /\ loaded' = loaded
      BY <1>4 DEF Verify, Working
    <2> QED BY <2>1, AdvanceInv DEF PathTypeOK
  <1>5. CASE LoadSequence(c)
    <2>1. /\ phase[c] = "settling" /\ step[c] # "poll" /\ Advance(c, "send")
          /\ loaded' = [loaded EXCEPT ![c] = sequence[lease[r]]]
          /\ call[r] = "leased"
      BY <1>5 DEF LoadSequence, Working, Current
    <2>2. lease[r] \in Signers
      BY <1>1, <2>1 DEF IInv, TypeOK, LeaseMatchesCall, MaybeSigner
    <2>3. loaded' \in [Calls -> Nat]
      BY <2>1, <2>2 DEF PathTypeOK
    <2> QED BY <2>1, <2>3, AdvanceInv
  <1>6. CASE FailEarly(c)
    <2>1. phase[c] = "settling" /\ step[c] # "poll" /\ Return(c, "failed") /\ tx' = tx
      BY <1>6 DEF FailEarly, Working
    <2> QED BY <1>1, <1>3, <2>1, ReturnInv
  <1>7. CASE FailForSkew(c)
    <2>1. phase[c] = "settling" /\ step[c] # "poll" /\ Return(c, "skew") /\ tx' = tx
      BY <1>7 DEF FailForSkew, Working
    <2> QED BY <1>1, <1>3, <2>1, ReturnInv
  <1>8. CASE PollSuccess(c)
    <2>1. phase[c] = "settling" /\ tx[r].status = "applied" /\ Return(c, "settled") /\ tx' = tx
      BY <1>8 DEF PollSuccess, Working, Current
    <2> QED BY <1>1, <2>1, ReturnInv
  <1>9. CASE PollFailure(c)
    <2>1. phase[c] = "settling" /\ Return(c, "uncertain") /\ tx' = tx
      BY <1>9 DEF PollFailure, Working
    <2> QED BY <1>1, <1>2, <2>1, ReturnInv
  <1>10. CASE SendRefused(c)
    <2>1. PICK status \in {"pending", "void"} : Submit(c, status, TRUE)
      BY <1>10 DEF SendRefused
    <2>2. phase[c] = "settling" /\ call[Current(c)] = "leased" /\ Return(c, "uncertain")
      BY <1>10 DEF SendRefused, Working
    <2>3. PICK t \in TxRecords :
              /\ tx' = [tx EXCEPT ![r] = t]
              /\ t.status = status
              /\ status = "pending" => t.source = lease[r] /\ t.known = TRUE
              /\ lease[r] \in Signers
      BY <2>1, <2>2, SubmitShape
    <2> QED BY <2>2, <2>3, ReturnInv
  <1>11. CASE SendLost(c)
    <2>1. PICK status \in {"pending", "void"} : Submit(c, status, FALSE)
      BY <1>11 DEF SendLost
    <2>2. phase[c] = "settling" /\ call[Current(c)] = "leased" /\ Return(c, "failed")
      BY <1>11 DEF SendLost, Working
    <2>3. PICK t \in TxRecords :
              /\ tx' = [tx EXCEPT ![r] = t]
              /\ t.status = status
              /\ status = "pending" => t.source = lease[r] /\ t.known = FALSE
              /\ lease[r] \in Signers
      BY <2>1, <2>2, SubmitShape
    <2> QED BY <2>2, <2>3, ReturnInv
  <1>12. CASE SendPending(c)
    <2>1. /\ phase[c] = "settling" /\ call[r] = "leased" /\ call[Current(c)] = "leased"
          /\ Submit(c, "pending", TRUE)
          /\ step' = [step EXCEPT ![c] = "poll"] /\ loaded' = [loaded EXCEPT ![c] = 0]
          /\ UNCHANGED <<vars, phase, attempt, sequence, charges, restarts>>
      BY <1>12 DEF SendPending, Working, Current
    <2>2. PICK t \in TxRecords :
              /\ tx' = [tx EXCEPT ![r] = t]
              /\ t.status = "pending" /\ t.source = lease[r]
              /\ lease[r] \in Signers
      BY <2>1, SubmitShape
    <2>3. IInv'
      BY <2>1, NextIInv
    <2>4. PathTypeOK'
      BY <2>1, <2>2, <2>3 DEF PathTypeOK, IInv, TxRecords
    <2>5. /\ \A q \in Requests : q # r => tx'[q] = tx[q]
          /\ tx'[r] = t
      BY <1>1, <2>2 DEF PathTypeOK
    <2>6. /\ \A d \in Calls, n \in 0..Retries : d # c \/ n # attempt[c] => <<d, n>> # r
          /\ \A d \in Calls : d # c => step'[d] = step[d]
          /\ step'[c] = "poll"
      BY <2>1 DEF PathTypeOK
    <2>7. Submitted'
      <3>1. \A d \in Calls : \A n \in 0..Retries :
                n # attempt[d] => tx'[<<d, n>>].status = "none"
        BY <2>5, <2>6, AttemptsAreRequests DEF Submitted
      <3>2. \A d \in Calls : d # c => tx'[<<d, attempt[d]>>] = tx[<<d, attempt[d]>>]
        BY <2>5, <2>6, AttemptsAreRequests DEF PathTypeOK
      <3> QED BY <2>1, <2>6, <3>1, <3>2 DEF Submitted, vars
    <2> HIDE DEF r
    <2>8. Charged'
      BY <2>1, <2>2, <2>5, AttemptsAreRequests DEF Charged
    <2>9. PendingHasSource'
      BY <2>2, <2>5 DEF PendingHasSource
    <2>10. UnresolvedHoldsSigner'
      BY <2>1, <2>2, <2>5 DEF UnresolvedHoldsSigner, vars
    <2>11. SettledMeansCharged'
      <3>1. \A d \in Calls : phase[d] = "settled" => <<d, attempt[d]>> # r
        BY <2>1 DEF r
      <3> QED BY <2>1, <2>5, <3>1, AttemptsAreRequests DEF SettledMeansCharged, Current, PathTypeOK
    <2> QED BY <2>3, <2>4, <2>7, <2>8, <2>9, <2>10, <2>11
  <1> QED BY <1>4, <1>5, <1>6, <1>7, <1>8, <1>9, <1>10, <1>11, <1>12

(* The ledger takes or drops a transaction: the service is not involved.   *)
LEMMA LedgerInv ==
    ASSUME PathInv, NEW r \in Requests, Include(r) \/ Drop(r)
    PROVE  PathInv'
  <1> USE DEF PathInv
  <1>1. PICK c \in Calls, n \in 0..Retries : r = <<c, n>>
    BY AttemptsAreRequests
  <1>2. tx[r].status = "pending" /\ UNCHANGED <<vars, phase, attempt, step, loaded, restarts>>
    BY DEF Include, Drop
  <1>3. PICK status \in {"applied", "void"} :
            /\ tx' = [tx EXCEPT ![r] = Fate(status)]
            /\ \/ /\ status = "applied" /\ charges[PaymentOf[c]] = 0
                  /\ charges' = [charges EXCEPT ![PaymentOf[c]] = @ + 1]
               \/ status = "void" /\ UNCHANGED charges
    BY <1>1 DEF Include, Drop
  <1>4. sequence' \in [Signers -> Nat]
    <2>1. CASE Include(r)
      BY <2>1 DEF Include, PathTypeOK
    <2>2. CASE Drop(r)
      BY <2>2 DEF Drop, PathTypeOK
    <2> QED BY <2>1, <2>2
  <1>5. Fate(status) \in TxRecords /\ Fate(status).status = status
    BY DEF Fate, TxRecords, MaybeSigner
  <1>6. /\ \A q \in Requests : q # r => tx'[q] = tx[q]
        /\ tx'[r] = Fate(status)
    BY <1>3 DEF PathTypeOK
  <1>7. /\ \A p \in Payments : charges'[p] = charges[p] \/ (charges[p] = 0 /\ charges'[p] = 1)
        /\ status = "applied" => charges'[PaymentOf[c]] = 1
        /\ charges' \in [Payments -> Nat]
    <2>1. charges \in [Payments -> Nat] /\ PaymentOf[c] \in Payments
      BY DEF PathTypeOK
    <2>2. CASE /\ status = "applied" /\ charges[PaymentOf[c]] = 0
               /\ charges' = [charges EXCEPT ![PaymentOf[c]] = @ + 1]
      BY <2>1, <2>2
    <2>3. CASE status = "void" /\ UNCHANGED charges
      BY <2>1, <2>3
    <2> QED BY <1>3, <2>2, <2>3
  <1>8. IInv'
    BY <1>2, NextIInv
  <1>9. PathTypeOK'
    BY <1>2, <1>3, <1>4, <1>5, <1>7, <1>8 DEF PathTypeOK, IInv, TxRecords
  <1>10. n = attempt[c] /\ phase[c] # "settled"
    BY <1>1, <1>2 DEF Submitted, SettledMeansCharged, Current
  <1>11. \A d \in Calls, m \in 0..Retries :
            tx[<<d, m>>].status = "none" => tx'[<<d, m>>].status = "none"
    BY <1>2, <1>6, AttemptsAreRequests
  <1>12. Submitted'
    <2>1. attempt \in [Calls -> 0..Retries]
      BY DEF PathTypeOK
    <2> QED BY <1>2, <1>11, <2>1 DEF Submitted, vars
  <1>13. Charged'
    <2>1. \A p \in Payments : charges'[p] \in {0, 1}
      BY <1>7 DEF Charged
    <2>2. ASSUME NEW d \in Calls, NEW m \in 0..Retries, tx'[<<d, m>>].status = "applied"
          PROVE  charges'[PaymentOf[d]] = 1
      <3>1. CASE <<d, m>> = r
        BY <1>1, <1>5, <1>6, <1>7, <2>2, <3>1
      <3>2. CASE <<d, m>> # r
        BY <1>6, <1>7, <2>2, <3>2, AttemptsAreRequests DEF Charged
      <3> QED BY <3>1, <3>2
    <2> QED BY <2>1, <2>2 DEF Charged
  <1>14. PendingHasSource'
    BY <1>5, <1>6 DEF PendingHasSource
  <1>15. UnresolvedHoldsSigner'
    BY <1>2, <1>5, <1>6 DEF UnresolvedHoldsSigner, vars
  <1>16. SettledMeansCharged'
    <2>1. ASSUME NEW d \in Calls, phase[d] = "settled"
          PROVE  /\ tx'[<<d, attempt[d]>>].status = "applied"
                 /\ charges'[PaymentOf[d]] = 1
      <3>1. <<d, attempt[d]>> # r /\ <<d, attempt[d]>> \in Requests
        BY <1>1, <1>10, <2>1, AttemptsAreRequests DEF PathTypeOK
      <3> QED BY <1>6, <1>7, <2>1, <3>1 DEF SettledMeansCharged, Current
    <2> QED BY <1>2, <2>1 DEF SettledMeansCharged, Current
  <1> QED BY <1>8, <1>9, <1>12, <1>13, <1>14, <1>15, <1>16

(* The operator recovers a signer once none of its known transactions is   *)
(* pending; that guard is all that UnresolvedHoldsSigner needs here.       *)
LEMMA RecoverInv ==
    ASSUME PathInv, NEW s \in Signers, Recover(s)
    PROVE  PathInv'
  <1> USE DEF PathInv
  <1>1. RecoverSigner(s) /\ UNCHANGED <<phase, attempt, step, loaded, tx, sequence, charges, restarts>>
    BY DEF Recover, pathVars
  <1>2. \A q \in Requests : tx[q].source = s /\ tx[q].known => tx[q].status # "pending"
    BY DEF Recover
  <1>3. IInv'
    BY <1>1, NextIInv DEF Next
  <1>4. /\ quarantined' = quarantined \ {s}
        /\ \A q \in Requests : lease[q] # None => lease'[q] = lease[q]
        /\ \A q \in Requests : call[q] = "leased" => call'[q] = "leased"
    BY <1>1, RecoverEffect
  <1>5. PathTypeOK'
    BY <1>1, <1>3 DEF PathTypeOK, IInv
  <1>6. \A d \in Calls : call[<<d, attempt[d]>>] = "leased" =>
                             call'[<<d, attempt[d]>>] = "leased"
    BY <1>4, AttemptsAreRequests DEF PathTypeOK
  <1>7. Submitted'
    BY <1>1, <1>6 DEF Submitted
  <1>8. (Charged /\ PendingHasSource /\ SettledMeansCharged)'
    BY <1>1 DEF Charged, PendingHasSource, SettledMeansCharged, Current
  <1>9. UnresolvedHoldsSigner'
    BY <1>1, <1>2, <1>4 DEF UnresolvedHoldsSigner, PendingHasSource
  <1> QED BY <1>3, <1>5, <1>7, <1>8, <1>9

(* A transaction the service forgets is still a transaction.               *)
LEMMA ForgottenTx ==
    ASSUME NEW t \in TxRecords
    PROVE  [t EXCEPT !.known = FALSE] \in TxRecords
  BY DEF TxRecords

(* A restart empties the scheduler; it knows no transaction any more.      *)
LEMMA RestartInv ==
    ASSUME PathInv, Restart
    PROVE  PathInv'
  <1> USE DEF PathInv, Restart
  <1>1. Waiting' = {} /\ \A r \in Requests : lease'[r] = None /\ call'[r] # "leased"
    BY DEF Waiting, IInv, TypeOK
  <1>2. TypeOK'
    BY DEF IInv, TypeOK, CallStates, MaybeSigner, Pool, queueVars
  <1>3. IInv'
    BY <1>1, <1>2 DEF IInv, LeaseMatchesCall, TicketsOrdered, LeaseExclusive,
         PoolPartitioned, NoServableWaiter
  <1>4. tx' \in [Requests -> TxRecords]
    <2>1. \A t \in TxRecords : [t EXCEPT !.known = FALSE] \in TxRecords
      BY ForgottenTx
    <2>2. tx \in [Requests -> TxRecords]
      BY DEF PathTypeOK, TxRecords
    <2> QED BY <2>1, <2>2
  <1>5. \A r \in Requests : /\ tx'[r].status = tx[r].status
                             /\ tx'[r].source = tx[r].source
                             /\ tx'[r].known = FALSE
    BY DEF PathTypeOK
  <1>6. PathTypeOK'
    BY <1>2, <1>4 DEF PathTypeOK, TxRecords, Replies
  <1>7. \A c \in Calls :
            /\ phase'[c] \notin {"settling", "delay"}
            /\ phase'[c] = phase[c] \/ phase'[c] = "lost"
    OBVIOUS
  <1>8. Submitted'
    <2>1. \A c \in Calls : \A n \in 0..Retries : tx'[<<c, n>>].status = tx[<<c, n>>].status
      BY <1>5, AttemptsAreRequests
    <2>2. attempt \in [Calls -> 0..Retries]
      BY DEF PathTypeOK
    <2> QED BY <1>7, <2>1, <2>2 DEF Submitted
  <1>9. (Charged /\ PendingHasSource /\ UnresolvedHoldsSigner)'
    BY <1>5, AttemptsAreRequests DEF Charged, PendingHasSource, UnresolvedHoldsSigner
  <1>10. SettledMeansCharged'
    <2>1. \A c \in Calls : tx'[<<c, attempt[c]>>].status = tx[<<c, attempt[c]>>].status
      BY <1>5, AttemptsAreRequests DEF PathTypeOK
    <2> QED BY <1>7, <2>1 DEF SettledMeansCharged, Current
  <1> QED BY <1>3, <1>6, <1>8, <1>9, <1>10

----------------------------------------------------------------------------
LEMMA PathNextInv == PathInv /\ [PathNext]_allVars => PathInv'
  <1> SUFFICES ASSUME PathInv, [PathNext]_allVars PROVE PathInv'
    OBVIOUS
  <1>1. CASE \E c \in Calls : Receive(c) \/ Progress(c)
    <2>1. PICK c \in Calls : Receive(c) \/ Progress(c)
      BY <1>1
    <2>2. CASE Receive(c)
      BY <2>2, AttemptInv DEF Receive
    <2>3. CASE RetryAfterSkew(c)
      <3>1. phase[c] = "delay" /\ Attempt(c, attempt[c] + 1)
        BY <2>3 DEF RetryAfterSkew
      <3>2. attempt[c] \in 0..Retries /\ attempt[c] < Retries
        BY <3>1 DEF PathInv, PathTypeOK, Submitted
      <3>3. attempt[c] + 1 \in 0..Retries
        BY <3>2
      <3> QED BY <3>1, <3>3, AttemptInv
    <2>4. CASE AnswerBusy(c)
      BY <2>4, AnswerBusyInv
    <2> QED BY <2>1, <2>2, <2>3, <2>4, OperationInv DEF Progress
  <1>2. CASE \E r \in Requests : Include(r) \/ Drop(r)
    BY <1>2, LedgerInv
  <1>3. CASE \E s \in Signers : Recover(s)
    BY <1>3, RecoverInv
  <1>4. CASE Restart
    BY <1>4, RestartInv
  <1>5. CASE UNCHANGED allVars
    <2>1. UNCHANGED <<vars, phase, attempt, step, loaded, tx, sequence, charges, restarts>>
      BY <1>5 DEF allVars, pathVars
    <2>2. IInv'
      BY <2>1, NextIInv DEF PathInv
    <2> QED BY <2>1, <2>2 DEF PathInv, PathTypeOK, IInv, Submitted, Charged,
              PendingHasSource, UnresolvedHoldsSigner, SettledMeansCharged, Current, vars
  <1> QED BY <1>1, <1>2, <1>3, <1>4, <1>5 DEF PathNext

THEOREM PathInvariance == PathSpec => []PathInv
  BY PathInitInv, PathNextInv, PTL DEF PathSpec

(* Type correctness of the settle path and the scheduler inside it.        *)
THEOREM PathTypeCorrectness == PathSpec => []PathTypeOK
  <1>1. PathInv => PathTypeOK
    BY DEF PathInv
  <1> QED BY <1>1, PathInvariance, PTL

(* While the service knows of a transaction without an outcome, the signer *)
(* that sent it serves nobody else: what the hash in a failed result and   *)
(* the quarantine of settle-scheduler.ts achieve together.                 *)
THEOREM DoubtHoldsSigner == PathSpec => []UnresolvedHoldsSigner
  <1>1. PathInv => UnresolvedHoldsSigner
    BY DEF PathInv
  <1> QED BY <1>1, PathInvariance, PTL

(* A settled answer is given for a charge this call's own transaction      *)
(* made, across retries, replays, lost answers and restarts.               *)
THEOREM SettledIsCharged == PathSpec => []SettledMeansCharged
  <1>1. PathInv => SettledMeansCharged
    BY DEF PathInv
  <1> QED BY <1>1, PathInvariance, PTL

(* The retry of retry.ts never makes a call submit a second transaction.   *)
THEOREM RetrySubmitsOnce == PathSpec => []OneTransactionPerCall
  <1>1. PathInv => OneTransactionPerCall
    <2> SUFFICES ASSUME PathInv, NEW c \in Calls,
                        NEW n \in 0..Retries, NEW m \in 0..Retries,
                        tx[<<c, n>>].status # "none", tx[<<c, m>>].status # "none"
                 PROVE  n = m
      BY DEF OneTransactionPerCall
    <2>1. n = attempt[c] /\ m = attempt[c]
      BY DEF PathInv, Submitted
    <2> QED BY <2>1
  <1> QED BY <1>1, PathInvariance, PTL

(* What SignerBusyError tells the caller ("Nothing was submitted and no    *)
(* funds moved") is true, also when an earlier attempt had a signer.       *)
THEOREM BusyIsUnsent == PathSpec => []BusyMeansNothingSubmitted
  <1>1. PathInv => BusyMeansNothingSubmitted
    BY DEF PathInv, Submitted, BusyMeansNothingSubmitted
  <1> QED BY <1>1, PathInvariance, PTL
============================================================================
