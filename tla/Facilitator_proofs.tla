------------------------- MODULE Facilitator_proofs -------------------------
(***************************************************************************)
(* The facilitator around its payment schemes: what the process claims     *)
(* while it is up and how it hands out the channels of its legacy pool,    *)
(* for any set of channels, requests and environments and any number of    *)
(* restarts; the front that every request passes, for any workload; and    *)
(* the catalog outbox that settlements are queued in, for any transaction  *)
(* hashes, batch size and number of crashes.                               *)
(*                                                                         *)
(* The pool's promises need four facts more: a settlement holds a channel  *)
(* exactly while it works on it, the queue holds waiting requests, each    *)
(* once, a channel that cools down without a timer running for it has a    *)
(* due one, and no settlement is open while no process is up.              *)
(***************************************************************************)
EXTENDS FacilitatorService, FacilitatorFront, CatalogOutbox, FiniteSetTheorems, TLAPS

Exclusive(channels, holds) ==
    /\ \A q, r \in Requests : q # r /\ holds[q] # NoChannel => holds[q] # holds[r]
    /\ \A c \in Channels : channels[c] = "IN_USE" => \E r \in Requests : holds[r] = c
    /\ \A r \in Requests : holds[r] # NoChannel => channels[holds[r]] \in {"IN_USE", "ERROR"}

(* A settlement holds a channel exactly while it works on it.              *)
HoldsWhileWorking(calls, holds) ==
    \A r \in Requests : holds[r] # NoChannel <=> calls[r] \in {"holding", "resyncing"}

(* The queue holds waiting requests, each once.                            *)
QueueOfWaiting(queue, calls) ==
    /\ \A i \in 1..Len(queue) : calls[queue[i]] = "waiting"
    /\ \A i, j \in 1..Len(queue) : queue[i] = queue[j] => i = j

PoolOK(channels, queue, calls, holds) ==
    /\ channels \in [Channels -> ChannelStates]
    /\ queue \in Seq(Requests)
    /\ calls \in [Requests -> LegacyStates]
    /\ holds \in [Requests -> Channels \cup {NoChannel}]
    /\ Exclusive(channels, holds)
    /\ HoldsWhileWorking(calls, holds)
    /\ QueueOfWaiting(queue, calls)

(* A channel may cool down with no timer armed only if one is due.         *)
Overdue(channels, running) ==
    \E c \in Channels : channels[c] = "COOLDOWN" /\ c \notin running

TimersOK ==
    /\ armed \subseteq Channels /\ timers \in Nat /\ immediates \in Nat
    /\ Overdue(channel, armed) => timers > 0
    /\ NoStrandedWaiter

(* No settlement is open unless the process is up.                         *)
ClosedWhileDown == ~Running => \A r \in Requests : legacy[r] \in {"new"} \cup Answers

(* What the process has confirmed once it has got so far.                  *)
LifeOK ==
    /\ config \in Configs
    /\ heard \in [funded : BOOLEAN, deployed : BOOLEAN]
    /\ phase \in Phases
    /\ phase \in {"contract", "serving", "draining"} => (sponsored => heard.funded)
    /\ ClaimsAreConfirmed

USE ChannelAssumption

----------------------------------------------------------------------------
(* The helpers of the pool.                                                *)

LEMMA CooledIs ==
    ASSUME NEW channels \in [Channels -> ChannelStates], NEW running
    PROVE  /\ Cooled(channels, running) \in [Channels -> ChannelStates]
           /\ ~Overdue(Cooled(channels, running), running)
           /\ \A c \in Channels : Cooled(channels, running)[c] # channels[c] =>
                  /\ channels[c] = "COOLDOWN" /\ c \notin running
                  /\ Cooled(channels, running)[c] = "AVAILABLE"
BY DEF Cooled, Overdue, ChannelStates

LEMMA CooledKeeps ==
    ASSUME NEW channels, NEW running, NEW queue, NEW calls, NEW holds,
           PoolOK(channels, queue, calls, holds)
    PROVE  PoolOK(Cooled(channels, running), queue, calls, holds)
<1>1. \A r \in Requests : holds[r] \in Channels \cup {NoChannel}
  BY DEF PoolOK
<1>2. Exclusive(Cooled(channels, running), holds)
  BY <1>1, CooledIs DEF PoolOK, Exclusive
<1> QED
  BY <1>2, CooledIs DEF PoolOK

(* The queue without its head.                                             *)
LEMMA TailOfWaiting ==
    ASSUME NEW queue \in Seq(Requests), queue # <<>>, NEW calls, QueueOfWaiting(queue, calls)
    PROVE  /\ Head(queue) \in Requests /\ calls[Head(queue)] = "waiting"
           /\ Tail(queue) \in Seq(Requests) /\ QueueOfWaiting(Tail(queue), calls)
           /\ \A i \in 1..Len(Tail(queue)) : Tail(queue)[i] # Head(queue)
           /\ Len(queue) \in Nat /\ (~(Len(queue) > 1) => Tail(queue) = <<>>)
<1>1. /\ Len(queue) \in Nat \ {0} /\ Head(queue) = queue[1]
      /\ Tail(queue) \in Seq(Requests)
      /\ Len(Tail(queue)) = Len(queue) - 1
      /\ \A i \in 1..Len(Tail(queue)) : Tail(queue)[i] = queue[i + 1] /\ i + 1 \in 1..Len(queue)
  OBVIOUS
<1>2. /\ \A i \in 1..Len(Tail(queue)) : calls[Tail(queue)[i]] = "waiting"
      /\ \A i, j \in 1..Len(Tail(queue)) : Tail(queue)[i] = Tail(queue)[j] => i = j
      /\ \A i \in 1..Len(Tail(queue)) : Tail(queue)[i] # Head(queue)
      /\ calls[Head(queue)] = "waiting"
  <2> HIDE DEF QueueOfWaiting
  <2>1. 1 \in 1..Len(queue)
    BY <1>1
  <2>2. \A i, j \in 1..Len(queue) : queue[i] = queue[j] => i = j
    BY DEF QueueOfWaiting
  <2>3. \A i \in 1..Len(queue) : calls[queue[i]] = "waiting"
    BY DEF QueueOfWaiting
  <2> QED
    BY <1>1, <2>1, <2>2, <2>3
<1>3. ~(Len(queue) > 1) => Tail(queue) = <<>>
  BY <1>1
<1>4. queue[1] \in Requests
  BY <1>1
<1> QED
  BY <1>1, <1>2, <1>3, <1>4 DEF QueueOfWaiting

LEMMA RunsToCome ==
    \A t, i \in Nat : /\ i + 1 \in Nat /\ t + (i + 1) > 0
                      /\ t > 0 => t + i > 0
OBVIOUS

(* A run of processQueue.                                                  *)
LEMMA ProcessQueueKeeps ==
    ASSUME NEW channels, NEW running, NEW calls, NEW holds, NEW pending \in Nat,
           PoolOK(channels, acquisitionQueue, calls, holds),
           timers' \in Nat, Overdue(channels, running) => timers' > 0,
           ProcessQueue(channels, running, calls, holds, pending)
    PROVE  /\ PoolOK(channel', acquisitionQueue', legacy', held')
           /\ immediates' \in Nat
           /\ Overdue(channel', running) => timers' > 0
           /\ NoStrandedWaiter'
           /\ \A r \in Requests : legacy'[r] # calls[r] => calls[r] = "waiting"
<1>1. CASE acquisitionQueue # <<>> /\ Available(channels) # {}
  <2> DEFINE r == Head(acquisitionQueue)
  <2>1. PICK c \in Available(channels) :
            channel' = [channels EXCEPT ![c] = "IN_USE"] /\ held' = [holds EXCEPT ![r] = c]
    BY <1>1 DEF ProcessQueue
  <2>2. /\ legacy' = [calls EXCEPT ![r] = "holding"]
        /\ acquisitionQueue' = Tail(acquisitionQueue)
        /\ immediates' = IF Len(acquisitionQueue) > 1 THEN pending + 1 ELSE pending
    BY <1>1 DEF ProcessQueue
  <2>3. /\ r \in Requests /\ calls[r] = "waiting"
        /\ Tail(acquisitionQueue) \in Seq(Requests)
        /\ QueueOfWaiting(Tail(acquisitionQueue), calls)
        /\ \A i \in 1..Len(Tail(acquisitionQueue)) : Tail(acquisitionQueue)[i] # r
        /\ Len(acquisitionQueue) \in Nat
        /\ ~(Len(acquisitionQueue) > 1) => Tail(acquisitionQueue) = <<>>
    BY <1>1, TailOfWaiting DEF PoolOK
  <2> HIDE DEF r
  <2>4. c \in Channels /\ channels[c] = "AVAILABLE" /\ c # NoChannel
    BY <2>1 DEF Available
  <2>5. /\ channels \in [Channels -> ChannelStates]
        /\ calls \in [Requests -> LegacyStates]
        /\ holds \in [Requests -> Channels \cup {NoChannel}]
        /\ Exclusive(channels, holds) /\ HoldsWhileWorking(calls, holds)
    BY DEF PoolOK
  <2>6. holds[r] = NoChannel /\ \A q \in Requests : holds[q] # c
    BY <2>3, <2>4, <2>5 DEF Exclusive, HoldsWhileWorking
  <2>7. Exclusive(channel', held')
    BY <2>1, <2>3, <2>4, <2>5, <2>6 DEF Exclusive
  <2>8. HoldsWhileWorking(legacy', held')
    BY <2>1, <2>2, <2>3, <2>4, <2>5 DEF HoldsWhileWorking
  <2>9. QueueOfWaiting(acquisitionQueue', legacy')
    <3>1. \A i \in 1..Len(Tail(acquisitionQueue)) :
              legacy'[Tail(acquisitionQueue)[i]] = calls[Tail(acquisitionQueue)[i]]
      BY <2>2, <2>3, <2>5
    <3> QED
      BY <2>2, <2>3, <3>1 DEF QueueOfWaiting
  <2>10. PoolOK(channel', acquisitionQueue', legacy', held')
    BY <2>1, <2>2, <2>3, <2>4, <2>5, <2>7, <2>8, <2>9
       DEF PoolOK, ChannelStates, LegacyStates
  <2>11. Overdue(channel', running) => Overdue(channels, running)
    BY <2>1, <2>5 DEF Overdue
  <2>12. immediates' \in Nat /\ NoStrandedWaiter'
    <3>1. CASE Len(acquisitionQueue) > 1
      <4>1. immediates' = pending + 1
        BY <2>2, <3>1
      <4>2. immediates' \in Nat /\ timers' + immediates' > 0
        BY <4>1, RunsToCome
      <4> QED
        BY <4>2 DEF NoStrandedWaiter
    <3>2. CASE ~(Len(acquisitionQueue) > 1)
      <4>1. acquisitionQueue' = <<>> /\ immediates' = pending
        BY <2>2, <2>3, <3>2
      <4> QED
        BY <4>1 DEF NoStrandedWaiter
    <3> QED
      BY <3>1, <3>2
  <2> QED
    BY <2>2, <2>3, <2>5, <2>10, <2>11, <2>12
<1>2. CASE ~(acquisitionQueue # <<>> /\ Available(channels) # {})
  <2>1. /\ channel' = IF acquisitionQueue = <<>> THEN channels ELSE Cooled(channels, running)
        /\ legacy' = calls /\ held' = holds /\ immediates' = pending
        /\ UNCHANGED acquisitionQueue
    BY <1>2 DEF ProcessQueue
  <2>2. channels \in [Channels -> ChannelStates]
    BY DEF PoolOK
  <2>3. PoolOK(channel', acquisitionQueue', legacy', held')
    BY <2>1, CooledKeeps
  <2>4. Overdue(channel', running) => timers' > 0
    BY <2>1, <2>2, CooledIs
  <2>5. NoStrandedWaiter'
    <3> SUFFICES ASSUME acquisitionQueue # <<>>, NEW c \in Channels,
                        channel'[c] = "AVAILABLE"
                 PROVE  timers' + immediates' > 0
      BY <2>1 DEF NoStrandedWaiter, Available
    <3>1. channels[c] # "AVAILABLE"
      BY <1>2 DEF Available
    <3>2. Overdue(channels, running)
      BY <2>1, <2>2, <3>1, CooledIs DEF Overdue
    <3>3. timers' > 0 /\ immediates' = pending
      BY <2>1, <3>2
    <3> QED
      BY <3>3, RunsToCome
  <2> QED
    BY <2>1, <2>3, <2>4, <2>5
<1> QED
  BY <1>1, <1>2

----------------------------------------------------------------------------
(* The steps of the pool and of its client.                                *)

PoolHolds == PoolOK(channel, acquisitionQueue, legacy, held) /\ TimersOK

(* A request that is not in the queue ends: what it held is let go.        *)
LEMMA LetGo ==
    ASSUME PoolHolds, NEW r \in Requests, held[r] # NoChannel,
           NEW channels \in [Channels -> ChannelStates],
           \A c \in Channels \ {held[r]} : channels[c] = channel[c],
           channels[held[r]] # "IN_USE"
    PROVE  PoolOK(channels, acquisitionQueue, [legacy EXCEPT ![r] = "answered"],
                  [held EXCEPT ![r] = NoChannel])
<1> DEFINE calls == [legacy EXCEPT ![r] = "answered"]
           holds == [held EXCEPT ![r] = NoChannel]
<1>1. /\ acquisitionQueue \in Seq(Requests)
      /\ legacy \in [Requests -> LegacyStates]
      /\ held \in [Requests -> Channels \cup {NoChannel}]
      /\ Exclusive(channel, held) /\ HoldsWhileWorking(legacy, held)
      /\ QueueOfWaiting(acquisitionQueue, legacy)
  BY DEF PoolHolds, PoolOK
<1>2. /\ calls \in [Requests -> LegacyStates] /\ holds \in [Requests -> Channels \cup {NoChannel}]
      /\ calls[r] = "answered" /\ holds[r] = NoChannel
      /\ \A q \in Requests \ {r} : calls[q] = legacy[q] /\ holds[q] = held[q]
  BY <1>1 DEF LegacyStates, Answers
<1> HIDE DEF calls, holds
<1>3. Exclusive(channels, holds)
  <2>1. \A q, p \in Requests : q # p /\ holds[q] # NoChannel => holds[q] # holds[p]
    BY <1>1, <1>2 DEF Exclusive
  <2>2. ASSUME NEW c \in Channels, channels[c] = "IN_USE"
        PROVE  \E q \in Requests : holds[q] = c
    <3>1. c # held[r] /\ channel[c] = "IN_USE"
      BY <2>2
    <3>2. PICK q \in Requests : held[q] = c
      BY <1>1, <3>1 DEF Exclusive
    <3> QED
      BY <1>2, <3>1, <3>2
  <2>3. ASSUME NEW q \in Requests, holds[q] # NoChannel
        PROVE  channels[holds[q]] \in {"IN_USE", "ERROR"}
    <3>1. q # r /\ holds[q] = held[q] /\ held[q] \in Channels /\ held[q] # held[r]
      BY <1>1, <1>2, <2>3 DEF Exclusive
    <3> QED
      BY <1>1, <3>1 DEF Exclusive
  <2> QED
    BY <2>1, <2>2, <2>3 DEF Exclusive
<1>4. HoldsWhileWorking(calls, holds)
  BY <1>1, <1>2 DEF HoldsWhileWorking
<1>5. QueueOfWaiting(acquisitionQueue, calls)
  <2>1. legacy[r] # "waiting"
    BY <1>1 DEF HoldsWhileWorking
  <2> QED
    BY <1>1, <1>2, <2>1 DEF QueueOfWaiting
<1> QED
  BY <1>1, <1>2, <1>3, <1>4, <1>5 DEF PoolOK, calls, holds

LEMMA ReleaseKeeps ==
    ASSUME PoolHolds, NEW r \in Requests, legacy[r] \in {"holding", "resyncing"},
           NEW channels \in {channel, [channel EXCEPT ![held[r]] = "ERROR"]},
           ReleaseChannel(r, channels), UNCHANGED timers
    PROVE  PoolHolds'
<1> DEFINE c == held[r]
           calls == [legacy EXCEPT ![r] = "answered"]
           holds == [held EXCEPT ![r] = NoChannel]
<1>1. /\ channel \in [Channels -> ChannelStates] /\ c \in Channels /\ c # NoChannel
      /\ armed \subseteq Channels /\ timers \in Nat /\ immediates \in Nat
      /\ Overdue(channel, armed) => timers > 0
      /\ NoStrandedWaiter
  BY DEF PoolHolds, PoolOK, TimersOK, HoldsWhileWorking
<1>2. /\ channels \in [Channels -> ChannelStates]
      /\ \A d \in Channels \ {c} : channels[d] = channel[d]
      /\ channels[c] \in {channel[c], "ERROR"}
  BY <1>1 DEF ChannelStates
<1>3. CASE channels[c] = "IN_USE"
  <2> DEFINE cooling == [channels EXCEPT ![c] = "COOLDOWN"]
  <2>1. /\ armed' = armed \cup {c}
        /\ ProcessQueue(cooling, armed', calls, holds, immediates)
    BY <1>3 DEF ReleaseChannel
  <2>2. /\ cooling \in [Channels -> ChannelStates]
        /\ cooling[c] = "COOLDOWN" /\ \A d \in Channels \ {c} : cooling[d] = channel[d]
    BY <1>1, <1>2 DEF ChannelStates
  <2> HIDE DEF cooling
  <2>3. PoolOK(cooling, acquisitionQueue, calls, holds)
    BY <1>1, <2>2, LetGo
  <2>4. Overdue(cooling, armed \cup {c}) => timers > 0
    BY <1>1, <2>2 DEF Overdue
  <2> HIDE DEF calls, holds, c
  <2>5. /\ PoolOK(channel', acquisitionQueue', legacy', held')
        /\ immediates' \in Nat
        /\ Overdue(channel', armed') => timers' > 0
        /\ NoStrandedWaiter'
    BY <1>1, <2>1, <2>3, <2>4, ProcessQueueKeeps
  <2> QED
    BY <1>1, <2>1, <2>5 DEF PoolHolds, TimersOK
<1>4. CASE channels[c] # "IN_USE"
  <2>1. /\ channel' = channels /\ legacy' = calls /\ held' = holds
        /\ UNCHANGED <<armed, acquisitionQueue, immediates>>
    BY <1>4 DEF ReleaseChannel
  <2>2. PoolOK(channels, acquisitionQueue, calls, holds)
    BY <1>1, <1>2, <1>4, LetGo
  <2>3. /\ Overdue(channels, armed) => Overdue(channel, armed)
        /\ \A d \in Channels : channels[d] = "AVAILABLE" => channel[d] = "AVAILABLE"
    BY <1>2 DEF Overdue
  <2>4. TimersOK'
    BY <1>1, <2>1, <2>3 DEF TimersOK, NoStrandedWaiter, Available
  <2> QED
    BY <2>1, <2>2, <2>4 DEF PoolHolds
<1> QED
  BY <1>3, <1>4

(* Only the state of one request changes, and neither before nor after is  *)
(* it one in which the pool knows of it.                                   *)
LEMMA RequestMoves ==
    ASSUME PoolHolds, NEW r \in Requests, NEW s \in LegacyStates,
           legacy[r] # "waiting",
           legacy[r] \in {"holding", "resyncing"} <=> s \in {"holding", "resyncing"},
           legacy' = [legacy EXCEPT ![r] = s],
           UNCHANGED <<channel, acquisitionQueue, armed, timers, immediates, held>>
    PROVE  PoolHolds'
<1>1. /\ legacy \in [Requests -> LegacyStates] /\ HoldsWhileWorking(legacy, held)
      /\ QueueOfWaiting(acquisitionQueue, legacy) /\ acquisitionQueue \in Seq(Requests)
  BY DEF PoolHolds, PoolOK
<1>2. legacy' \in [Requests -> LegacyStates] /\ HoldsWhileWorking(legacy', held)
  BY <1>1 DEF HoldsWhileWorking
<1>3. QueueOfWaiting(acquisitionQueue, legacy')
  BY <1>1 DEF QueueOfWaiting
<1> QED
  BY <1>2, <1>3 DEF PoolHolds, PoolOK, TimersOK, NoStrandedWaiter

LEMMA AcquireNowKeeps ==
    ASSUME PoolHolds, NEW r \in Requests, AcquireNow(r)
    PROVE  PoolHolds'
<1>1. PICK c \in Available(channel) :
          channel' = [channel EXCEPT ![c] = "IN_USE"] /\ held' = [held EXCEPT ![r] = c]
  BY DEF AcquireNow
<1>2. /\ legacy[r] = "verified" /\ legacy' = [legacy EXCEPT ![r] = "holding"]
      /\ UNCHANGED <<acquisitionQueue, armed, timers, immediates>>
  BY DEF AcquireNow
<1>3. /\ channel \in [Channels -> ChannelStates]
      /\ acquisitionQueue \in Seq(Requests)
      /\ legacy \in [Requests -> LegacyStates]
      /\ held \in [Requests -> Channels \cup {NoChannel}]
      /\ Exclusive(channel, held) /\ HoldsWhileWorking(legacy, held)
      /\ QueueOfWaiting(acquisitionQueue, legacy)
  BY DEF PoolHolds, PoolOK
<1>4. c \in Channels /\ channel[c] = "AVAILABLE" /\ c # NoChannel
      /\ held[r] = NoChannel /\ \A q \in Requests : held[q] # c
  BY <1>1, <1>2, <1>3 DEF Available, Exclusive, HoldsWhileWorking
<1>5. Exclusive(channel', held')
  BY <1>1, <1>3, <1>4 DEF Exclusive
<1>6. HoldsWhileWorking(legacy', held')
  BY <1>1, <1>2, <1>3, <1>4 DEF HoldsWhileWorking
<1>7. QueueOfWaiting(acquisitionQueue', legacy')
  BY <1>2, <1>3 DEF QueueOfWaiting
<1>8. PoolOK(channel', acquisitionQueue', legacy', held')
  BY <1>1, <1>2, <1>3, <1>4, <1>5, <1>6, <1>7 DEF PoolOK, ChannelStates, LegacyStates
<1>9. TimersOK'
  BY <1>1, <1>2, <1>3, <1>4 DEF PoolHolds, TimersOK, NoStrandedWaiter, Overdue, Available
<1> QED
  BY <1>8, <1>9 DEF PoolHolds

(* A caller that queues although the cooldowns freed a channel: a timer is *)
(* due, for no other channel is there to be freed.                         *)
LEMMA AcquireLaterKeeps ==
    ASSUME PoolHolds, NEW r \in Requests, AcquireLater(r)
    PROVE  PoolHolds'
<1>1. /\ legacy[r] = "verified" /\ Available(channel) = {}
      /\ channel' = Cooled(channel, armed)
      /\ acquisitionQueue' = Append(acquisitionQueue, r)
      /\ legacy' = [legacy EXCEPT ![r] = "waiting"]
      /\ UNCHANGED <<armed, timers, immediates, held>>
  BY DEF AcquireLater
<1>2. /\ channel \in [Channels -> ChannelStates]
      /\ acquisitionQueue \in Seq(Requests)
      /\ legacy \in [Requests -> LegacyStates]
      /\ HoldsWhileWorking(legacy, held)
      /\ QueueOfWaiting(acquisitionQueue, legacy)
      /\ armed \subseteq Channels /\ timers \in Nat /\ immediates \in Nat
      /\ Overdue(channel, armed) => timers > 0
  BY DEF PoolHolds, PoolOK, TimersOK
<1>3. PoolOK(channel', acquisitionQueue, legacy, held)
  BY <1>1, CooledKeeps DEF PoolHolds
<1>4. HoldsWhileWorking(legacy', held)
  BY <1>1, <1>2 DEF HoldsWhileWorking
<1>5. QueueOfWaiting(acquisitionQueue', legacy')
  <2>1. /\ Len(acquisitionQueue) \in Nat
        /\ Len(acquisitionQueue') = Len(acquisitionQueue) + 1
        /\ acquisitionQueue'[Len(acquisitionQueue) + 1] = r
        /\ \A i \in 1..Len(acquisitionQueue) :
              /\ acquisitionQueue'[i] = acquisitionQueue[i]
              /\ acquisitionQueue[i] \in Requests
    BY <1>1, <1>2
  <2>2. \A i \in 1..Len(acquisitionQueue) : acquisitionQueue[i] # r
    BY <1>1, <1>2 DEF QueueOfWaiting
  <2>3. \A i \in 1..Len(acquisitionQueue') :
            i \in 1..Len(acquisitionQueue) \/ i = Len(acquisitionQueue) + 1
    BY <2>1
  <2>4. \A i \in 1..Len(acquisitionQueue') : legacy'[acquisitionQueue'[i]] = "waiting"
    BY <1>1, <1>2, <2>1, <2>2, <2>3 DEF QueueOfWaiting
  <2>5. \A i, j \in 1..Len(acquisitionQueue') : acquisitionQueue'[i] = acquisitionQueue'[j] => i = j
    BY <1>2, <2>1, <2>2, <2>3 DEF QueueOfWaiting
  <2> QED
    BY <2>4, <2>5 DEF QueueOfWaiting
<1>6. PoolOK(channel', acquisitionQueue', legacy', held')
  BY <1>1, <1>2, <1>3, <1>4, <1>5 DEF PoolOK, LegacyStates
<1>7. Available(channel') # {} => timers > 0
  <2> SUFFICES ASSUME NEW c \in Channels, channel'[c] = "AVAILABLE" PROVE timers > 0
    BY DEF Available
  <2>1. channel[c] # "AVAILABLE"
    BY <1>1 DEF Available
  <2> QED
    BY <1>1, <1>2, <2>1, CooledIs DEF Overdue
<1>8. NoStrandedWaiter'
  <2>1. Available(channel)' = Available(channel')
    BY DEF Available
  <2> QED
    BY <1>1, <1>2, <1>7, <2>1, RunsToCome DEF NoStrandedWaiter
<1>9. TimersOK'
  BY <1>1, <1>2, <1>8, CooledIs DEF TimersOK
<1> QED
  BY <1>6, <1>9 DEF PoolHolds

(* The queue without one of its members.                                   *)
LEMMA WithoutWaiting ==
    ASSUME NEW queue \in Seq(Requests), NEW i \in 1..Len(queue),
           NEW calls \in [Requests -> LegacyStates],
           QueueOfWaiting(queue, calls)
    PROVE  /\ Without(queue, i) \in Seq(Requests)
           /\ QueueOfWaiting(Without(queue, i), [calls EXCEPT ![queue[i]] = "answered"])
           /\ Without(queue, i) # <<>> => queue # <<>>
<1> DEFINE rest == Without(queue, i)
           n == Len(queue)
           at(j) == IF j < i THEN j ELSE j + 1
<1>1. n \in Nat /\ n # 0 /\ i \in 1..n /\ \A j \in 1..n : queue[j] \in Requests
  OBVIOUS
<1> HIDE DEF n
<1>2. \A j \in 1..(n - 1) : at(j) \in 1..n /\ at(j) # i
  BY <1>1
<1>3. \A j, k \in 1..(n - 1) : at(j) = at(k) => j = k
  BY <1>1
<1>4. rest = [j \in 1..(n - 1) |-> queue[at(j)]]
  BY DEF Without, n
<1>5. rest \in Seq(Requests) /\ Len(rest) = n - 1
  <2>1. rest \in [1..(n - 1) -> Requests]
    BY <1>1, <1>2, <1>4
  <2>2. n - 1 \in Nat
    BY <1>1
  <2> HIDE DEF rest
  <2> QED
    BY <2>1, <2>2
<1>6. \A j \in 1..(n - 1) : rest[j] = queue[at(j)]
  BY <1>4
<1>7. /\ \A j \in 1..n : calls[queue[j]] = "waiting"
      /\ \A j, k \in 1..n : queue[j] = queue[k] => j = k
  BY DEF QueueOfWaiting, n
<1> HIDE DEF rest, at
<1>8. \A j \in 1..(n - 1) : rest[j] # queue[i] /\ calls[rest[j]] = "waiting"
  BY <1>1, <1>2, <1>6, <1>7
<1>9. \A j, k \in 1..(n - 1) : rest[j] = rest[k] => j = k
  BY <1>2, <1>3, <1>6, <1>7
<1>10. QueueOfWaiting(rest, [calls EXCEPT ![queue[i]] = "answered"])
  <2>1. \A j \in 1..(n - 1) : rest[j] \in Requests
    BY <1>5
  <2> QED
    BY <1>5, <1>8, <1>9, <2>1 DEF QueueOfWaiting
<1> QED
  BY <1>1, <1>5, <1>10 DEF rest, n

LEMMA TimeoutKeeps ==
    ASSUME PoolHolds, NEW r \in Requests, AcquireTimesOut(r)
    PROVE  PoolHolds'
<1>1. PICK i \in 1..Len(acquisitionQueue) :
          acquisitionQueue[i] = r /\ acquisitionQueue' = Without(acquisitionQueue, i)
  BY DEF AcquireTimesOut
<1>2. /\ legacy[r] = "waiting" /\ legacy' = [legacy EXCEPT ![r] = "answered"]
      /\ UNCHANGED <<channel, armed, timers, immediates, held>>
  BY DEF AcquireTimesOut
<1>3. /\ legacy \in [Requests -> LegacyStates] /\ HoldsWhileWorking(legacy, held)
      /\ QueueOfWaiting(acquisitionQueue, legacy) /\ acquisitionQueue \in Seq(Requests)
  BY DEF PoolHolds, PoolOK
<1>4. /\ acquisitionQueue' \in Seq(Requests) /\ QueueOfWaiting(acquisitionQueue', legacy')
      /\ acquisitionQueue' # <<>> => acquisitionQueue # <<>>
  BY <1>1, <1>2, <1>3, WithoutWaiting
<1>5. legacy' \in [Requests -> LegacyStates] /\ HoldsWhileWorking(legacy', held)
  BY <1>2, <1>3 DEF HoldsWhileWorking, LegacyStates, Answers
<1>6. PoolOK(channel', acquisitionQueue', legacy', held')
  BY <1>2, <1>4, <1>5 DEF PoolHolds, PoolOK
<1>7. TimersOK'
  BY <1>2, <1>4 DEF PoolHolds, TimersOK, NoStrandedWaiter, Available
<1> QED
  BY <1>6, <1>7 DEF PoolHolds

LEMMA LegacyStepKeeps ==
    ASSUME PoolHolds, NEW r \in Requests, LegacyStep(r)
    PROVE  PoolHolds'
<1>1. CASE Verify(r) \/ AcquireThrows(r) \/ SubmitBadSequence(r)
  <2>1. PICK s \in {"verified", "answered", "resyncing"} :
            /\ legacy' = [legacy EXCEPT ![r] = s]
            /\ legacy[r] # "waiting"
            /\ legacy[r] \in {"holding", "resyncing"} <=> s \in {"holding", "resyncing"}
    <3>1. CASE Verify(r)
      BY <3>1 DEF Verify
    <3>2. CASE AcquireThrows(r)
      BY <3>2 DEF AcquireThrows
    <3>3. CASE SubmitBadSequence(r)
      BY <3>3 DEF SubmitBadSequence
    <3> QED
      BY <1>1, <3>1, <3>2, <3>3
  <2>2. UNCHANGED <<channel, acquisitionQueue, armed, timers, immediates, held>>
    BY <1>1 DEF Verify, AcquireThrows, SubmitBadSequence
  <2>3. s \in LegacyStates
    BY DEF LegacyStates, Answers
  <2> QED
    BY <2>1, <2>2, <2>3, RequestMoves
<1>2. CASE SubmitEnds(r)
  BY <1>2, ReleaseKeeps DEF SubmitEnds
<1>3. CASE \E loaded \in BOOLEAN : ResyncEnds(r, loaded)
  <2>1. PICK channels \in {channel, [channel EXCEPT ![held[r]] = "ERROR"]} :
            ReleaseChannel(r, channels)
    BY <1>3 DEF ResyncEnds
  <2>2. legacy[r] = "resyncing" /\ UNCHANGED timers
    BY <1>3 DEF ResyncEnds
  <2> QED
    BY <2>1, <2>2, ReleaseKeeps
<1> QED
  BY <1>1, <1>2, <1>3, AcquireNowKeeps, AcquireLaterKeeps, TimeoutKeeps DEF LegacyStep

(* Timers, scheduled runs of the queue and the monitor.                    *)
LEMMA PoolStepKeeps ==
    ASSUME PoolHolds, PoolStep
    PROVE  PoolHolds'
<1>0. /\ channel \in [Channels -> ChannelStates]
      /\ held \in [Requests -> Channels \cup {NoChannel}]
      /\ armed \subseteq Channels /\ timers \in Nat /\ immediates \in Nat
      /\ Overdue(channel, armed) => timers > 0
      /\ Exclusive(channel, held) /\ NoStrandedWaiter
  BY DEF PoolHolds, PoolOK, TimersOK
<1>1. CASE \E c \in Channels : CooldownElapses(c)
  <2>1. /\ timers' = timers + 1 /\ armed' \subseteq Channels
        /\ UNCHANGED <<channel, acquisitionQueue, immediates, legacy, held>>
    BY <1>0, <1>1 DEF CooldownElapses
  <2>2. timers' \in Nat /\ timers' > 0
    BY <1>0, <2>1
  <2>3. NoStrandedWaiter'
    BY <1>0, <2>1, <2>2, RunsToCome DEF NoStrandedWaiter
  <2> QED
    BY <1>0, <2>1, <2>2, <2>3 DEF PoolHolds, TimersOK
<1>2. CASE \E c \in Channels : RefillFails(c)
  <2>1. PICK c \in Channels : channel' = [channel EXCEPT ![c] = "ERROR"]
    BY <1>2 DEF RefillFails
  <2>2. UNCHANGED <<acquisitionQueue, armed, timers, immediates, legacy, held>>
    BY <1>2 DEF RefillFails
  <2>3. channel' \in [Channels -> ChannelStates] /\ Exclusive(channel', held)
    BY <1>0, <2>1 DEF Exclusive, ChannelStates
  <2>4. /\ Overdue(channel', armed) => Overdue(channel, armed)
        /\ Available(channel') \subseteq Available(channel)
    BY <1>0, <2>1 DEF Overdue, Available
  <2>5. NoStrandedWaiter'
    <3>1. Available(channel)' = Available(channel')
      BY DEF Available
    <3> QED
      BY <1>0, <2>2, <2>4, <3>1 DEF NoStrandedWaiter
  <2> QED
    BY <1>0, <2>2, <2>3, <2>4, <2>5 DEF PoolHolds, PoolOK, TimersOK
<1>3. CASE TimerRuns
  <2>1. /\ timers' = timers - 1 /\ timers > 0 /\ UNCHANGED armed
        /\ ProcessQueue(Cooled(channel, armed), armed, legacy, held, immediates)
    BY <1>3 DEF TimerRuns
  <2>2. timers' \in Nat
    BY <1>0, <2>1
  <2>3. /\ PoolOK(Cooled(channel, armed), acquisitionQueue, legacy, held)
        /\ ~Overdue(Cooled(channel, armed), armed)
    BY <1>0, CooledKeeps, CooledIs DEF PoolHolds
  <2>4. /\ PoolOK(channel', acquisitionQueue', legacy', held')
        /\ immediates' \in Nat /\ NoStrandedWaiter'
        /\ Overdue(channel', armed) => timers' > 0
    BY <1>0, <2>1, <2>2, <2>3, ProcessQueueKeeps
  <2> QED
    BY <1>0, <2>1, <2>2, <2>4 DEF PoolHolds, TimersOK
<1>4. CASE ImmediateRuns
  <2>1. /\ immediates > 0 /\ UNCHANGED <<armed, timers>>
        /\ ProcessQueue(channel, armed, legacy, held, immediates - 1)
    BY <1>4 DEF ImmediateRuns
  <2>2. immediates - 1 \in Nat
    BY <1>0, <2>1
  <2>3. /\ PoolOK(channel', acquisitionQueue', legacy', held')
        /\ immediates' \in Nat /\ NoStrandedWaiter'
        /\ Overdue(channel', armed) => timers' > 0
    BY <1>0, <2>1, <2>2, ProcessQueueKeeps DEF PoolHolds
  <2> QED
    BY <1>0, <2>1, <2>3 DEF PoolHolds, TimersOK
<1> QED
  BY <1>1, <1>2, <1>3, <1>4 DEF PoolStep

----------------------------------------------------------------------------
(* The life of the process.                                                *)

(* A pool that is not in use: nothing waits and nothing is held.           *)
LEMMA NobodyInside ==
    ASSUME PoolHolds, ClosedWhileDown, ~Running
    PROVE  /\ acquisitionQueue = <<>>
           /\ \A r \in Requests : held[r] = NoChannel
<1>1. /\ HoldsWhileWorking(legacy, held) /\ QueueOfWaiting(acquisitionQueue, legacy)
      /\ acquisitionQueue \in Seq(Requests)
  BY DEF PoolHolds, PoolOK
<1>2. \A r \in Requests : legacy[r] \notin {"waiting", "holding", "resyncing"}
  BY DEF ClosedWhileDown, Answers
<1>3. acquisitionQueue = <<>>
  <2> SUFFICES ASSUME acquisitionQueue # <<>> PROVE FALSE
    OBVIOUS
  <2>1. 1 \in 1..Len(acquisitionQueue) /\ acquisitionQueue[1] \in Requests
    BY <1>1
  <2> QED
    BY <1>1, <1>2, <2>1 DEF QueueOfWaiting
<1> QED
  BY <1>1, <1>2, <1>3 DEF HoldsWhileWorking

(* The memory of a process that ends.                                      *)
LEMMA ForgottenHolds ==
    ASSUME PoolForgotten, legacy' \in [Requests -> LegacyStates],
           \A r \in Requests : legacy'[r] \in {"new"} \cup Answers
    PROVE  PoolHolds'
<1>1. /\ channel' = [c \in Channels |-> "absent"] /\ acquisitionQueue' = <<>>
      /\ armed' = {} /\ timers' = 0 /\ immediates' = 0
      /\ held' = [r \in Requests |-> NoChannel]
  BY DEF PoolForgotten
<1>2. PoolOK(channel', acquisitionQueue', legacy', held')
  BY <1>1 DEF PoolOK, ChannelStates, Exclusive, HoldsWhileWorking, QueueOfWaiting, Answers
<1>3. TimersOK'
  BY <1>1 DEF TimersOK, Overdue, NoStrandedWaiter
<1> QED
  BY <1>2, <1>3 DEF PoolHolds

LEMMA PoolIdles ==
    ASSUME PoolHolds,
           UNCHANGED <<channel, acquisitionQueue, armed, timers, immediates, legacy, held>>
    PROVE  PoolHolds'
BY DEF PoolHolds, PoolOK, TimersOK, NoStrandedWaiter, Available

LEMMA BootingPool ==
    ASSUME PoolHolds, ClosedWhileDown, Booting
    PROVE  PoolHolds' /\ UNCHANGED legacy /\ phase \in Phases \ {"serving", "draining", "exited"}
<1>1. CASE \E c \in Channels : PoolInitializes(c)
  <2>1. PICK c \in Channels : channel[c] = "absent" /\ channel' = [channel EXCEPT ![c] = "AVAILABLE"]
    BY <1>1 DEF PoolInitializes, InitializeChannel
  <2>2. phase = "pool" /\ UNCHANGED <<acquisitionQueue, armed, timers, immediates, legacy, held>>
    BY <1>1 DEF PoolInitializes, InitializeChannel
  <2>3. acquisitionQueue = <<>> /\ \A r \in Requests : held[r] = NoChannel
    BY <2>2, NobodyInside DEF Running
  <2>4. channel' \in [Channels -> ChannelStates] /\ Exclusive(channel', held)
        /\ (Overdue(channel', armed) => Overdue(channel, armed))
    BY <2>1, <2>3 DEF PoolHolds, PoolOK, ChannelStates, Exclusive, Overdue
  <2> QED
    BY <2>2, <2>3, <2>4 DEF PoolHolds, PoolOK, TimersOK, NoStrandedWaiter, Phases
<1>2. CASE ~\E c \in Channels : PoolInitializes(c)
  <2>1. UNCHANGED <<channel, acquisitionQueue, armed, timers, immediates, legacy, held>>
        /\ phase \in Phases \ {"serving", "draining", "exited"}
    BY <1>2 DEF Booting, StartThrows, Start, PoolReady, PoolThrows, FundingConfirmed,
                FundingThrows, ChecksPass, ChecksThrow, Gate, Exit, poolVars, Phases
  <2> QED
    BY <2>1, PoolIdles
<1> QED
  BY <1>1, <1>2

LEMMA ServicePool ==
    ASSUME PoolHolds, ClosedWhileDown, [ServiceNext]_serviceVars
    PROVE  PoolHolds' /\ ClosedWhileDown'
<1>1. CASE Booting
  <2>1. ~Running
    BY <1>1, BootingPool DEF Running
  <2> QED
    BY <1>1, <2>1, BootingPool DEF ClosedWhileDown
<1>2. CASE Stop \/ UNCHANGED serviceVars
  <2>1. UNCHANGED <<channel, acquisitionQueue, armed, timers, immediates, legacy, held>>
    BY <1>2 DEF Stop, serviceVars, poolVars
  <2>2. Running' <=> Running
    BY <1>2 DEF Stop, Running, serviceVars, lifeVars
  <2> QED
    BY <2>1, <2>2, PoolIdles DEF ClosedWhileDown
<1>3. CASE Close
  <2>1. /\ \A r \in Requests : legacy[r] \in {"new"} \cup Answers
        /\ acquisitionQueue' = <<>>
        /\ legacy' = [r \in Requests |-> IF legacy[r] = "waiting" THEN "answered" ELSE legacy[r]]
        /\ UNCHANGED <<channel, armed, timers, immediates, held>>
    BY <1>3 DEF Close, Shutdown, Open
  <2>2. legacy \in [Requests -> LegacyStates]
    BY DEF PoolHolds, PoolOK
  <2>3. legacy' = legacy
    BY <2>1, <2>2 DEF Answers
  <2>4. QueueOfWaiting(acquisitionQueue', legacy')
    BY <2>1 DEF QueueOfWaiting
  <2> QED
    BY <2>1, <2>3, <2>4 DEF PoolHolds, PoolOK, TimersOK, NoStrandedWaiter, ClosedWhileDown
<1>4. CASE Die
  <2>1. /\ legacy' = [r \in Requests |-> IF Open(r) THEN "lost" ELSE legacy[r]]
        /\ PoolForgotten
    BY <1>4 DEF Die
  <2>2. \A r \in Requests : legacy'[r] \in {"new"} \cup Answers
    BY <2>1 DEF Open, Answers
  <2>3. legacy' \in [Requests -> LegacyStates]
    BY <2>1, <2>2 DEF LegacyStates
  <2> QED
    BY <2>1, <2>2, <2>3, ForgottenHolds DEF ClosedWhileDown
<1>5. CASE Restart
  <2>1. PoolForgotten /\ UNCHANGED legacy /\ ~Running
    BY <1>5 DEF Restart, Running
  <2>2. /\ legacy \in [Requests -> LegacyStates]
        /\ \A r \in Requests : legacy[r] \in {"new"} \cup Answers
    BY <2>1 DEF PoolHolds, PoolOK, ClosedWhileDown
  <2> QED
    BY <2>1, <2>2, ForgottenHolds DEF ClosedWhileDown
<1>6. CASE (\E r \in Requests : Serving(r)) \/ Background
  <2>1. PoolHolds'
    BY <1>6, LegacyStepKeeps, PoolStepKeeps DEF Serving, Background
  <2>2. Running'
    BY <1>6 DEF Serving, Background, Running, lifeVars
  <2> QED
    BY <2>1, <2>2 DEF ClosedWhileDown
<1> QED
  BY <1>1, <1>2, <1>3, <1>4, <1>5, <1>6 DEF ServiceNext

LEMMA ServiceLife ==
    ASSUME LifeOK, [ServiceNext]_serviceVars
    PROVE  LifeOK'
<1> USE DEF LifeOK, Phases
<1>1. CASE StartThrows \/ PoolThrows \/ FundingThrows
  BY <1>1 DEF StartThrows, PoolThrows, FundingThrows, Exit, ClaimsAreConfirmed, Running
<1>2. CASE Start \/ PoolReady \/ \E c \in Channels : PoolInitializes(c)
  BY <1>2 DEF Start, PoolReady, PoolInitializes, ClaimsAreConfirmed, Running, lifeVars
<1>3. CASE FundingConfirmed
  BY <1>3, ServiceAssumption DEF Environments, FundingConfirmed,
              ClaimsAreConfirmed, Running
<1>4. CASE \E deployed \in BOOLEAN : ChecksPass(deployed)
  <2>1. PICK deployed \in BOOLEAN : ChecksPass(deployed)
    BY <1>4
  <2>2. /\ phase = "contract" /\ phase' = "serving"
        /\ heard' = [heard EXCEPT !.deployed = deployed]
        /\ UNCHANGED <<config, sponsored, signers>>
        /\ capabilities' = Claims(deployed, config.jobs)
        /\ JobsAgree /\ SupportedIsTruthful
    BY <2>1 DEF ChecksPass, Gate
  <2>3. /\ heard' \in [funded : BOOLEAN, deployed : BOOLEAN]
        /\ heard'.funded = heard.funded /\ heard'.deployed = deployed
    BY <2>2
  <2>4. /\ capabilities'.checked /\ capabilities'.feesAreSponsored = sponsored
        /\ capabilities'.upto = deployed /\ capabilities'.jobs = config.jobs
    BY <2>2 DEF Claims
  <2>5. "upto" \in config.jobs => capabilities'.upto
    BY <2>2 DEF JobsAgree, Kinds
  <2>6. Facilitator \in signers' \cup (IF sponsored' THEN {Facilitator} ELSE {})
    BY <2>2 DEF SupportedIsTruthful, ListedSigners
  <2>7. ClaimsAreConfirmed'
    BY <2>2, <2>3, <2>4, <2>5, <2>6 DEF ClaimsAreConfirmed
  <2> QED
    BY <2>2, <2>3, <2>7
<1>5. CASE \E deployed \in BOOLEAN : ChecksThrow(deployed)
  BY <1>5 DEF ChecksThrow, Gate, ClaimsAreConfirmed, Running
<1>6. CASE Stop
  BY <1>6 DEF Stop, ClaimsAreConfirmed, Running
<1>7. CASE Close \/ Die
  BY <1>7 DEF Close, Die, ClaimsAreConfirmed, Running
<1>8. CASE Restart
  BY <1>8 DEF Restart, Nothing, ClaimsAreConfirmed, Running
<1>9. CASE (\E r \in Requests : Serving(r)) \/ Background \/ UNCHANGED serviceVars
  BY <1>9 DEF Serving, Background, serviceVars, lifeVars, ClaimsAreConfirmed, Running
<1> QED
  BY <1>1, <1>2, <1>3, <1>4, <1>5, <1>6, <1>7, <1>8, <1>9 DEF ServiceNext, Booting

LEMMA ServiceInitially == ServiceInit => PoolHolds /\ ClosedWhileDown /\ LifeOK
<1> SUFFICES ASSUME ServiceInit PROVE PoolHolds /\ ClosedWhileDown /\ LifeOK
  OBVIOUS
<1>1. PoolInit /\ phase = "down" /\ heard = Nothing /\ config \in Configs
  BY DEF ServiceInit
<1>2. PoolOK(channel, acquisitionQueue, legacy, held)
  BY <1>1 DEF PoolInit, PoolOK, ChannelStates, LegacyStates, Exclusive, HoldsWhileWorking,
              QueueOfWaiting
<1>3. TimersOK
  BY <1>1 DEF PoolInit, TimersOK, Overdue, NoStrandedWaiter
<1>4. ClosedWhileDown /\ LifeOK
  BY <1>1 DEF PoolInit, ClosedWhileDown, LifeOK, Phases, Nothing, ClaimsAreConfirmed, Running
<1> QED
  BY <1>2, <1>3, <1>4 DEF PoolHolds

LEMMA ServiceInvariant == ServiceSpec => [](PoolHolds /\ ClosedWhileDown /\ LifeOK)
BY ServiceInitially, ServicePool, ServiceLife, PTL DEF ServiceSpec

(* Releases, timers, failed refills, resyncs, crashes and restarts neither *)
(* hand a channel out twice nor leak one (channel/pool.ts).                *)
THEOREM ChannelsAreExclusive == ServiceSpec => []ChannelExclusive
<1>1. PoolHolds => ChannelExclusive
  BY DEF PoolHolds, PoolOK, Exclusive, ChannelExclusive
<1> QED
  BY <1>1, ServiceInvariant, PTL

(* With a channel available and a request queued, a run of processQueue is *)
(* on its way.                                                             *)
THEOREM WaitersAreServed == ServiceSpec => []NoStrandedWaiter
<1>1. PoolHolds => NoStrandedWaiter
  BY DEF PoolHolds, TimersOK
<1> QED
  BY <1>1, ServiceInvariant, PTL

(* What the service advertises while it is up, this process has confirmed  *)
(* (start, assertSupportedIsTruthful, loadCapabilityJobs).                 *)
THEOREM ClaimsConfirmed == ServiceSpec => []ClaimsAreConfirmed
<1>1. LifeOK => ClaimsAreConfirmed
  BY DEF LifeOK
<1> QED
  BY <1>1, ServiceInvariant, PTL

----------------------------------------------------------------------------
(* The front.                                                              *)

(* What an answer may say: reasons, and the public codes they map to.      *)
Reasons ==
    {"", "payload_too_large", "rate_limited", "invalid_request_body", "unsupported_scheme",
     "unsupported_scheme_or_network", "upstream_rpc_unavailable", "wrong_amount",
     "facilitator_internal_error", "settlement_capacity_exceeded", "replay_check_failed",
     "settle_failed", "expiration_too_far"}
Codes ==
    {"", "invalid_request", "rpc_unavailable", "resource_unavailable", "internal_error",
     "unsupported_payment_scheme", "payment_rejected"}

Handlers ==
    [stage : {"new", "attempting", "pausing", "answered"}, attempts : Nat, signed : Int,
     wakes : Nat, status : Nat, reason : Reasons, code : Codes, receipt : BOOLEAN]

FrontTypes ==
    /\ now \in Nat /\ asked \in Workloads /\ trusted \in {0, 1}
    /\ windows \in [Keys -> [count : Nat, resetAt : Nat]]
    /\ call \in [Calls -> Handlers]
    /\ admitted \in [Calls -> Nat \cup {Never}]
    /\ refused \in [Calls -> Nat \cup {Never}]

Patient == CloseTime <= Delay /\ MaxLag <= Tolerance + Retries

(* Each attempt sees a ledger more than the one before.                    *)
SkewOK(c) ==
    /\ call[c].stage \in {"attempting", "pausing"} => call[c].attempts >= 1
    /\ call[c].stage = "attempting" =>
           now \div CloseTime >= call[c].signed + call[c].attempts - 1
    /\ call[c].stage = "pausing" =>
           call[c].wakes \div CloseTime >= call[c].signed + call[c].attempts
    /\ call[c].reason # "expiration_too_far"

LEMMA Constants ==
    /\ WindowLength \in Nat \ {0} /\ MaxPerWindow \in Nat \ {0} /\ CloseTime \in Nat \ {0}
    /\ Retries \in Nat /\ Delay \in Nat /\ MaxLag \in Nat /\ Tolerance \in Nat
BY FrontAssumption

(* Ledgers close as time goes on, one in every pause that is long enough.  *)
LEMMA LedgersClose ==
    ASSUME NEW s \in Nat, NEW t \in Nat, NEW d \in Nat \ {0}
    PROVE  /\ s \div d \in Nat
           /\ s <= t => s \div d <= t \div d
           /\ d <= t => (s + t) \div d >= (s \div d) + 1
<1>1. /\ s \div d \in Nat /\ t \div d \in Nat /\ (s + t) \div d \in Nat
  OBVIOUS
<1>2. s <= t => s \div d <= t \div d
  OBVIOUS
<1>3. d <= t => (s + t) \div d >= (s \div d) + 1
  OBVIOUS
<1> QED
  BY <1>1, <1>2, <1>3

(* The limiter's key is the peer, whatever the header says.                *)
LEMMA ClientIsPeer ==
    ASSUME asked \in Workloads, trusted \in {0, 1}, NEW c \in Calls
    PROVE  /\ ClientIp(c) = asked[c].peer
           /\ asked[c] \in Asks /\ asked[c].peer \in Keys /\ asked[c].peer \in Peers
<1>1. asked[c] \in Asks
  BY FrontAssumption DEF Calls
<1>2. asked[c].peer \in Peers /\ asked[c].claimed \in Seq(Peers)
  BY <1>1 DEF Asks
<1>3. CASE trusted = 0
  BY <1>1, <1>2, <1>3 DEF ClientIp, Socket, Keys
<1>4. CASE trusted = 1
  <2> DEFINE n == Len(asked[c].claimed)
  <2>1. /\ Header(c) = Append(asked[c].claimed, asked[c].peer)
        /\ n \in Nat /\ Len(Header(c)) = n + 1
        /\ Header(c) # <<>> /\ Header(c)[n + 1] = asked[c].peer
    BY <1>2, <1>4 DEF Header
  <2>2. Max({0, n}) = n
    BY <2>1 DEF Max
  <2> QED
    BY <1>1, <1>2, <1>4, <2>1, <2>2 DEF ClientIp, Keys
<1> QED
  BY <1>3, <1>4

(* The ways in which a step changes the handler of a call.                 *)

TurnedAway(c) ==
    /\ call[c].stage = "new" /\ call'[c].stage = "answered"
    /\ call'[c].attempts = call[c].attempts /\ call'[c].reason # "expiration_too_far"
    /\ UNCHANGED stats

Entered(c) ==
    /\ call[c].stage = "new" /\ call'[c].stage = "attempting"
    /\ call'[c].attempts = 1 /\ call'[c].signed <= now \div CloseTime
    /\ call'[c].reason = call[c].reason
    /\ asked[c].endpoint \in {"verify", "settle"}
    /\ Count(Once(IF asked[c].endpoint = "verify" THEN "verifications" ELSE "settlements"),
             NoStats)

Paused(c) ==
    /\ call[c].stage = "attempting" /\ call'[c].stage = "pausing"
    /\ call'[c].wakes = now + Delay
    /\ call'[c].attempts = call[c].attempts /\ call'[c].signed = call[c].signed
    /\ call'[c].reason = call[c].reason
    /\ UNCHANGED stats

Resumed(c) ==
    /\ call[c].stage = "pausing" /\ call'[c].stage = "attempting"
    /\ now >= call[c].wakes
    /\ call'[c].attempts = call[c].attempts + 1 /\ call'[c].signed = call[c].signed
    /\ call'[c].reason = call[c].reason
    /\ UNCHANGED stats

Finished(c) ==
    /\ call[c].stage = "attempting" /\ call'[c].stage = "answered"
    /\ call'[c].attempts = call[c].attempts
    /\ call'[c].reason = "expiration_too_far" =>
           RejectedForSkew(c) /\ call[c].attempts > Retries
    /\ \/ /\ asked[c].endpoint = "verify" /\ call'[c].reason = ""
          /\ Count(Once("verified"), Skew(c, TRUE))
       \/ /\ asked[c].endpoint = "verify" /\ call'[c].reason # ""
          /\ Count(NoStats, Skew(c, FALSE)) \/ UNCHANGED stats
       \/ /\ asked[c].endpoint = "settle" /\ call'[c].reason = ""
          /\ Count(Once("settled"), Skew(c, TRUE))
       \/ /\ asked[c].endpoint = "settle" /\ call'[c].reason # ""
          /\ \E skew \in {Skew(c, FALSE), NoStats} : Count(Once("failures"), skew)

HandlerMoves(c) ==
    /\ call' \in [Calls -> Handlers]
    /\ \A d \in Calls \ {c} : call'[d] = call[d]
    /\ UNCHANGED <<now, asked, trusted>>
    /\ TurnedAway(c) \/ Entered(c) \/ Paused(c) \/ Resumed(c) \/ Finished(c)

EndsWith(c, reason) ==
    /\ call' \in [Calls -> Handlers]
    /\ \A d \in Calls \ {c} : call'[d] = call[d]
    /\ call'[c].stage = "answered" /\ call'[c].reason = reason
    /\ call'[c].attempts = call[c].attempts

LEMMA AnsweredIs ==
    ASSUME FrontTypes, NEW c \in Calls, NEW status \in Nat, NEW reason \in Reasons,
           NEW code \in Codes, NEW receipt \in BOOLEAN, UNCHANGED asked,
           Answered(c, status, reason, code, receipt)
    PROVE  EndsWith(c, reason)
<1>1. call \in [Calls -> Handlers] /\ call[c] \in Handlers
  BY DEF FrontTypes
<1> DEFINE rec == [call[c] EXCEPT !.stage = "answered", !.status = status, !.reason = reason,
                                  !.code = code, !.receipt = receipt]
<1>2. /\ rec \in Handlers /\ rec.stage = "answered" /\ rec.reason = reason
      /\ rec.attempts = call[c].attempts
  BY <1>1 DEF Handlers
<1>3. call' = [call EXCEPT ![c] = rec]
  BY DEF Answered
<1> HIDE DEF rec
<1> QED
  BY <1>1, <1>2, <1>3 DEF EndsWith

LEMMA PublicReasonIs == \A reason : PublicReason(reason) \in Codes
BY DEF PublicReason, Codes

LEMMA ErrorsAre ==
    \A error \in {"noScheme", "rpc", "other", "busy"} :
        /\ ClassifyError[error] \in Reasons
        /\ ClassifyError[error] # "" /\ ClassifyError[error] # "expiration_too_far"
<1>1. /\ ClassifyError["noScheme"] = "unsupported_scheme_or_network"
      /\ ClassifyError["rpc"] = "upstream_rpc_unavailable"
      /\ ClassifyError["other"] = "facilitator_internal_error"
      /\ ClassifyError["busy"] = "settlement_capacity_exceeded"
  BY DEF ClassifyError
<1> QED
  BY <1>1 DEF Reasons

LEMMA RejectionsAre ==
    ASSUME NEW c, NEW reason \in Rejections(c) \cup {"settle_failed"}
    PROVE  /\ Named(reason) \in Reasons /\ Named(reason) # ""
           /\ Named(reason) = "expiration_too_far" =>
                  RejectedForSkew(c) /\ call[c].attempts > Retries
<1>1. \/ reason \in {"unsupported_scheme", "", "wrong_amount", "replay_check_failed", "settle_failed"}
      \/ reason = "expiration_too_far" /\ RejectedForSkew(c) /\ call[c].attempts > Retries
  BY DEF Rejections
<1> QED
  BY <1>1 DEF Named, Reasons

LEMMA HandlesTurnedAway ==
    ASSUME FrontTypes, NEW c \in Calls,
           TooLarge(c) \/ RateLimited(c) \/ ReadAnswered(c) \/ Malformed(c)
    PROVE  HandlerMoves(c)
<1>1. /\ call[c].stage = "new"
      /\ now' = now /\ asked' = asked /\ trusted' = trusted /\ stats' = stats
  BY DEF TooLarge, RateLimited, ReadAnswered, Malformed, Admitted
<1>2. /\ "" \in Codes /\ "" \in Reasons /\ "payload_too_large" \in Reasons
      /\ "rate_limited" \in Reasons /\ "invalid_request_body" \in Reasons
      /\ 200 \in Nat /\ 400 \in Nat /\ 413 \in Nat /\ 429 \in Nat /\ 503 \in Nat
  BY DEF Reasons, Codes
<1>3. \E reason \in Reasons \ {"expiration_too_far"} : EndsWith(c, reason)
  <2>1. CASE TooLarge(c)
    <3>1. Answered(c, 413, "payload_too_large", "", FALSE)
      BY <2>1 DEF TooLarge
    <3> QED
      BY <1>1, <1>2, <3>1, AnsweredIs
  <2>2. CASE RateLimited(c)
    <3>1. Answered(c, 429, "rate_limited", "", FALSE)
      BY <2>2 DEF RateLimited
    <3> QED
      BY <1>1, <1>2, <3>1, AnsweredIs
  <2>3. CASE ReadAnswered(c)
    <3>1. PICK status \in {200, 503} : Answered(c, status, "", "", FALSE)
      BY <2>3 DEF ReadAnswered
    <3>2. ASSUME NEW s \in Nat, Answered(c, s, "", "", FALSE)
          PROVE  EndsWith(c, "")
      <4>1. "" \in Reasons /\ "" \in Codes /\ asked' = asked
        BY <1>1, <1>2
      <4> QED
        BY <4>1, <3>2, AnsweredIs
    <3>3. status \in Nat
      OBVIOUS
    <3>4. EndsWith(c, "")
      BY <3>1, <3>2, <3>3, Zenon
    <3> QED
      BY <1>2, <3>4
  <2>4. CASE Malformed(c)
    <3>1. Answered(c, 400, "invalid_request_body", PublicReason("invalid_request_body"), FALSE)
      BY <2>4 DEF Malformed
    <3>2. PublicReason("invalid_request_body") \in Codes
      BY PublicReasonIs
    <3>3. EndsWith(c, "invalid_request_body")
      BY <1>1, <1>2, <3>1, <3>2, AnsweredIs
    <3> QED
      BY <1>2, <3>3
  <2> QED
    BY <2>1, <2>2, <2>3, <2>4
<1> QED
  BY <1>1, <1>3 DEF HandlerMoves, TurnedAway, EndsWith

LEMMA HandlesAttempts ==
    ASSUME FrontTypes, NEW c \in Calls,
           Accepted(c) \/ VerifyPauses(c) \/ SettlePauses(c) \/ Again(c)
    PROVE  HandlerMoves(c)
<1>0. /\ call \in [Calls -> Handlers] /\ call[c] \in Handlers /\ now \in Nat
      /\ asked[c] \in Asks
  BY ClientIsPeer DEF FrontTypes
<1>1. CASE Accepted(c)
  <2>1. PICK height \in Heights :
            call' = [call EXCEPT ![c].stage = "attempting", ![c].attempts = 1,
                                 ![c].signed = height]
    BY <1>1 DEF Accepted
  <2>2. height \in Int /\ height <= now \div CloseTime
    BY <1>0, Constants, LedgersClose DEF Heights, Latest
  <2>3. asked[c].endpoint \in {"verify", "settle"}
    BY <1>0, <1>1 DEF Accepted, Asks
  <2>4. /\ call' \in [Calls -> Handlers] /\ \A d \in Calls \ {c} : call'[d] = call[d]
        /\ call'[c].stage = "attempting" /\ call'[c].attempts = 1 /\ call'[c].signed = height
        /\ call'[c].reason = call[c].reason
    BY <1>0, <2>1, <2>2 DEF Handlers
  <2> QED
    BY <1>1, <2>2, <2>3, <2>4 DEF Accepted, Admitted, HandlerMoves, Entered
<1>2. CASE VerifyPauses(c) \/ SettlePauses(c)
  <2>1. /\ call' = [call EXCEPT ![c].stage = "pausing", ![c].wakes = now + Delay]
        /\ call[c].stage = "attempting" /\ UNCHANGED <<now, asked, trusted, stats>>
    BY <1>2 DEF VerifyPauses, SettlePauses, Attempting, Pause
  <2>2. now + Delay \in Nat
    BY <1>0, Constants
  <2>3. /\ call' \in [Calls -> Handlers] /\ \A d \in Calls \ {c} : call'[d] = call[d]
        /\ call'[c].stage = "pausing" /\ call'[c].wakes = now + Delay
        /\ call'[c].attempts = call[c].attempts /\ call'[c].signed = call[c].signed
        /\ call'[c].reason = call[c].reason
    BY <1>0, <2>1, <2>2 DEF Handlers
  <2> QED
    BY <2>1, <2>3 DEF HandlerMoves, Paused
<1>3. CASE Again(c)
  <2>1. /\ call' = [call EXCEPT ![c].stage = "attempting", ![c].attempts = call[c].attempts + 1]
        /\ call[c].stage = "pausing" /\ now >= call[c].wakes
        /\ UNCHANGED <<now, asked, trusted, stats>>
    BY <1>3 DEF Again
  <2>2. /\ call' \in [Calls -> Handlers] /\ \A d \in Calls \ {c} : call'[d] = call[d]
        /\ call'[c].stage = "attempting" /\ call'[c].attempts = call[c].attempts + 1
        /\ call'[c].signed = call[c].signed /\ call'[c].reason = call[c].reason
    BY <1>0, <2>1 DEF Handlers
  <2> QED
    BY <2>1, <2>2 DEF HandlerMoves, Resumed
<1> QED
  BY <1>1, <1>2, <1>3

LEMMA HandlesFinished ==
    ASSUME FrontTypes, NEW c \in Calls,
           \/ VerifyValid(c) \/ VerifyInvalid(c) \/ VerifyThrows(c)
           \/ SettleSucceeds(c) \/ SettleFails(c) \/ SettleThrows(c)
    PROVE  HandlerMoves(c)
<1>1. "" \in Reasons /\ "" \in Codes /\ 200 \in Nat /\ 502 \in Nat /\ 503 \in Nat
  BY DEF Reasons, Codes
<1>2. call[c].stage = "attempting" /\ UNCHANGED <<now, asked, trusted>>
  BY DEF VerifyValid, VerifyInvalid, VerifyThrows, SettleSucceeds, SettleFails, SettleThrows,
         Attempting
<1>3. CASE VerifyValid(c)
  <2>1. Answered(c, 200, "", "", FALSE)
    BY <1>3 DEF VerifyValid
  <2>2. EndsWith(c, "")
    BY <1>1, <1>2, <2>1, AnsweredIs
  <2> QED
    BY <1>2, <1>3, <2>2 DEF VerifyValid, Attempting, HandlerMoves, Finished, EndsWith
<1>4. CASE SettleSucceeds(c)
  <2>1. Answered(c, 200, "", "", TRUE) \/ Answered(c, 200, "", "", FALSE)
    BY <1>4 DEF SettleSucceeds, IssueReceipt
  <2>2. EndsWith(c, "")
    BY <1>1, <1>2, <2>1, AnsweredIs
  <2> QED
    BY <1>2, <1>4, <2>2 DEF SettleSucceeds, Attempting, HandlerMoves, Finished, EndsWith
<1>5. CASE VerifyInvalid(c) \/ SettleFails(c)
  <2>1. PICK reason \in Rejections(c) \cup {"settle_failed"} :
            Answered(c, 200, Named(reason), PublicReason(Named(reason)), FALSE)
    BY <1>5 DEF VerifyInvalid, SettleFails
  <2>2. EndsWith(c, Named(reason))
    BY <1>1, <1>2, <2>1, AnsweredIs, RejectionsAre, PublicReasonIs
  <2> QED
    BY <1>2, <1>5, <2>2, RejectionsAre
       DEF VerifyInvalid, SettleFails, Attempting, HandlerMoves, Finished, EndsWith
<1>6. CASE VerifyThrows(c) \/ SettleThrows(c)
  <2>1. \E error \in {"noScheme", "rpc", "other", "busy"} : EndsWith(c, ClassifyError[error])
    <3>1. CASE VerifyThrows(c)
      <4>1. PICK error \in {"noScheme", "rpc", "other"} :
                Answered(c, IF error = "noScheme" THEN 200 ELSE 502, ClassifyError[error], "", FALSE)
        BY <3>1 DEF VerifyThrows
      <4>2. ClassifyError[error] \in Reasons
        BY <4>1, ErrorsAre
      <4>3. CASE error = "noScheme"
        <5>1. Answered(c, 200, ClassifyError[error], "", FALSE)
          BY <4>1, <4>3
        <5>2. EndsWith(c, ClassifyError[error])
          BY <1>1, <1>2, <4>2, <5>1, AnsweredIs
        <5> QED
          BY <5>2
      <4>4. CASE error # "noScheme"
        <5>1. Answered(c, 502, ClassifyError[error], "", FALSE)
          BY <4>1, <4>4
        <5>2. EndsWith(c, ClassifyError[error])
          BY <1>1, <1>2, <4>2, <5>1, AnsweredIs
        <5> QED
          BY <5>2
      <4> QED
        BY <4>3, <4>4
    <3>2. CASE SettleThrows(c)
      <4>1. PICK error \in {"rpc", "other", "busy"} :
                Answered(c, IF error = "busy" THEN 503 ELSE 502, ClassifyError[error], "", FALSE)
        BY <3>2 DEF SettleThrows
      <4>2. ClassifyError[error] \in Reasons
        BY <4>1, ErrorsAre
      <4>3. CASE error = "busy"
        <5>1. Answered(c, 503, ClassifyError[error], "", FALSE)
          BY <4>1, <4>3
        <5>2. EndsWith(c, ClassifyError[error])
          BY <1>1, <1>2, <4>2, <5>1, AnsweredIs
        <5> QED
          BY <5>2
      <4>4. CASE error # "busy"
        <5>1. Answered(c, 502, ClassifyError[error], "", FALSE)
          BY <4>1, <4>4
        <5>2. EndsWith(c, ClassifyError[error])
          BY <1>1, <1>2, <4>2, <5>1, AnsweredIs
        <5> QED
          BY <5>2
      <4> QED
        BY <4>3, <4>4
    <3> QED
      BY <1>6, <3>1, <3>2
  <2>2. EndsWith(c, call'[c].reason)
        /\ call'[c].reason # "" /\ call'[c].reason # "expiration_too_far"
    BY <2>1, ErrorsAre DEF EndsWith
  <2> QED
    BY <1>2, <1>6, <2>2 DEF VerifyThrows, SettleThrows, Attempting, HandlerMoves, Finished, EndsWith
<1> QED
  BY <1>3, <1>4, <1>5, <1>6

LEMMA HandleMoves ==
    ASSUME FrontTypes, NEW c \in Calls, Handle(c)
    PROVE  HandlerMoves(c)
BY HandlesTurnedAway, HandlesAttempts, HandlesFinished DEF Handle

(* What a step does to the limiter.                                        *)

Counts(c, p) ==
    /\ p = asked[c].peer /\ call[c].stage = "new"
    /\ windows' = [windows EXCEPT ![p] = Counted(p)]

LetIn(c) == admitted' = [admitted EXCEPT ![c] = now] /\ refused' = refused
KeptOut(c) == refused' = [refused EXCEPT ![c] = now] /\ admitted' = admitted

LimiterMoves(c) ==
    \/ UNCHANGED <<windows, admitted, refused>>
    \/ \E p \in Peers : /\ Counts(c, p)
                         /\ \/ Counted(p).count <= MaxPerWindow /\ LetIn(c)
                            \/ Counted(p).count > MaxPerWindow /\ KeptOut(c)

LEMMA LimiterIs ==
    ASSUME FrontTypes, NEW c \in Calls, Handle(c)
    PROVE  LimiterMoves(c)
<1>1. ClientIp(c) = asked[c].peer /\ asked[c].peer \in Peers
  BY ClientIsPeer DEF FrontTypes
<1>2. CASE RateLimited(c)
  BY <1>1, <1>2 DEF RateLimited, LimiterMoves, Counts, KeptOut
<1>3. CASE Admitted(c)
  BY <1>1, <1>3 DEF Admitted, LimiterMoves, Counts, LetIn
<1>4. CASE UNCHANGED <<windows, admitted, refused>>
  BY <1>4 DEF LimiterMoves
<1>5. RateLimited(c) \/ Admitted(c) \/ UNCHANGED <<windows, admitted, refused>>
  BY DEF Handle, TooLarge, ReadAnswered, Malformed, Accepted, VerifyPauses, VerifyValid,
         VerifyInvalid, VerifyThrows, SettlePauses, SettleSucceeds, SettleFails, SettleThrows,
         Again, Attempting
<1> QED
  BY <1>2, <1>3, <1>4, <1>5

LEMMA CountedIs ==
    ASSUME FrontTypes, NEW k \in Keys
    PROVE  /\ Counted(k) \in [count : Nat, resetAt : Nat]
           /\ Live(k) => /\ Counted(k).count = windows[k].count + 1
                        /\ Counted(k).resetAt = windows[k].resetAt
           /\ ~Live(k) => Counted(k).count = 1 /\ Counted(k).resetAt = now + WindowLength
           /\ windows[k].count \in Nat /\ windows[k].resetAt \in Nat
<1>1. windows[k] \in [count : Nat, resetAt : Nat] /\ now \in Nat /\ WindowLength \in Nat
  BY Constants DEF FrontTypes
<1>2. CASE Live(k)
  BY <1>1, <1>2 DEF Counted
<1>3. CASE ~Live(k)
  BY <1>1, <1>3 DEF Counted
<1> QED
  BY <1>1, <1>2, <1>3

LEMMA TypesKept ==
    ASSUME FrontTypes, [FrontNext]_frontVars
    PROVE  FrontTypes'
<1>1. now \in Nat /\ call \in [Calls -> Handlers]
      /\ windows \in [Keys -> [count : Nat, resetAt : Nat]]
      /\ admitted \in [Calls -> Nat \cup {Never}] /\ refused \in [Calls -> Nat \cup {Never}]
  BY DEF FrontTypes
<1>2. CASE Sweep
  <2>1. NoWindow \in [count : Nat, resetAt : Nat]
    BY DEF NoWindow
  <2>2. windows' \in [Keys -> [count : Nat, resetAt : Nat]]
    BY <1>1, <1>2, <2>1 DEF Sweep
  <2> QED
    BY <1>1, <1>2, <2>2 DEF FrontTypes, Sweep, Calls
<1>3. CASE Tick
  BY <1>1, <1>3 DEF FrontTypes, Tick, Calls
<1>4. ASSUME NEW c \in Calls, Handle(c)
      PROVE  FrontTypes'
  <2>1. HandlerMoves(c) /\ LimiterMoves(c)
    BY <1>4, HandleMoves, LimiterIs
  <2>2. call' \in [Calls -> Handlers] /\ now' = now /\ asked' = asked /\ trusted' = trusted
    BY <2>1 DEF HandlerMoves
  <2> DEFINE Kept ==
        /\ windows' \in [Keys -> [count : Nat, resetAt : Nat]]
        /\ admitted' \in [Calls -> Nat \cup {Never}] /\ refused' \in [Calls -> Nat \cup {Never}]
  <2>3. ASSUME UNCHANGED <<windows, admitted, refused>>
        PROVE  Kept
    BY <1>1, <2>3
  <2>4. ASSUME NEW p \in Peers, Counts(c, p), LetIn(c) \/ KeptOut(c)
        PROVE  Kept
    <3>1. p \in Keys /\ Counted(p) \in [count : Nat, resetAt : Nat]
      BY CountedIs DEF Keys
    <3>2. windows' \in [Keys -> [count : Nat, resetAt : Nat]]
      BY <1>1, <2>4, <3>1 DEF Counts
    <3> QED
      BY <1>1, <2>4, <3>2 DEF LetIn, KeptOut
  <2>5. Kept
    <3> HIDE DEF Kept
    <3> QED
      BY <2>1, <2>3, <2>4 DEF LimiterMoves
  <2> QED
    BY <2>2, <2>5 DEF FrontTypes, Calls
<1>5. CASE UNCHANGED frontVars
  BY <1>5 DEF FrontTypes, frontVars, Calls
<1> QED
  BY <1>2, <1>3, <1>4, <1>5 DEF FrontNext

LEMMA FrontStarts == FrontInit => FrontTypes
<1> SUFFICES ASSUME FrontInit PROVE FrontTypes
  OBVIOUS
<1>1. Idle \in Handlers
  BY DEF Idle, Handlers, Reasons, Codes
<1>2. NoWindow \in [count : Nat, resetAt : Nat]
  BY DEF NoWindow
<1> QED
  BY <1>1, <1>2 DEF FrontInit, FrontTypes

----------------------------------------------------------------------------
(* Retries outlast the lag of the RPC nodes.                               *)

SkewInv == FrontTypes /\ (Patient => \A c \in Calls : SkewOK(c))

LEMMA SkewKept ==
    ASSUME SkewInv, [FrontNext]_frontVars, Patient, NEW d \in Calls
    PROVE  SkewOK(d)'
<1>1. /\ now \in Nat /\ call \in [Calls -> Handlers] /\ call[d] \in Handlers
      /\ CloseTime \in Nat \ {0} /\ Delay \in Nat /\ CloseTime <= Delay
      /\ SkewOK(d) /\ FrontTypes
  BY Constants DEF SkewInv, FrontTypes, Patient
<1>2. call[d].wakes \in Nat /\ call[d].attempts \in Nat /\ call[d].signed \in Int
  BY <1>1 DEF Handlers
<1>3. ASSUME call' = call \/ call'[d] = call[d], now' = now
      PROVE  SkewOK(d)'
  BY <1>1, <1>3 DEF SkewOK
<1>4. CASE Tick
  <2>1. now' = now + 1 /\ call' = call
    BY <1>4 DEF Tick
  <2>2. now \div CloseTime <= (now + 1) \div CloseTime
        /\ now \div CloseTime \in Nat /\ (now + 1) \div CloseTime \in Nat
    BY <1>1, LedgersClose
  <2> QED
    BY <1>1, <1>2, <2>1, <2>2 DEF SkewOK
<1>5. ASSUME HandlerMoves(d)
      PROVE  SkewOK(d)'
  <2>1. now' = now
    BY <1>5 DEF HandlerMoves
  <2>2. CASE TurnedAway(d)
    BY <2>2 DEF TurnedAway, SkewOK
  <2>3. CASE Entered(d)
    <3>1. call' \in [Calls -> Handlers] /\ call'[d].signed \in Int
      BY <1>5 DEF HandlerMoves, Handlers
    <3>2. now \div CloseTime \in Nat
      BY <1>1, LedgersClose
    <3> QED
      BY <1>1, <2>1, <2>3, <3>1, <3>2 DEF Entered, SkewOK
  <2>4. CASE Paused(d)
    <3>1. /\ now \div CloseTime \in Nat /\ (now + Delay) \div CloseTime \in Nat
          /\ (now + Delay) \div CloseTime >= (now \div CloseTime) + 1
      BY <1>1, LedgersClose
    <3> QED
      BY <1>1, <1>2, <2>1, <2>4, <3>1 DEF Paused, SkewOK
  <2>5. CASE Resumed(d)
    <3>1. /\ call[d].wakes <= now
          /\ call[d].wakes \div CloseTime \in Nat /\ now \div CloseTime \in Nat
      BY <1>1, <1>2, <2>5, LedgersClose DEF Resumed
    <3>2. call[d].wakes \div CloseTime <= now \div CloseTime
      BY <1>1, <1>2, <3>1, LedgersClose
    <3> QED
      BY <1>1, <1>2, <2>1, <2>5, <3>1, <3>2 DEF Resumed, SkewOK
  <2>6. CASE Finished(d)
    <3>1. ASSUME RejectedForSkew(d), call[d].attempts > Retries
          PROVE  FALSE
      <4>1. PICK seen \in Heights : call[d].signed > seen + Tolerance
        BY <3>1 DEF RejectedForSkew
      <4>2. /\ now \div CloseTime \in Nat
            /\ now \div CloseTime >= call[d].signed + call[d].attempts - 1
        BY <1>1, <2>6, LedgersClose DEF Finished, SkewOK
      <4>3. seen \in Int /\ seen >= (now \div CloseTime) - MaxLag
        BY <4>2, Constants DEF Heights, Latest
      <4> QED
        BY <1>2, <3>1, <4>1, <4>2, <4>3, Constants DEF Patient
    <3> QED
      BY <1>1, <2>6, <3>1 DEF Finished, SkewOK
  <2> QED
    BY <1>5, <2>2, <2>3, <2>4, <2>5, <2>6 DEF HandlerMoves
<1>6. ASSUME NEW c \in Calls, Handle(c)
      PROVE  SkewOK(d)'
  <2>1. HandlerMoves(c)
    BY <1>1, <1>6, HandleMoves
  <2> QED
    BY <1>3, <1>5, <2>1 DEF HandlerMoves
<1> QED
  BY <1>3, <1>4, <1>6 DEF FrontNext, Sweep, frontVars

(* No payment the schemes accept is lost to RPC nodes that disagree about  *)
(* the ledger, when the pauses outlast a ledger close and the retries the  *)
(* lag (retry.ts, withLedgerSkewRetry).                              *)
THEOREM LagIsOutlasted == FrontSpec => []SkewIsOutlasted
<1>1. FrontInit => SkewInv
  <2> SUFFICES ASSUME FrontInit PROVE SkewInv
    OBVIOUS
  <2>1. FrontTypes
    BY FrontStarts
  <2>2. \A c \in Calls : SkewOK(c)
    BY DEF FrontInit, SkewOK, Idle
  <2> QED
    BY <2>1, <2>2 DEF SkewInv
<1>2. SkewInv /\ [FrontNext]_frontVars => SkewInv'
  <2> SUFFICES ASSUME SkewInv, [FrontNext]_frontVars PROVE SkewInv'
    OBVIOUS
  <2>1. FrontTypes'
    BY TypesKept DEF SkewInv
  <2>2. asked' = asked
    BY HandleMoves DEF FrontNext, Sweep, Tick, frontVars, HandlerMoves, SkewInv
  <2> QED
    BY <2>1, <2>2, SkewKept DEF SkewInv, Calls, Patient
<1>3. SkewInv => SkewIsOutlasted
  BY DEF SkewInv, Patient, SkewIsOutlasted, SkewOK
<1> QED
  BY <1>1, <1>2, <1>3, PTL DEF FrontSpec

----------------------------------------------------------------------------
(* The rate limit.                                                         *)

(* Whom the limiter let in, and those of a peer from time a to time b.     *)
In == {c \in Calls : admitted[c] # Never}
Adm(p, a, b) == {c \in In : asked[c].peer = p /\ a <= admitted[c] /\ admitted[c] <= b}

(* The window of a peer that began at s, still open or not.                *)
WindowAt(p, s) ==
    LET here == Adm(p, s, s + WindowLength - 1) IN
    /\ Live(p) => windows[p].resetAt = s + WindowLength
    /\ ~Live(p) => s + WindowLength <= now
    /\ s <= now
    /\ \E c \in In : asked[c].peer = p /\ admitted[c] = s
    /\ \A c \in In : asked[c].peer = p => admitted[c] < s + WindowLength
    /\ Cardinality(here) <= MaxPerWindow
    /\ Live(p) => IF windows[p].count < MaxPerWindow
                   THEN Cardinality(here) = windows[p].count
                   ELSE Cardinality(here) = MaxPerWindow
    /\ Cardinality(Adm(p, s - WindowLength + 1, s - 1)) <= MaxPerWindow - 1

Fresh(p) == ~Live(p) /\ \A c \in In : asked[c].peer # p

LimitOK(p) ==
    /\ Fresh(p) \/ \E s \in Nat : WindowAt(p, s)
    /\ \A a \in Int : Cardinality(Adm(p, a, a + WindowLength - 1)) <= 2 * MaxPerWindow - 1
    /\ \A c \in Calls, b \in Nat : asked[c].peer = p /\ refused[c] = b =>
            Cardinality(Adm(p, b - WindowLength + 1, b)) >= MaxPerWindow

LimitInv ==
    /\ FrontTypes
    /\ IsFiniteSet(In)
    /\ \A c \in Calls : /\ call[c].stage = "new" => admitted[c] = Never /\ refused[c] = Never
                        /\ admitted[c] <= now
    /\ \A p \in Peers : LimitOK(p)

LEMMA AdmFinite ==
    ASSUME LimitInv, NEW p, NEW a, NEW b
    PROVE  /\ IsFiniteSet(Adm(p, a, b)) /\ Cardinality(Adm(p, a, b)) \in Nat
           /\ Adm(p, a, b) \subseteq In
<1>1. Adm(p, a, b) \subseteq In
  BY DEF Adm
<1> QED
  BY <1>1, FS_Subset, FS_CardinalityType DEF LimitInv

(* Which admissions lie where.                                             *)
LEMMA AdmIs ==
    ASSUME FrontTypes, NEW p, NEW a \in Int, NEW b \in Int
    PROVE  /\ In \subseteq Calls
           /\ \A c \in In : admitted[c] \in Nat
           /\ \A c \in Adm(p, a, b) : /\ c \in In /\ admitted[c] \in Nat /\ asked[c].peer = p
                                      /\ a <= admitted[c] /\ admitted[c] <= b
BY DEF In, Adm, FrontTypes

(* The admissions of a while are those of its two parts.                   *)
LEMMA AdmParts ==
    ASSUME LimitInv, NEW p, NEW a \in Int, NEW m \in Int, NEW b \in Int
    PROVE  Cardinality(Adm(p, a, b)) <= Cardinality(Adm(p, a, m)) + Cardinality(Adm(p, m + 1, b))
<1> DEFINE A == Adm(p, a, m)
           B == Adm(p, m + 1, b)
<1>1. FrontTypes
  BY DEF LimitInv
<1>2. Adm(p, a, b) \subseteq A \cup B
  BY <1>1, AdmIs DEF Adm
<1>3. /\ IsFiniteSet(A) /\ IsFiniteSet(B) /\ IsFiniteSet(Adm(p, a, b))
      /\ Cardinality(A) \in Nat /\ Cardinality(B) \in Nat /\ Cardinality(Adm(p, a, b)) \in Nat
  BY AdmFinite
<1> HIDE DEF A, B
<1>4. /\ IsFiniteSet(A \cup B) /\ IsFiniteSet(A \cap B)
      /\ Cardinality(A \cup B) = Cardinality(A) + Cardinality(B) - Cardinality(A \cap B)
  BY <1>3, FS_Union, FS_Intersection
<1>5. Cardinality(A \cap B) \in Nat /\ Cardinality(A \cup B) \in Nat
  BY <1>4, FS_CardinalityType
<1>6. Cardinality(Adm(p, a, b)) <= Cardinality(A \cup B)
  BY <1>2, <1>4, FS_Subset
<1>7. Cardinality(Adm(p, a, b)) <= Cardinality(A) + Cardinality(B)
  BY <1>3, <1>4, <1>5, <1>6
<1> QED
  BY <1>7 DEF A, B

(* A wider while admits no fewer.                                          *)
LEMMA AdmWider ==
    ASSUME LimitInv, NEW p, NEW a \in Int, NEW b \in Int, NEW c \in Int, NEW d \in Int,
           \A e \in In : asked[e].peer = p /\ a <= admitted[e] /\ admitted[e] <= b =>
                             c <= admitted[e] /\ admitted[e] <= d
    PROVE  Cardinality(Adm(p, a, b)) <= Cardinality(Adm(p, c, d))
<1>1. Adm(p, a, b) \subseteq Adm(p, c, d)
  BY DEF Adm
<1> QED
  BY <1>1, AdmFinite, FS_Subset

(* One call more, admitted now.                                            *)
LEMMA OneMoreIn ==
    ASSUME LimitInv, NEW c \in Calls, call[c].stage = "new", LetIn(c),
           asked' = asked, now' = now, NEW p, NEW a \in Int, NEW b \in Int
    PROVE  /\ In' = In \cup {c} /\ c \notin In
           /\ \A d \in In : admitted'[d] = admitted[d]
           /\ admitted'[c] = now
           /\ IF asked[c].peer = p /\ a <= now /\ now <= b
              THEN Cardinality(Adm(p, a, b)') = Cardinality(Adm(p, a, b)) + 1
              ELSE Adm(p, a, b)' = Adm(p, a, b)
<1>1. /\ now \in Nat /\ admitted \in [Calls -> Nat \cup {Never}]
      /\ admitted' = [admitted EXCEPT ![c] = now] /\ admitted[c] = Never /\ Calls' = Calls
  BY DEF LimitInv, FrontTypes, LetIn, Calls
<1>2. /\ \A d \in Calls \ {c} : admitted'[d] = admitted[d]
      /\ admitted'[c] = now /\ now # Never
  BY <1>1 DEF Never
<1>3. In' = In \cup {c} /\ c \notin In /\ \A d \in In : admitted'[d] = admitted[d]
  BY <1>1, <1>2 DEF In
<1>4. CASE asked[c].peer = p /\ a <= now /\ now <= b
  <2>1. Adm(p, a, b)' = Adm(p, a, b) \cup {c} /\ c \notin Adm(p, a, b)
    BY <1>2, <1>3, <1>4 DEF Adm
  <2> QED
    BY <1>2, <1>3, <1>4, <2>1, AdmFinite, FS_AddElement
<1>5. CASE ~(asked[c].peer = p /\ a <= now /\ now <= b)
  <2>1. Adm(p, a, b)' = Adm(p, a, b)
    BY <1>2, <1>3, <1>5 DEF Adm
  <2> QED
    BY <1>2, <1>3, <1>5, <2>1
<1> QED
  BY <1>4, <1>5

(* A window opens with its first call, no sooner than the last one closed. *)
LEMMA WindowOpens ==
    ASSUME LimitInv, NEW p \in Peers, ~Live(p)
    PROVE  /\ \A c \in In : asked[c].peer = p => admitted[c] <= now - 1
           /\ Cardinality(Adm(p, now - WindowLength + 1, now - 1)) <= MaxPerWindow - 1
<1>0. /\ now \in Nat /\ WindowLength \in Nat \ {0} /\ MaxPerWindow \in Nat \ {0}
      /\ FrontTypes /\ In \subseteq Calls /\ \A c \in In : admitted[c] \in Nat
      /\ LimitOK(p)
  BY Constants, AdmIs, 0 \in Int DEF LimitInv, FrontTypes
<1>1. CASE Fresh(p)
  <2>1. Adm(p, now - WindowLength + 1, now - 1) = {}
    BY <1>1 DEF Fresh, Adm
  <2>2. \A c \in In : asked[c].peer # p
    BY <1>1 DEF Fresh
  <2>3. Cardinality(Adm(p, now - WindowLength + 1, now - 1)) = 0
    BY <2>1, FS_EmptySet
  <2>4. 0 <= MaxPerWindow - 1
    BY <1>0
  <2> QED
    BY <2>2, <2>3, <2>4
<1>2. CASE \E s \in Nat : WindowAt(p, s)
  <2>1. PICK s \in Nat : WindowAt(p, s)
    BY <1>2
  <2> DEFINE here == Adm(p, s, s + WindowLength - 1)
             last == Adm(p, now - WindowLength + 1, now - 1)
  <2>2. /\ s + WindowLength <= now /\ Cardinality(here) <= MaxPerWindow
        /\ \A c \in In : asked[c].peer = p => admitted[c] < s + WindowLength
    BY <2>1 DEF WindowAt
  <2>3. PICK c0 \in In : asked[c0].peer = p /\ admitted[c0] = s
    BY <2>1 DEF WindowAt
  <2>4. c0 \in here /\ last \subseteq here \ {c0}
    BY <1>0, <2>2, <2>3 DEF Adm
  <2>5. IsFiniteSet(here) /\ Cardinality(here) \in Nat
    BY AdmFinite
  <2> HIDE DEF here, last
  <2>6. IsFiniteSet(here \ {c0}) /\ Cardinality(here \ {c0}) = Cardinality(here) - 1
    BY <2>4, <2>5, FS_RemoveElement
  <2>7. Cardinality(last) <= Cardinality(here) - 1
    BY <2>4, <2>6, FS_Subset
  <2>8. Cardinality(last) \in Nat
    BY <2>4, <2>6, FS_Subset, FS_CardinalityType
  <2>9. Cardinality(last) <= MaxPerWindow - 1
    BY <1>0, <2>2, <2>5, <2>7, <2>8
  <2> QED
    BY <1>0, <2>2, <2>9 DEF last
<1> QED
  BY <1>0, <1>1, <1>2 DEF LimitOK

LEMMA LetInKeeps ==
    ASSUME LimitInv, NEW c \in Calls, NEW p \in Peers, Counts(c, p), LetIn(c),
           Counted(p).count <= MaxPerWindow, asked' = asked, now' = now
    PROVE  LimitOK(p)'
<1>0. /\ now \in Nat /\ WindowLength \in Nat \ {0} /\ MaxPerWindow \in Nat \ {0}
      /\ FrontTypes /\ In \subseteq Calls /\ \A d \in In : admitted[d] \in Nat
      /\ LimitOK(p) /\ call[c].stage = "new" /\ asked[c].peer = p
  BY Constants, AdmIs, 0 \in Int DEF LimitInv, FrontTypes, Counts
<1>1. p \in Keys /\ windows \in [Keys -> [count : Nat, resetAt : Nat]]
  BY <1>0 DEF FrontTypes, Keys
<1>2. /\ windows'[p] = Counted(p) /\ Counted(p) \in [count : Nat, resetAt : Nat]
  BY <1>0, <1>1, CountedIs DEF Counts
<1>3. /\ In' = In \cup {c} /\ c \notin In /\ admitted'[c] = now
      /\ \A d \in In : admitted'[d] = admitted[d]
      /\ \A a \in Int, b \in Int :
             /\ a <= now /\ now <= b => Cardinality(Adm(p, a, b)') = Cardinality(Adm(p, a, b)) + 1
             /\ ~(a <= now /\ now <= b) => Cardinality(Adm(p, a, b)') = Cardinality(Adm(p, a, b))
             /\ Cardinality(Adm(p, a, b)) \in Nat /\ Cardinality(Adm(p, a, b)') \in Nat
             /\ Cardinality(Adm(p, a, b)') >= Cardinality(Adm(p, a, b))
  <2>1. 0 \in Int
    OBVIOUS
  <2>2. /\ In' = In \cup {c} /\ c \notin In /\ admitted'[c] = now
        /\ \A d \in In : admitted'[d] = admitted[d]
    BY <1>0, <2>1, OneMoreIn
  <2>3. ASSUME NEW a \in Int, NEW b \in Int
        PROVE  /\ a <= now /\ now <= b => Cardinality(Adm(p, a, b)') = Cardinality(Adm(p, a, b)) + 1
               /\ ~(a <= now /\ now <= b) => Cardinality(Adm(p, a, b)') = Cardinality(Adm(p, a, b))
               /\ Cardinality(Adm(p, a, b)) \in Nat /\ Cardinality(Adm(p, a, b)') \in Nat
               /\ Cardinality(Adm(p, a, b)') >= Cardinality(Adm(p, a, b))
    <3>1. Cardinality(Adm(p, a, b)) \in Nat
      BY AdmFinite
    <3>2. IF a <= now /\ now <= b
          THEN Cardinality(Adm(p, a, b)') = Cardinality(Adm(p, a, b)) + 1
          ELSE Adm(p, a, b)' = Adm(p, a, b)
      BY <1>0, OneMoreIn
    <3> QED
      BY <3>1, <3>2
  <2> QED
    BY <2>2, <2>3
<1>4. \A d \in Calls, b \in Nat : asked'[d].peer = p /\ refused'[d] = b =>
          Cardinality(Adm(p, b - WindowLength + 1, b)') >= MaxPerWindow
  <2> SUFFICES ASSUME NEW d \in Calls, NEW b \in Nat, asked[d].peer = p, refused[d] = b
               PROVE  Cardinality(Adm(p, b - WindowLength + 1, b)') >= MaxPerWindow
    BY DEF LetIn
  <2>1. Cardinality(Adm(p, b - WindowLength + 1, b)) >= MaxPerWindow
    BY <1>0 DEF LimitOK
  <2>2. b - WindowLength + 1 \in Int
    BY <1>0
  <2> QED
    BY <1>0, <1>3, <2>1, <2>2
<1>5. CASE Live(p)
  <2>1. /\ ~Fresh(p) /\ Counted(p).count = windows[p].count + 1
        /\ Counted(p).resetAt = windows[p].resetAt
        /\ windows[p].count \in Nat /\ windows[p].resetAt \in Nat
    BY <1>0, <1>1, <1>5, CountedIs DEF Fresh
  <2>2. PICK s \in Nat : WindowAt(p, s)
    BY <1>0, <2>1 DEF LimitOK
  <2> DEFINE to == s + WindowLength - 1
             from == s - WindowLength + 1
  <2>3. /\ windows[p].resetAt = s + WindowLength /\ s <= now
        /\ \A d \in In : asked[d].peer = p => admitted[d] < s + WindowLength
        /\ Cardinality(Adm(p, s, to)) = windows[p].count
        /\ Cardinality(Adm(p, from, s - 1)) <= MaxPerWindow - 1
        /\ now <= to /\ to \in Int /\ from \in Int /\ s - 1 \in Int
    BY <1>0, <1>2, <1>5, <2>1, <2>2 DEF WindowAt, Live
  <2>4. /\ Cardinality(Adm(p, s, to)') = windows[p].count + 1
        /\ Cardinality(Adm(p, from, s - 1)') <= MaxPerWindow - 1
    <3>1. ~(now <= s - 1) /\ s \in Int
      BY <1>0, <2>3
    <3>2. Cardinality(Adm(p, from, s - 1)') = Cardinality(Adm(p, from, s - 1))
      BY <1>3, <2>3, <3>1
    <3>3. Cardinality(Adm(p, s, to)') = Cardinality(Adm(p, s, to)) + 1
      BY <1>3, <2>3, <3>1
    <3> QED
      BY <2>3, <3>2, <3>3
  <2>5. WindowAt(p, s)'
    <3>1. Live(p)' /\ windows'[p].count = windows[p].count + 1
          /\ windows'[p].resetAt = s + WindowLength
      BY <1>0, <1>2, <1>5, <2>1, <2>3 DEF Live
    <3>2. \E d \in In' : asked'[d].peer = p /\ admitted'[d] = s
      BY <1>3, <2>2 DEF WindowAt
    <3>3. ASSUME NEW d \in In', asked'[d].peer = p
          PROVE  admitted'[d] < s + WindowLength
      <4>1. CASE d = c
        <5>1. admitted'[d] = now
          BY <1>3, <4>1
        <5> QED
          BY <1>0, <2>3, <5>1
      <4>2. CASE d \in In
        <5>1. asked[d].peer = p /\ admitted'[d] = admitted[d]
          BY <1>3, <3>3, <4>2
        <5> QED
          BY <2>3, <4>2, <5>1
      <4> QED
        BY <1>3, <4>1, <4>2
    <3> QED
      BY <1>0, <1>2, <2>1, <2>3, <2>4, <3>1, <3>2, <3>3 DEF WindowAt
  <2>6. ASSUME NEW a \in Int
        PROVE  Cardinality(Adm(p, a, a + WindowLength - 1)') <= 2 * MaxPerWindow - 1
    <3>1. a + WindowLength - 1 \in Int
      BY <1>0
    <3>2. CASE ~(a <= now /\ now <= a + WindowLength - 1)
      <4>1. Cardinality(Adm(p, a, a + WindowLength - 1)) <= 2 * MaxPerWindow - 1
        BY <1>0 DEF LimitOK
      <4> QED
        BY <1>3, <3>1, <3>2, <4>1
    <3>3. CASE a <= now /\ now <= a + WindowLength - 1
      <4>1. Cardinality(Adm(p, a, a + WindowLength - 1)) <=
                Cardinality(Adm(p, a, s - 1)) + Cardinality(Adm(p, s - 1 + 1, a + WindowLength - 1))
        BY <2>3, <3>1, AdmParts
      <4>2. Cardinality(Adm(p, a, s - 1)) <= Cardinality(Adm(p, from, s - 1))
        BY <1>0, <2>3, <3>3, AdmWider
      <4>3. Cardinality(Adm(p, s, a + WindowLength - 1)) <= Cardinality(Adm(p, s, to))
        BY <1>0, <2>3, <3>1, AdmWider
      <4>4. s - 1 + 1 = s
        OBVIOUS
      <4>5. /\ Cardinality(Adm(p, a, s - 1)) \in Nat /\ Cardinality(Adm(p, from, s - 1)) \in Nat
            /\ Cardinality(Adm(p, s, a + WindowLength - 1)) \in Nat
            /\ Cardinality(Adm(p, a, a + WindowLength - 1)) \in Nat
        BY AdmFinite
      <4>6. Cardinality(Adm(p, a, a + WindowLength - 1)) <= MaxPerWindow - 1 + windows[p].count
        BY <1>0, <2>1, <2>3, <4>1, <4>2, <4>3, <4>4, <4>5
      <4>7. windows[p].count + 1 <= MaxPerWindow
        BY <2>1
      <4>8. Cardinality(Adm(p, a, a + WindowLength - 1)') =
                Cardinality(Adm(p, a, a + WindowLength - 1)) + 1
        BY <1>3, <3>1, <3>3
      <4> QED
        BY <1>0, <2>1, <4>5, <4>6, <4>7, <4>8
    <3> QED
      BY <3>2, <3>3
  <2> QED
    BY <1>4, <2>5, <2>6 DEF LimitOK, LetIn, Calls
<1>6. CASE ~Live(p)
  <2>1. PICK s \in Nat : s = now
    BY <1>0
  <2> DEFINE to == s + WindowLength - 1
             from == s - WindowLength + 1
  <2>2. /\ \A d \in In : asked[d].peer = p => admitted[d] <= s - 1
        /\ Cardinality(Adm(p, from, s - 1)) <= MaxPerWindow - 1
        /\ Counted(p).count = 1 /\ Counted(p).resetAt = s + WindowLength
    BY <1>0, <1>1, <1>6, <2>1, WindowOpens, CountedIs
  <2>3. /\ to \in Int /\ from \in Int /\ s \in Int /\ s - 1 \in Int
        /\ s <= to /\ ~(now <= s - 1)
    BY <1>0, <2>1
  <2>4. Adm(p, s, to) = {}
    BY <1>0, <2>2 DEF Adm
  <2>5. Cardinality(Adm(p, s, to)) = 0
    BY <2>4, FS_EmptySet
  <2>6. /\ Cardinality(Adm(p, s, to)') = 1
        /\ Cardinality(Adm(p, from, s - 1)') <= MaxPerWindow - 1
    <3>1. Cardinality(Adm(p, s, to)') = Cardinality(Adm(p, s, to)) + 1
      BY <1>3, <2>1, <2>3
    <3>2. Cardinality(Adm(p, from, s - 1)') = Cardinality(Adm(p, from, s - 1))
      BY <1>3, <2>3
    <3> QED
      BY <2>2, <2>5, <3>1, <3>2
  <2>7. WindowAt(p, s)'
    <3>1. Live(p)' /\ windows'[p].count = 1 /\ windows'[p].resetAt = s + WindowLength
      BY <1>0, <1>2, <2>1, <2>2 DEF Live
    <3>2. \E d \in In' : asked'[d].peer = p /\ admitted'[d] = s
      BY <1>0, <1>3, <2>1
    <3>3. ASSUME NEW d \in In', asked[d].peer = p
          PROVE  admitted'[d] < s + WindowLength
      <4>1. CASE d = c
        <5>1. admitted'[d] = s
          BY <1>3, <2>1, <4>1
        <5>2. s < s + WindowLength
          BY <1>0
        <5> QED
          BY <5>1, <5>2
      <4>2. CASE d \in In
        <5>1. admitted[d] <= s - 1 /\ admitted'[d] = admitted[d] /\ admitted[d] \in Nat
          BY <1>0, <1>3, <2>2, <3>3, <4>2
        <5> QED
          BY <1>0, <5>1
      <4> QED
        BY <1>3, <4>1, <4>2
    <3> QED
      BY <1>0, <2>1, <2>6, <3>1, <3>2, <3>3 DEF WindowAt
  <2>8. ASSUME NEW a \in Int
        PROVE  Cardinality(Adm(p, a, a + WindowLength - 1)') <= 2 * MaxPerWindow - 1
    <3>1. a + WindowLength - 1 \in Int
      BY <1>0
    <3>2. CASE ~(a <= now /\ now <= a + WindowLength - 1)
      <4>1. Cardinality(Adm(p, a, a + WindowLength - 1)) <= 2 * MaxPerWindow - 1
        BY <1>0 DEF LimitOK
      <4> QED
        BY <1>3, <3>1, <3>2, <4>1
    <3>3. CASE a <= now /\ now <= a + WindowLength - 1
      <4>1. Cardinality(Adm(p, a, a + WindowLength - 1)) <= Cardinality(Adm(p, from, s - 1))
        BY <1>0, <2>1, <2>2, <2>3, <3>1, <3>3, AdmWider
      <4>2. /\ Cardinality(Adm(p, a, a + WindowLength - 1)) \in Nat
            /\ Cardinality(Adm(p, from, s - 1)) \in Nat
        BY AdmFinite
      <4>3. Cardinality(Adm(p, a, a + WindowLength - 1)') =
                Cardinality(Adm(p, a, a + WindowLength - 1)) + 1
        BY <1>3, <3>1, <3>3
      <4> QED
        BY <1>0, <2>2, <4>1, <4>2, <4>3
    <3> QED
      BY <3>2, <3>3
  <2> QED
    BY <1>4, <2>7, <2>8 DEF LimitOK, LetIn, Calls
<1> QED
  BY <1>5, <1>6

(* Nobody of a peer comes in: its windows close in time and only then.     *)
LEMMA WindowStays ==
    ASSUME LimitInv, NEW p \in Peers, asked' = asked, now' \in Nat, now <= now',
           windows'[p].count \in Nat,
           \A c \in Calls : asked[c].peer = p => admitted'[c] = admitted[c],
           Live(p)' => /\ Live(p) /\ windows'[p].resetAt = windows[p].resetAt
                       /\ \/ windows'[p].count = windows[p].count
                          \/ windows[p].count >= MaxPerWindow /\ windows'[p].count >= MaxPerWindow,
           ~Live(p)' => ~Live(p) \/ windows[p].resetAt <= now'
    PROVE  /\ Fresh(p)' \/ \E s \in Nat : WindowAt(p, s)'
           /\ \A a \in Int, b \in Int : Adm(p, a, b)' = Adm(p, a, b)
           /\ \A a \in Int :
                  Cardinality(Adm(p, a, a + WindowLength - 1)') <= 2 * MaxPerWindow - 1
<1>0. /\ now \in Nat /\ WindowLength \in Nat \ {0} /\ MaxPerWindow \in Nat \ {0}
      /\ FrontTypes /\ In \subseteq Calls /\ \A c \in In : admitted[c] \in Nat
      /\ LimitOK(p)
  BY Constants, AdmIs, 0 \in Int DEF LimitInv, FrontTypes
<1>1. /\ \A c \in Calls : asked'[c].peer = p => (c \in In' <=> c \in In) /\ admitted'[c] = admitted[c]
      /\ Calls' = Calls /\ In' \subseteq Calls /\ In \subseteq Calls
  BY DEF In, Calls
<1>2. ASSUME NEW a \in Int, NEW b \in Int
      PROVE  Adm(p, a, b)' = Adm(p, a, b)
  BY <1>1 DEF Adm
<1>3. CASE Fresh(p)
  <2>1. ~Live(p)'
    BY <1>3 DEF Fresh
  <2>2. Fresh(p)'
    BY <1>1, <1>3, <2>1 DEF Fresh
  <2> QED
    BY <1>0, <1>2, <2>2 DEF LimitOK
<1>4. CASE \E s \in Nat : WindowAt(p, s)
  <2>1. PICK s \in Nat : WindowAt(p, s)
    BY <1>4
  <2> DEFINE to == s + WindowLength - 1
             from == s - WindowLength + 1
  <2>2. /\ Live(p) => windows[p].resetAt = s + WindowLength
        /\ ~Live(p) => s + WindowLength <= now
        /\ s <= now
        /\ \E c \in In : asked[c].peer = p /\ admitted[c] = s
        /\ \A c \in In : asked[c].peer = p => admitted[c] < s + WindowLength
        /\ Cardinality(Adm(p, s, to)) <= MaxPerWindow
        /\ Live(p) => IF windows[p].count < MaxPerWindow
                       THEN Cardinality(Adm(p, s, to)) = windows[p].count
                       ELSE Cardinality(Adm(p, s, to)) = MaxPerWindow
        /\ Cardinality(Adm(p, from, s - 1)) <= MaxPerWindow - 1
    BY <2>1 DEF WindowAt
  <2>3. /\ Adm(p, s, to)' = Adm(p, s, to) /\ Adm(p, from, s - 1)' = Adm(p, from, s - 1)
    <3>1. s \in Int /\ to \in Int /\ from \in Int /\ s - 1 \in Int
      BY <1>0
    <3> QED
      BY <1>2, <3>1
  <2>4. /\ Live(p)' => windows'[p].resetAt = s + WindowLength
        /\ ~Live(p)' => s + WindowLength <= now'
        /\ s <= now'
    BY <1>0, <2>2 DEF Live
  <2>5. /\ \E c \in In' : asked'[c].peer = p /\ admitted'[c] = s
        /\ \A c \in In' : asked'[c].peer = p => admitted'[c] < s + WindowLength
    BY <1>1, <2>2
  <2>6. Live(p)' => IF windows'[p].count < MaxPerWindow
                    THEN Cardinality(Adm(p, s, to)) = windows'[p].count
                    ELSE Cardinality(Adm(p, s, to)) = MaxPerWindow
    <3>1. p \in Keys
      BY DEF Keys
    <3>2. windows[p].count \in Nat
      BY <1>0, <3>1, CountedIs
    <3>3. Cardinality(Adm(p, s, to)) \in Nat
      BY AdmFinite
    <3>4. ASSUME Live(p)'
          PROVE  IF windows'[p].count < MaxPerWindow
                 THEN Cardinality(Adm(p, s, to)) = windows'[p].count
                 ELSE Cardinality(Adm(p, s, to)) = MaxPerWindow
      <4>1. Live(p)
        BY <3>4
      <4>2. CASE windows'[p].count = windows[p].count
        BY <2>2, <4>1, <4>2
      <4>3. CASE windows[p].count >= MaxPerWindow /\ windows'[p].count >= MaxPerWindow
        BY <1>0, <2>2, <3>2, <4>1, <4>3
      <4> QED
        BY <3>4, <4>2, <4>3
    <3> QED
      BY <3>4
  <2>7. WindowAt(p, s)'
    BY <2>2, <2>3, <2>4, <2>5, <2>6 DEF WindowAt
  <2> QED
    BY <1>0, <1>2, <2>7 DEF LimitOK
<1> QED
  BY <1>0, <1>3, <1>4 DEF LimitOK

(* Time passes, windows are swept, or the limiter is asked about others.   *)
LEMMA LimitStays ==
    ASSUME LimitInv, NEW p \in Peers, asked' = asked, now' \in Nat, now <= now',
           \A c \in Calls : asked[c].peer = p =>
               admitted'[c] = admitted[c] /\ refused'[c] = refused[c],
           \/ windows'[p] = windows[p]
           \/ windows[p].resetAt <= now /\ windows'[p] = NoWindow
    PROVE  LimitOK(p)'
<1>1. /\ now \in Nat /\ p \in Keys /\ FrontTypes /\ LimitOK(p) /\ WindowLength \in Nat
  BY Constants DEF LimitInv, FrontTypes, Keys
<1>2. windows[p].resetAt \in Nat /\ windows[p].count \in Nat
  BY <1>1, CountedIs
<1>3. /\ windows'[p].count \in Nat
      /\ Live(p)' => /\ Live(p) /\ windows'[p].resetAt = windows[p].resetAt
                      /\ windows'[p].count = windows[p].count
      /\ ~Live(p)' => ~Live(p) \/ windows[p].resetAt <= now'
  <2>1. CASE windows'[p] = windows[p]
    BY <1>1, <1>2, <2>1 DEF Live
  <2>2. CASE windows[p].resetAt <= now /\ windows'[p] = NoWindow
    BY <1>1, <1>2, <2>2 DEF Live, NoWindow
  <2> QED
    BY <2>1, <2>2
<1>4. /\ Fresh(p)' \/ \E s \in Nat : WindowAt(p, s)'
      /\ \A a \in Int, b \in Int : Adm(p, a, b)' = Adm(p, a, b)
      /\ \A a \in Int :
             Cardinality(Adm(p, a, a + WindowLength - 1)') <= 2 * MaxPerWindow - 1
  BY <1>3, WindowStays
<1>5. ASSUME NEW c \in Calls, NEW b \in Nat, asked[c].peer = p, refused'[c] = b
      PROVE  Cardinality(Adm(p, b - WindowLength + 1, b)') >= MaxPerWindow
  <2>1. Cardinality(Adm(p, b - WindowLength + 1, b)) >= MaxPerWindow
    BY <1>1, <1>5 DEF LimitOK
  <2>2. b - WindowLength + 1 \in Int /\ b \in Int
    BY <1>1
  <2> QED
    BY <1>4, <2>1, <2>2
<1> QED
  BY <1>4, <1>5 DEF LimitOK, Calls

LEMMA KeptOutKeeps ==
    ASSUME LimitInv, NEW c \in Calls, NEW p \in Peers, Counts(c, p), KeptOut(c),
           Counted(p).count > MaxPerWindow, asked' = asked, now' = now
    PROVE  LimitOK(p)'
<1>0. /\ now \in Nat /\ WindowLength \in Nat \ {0} /\ MaxPerWindow \in Nat \ {0}
      /\ FrontTypes /\ In \subseteq Calls /\ \A d \in In : admitted[d] \in Nat
      /\ LimitOK(p) /\ asked[c].peer = p /\ admitted' = admitted
  BY Constants, AdmIs, 0 \in Int DEF LimitInv, FrontTypes, Counts, KeptOut
<1>1. p \in Keys /\ windows \in [Keys -> [count : Nat, resetAt : Nat]]
  BY <1>0 DEF FrontTypes, Keys
<1>2. /\ windows'[p] = Counted(p) /\ Counted(p) \in [count : Nat, resetAt : Nat]
  BY <1>0, <1>1, CountedIs DEF Counts
<1>3. Live(p)
  BY <1>0, <1>1, CountedIs
<1>4. /\ windows[p].count >= MaxPerWindow /\ windows'[p].count >= MaxPerWindow
      /\ windows'[p].resetAt = windows[p].resetAt
      /\ windows[p].count \in Nat /\ windows'[p].count \in Nat
  BY <1>0, <1>1, <1>2, <1>3, CountedIs
<1>5. Live(p)'
  BY <1>0, <1>3, <1>4 DEF Live
<1>6. /\ Fresh(p)' \/ \E s \in Nat : WindowAt(p, s)'
      /\ \A a \in Int, b \in Int : Adm(p, a, b)' = Adm(p, a, b)
      /\ \A a \in Int :
             Cardinality(Adm(p, a, a + WindowLength - 1)') <= 2 * MaxPerWindow - 1
  BY <1>0, <1>3, <1>4, <1>5, WindowStays
<1>7. Cardinality(Adm(p, now - WindowLength + 1, now)) >= MaxPerWindow
  <2>1. PICK s \in Nat : WindowAt(p, s)
    BY <1>0, <1>3 DEF LimitOK, Fresh
  <2>2. /\ windows[p].resetAt = s + WindowLength /\ s <= now
        /\ Cardinality(Adm(p, s, s + WindowLength - 1)) = MaxPerWindow
    BY <1>0, <1>3, <1>4, <2>1 DEF WindowAt
  <2>3. now - WindowLength + 1 <= s
    BY <1>0, <1>3, <2>2 DEF Live
  <2>4. \A d \in In : admitted[d] <= now
    BY <1>0 DEF LimitInv
  <2>5. /\ s \in Int /\ s + WindowLength - 1 \in Int /\ now \in Int
        /\ now - WindowLength + 1 \in Int
    BY <1>0
  <2>6. \A e \in In : asked[e].peer = p /\ s <= admitted[e] /\ admitted[e] <= s + WindowLength - 1 =>
            now - WindowLength + 1 <= admitted[e] /\ admitted[e] <= now
    BY <1>0, <2>3, <2>4, <2>5
  <2>7. Cardinality(Adm(p, s, s + WindowLength - 1)) <= Cardinality(Adm(p, now - WindowLength + 1, now))
    BY <2>5, <2>6, AdmWider
  <2>8. Cardinality(Adm(p, now - WindowLength + 1, now)) \in Nat
    BY AdmFinite
  <2> QED
    BY <1>0, <2>2, <2>7, <2>8
<1>8. ASSUME NEW d \in Calls, NEW b \in Nat, asked[d].peer = p, refused'[d] = b
      PROVE  Cardinality(Adm(p, b - WindowLength + 1, b)') >= MaxPerWindow
  <2>1. Cardinality(Adm(p, b - WindowLength + 1, b)) >= MaxPerWindow
    <3>1. CASE d = c
      <4>1. b = now
        BY <1>0, <1>8, <3>1 DEF KeptOut, FrontTypes
      <4> QED
        BY <1>7, <4>1
    <3>2. CASE d # c
      <4>1. refused[d] = b
        BY <1>0, <1>8, <3>2 DEF KeptOut, FrontTypes
      <4> QED
        BY <1>0, <1>8, <4>1 DEF LimitOK
    <3> QED
      BY <3>1, <3>2
  <2>2. b - WindowLength + 1 \in Int /\ b \in Int
    BY <1>0
  <2> QED
    BY <1>6, <2>1, <2>2
<1> QED
  BY <1>6, <1>8 DEF LimitOK, Calls

LEMMA LimitKept ==
    ASSUME LimitInv, [FrontNext]_frontVars, NEW p \in Peers
    PROVE  LimitOK(p)'
<1>0. /\ now \in Nat /\ FrontTypes /\ FrontTypes' /\ p \in Keys
      /\ windows \in [Keys -> [count : Nat, resetAt : Nat]] /\ now <= now
      /\ windows[p].resetAt \in Nat
  BY TypesKept DEF LimitInv, FrontTypes, Keys
<1>1. CASE Sweep
  BY <1>0, <1>1, LimitStays DEF Sweep
<1>2. CASE Tick
  <2>1. now' \in Nat /\ now <= now'
    BY <1>0, <1>2 DEF Tick
  <2> QED
    BY <1>0, <1>2, <2>1, LimitStays DEF Tick
<1>3. ASSUME NEW c \in Calls, Handle(c)
      PROVE  LimitOK(p)'
  <2>1. LimiterMoves(c) /\ now' = now /\ asked' = asked
    BY <1>0, <1>3, HandleMoves, LimiterIs DEF HandlerMoves
  <2>2. CASE UNCHANGED <<windows, admitted, refused>>
    BY <1>0, <2>1, <2>2, LimitStays
  <2>3. ASSUME NEW q \in Peers, Counts(c, q),
               \/ Counted(q).count <= MaxPerWindow /\ LetIn(c)
               \/ Counted(q).count > MaxPerWindow /\ KeptOut(c)
        PROVE  LimitOK(p)'
    <3>1. CASE p = q
      BY <2>1, <2>3, <3>1, LetInKeeps, KeptOutKeeps
    <3>2. CASE p # q
      <4>1. /\ windows'[p] = windows[p]
            /\ \A d \in Calls : asked[d].peer = p =>
                   admitted'[d] = admitted[d] /\ refused'[d] = refused[d]
        BY <1>0, <2>3, <3>2 DEF Counts, LetIn, KeptOut, FrontTypes
      <4> QED
        BY <1>0, <2>1, <4>1, LimitStays
    <3> QED
      BY <3>1, <3>2
  <2> QED
    BY <2>1, <2>2, <2>3 DEF LimiterMoves
<1>4. CASE UNCHANGED frontVars
  BY <1>0, <1>4, LimitStays DEF frontVars
<1> QED
  BY <1>1, <1>2, <1>3, <1>4 DEF FrontNext

(* A call passes the limiter once.                                         *)
LEMMA AdmittedOnce ==
    ASSUME LimitInv, [FrontNext]_frontVars
    PROVE  /\ asked' = asked /\ IsFiniteSet(In')
           /\ \A c \in Calls : /\ call'[c].stage = "new" =>
                                       admitted'[c] = Never /\ refused'[c] = Never
                               /\ admitted'[c] <= now'
<1>0. now \in Nat /\ FrontTypes /\ IsFiniteSet(In)
      /\ admitted \in [Calls -> Nat \cup {Never}] /\ refused \in [Calls -> Nat \cup {Never}]
      /\ \A c \in Calls : /\ call[c].stage = "new" => admitted[c] = Never /\ refused[c] = Never
                          /\ admitted[c] <= now
  BY DEF LimitInv, FrontTypes
<1>1. ASSUME asked' = asked, now' \in Nat, now <= now',
             UNCHANGED <<admitted, refused>>,
             \A c \in Calls : call'[c].stage = "new" => call[c].stage = "new"
      PROVE  /\ IsFiniteSet(In')
             /\ \A c \in Calls : /\ call'[c].stage = "new" =>
                                         admitted'[c] = Never /\ refused'[c] = Never
                                 /\ admitted'[c] <= now'
  <2>1. In' = In
    BY <1>1 DEF In, Calls
  <2>2. ASSUME NEW c \in Calls PROVE admitted[c] <= now'
    <3>1. admitted[c] \in Int
      BY <1>0 DEF Never
    <3> QED
      BY <1>0, <1>1, <3>1
  <2> QED
    BY <1>0, <1>1, <2>1, <2>2
<1>2. CASE Sweep \/ Tick \/ UNCHANGED frontVars
  <2>1. /\ asked' = asked /\ now' \in Nat /\ now <= now' /\ call' = call
        /\ UNCHANGED <<admitted, refused>>
    BY <1>0, <1>2 DEF Sweep, Tick, frontVars
  <2> QED
    BY <1>1, <2>1
<1>3. ASSUME NEW c \in Calls, Handle(c)
      PROVE  /\ asked' = asked /\ IsFiniteSet(In')
             /\ \A d \in Calls : /\ call'[d].stage = "new" =>
                                         admitted'[d] = Never /\ refused'[d] = Never
                                 /\ admitted'[d] <= now'
  <2>1. HandlerMoves(c) /\ LimiterMoves(c)
    BY <1>0, <1>3, HandleMoves, LimiterIs
  <2>2. /\ now' = now /\ asked' = asked /\ call'[c].stage # "new"
        /\ \A d \in Calls \ {c} : call'[d] = call[d]
    BY <2>1 DEF HandlerMoves, TurnedAway, Entered, Paused, Resumed, Finished
  <2>3. CASE UNCHANGED <<windows, admitted, refused>>
    <3>1. \A d \in Calls : call'[d].stage = "new" => call[d].stage = "new"
      BY <2>2
    <3>2. UNCHANGED <<admitted, refused>> /\ now <= now' /\ now' \in Nat
      BY <1>0, <2>2, <2>3
    <3> QED
      BY <1>1, <2>2, <3>1, <3>2
  <2>4. ASSUME NEW p \in Peers, Counts(c, p), LetIn(c) \/ KeptOut(c)
        PROVE  /\ IsFiniteSet(In')
               /\ \A d \in Calls : /\ call'[d].stage = "new" =>
                                           admitted'[d] = Never /\ refused'[d] = Never
                                   /\ admitted'[d] <= now'
    <3>1. CASE LetIn(c)
      <4>1. In' = In \cup {c}
        BY <2>2, <2>4, <3>1, OneMoreIn, 0 \in Int DEF Counts
      <4>2. IsFiniteSet(In')
        BY <1>0, <4>1, FS_AddElement
      <4> QED
        BY <1>0, <2>2, <3>1, <4>2 DEF LetIn
    <3>2. CASE KeptOut(c)
      <4>1. In' = In
        BY <2>2, <3>2 DEF In, Calls, KeptOut
      <4> QED
        BY <1>0, <2>2, <3>2, <4>1 DEF KeptOut
    <3> QED
      BY <2>4, <3>1, <3>2
  <2> QED
    BY <2>1, <2>2, <2>3, <2>4 DEF LimiterMoves
<1> QED
  BY <1>2, <1>3 DEF FrontNext

(* The limit is each caller's own, whatever it writes into the header      *)
(* (rate-limit.ts, clientIp and the middleware).                           *)
THEOREM LimitsAreOwn == FrontSpec => []LimitIsPerClient
<1>1. FrontInit => LimitInv
  <2> SUFFICES ASSUME FrontInit PROVE LimitInv
    OBVIOUS
  <2>1. FrontTypes /\ now = 0 /\ \A c \in Calls : admitted[c] = Never /\ refused[c] = Never
    BY FrontStarts DEF FrontInit
  <2>2. In = {} /\ Never = -1
    BY <2>1 DEF In, Never
  <2>3. ASSUME NEW p \in Peers PROVE LimitOK(p)
    <3>1. Fresh(p)
      BY <2>2 DEF Fresh, Live, FrontInit, NoWindow, Keys
    <3>2. \A a \in Int : Adm(p, a, a + WindowLength - 1) = {}
      BY <2>2 DEF Adm
    <3>3. \A a \in Int : Cardinality(Adm(p, a, a + WindowLength - 1)) <= 2 * MaxPerWindow - 1
      <4>1. 0 <= 2 * MaxPerWindow - 1
        BY Constants
      <4>2. \A a \in Int : Cardinality(Adm(p, a, a + WindowLength - 1)) = 0
        BY <3>2, FS_EmptySet
      <4> QED
        BY <4>1, <4>2
    <3> QED
      BY <2>1, <2>2, <3>1, <3>3 DEF LimitOK
  <2> QED
    BY <2>1, <2>2, <2>3, FS_EmptySet DEF LimitInv
<1>2. LimitInv /\ [FrontNext]_frontVars => LimitInv'
  <2> SUFFICES ASSUME LimitInv, [FrontNext]_frontVars PROVE LimitInv'
    OBVIOUS
  <2>1. FrontTypes'
    BY TypesKept DEF LimitInv
  <2> QED
    BY <2>1, AdmittedOnce, LimitKept DEF LimitInv, Calls
<1>3. LimitInv => LimitIsPerClient
  <2> SUFFICES ASSUME LimitInv, NEW p \in Peers
               PROVE  /\ \A from \in 0 .. now :
                             Cardinality(During(p, admitted, from)) <= 2 * MaxPerWindow - 1
                      /\ \A c \in Calls : asked[c].peer = p /\ refused[c] # Never =>
                             Cardinality(During(p, admitted, refused[c] - WindowLength + 1))
                                 >= MaxPerWindow
    BY DEF LimitIsPerClient
  <2>1. LimitOK(p) /\ WindowLength \in Nat /\ FrontTypes /\ now \in Nat
        /\ refused \in [Calls -> Nat \cup {Never}] /\ admitted \in [Calls -> Nat \cup {Never}]
    BY Constants DEF LimitInv, FrontTypes
  <2>2. ASSUME NEW a \in Int
        PROVE  During(p, admitted, a) = Adm(p, a, a + WindowLength - 1)
    BY <2>1 DEF During, Adm, In
  <2>3. ASSUME NEW c \in Calls, asked[c].peer = p, refused[c] # Never
        PROVE  Cardinality(During(p, admitted, refused[c] - WindowLength + 1)) >= MaxPerWindow
    <3>1. PICK b \in Nat : refused[c] = b
      BY <2>1, <2>3
    <3>2. Cardinality(Adm(p, b - WindowLength + 1, b)) >= MaxPerWindow
      BY <2>1, <2>3, <3>1 DEF LimitOK
    <3>3. b - WindowLength + 1 \in Int /\ (b - WindowLength + 1) + WindowLength - 1 = b
      BY <2>1
    <3> QED
      BY <2>2, <3>1, <3>2, <3>3
  <2> QED
    BY <2>1, <2>2, <2>3 DEF LimitOK
<1> QED
  BY <1>1, <1>2, <1>3, PTL DEF FrontSpec

----------------------------------------------------------------------------
(* The counters.                                                           *)

Counters ==
    [verifications : Int, verified : Int, settlements : Int, settled : Int,
     failures : Int, retries : Int, recoveries : Int]

Active == {c \in Calls : call[c].stage # "new"}
Yes(endpoint) == Told(endpoint, TRUE)
No(endpoint) == Told(endpoint, FALSE)
Owed(endpoint) ==
    {c \in Calls : asked[c].endpoint = endpoint /\ call[c].stage \in {"attempting", "pausing"}}
Recovered == {c \in Yes("verify") \cup Yes("settle") : call[c].attempts > 1}

Balanced ==
    /\ stats.verified = Cardinality(Yes("verify"))
    /\ stats.settled = Cardinality(Yes("settle"))
    /\ stats.settlements = stats.settled + stats.failures + Cardinality(Owed("settle"))
    /\ stats.verifications =
         stats.verified + Cardinality(No("verify")) + Cardinality(Owed("verify"))
    /\ stats.recoveries = Cardinality(Recovered)

CountInv ==
    /\ FrontTypes /\ stats \in Counters /\ IsFiniteSet(Active)
    /\ \A c \in Calls :
          /\ call[c].stage = "new" => call[c].attempts = 0
          /\ call[c].stage \in {"attempting", "pausing"} => call[c].attempts >= 1
    /\ Balanced

(* Two sets that differ in c at most.                                      *)
LEMMA OneDiffers ==
    ASSUME NEW A, NEW B, NEW c, IsFiniteSet(A), \A d : d # c => (d \in A <=> d \in B)
    PROVE  /\ Cardinality(A) \in Nat /\ Cardinality(B) \in Nat /\ IsFiniteSet(B)
           /\ (c \in A <=> c \in B) => Cardinality(B) = Cardinality(A)
           /\ c \notin A /\ c \in B => Cardinality(B) = Cardinality(A) + 1
           /\ c \in A /\ c \notin B => Cardinality(B) = Cardinality(A) - 1
<1>1. CASE c \in A <=> c \in B
  <2>1. A = B
    BY <1>1
  <2> QED
    BY <1>1, <2>1, FS_CardinalityType
<1>2. CASE c \notin A /\ c \in B
  <2>1. B = A \cup {c}
    BY <1>2
  <2> QED
    BY <1>2, <2>1, FS_AddElement, FS_CardinalityType
<1>3. CASE c \in A /\ c \notin B
  <2>1. B = A \ {c}
    BY <1>3
  <2> QED
    BY <1>3, <2>1, FS_RemoveElement, FS_CardinalityType
<1> QED
  BY <1>1, <1>2, <1>3

LEMMA Members ==
    ASSUME NEW c, NEW endpoint
    PROVE  /\ c \in Yes(endpoint) <=>
                  /\ c \in Calls /\ asked[c].endpoint = endpoint /\ call[c].attempts > 0
                  /\ call[c].stage = "answered" /\ call[c].reason = ""
           /\ c \in No(endpoint) <=>
                  /\ c \in Calls /\ asked[c].endpoint = endpoint /\ call[c].attempts > 0
                  /\ call[c].stage = "answered" /\ call[c].reason # ""
           /\ c \in Owed(endpoint) <=>
                  /\ c \in Calls /\ asked[c].endpoint = endpoint
                  /\ call[c].stage \in {"attempting", "pausing"}
BY DEF Yes, No, Told, Owed

LEMMA RecoveredIs ==
    \A c : c \in Recovered <=>
              /\ c \in Yes("verify") \/ c \in Yes("settle")
              /\ call[c].attempts > 1
BY DEF Recovered

LEMMA AllActive ==
    ASSUME IsFiniteSet(Active)
    PROVE  /\ IsFiniteSet(Recovered)
           /\ \A endpoint : /\ IsFiniteSet(Yes(endpoint)) /\ IsFiniteSet(No(endpoint))
                            /\ IsFiniteSet(Owed(endpoint))
<1>1. Recovered \subseteq Active
  BY RecoveredIs, Members DEF Active
<1>2. ASSUME NEW endpoint
      PROVE  /\ Yes(endpoint) \subseteq Active /\ No(endpoint) \subseteq Active
             /\ Owed(endpoint) \subseteq Active
  BY Members DEF Active
<1> QED
  BY <1>1, <1>2, FS_Subset

(* Only the moving call moves between the sets.                            *)
LEMMA SetsMove ==
    ASSUME CountInv, NEW c \in Calls, HandlerMoves(c)
    PROVE  /\ IsFiniteSet(Active')
           /\ \A d : d # c => (d \in Recovered <=> d \in Recovered')
           /\ \A endpoint, d : d # c =>
                  /\ d \in Yes(endpoint) <=> d \in Yes(endpoint)'
                  /\ d \in No(endpoint) <=> d \in No(endpoint)'
                  /\ d \in Owed(endpoint) <=> d \in Owed(endpoint)'
<1>1. /\ asked' = asked /\ Calls' = Calls
      /\ \A d \in Calls \ {c} : call'[d] = call[d]
  BY DEF HandlerMoves, Calls
<1>2. IsFiniteSet(Active')
  <2>1. \A d : d # c => (d \in Active <=> d \in Active')
    BY <1>1 DEF Active
  <2> QED
    BY <2>1, OneDiffers DEF CountInv
<1>3. ASSUME NEW endpoint, NEW d, d # c
      PROVE  /\ d \in Yes(endpoint) <=> d \in Yes(endpoint)'
             /\ d \in No(endpoint) <=> d \in No(endpoint)'
             /\ d \in Owed(endpoint) <=> d \in Owed(endpoint)'
  BY <1>1, <1>3 DEF Yes, No, Told, Owed
<1>4. ASSUME NEW d, d # c
      PROVE  d \in Recovered <=> d \in Recovered'
  <2>1. /\ d \in Yes("verify") <=> d \in Yes("verify")'
        /\ d \in Yes("settle") <=> d \in Yes("settle")'
    BY <1>3, <1>4
  <2>2. call'[d] = call[d] \/ d \notin Calls
    BY <1>1, <1>4
  <2> QED
    BY <1>1, <2>1, <2>2 DEF Recovered, Yes, Told
<1> QED
  BY <1>2, <1>3, <1>4

LEMMA CountIs ==
    ASSUME stats \in Counters, NEW told \in Counters, NEW skew \in Counters, Count(told, skew)
    PROVE  /\ stats' \in Counters
           /\ stats'.verifications = stats.verifications + told.verifications + skew.verifications
           /\ stats'.verified = stats.verified + told.verified + skew.verified
           /\ stats'.settlements = stats.settlements + told.settlements + skew.settlements
           /\ stats'.settled = stats.settled + told.settled + skew.settled
           /\ stats'.failures = stats.failures + told.failures + skew.failures
           /\ stats'.recoveries = stats.recoveries + told.recoveries + skew.recoveries
<1>1. DOMAIN stats = {"verifications", "verified", "settlements", "settled", "failures",
                      "retries", "recoveries"}
  BY DEF Counters
<1>2. stats' = [f \in DOMAIN stats |-> stats[f] + told[f] + skew[f]]
  BY DEF Count
<1>3. /\ stats' = [verifications |-> stats.verifications + told.verifications + skew.verifications,
                   verified |-> stats.verified + told.verified + skew.verified,
                   settlements |-> stats.settlements + told.settlements + skew.settlements,
                   settled |-> stats.settled + told.settled + skew.settled,
                   failures |-> stats.failures + told.failures + skew.failures,
                   retries |-> stats.retries + told.retries + skew.retries,
                   recoveries |-> stats.recoveries + told.recoveries + skew.recoveries]
  BY <1>1, <1>2
<1> QED
  BY <1>3 DEF Counters

LEMMA OnceIs ==
    /\ NoStats \in Counters /\ Once("verifications") \in Counters
    /\ Once("verified") \in Counters /\ Once("settlements") \in Counters
    /\ Once("settled") \in Counters /\ Once("failures") \in Counters
BY DEF Once, NoStats, Counters

LEMMA SkewIs ==
    ASSUME NEW c, call[c].attempts \in Nat
    PROVE  /\ Skew(c, TRUE) \in Counters /\ Skew(c, FALSE) \in Counters
           /\ \A skew \in {Skew(c, TRUE), Skew(c, FALSE)} :
                 /\ skew.verifications = 0 /\ skew.verified = 0 /\ skew.settlements = 0
                 /\ skew.settled = 0 /\ skew.failures = 0
           /\ call[c].attempts > 1 => Skew(c, TRUE).recoveries = 1
           /\ ~(call[c].attempts > 1) => Skew(c, TRUE).recoveries = 0
           /\ Skew(c, FALSE).recoveries = 0
<1> DEFINE n == call[c].attempts - 1
<1>1. n \in Int
  OBVIOUS
<1>2. PICK m \in {0, 1} :
          /\ call[c].attempts > 1 => m = 1
          /\ ~(call[c].attempts > 1) => m = 0
  OBVIOUS
<1>3. /\ Skew(c, TRUE) = [NoStats EXCEPT !.retries = n, !.recoveries = m]
      /\ Skew(c, FALSE) = [NoStats EXCEPT !.retries = n, !.recoveries = 0]
  BY <1>2 DEF Skew
<1> HIDE DEF n
<1>4. ASSUME NEW r \in Int, NEW skew, skew = [NoStats EXCEPT !.retries = n, !.recoveries = r]
      PROVE  /\ skew \in Counters /\ skew.recoveries = r
             /\ skew.verifications = 0 /\ skew.verified = 0 /\ skew.settlements = 0
             /\ skew.settled = 0 /\ skew.failures = 0
  <2>1. skew = [verifications |-> 0, verified |-> 0, settlements |-> 0, settled |-> 0,
                failures |-> 0, retries |-> n, recoveries |-> r]
    BY <1>4 DEF NoStats
  <2> QED
    BY <1>1, <2>1 DEF Counters
<1>5. m \in Int /\ 0 \in Int
  OBVIOUS
<1>6. /\ Skew(c, TRUE) \in Counters /\ Skew(c, TRUE).recoveries = m
      /\ Skew(c, TRUE).verifications = 0 /\ Skew(c, TRUE).verified = 0
      /\ Skew(c, TRUE).settlements = 0 /\ Skew(c, TRUE).settled = 0 /\ Skew(c, TRUE).failures = 0
  BY <1>3, <1>4, <1>5
<1>7. /\ Skew(c, FALSE) \in Counters /\ Skew(c, FALSE).recoveries = 0
      /\ Skew(c, FALSE).verifications = 0 /\ Skew(c, FALSE).verified = 0
      /\ Skew(c, FALSE).settlements = 0 /\ Skew(c, FALSE).settled = 0
      /\ Skew(c, FALSE).failures = 0
  BY <1>3, <1>4, <1>5
<1> QED
  BY <1>2, <1>6, <1>7

LEMMA BalanceKept ==
    ASSUME CountInv, NEW c \in Calls, HandlerMoves(c)
    PROVE  stats' \in Counters /\ Balanced'
<1>1. /\ stats \in Counters /\ Balanced /\ asked' = asked /\ Calls' = Calls
      /\ IsFiniteSet(Active) /\ call[c].attempts \in Nat /\ call'[c].attempts \in Nat
      /\ asked[c] \in Asks
      /\ call[c].stage = "new" => call[c].attempts = 0
      /\ call[c].stage \in {"attempting", "pausing"} => call[c].attempts >= 1
  BY ClientIsPeer DEF CountInv, HandlerMoves, FrontTypes, Calls, Handlers
<1> DEFINE Same(A, B) == Cardinality(B) = Cardinality(A)
           More(A, B) == Cardinality(B) = Cardinality(A) + 1
           Less(A, B) == Cardinality(B) = Cardinality(A) - 1
<1>2. /\ (c \in Recovered <=> c \in Recovered') => Same(Recovered, Recovered')
      /\ c \notin Recovered /\ c \in Recovered' => More(Recovered, Recovered')
      /\ Cardinality(Recovered) \in Nat
  <2>1. IsFiniteSet(Recovered) /\ \A d : d # c => (d \in Recovered <=> d \in Recovered')
    BY <1>1, SetsMove, AllActive
  <2> QED
    BY <2>1, OneDiffers
<1>3. ASSUME NEW e
      PROVE  /\ (c \in Yes(e) <=> c \in Yes(e)') =>
                     Same(Yes(e), Yes(e)')
             /\ c \notin Yes(e) /\ c \in Yes(e)' =>
                     More(Yes(e), Yes(e)')
             /\ (c \in No(e) <=> c \in No(e)') =>
                     Same(No(e), No(e)')
             /\ c \notin No(e) /\ c \in No(e)' =>
                     More(No(e), No(e)')
             /\ (c \in Owed(e) <=> c \in Owed(e)') => Same(Owed(e), Owed(e)')
             /\ c \notin Owed(e) /\ c \in Owed(e)' => More(Owed(e), Owed(e)')
             /\ c \in Owed(e) /\ c \notin Owed(e)' => Less(Owed(e), Owed(e)')
             /\ Cardinality(Yes(e)) \in Nat /\ Cardinality(No(e)) \in Nat
             /\ Cardinality(Owed(e)) \in Nat
  <2>1. /\ \A d : d # c => /\ d \in Yes(e) <=> d \in Yes(e)'
                           /\ d \in No(e) <=> d \in No(e)'
                           /\ d \in Owed(e) <=> d \in Owed(e)'
        /\ IsFiniteSet(Yes(e)) /\ IsFiniteSet(No(e)) /\ IsFiniteSet(Owed(e))
    BY <1>1, SetsMove, AllActive
  <2>2. /\ (c \in Yes(e) <=> c \in Yes(e)') => Same(Yes(e), Yes(e)')
        /\ c \notin Yes(e) /\ c \in Yes(e)' => More(Yes(e), Yes(e)')
        /\ Cardinality(Yes(e)) \in Nat
    BY <2>1, OneDiffers
  <2>3. /\ (c \in No(e) <=> c \in No(e)') => Same(No(e), No(e)')
        /\ c \notin No(e) /\ c \in No(e)' => More(No(e), No(e)')
        /\ Cardinality(No(e)) \in Nat
    BY <2>1, OneDiffers
  <2>4. /\ (c \in Owed(e) <=> c \in Owed(e)') => Same(Owed(e), Owed(e)')
        /\ c \notin Owed(e) /\ c \in Owed(e)' => More(Owed(e), Owed(e)')
        /\ c \in Owed(e) /\ c \notin Owed(e)' => Less(Owed(e), Owed(e)')
        /\ Cardinality(Owed(e)) \in Nat
    <3>1. IsFiniteSet(Owed(e)) /\ \A d : d # c => (d \in Owed(e) <=> d \in Owed(e)')
      BY <2>1
    <3> QED
      BY <3>1, OneDiffers
  <2> QED
    BY <2>2, <2>3, <2>4
<1>4. ASSUME NEW e
      PROVE  /\ c \in Yes(e)' <=>
                    /\ asked[c].endpoint = e /\ call'[c].attempts > 0
                    /\ call'[c].stage = "answered" /\ call'[c].reason = ""
             /\ c \in No(e)' <=>
                    /\ asked[c].endpoint = e /\ call'[c].attempts > 0
                    /\ call'[c].stage = "answered" /\ call'[c].reason # ""
             /\ c \in Owed(e)' <=>
                    asked[c].endpoint = e /\ call'[c].stage \in {"attempting", "pausing"}
             /\ c \in Yes(e) <=>
                    /\ asked[c].endpoint = e /\ call[c].attempts > 0
                    /\ call[c].stage = "answered" /\ call[c].reason = ""
             /\ c \in No(e) <=>
                    /\ asked[c].endpoint = e /\ call[c].attempts > 0
                    /\ call[c].stage = "answered" /\ call[c].reason # ""
             /\ c \in Owed(e) <=>
                    asked[c].endpoint = e /\ call[c].stage \in {"attempting", "pausing"}
  BY <1>1 DEF Yes, No, Told, Owed
<1>5. /\ c \in Recovered' <=>
             /\ c \in Yes("verify")' \/ c \in Yes("settle")'
             /\ call'[c].attempts > 1
      /\ c \in Recovered <=>
             /\ c \in Yes("verify") \/ c \in Yes("settle")
             /\ call[c].attempts > 1
  BY DEF Recovered
<1>6. /\ Cardinality(Yes("verify")) \in Nat /\ Cardinality(Yes("settle")) \in Nat
      /\ Cardinality(No("verify")) \in Nat /\ Cardinality(Owed("verify")) \in Nat
      /\ Cardinality(Owed("settle")) \in Nat /\ Cardinality(Recovered) \in Nat
      /\ stats.verified = Cardinality(Yes("verify"))
      /\ stats.settled = Cardinality(Yes("settle"))
      /\ stats.settlements = stats.settled + stats.failures + Cardinality(Owed("settle"))
      /\ stats.verifications =
           stats.verified + Cardinality(No("verify")) + Cardinality(Owed("verify"))
      /\ stats.recoveries = Cardinality(Recovered)
      /\ stats.failures \in Int
  BY <1>1, <1>2, <1>3 DEF Balanced, Counters
<1>7. CASE TurnedAway(c) \/ Paused(c) \/ Resumed(c)
  <2>1. stats' = stats
    BY <1>7 DEF TurnedAway, Paused, Resumed
  <2>2. ASSUME NEW e
        PROVE  /\ c \in Yes(e) <=> c \in Yes(e)'
               /\ c \in No(e) <=> c \in No(e)'
               /\ c \in Owed(e) <=> c \in Owed(e)'
               /\ c \notin Yes(e)
    <3>1. CASE TurnedAway(c)
      <4>1. /\ call[c].stage = "new" /\ call'[c].stage = "answered"
            /\ ~(call'[c].attempts > 0)
        BY <1>1, <3>1 DEF TurnedAway
      <4> QED
        BY <1>4, <4>1
    <3>2. CASE Paused(c) \/ Resumed(c)
      BY <1>4, <3>2 DEF Paused, Resumed
    <3> QED
      BY <1>7, <3>1, <3>2
  <2>3. c \in Recovered <=> c \in Recovered'
    BY <1>5, <2>2
  <2> QED
    BY <1>1, <1>2, <1>3, <2>1, <2>2, <2>3 DEF Balanced
<1>8. CASE Entered(c)
  <2>1. /\ call[c].stage = "new" /\ call[c].attempts = 0
        /\ call'[c].stage = "attempting" /\ asked[c].endpoint \in {"verify", "settle"}
    BY <1>1, <1>8 DEF Entered
  <2>2. ASSUME NEW e
        PROVE  /\ c \in Yes(e) <=> c \in Yes(e)'
               /\ c \in No(e) <=> c \in No(e)'
               /\ c \notin Yes(e) /\ c \notin Owed(e)
               /\ c \in Owed(e)' <=> asked[c].endpoint = e
    BY <1>4, <2>1
  <2>3. Same(Recovered, Recovered')
    BY <1>2, <1>5, <2>2
  <2>4. CASE asked[c].endpoint = "verify"
    <3>1. Count(Once("verifications"), NoStats)
      BY <1>8, <2>4 DEF Entered
    <3>2. /\ stats' \in Counters /\ stats'.verifications = stats.verifications + 1
          /\ stats'.verified = stats.verified /\ stats'.settlements = stats.settlements
          /\ stats'.settled = stats.settled /\ stats'.failures = stats.failures
          /\ stats'.recoveries = stats.recoveries
      BY <1>1, <3>1, CountIs, OnceIs DEF Once, NoStats, Counters
    <3>3. More(Owed("verify"), Owed("verify")') /\ Same(Owed("settle"), Owed("settle")')
      BY <1>3, <2>2, <2>4
    <3>4. ASSUME NEW e
          PROVE  Same(Yes(e), Yes(e)') /\ Same(No(e), No(e)')
      BY <1>3, <2>2
    <3>5. /\ Same(Yes("verify"), Yes("verify")')
          /\ Same(Yes("settle"), Yes("settle")')
          /\ Same(No("verify"), No("verify")')
      BY <3>4
    <3>6. stats'.verified = Cardinality(Yes("verify")')
      BY <1>6, <3>2, <3>5
    <3>7. stats'.settled = Cardinality(Yes("settle")')
      BY <1>6, <3>2, <3>5
    <3>8. stats'.settlements = stats'.settled + stats'.failures + Cardinality(Owed("settle")')
      BY <1>6, <3>2, <3>3
    <3>9. stats'.verifications = stats'.verified + Cardinality(No("verify")') + Cardinality(Owed("verify")')
      BY <1>6, <3>2, <3>3, <3>5
    <3>10. stats'.recoveries = Cardinality(Recovered')
      BY <1>6, <2>3, <3>2
    <3> QED
      BY <3>2, <3>6, <3>7, <3>8, <3>9, <3>10 DEF Balanced
  <2>5. CASE asked[c].endpoint = "settle"
    <3>1. Count(Once("settlements"), NoStats)
      BY <1>8, <2>5 DEF Entered
    <3>2. /\ stats' \in Counters /\ stats'.verifications = stats.verifications
          /\ stats'.verified = stats.verified /\ stats'.settlements = stats.settlements + 1
          /\ stats'.settled = stats.settled /\ stats'.failures = stats.failures
          /\ stats'.recoveries = stats.recoveries
      BY <1>1, <3>1, CountIs, OnceIs DEF Once, NoStats, Counters
    <3>3. More(Owed("settle"), Owed("settle")') /\ Same(Owed("verify"), Owed("verify")')
      BY <1>3, <2>2, <2>5
    <3>4. ASSUME NEW e
          PROVE  Same(Yes(e), Yes(e)') /\ Same(No(e), No(e)')
      BY <1>3, <2>2
    <3>5. /\ Same(Yes("verify"), Yes("verify")')
          /\ Same(Yes("settle"), Yes("settle")')
          /\ Same(No("verify"), No("verify")')
      BY <3>4
    <3> QED
      BY <1>6, <2>3, <3>2, <3>3, <3>5 DEF Balanced
  <2> QED
    BY <2>1, <2>4, <2>5
<1>9. CASE Finished(c)
  <2>1. /\ call[c].stage = "attempting" /\ call'[c].stage = "answered"
        /\ call'[c].attempts = call[c].attempts /\ call[c].attempts > 0
        /\ asked[c].endpoint \in {"verify", "settle"}
    <3>1. /\ call[c].stage = "attempting" /\ call'[c].stage = "answered"
          /\ call'[c].attempts = call[c].attempts
          /\ asked[c].endpoint \in {"verify", "settle"}
      BY <1>9 DEF Finished
    <3>2. call[c].attempts >= 1
      BY <1>1, <3>1
    <3> QED
      BY <1>1, <3>1, <3>2
  <2>2. ASSUME NEW e
        PROVE  /\ c \notin Yes(e) /\ c \notin No(e) /\ c \notin Owed(e)'
               /\ c \in Yes(e)' <=> asked[c].endpoint = e /\ call'[c].reason = ""
               /\ c \in No(e)' <=> asked[c].endpoint = e /\ call'[c].reason # ""
               /\ c \in Owed(e) <=> asked[c].endpoint = e
               /\ asked[c].endpoint # e => c \notin Yes(e)' /\ c \notin No(e)' /\ c \notin Owed(e)
    BY <1>4, <2>1
  <2>3. /\ c \notin Recovered
        /\ c \in Recovered' <=> call'[c].reason = "" /\ call[c].attempts > 1
    BY <1>5, <2>1, <2>2
  <2>4. PICK won \in Counters, lost \in Counters :
            /\ won = Skew(c, TRUE) /\ lost = Skew(c, FALSE)
            /\ won.verifications = 0 /\ won.verified = 0 /\ won.settlements = 0
            /\ won.settled = 0 /\ won.failures = 0
            /\ call[c].attempts > 1 => won.recoveries = 1
            /\ ~(call[c].attempts > 1) => won.recoveries = 0
            /\ lost.verifications = 0 /\ lost.verified = 0 /\ lost.settlements = 0
            /\ lost.settled = 0 /\ lost.failures = 0 /\ lost.recoveries = 0
    BY <1>1, SkewIs
  <2>5. /\ NoStats \in Counters /\ Once("verified") \in Counters
        /\ Once("settled") \in Counters /\ Once("failures") \in Counters
    BY OnceIs
  <2>6. CASE asked[c].endpoint = "verify" /\ call'[c].reason = ""
    <3>1. Count(Once("verified"), won)
      BY <1>9, <2>4, <2>6 DEF Finished
    <3>2. /\ stats' \in Counters
          /\ stats'.verifications = stats.verifications
          /\ stats'.verified = stats.verified + 1
          /\ stats'.settlements = stats.settlements
          /\ stats'.settled = stats.settled
          /\ stats'.failures = stats.failures
          /\ call[c].attempts > 1 => stats'.recoveries = stats.recoveries + 1
          /\ ~(call[c].attempts > 1) => stats'.recoveries = stats.recoveries
      <4>1. /\ won.verifications = 0 /\ won.verified = 0
            /\ won.settlements = 0 /\ won.settled = 0
            /\ won.failures = 0
            /\ call[c].attempts > 1 => won.recoveries = 1
            /\ ~(call[c].attempts > 1) => won.recoveries = 0
        BY <2>4
      <4>2. /\ Once("verified").verifications = 0 /\ Once("verified").settlements = 0
            /\ Once("verified").verified = 1 /\ Once("verified").settled = 0
            /\ Once("verified").failures = 0 /\ Once("verified").recoveries = 0
        BY DEF Once, NoStats
      <4>3. /\ stats.verifications \in Int /\ stats.verified \in Int /\ stats.settlements \in Int
            /\ stats.settled \in Int /\ stats.failures \in Int /\ stats.recoveries \in Int
        BY <1>1 DEF Counters
      <4>4. /\ stats' \in Counters
            /\ stats'.verifications = stats.verifications + Once("verified").verifications + won.verifications
            /\ stats'.verified = stats.verified + Once("verified").verified + won.verified
            /\ stats'.settlements = stats.settlements + Once("verified").settlements + won.settlements
            /\ stats'.settled = stats.settled + Once("verified").settled + won.settled
            /\ stats'.failures = stats.failures + Once("verified").failures + won.failures
            /\ stats'.recoveries = stats.recoveries + Once("verified").recoveries + won.recoveries
        BY <1>1, <2>5, <3>1, CountIs
      <4> QED
        BY <4>1, <4>2, <4>3, <4>4
    <3>3. /\ More(Yes("verify"), Yes("verify")') /\ Same(No("verify"), No("verify")')
          /\ Less(Owed("verify"), Owed("verify")')
          /\ call[c].attempts > 1 => More(Recovered, Recovered')
          /\ ~(call[c].attempts > 1) => Same(Recovered, Recovered')
      BY <1>2, <1>3, <2>2, <2>3, <2>6
    <3>4. /\ Same(Yes("settle"), Yes("settle")') /\ Same(No("settle"), No("settle")')
          /\ Same(Owed("settle"), Owed("settle")')
      <4>1. asked[c].endpoint # "settle"
        BY <2>6
      <4>2. c \notin Yes("settle") /\ c \notin Yes("settle")'
        BY <2>2, <4>1
      <4>3. c \notin No("settle") /\ c \notin No("settle")'
        BY <2>2, <4>1
      <4>4. c \notin Owed("settle")
        BY <2>2, <4>1
      <4>5. c \notin Owed("settle")'
        BY <2>2
      <4> QED
        BY <1>3, <4>2, <4>3, <4>4, <4>5
    <3>5. /\ stats'.verified = Cardinality(Yes("verify")')
          /\ stats'.settled = Cardinality(Yes("settle")')
      BY <1>6, <3>2, <3>3, <3>4
    <3>6. stats'.settlements = stats'.settled + stats'.failures + Cardinality(Owed("settle")')
      BY <1>6, <3>2, <3>3, <3>4
    <3>7. stats'.verifications =
              stats'.verified + Cardinality(No("verify")') + Cardinality(Owed("verify")')
      BY <1>6, <3>2, <3>3, <3>4
    <3>8. stats'.recoveries = Cardinality(Recovered')
      BY <1>6, <3>2, <3>3
    <3> QED
      BY <3>2, <3>5, <3>6, <3>7, <3>8 DEF Balanced
  <2>7. CASE asked[c].endpoint = "verify" /\ call'[c].reason # ""
    <3>1. Count(NoStats, lost) \/ stats' = stats
      BY <1>9, <2>4, <2>7 DEF Finished
    <3>2. /\ stats' \in Counters
          /\ stats'.verifications = stats.verifications
          /\ stats'.verified = stats.verified
          /\ stats'.settlements = stats.settlements
          /\ stats'.settled = stats.settled
          /\ stats'.failures = stats.failures
          /\ stats'.recoveries = stats.recoveries
      <4>1. /\ lost.verifications = 0 /\ lost.verified = 0
            /\ lost.settlements = 0 /\ lost.settled = 0
            /\ lost.failures = 0 /\ lost.recoveries = 0
        BY <2>4
      <4>2. /\ NoStats.verifications = 0 /\ NoStats.settlements = 0
            /\ NoStats.verified = 0 /\ NoStats.settled = 0
            /\ NoStats.failures = 0 /\ NoStats.recoveries = 0
        BY DEF NoStats
      <4>3. /\ stats.verifications \in Int /\ stats.verified \in Int /\ stats.settlements \in Int
            /\ stats.settled \in Int /\ stats.failures \in Int /\ stats.recoveries \in Int
        BY <1>1 DEF Counters
      <4>4. CASE Count(NoStats, lost)
        <5>1. /\ stats' \in Counters
            /\ stats'.verifications = stats.verifications + NoStats.verifications + lost.verifications
            /\ stats'.verified = stats.verified + NoStats.verified + lost.verified
            /\ stats'.settlements = stats.settlements + NoStats.settlements + lost.settlements
            /\ stats'.settled = stats.settled + NoStats.settled + lost.settled
            /\ stats'.failures = stats.failures + NoStats.failures + lost.failures
            /\ stats'.recoveries = stats.recoveries + NoStats.recoveries + lost.recoveries
          BY <1>1, <2>5, <4>4, CountIs
        <5> QED
          BY <4>1, <4>2, <4>3, <5>1
      <4>5. CASE stats' = stats
        BY <1>1, <4>5
      <4> QED
        BY <3>1, <4>4, <4>5
    <3>3. /\ Same(Yes("verify"), Yes("verify")') /\ More(No("verify"), No("verify")')
          /\ Less(Owed("verify"), Owed("verify")')
          /\ Same(Recovered, Recovered')
      BY <1>2, <1>3, <2>2, <2>3, <2>7
    <3>4. /\ Same(Yes("settle"), Yes("settle")') /\ Same(No("settle"), No("settle")')
          /\ Same(Owed("settle"), Owed("settle")')
      <4>1. asked[c].endpoint # "settle"
        BY <2>7
      <4>2. c \notin Yes("settle") /\ c \notin Yes("settle")'
        BY <2>2, <4>1
      <4>3. c \notin No("settle") /\ c \notin No("settle")'
        BY <2>2, <4>1
      <4>4. c \notin Owed("settle")
        BY <2>2, <4>1
      <4>5. c \notin Owed("settle")'
        BY <2>2
      <4> QED
        BY <1>3, <4>2, <4>3, <4>4, <4>5
    <3>5. /\ stats'.verified = Cardinality(Yes("verify")')
          /\ stats'.settled = Cardinality(Yes("settle")')
      BY <1>6, <3>2, <3>3, <3>4
    <3>6. stats'.settlements = stats'.settled + stats'.failures + Cardinality(Owed("settle")')
      BY <1>6, <3>2, <3>3, <3>4
    <3>7. stats'.verifications =
              stats'.verified + Cardinality(No("verify")') + Cardinality(Owed("verify")')
      BY <1>6, <3>2, <3>3, <3>4
    <3>8. stats'.recoveries = Cardinality(Recovered')
      BY <1>6, <3>2, <3>3
    <3> QED
      BY <3>2, <3>5, <3>6, <3>7, <3>8 DEF Balanced
  <2>8. CASE asked[c].endpoint = "settle" /\ call'[c].reason = ""
    <3>1. Count(Once("settled"), won)
      BY <1>9, <2>4, <2>8 DEF Finished
    <3>2. /\ stats' \in Counters
          /\ stats'.verifications = stats.verifications
          /\ stats'.verified = stats.verified
          /\ stats'.settlements = stats.settlements
          /\ stats'.settled = stats.settled + 1
          /\ stats'.failures = stats.failures
          /\ call[c].attempts > 1 => stats'.recoveries = stats.recoveries + 1
          /\ ~(call[c].attempts > 1) => stats'.recoveries = stats.recoveries
      <4>1. /\ won.verifications = 0 /\ won.verified = 0
            /\ won.settlements = 0 /\ won.settled = 0
            /\ won.failures = 0
            /\ call[c].attempts > 1 => won.recoveries = 1
            /\ ~(call[c].attempts > 1) => won.recoveries = 0
        BY <2>4
      <4>2. /\ Once("settled").verifications = 0 /\ Once("settled").settlements = 0
            /\ Once("settled").verified = 0 /\ Once("settled").settled = 1
            /\ Once("settled").failures = 0 /\ Once("settled").recoveries = 0
        BY DEF Once, NoStats
      <4>3. /\ stats.verifications \in Int /\ stats.verified \in Int /\ stats.settlements \in Int
            /\ stats.settled \in Int /\ stats.failures \in Int /\ stats.recoveries \in Int
        BY <1>1 DEF Counters
      <4>4. /\ stats' \in Counters
            /\ stats'.verifications = stats.verifications + Once("settled").verifications + won.verifications
            /\ stats'.verified = stats.verified + Once("settled").verified + won.verified
            /\ stats'.settlements = stats.settlements + Once("settled").settlements + won.settlements
            /\ stats'.settled = stats.settled + Once("settled").settled + won.settled
            /\ stats'.failures = stats.failures + Once("settled").failures + won.failures
            /\ stats'.recoveries = stats.recoveries + Once("settled").recoveries + won.recoveries
        BY <1>1, <2>5, <3>1, CountIs
      <4> QED
        BY <4>1, <4>2, <4>3, <4>4
    <3>3. /\ More(Yes("settle"), Yes("settle")') /\ Same(No("settle"), No("settle")')
          /\ Less(Owed("settle"), Owed("settle")')
          /\ call[c].attempts > 1 => More(Recovered, Recovered')
          /\ ~(call[c].attempts > 1) => Same(Recovered, Recovered')
      BY <1>2, <1>3, <2>2, <2>3, <2>8
    <3>4. /\ Same(Yes("verify"), Yes("verify")') /\ Same(No("verify"), No("verify")')
          /\ Same(Owed("verify"), Owed("verify")')
      <4>1. asked[c].endpoint # "verify"
        BY <2>8
      <4>2. c \notin Yes("verify") /\ c \notin Yes("verify")'
        BY <2>2, <4>1
      <4>3. c \notin No("verify") /\ c \notin No("verify")'
        BY <2>2, <4>1
      <4>4. c \notin Owed("verify")
        BY <2>2, <4>1
      <4>5. c \notin Owed("verify")'
        BY <2>2
      <4> QED
        BY <1>3, <4>2, <4>3, <4>4, <4>5
    <3>5. /\ stats'.verified = Cardinality(Yes("verify")')
          /\ stats'.settled = Cardinality(Yes("settle")')
      BY <1>6, <3>2, <3>3, <3>4
    <3>6. stats'.settlements = stats'.settled + stats'.failures + Cardinality(Owed("settle")')
      BY <1>6, <3>2, <3>3, <3>4
    <3>7. stats'.verifications =
              stats'.verified + Cardinality(No("verify")') + Cardinality(Owed("verify")')
      BY <1>6, <3>2, <3>3, <3>4
    <3>8. stats'.recoveries = Cardinality(Recovered')
      BY <1>6, <3>2, <3>3
    <3> QED
      BY <3>2, <3>5, <3>6, <3>7, <3>8 DEF Balanced
  <2>9. CASE asked[c].endpoint = "settle" /\ call'[c].reason # ""
    <3>1. Count(Once("failures"), lost) \/ Count(Once("failures"), NoStats)
      BY <1>9, <2>4, <2>9 DEF Finished
    <3>2. /\ stats' \in Counters
          /\ stats'.verifications = stats.verifications
          /\ stats'.verified = stats.verified
          /\ stats'.settlements = stats.settlements
          /\ stats'.settled = stats.settled
          /\ stats'.failures = stats.failures + 1
          /\ stats'.recoveries = stats.recoveries
      <4>1. /\ lost.verifications = 0 /\ lost.verified = 0
            /\ lost.settlements = 0 /\ lost.settled = 0
            /\ lost.failures = 0 /\ lost.recoveries = 0
        BY <2>4
      <4>2. /\ NoStats.verifications = 0 /\ NoStats.settlements = 0
            /\ NoStats.verified = 0 /\ NoStats.settled = 0
            /\ NoStats.failures = 0 /\ NoStats.recoveries = 0
        BY DEF NoStats
      <4>3. /\ Once("failures").verifications = 0 /\ Once("failures").settlements = 0
            /\ Once("failures").verified = 0 /\ Once("failures").settled = 0
            /\ Once("failures").failures = 1 /\ Once("failures").recoveries = 0
        BY DEF Once, NoStats
      <4>4. /\ stats.verifications \in Int /\ stats.verified \in Int /\ stats.settlements \in Int
            /\ stats.settled \in Int /\ stats.failures \in Int /\ stats.recoveries \in Int
        BY <1>1 DEF Counters
      <4>5. CASE Count(Once("failures"), lost)
        <5>1. /\ stats' \in Counters
            /\ stats'.verifications = stats.verifications + Once("failures").verifications + lost.verifications
            /\ stats'.verified = stats.verified + Once("failures").verified + lost.verified
            /\ stats'.settlements = stats.settlements + Once("failures").settlements + lost.settlements
            /\ stats'.settled = stats.settled + Once("failures").settled + lost.settled
            /\ stats'.failures = stats.failures + Once("failures").failures + lost.failures
            /\ stats'.recoveries = stats.recoveries + Once("failures").recoveries + lost.recoveries
          BY <1>1, <2>5, <4>5, CountIs
        <5> QED
          BY <4>1, <4>2, <4>3, <4>4, <5>1
      <4>6. CASE Count(Once("failures"), NoStats)
        <5>1. /\ stats' \in Counters
            /\ stats'.verifications = stats.verifications + Once("failures").verifications + NoStats.verifications
            /\ stats'.verified = stats.verified + Once("failures").verified + NoStats.verified
            /\ stats'.settlements = stats.settlements + Once("failures").settlements + NoStats.settlements
            /\ stats'.settled = stats.settled + Once("failures").settled + NoStats.settled
            /\ stats'.failures = stats.failures + Once("failures").failures + NoStats.failures
            /\ stats'.recoveries = stats.recoveries + Once("failures").recoveries + NoStats.recoveries
          BY <1>1, <2>5, <4>6, CountIs
        <5> QED
          BY <4>1, <4>2, <4>3, <4>4, <5>1
      <4> QED
        BY <3>1, <4>5, <4>6
    <3>3. /\ Same(Yes("settle"), Yes("settle")') /\ More(No("settle"), No("settle")')
          /\ Less(Owed("settle"), Owed("settle")')
          /\ Same(Recovered, Recovered')
      BY <1>2, <1>3, <2>2, <2>3, <2>9
    <3>4. /\ Same(Yes("verify"), Yes("verify")') /\ Same(No("verify"), No("verify")')
          /\ Same(Owed("verify"), Owed("verify")')
      <4>1. asked[c].endpoint # "verify"
        BY <2>9
      <4>2. c \notin Yes("verify") /\ c \notin Yes("verify")'
        BY <2>2, <4>1
      <4>3. c \notin No("verify") /\ c \notin No("verify")'
        BY <2>2, <4>1
      <4>4. c \notin Owed("verify")
        BY <2>2, <4>1
      <4>5. c \notin Owed("verify")'
        BY <2>2
      <4> QED
        BY <1>3, <4>2, <4>3, <4>4, <4>5
    <3>5. /\ stats'.verified = Cardinality(Yes("verify")')
          /\ stats'.settled = Cardinality(Yes("settle")')
      BY <1>6, <3>2, <3>3, <3>4
    <3>6. stats'.settlements = stats'.settled + stats'.failures + Cardinality(Owed("settle")')
      BY <1>6, <3>2, <3>3, <3>4
    <3>7. stats'.verifications =
              stats'.verified + Cardinality(No("verify")') + Cardinality(Owed("verify")')
      BY <1>6, <3>2, <3>3, <3>4
    <3>8. stats'.recoveries = Cardinality(Recovered')
      BY <1>6, <3>2, <3>3
    <3> QED
      BY <3>2, <3>5, <3>6, <3>7, <3>8 DEF Balanced
  <2> QED
    BY <2>1, <2>6, <2>7, <2>8, <2>9
<1> QED
  BY <1>7, <1>8, <1>9 DEF HandlerMoves

LEMMA CountKept ==
    ASSUME CountInv, [FrontNext]_frontVars
    PROVE  CountInv'
<1>0. /\ FrontTypes /\ FrontTypes' /\ stats \in Counters /\ IsFiniteSet(Active) /\ Balanced
      /\ \A c \in Calls :
            /\ call[c].stage = "new" => call[c].attempts = 0
            /\ call[c].stage \in {"attempting", "pausing"} => call[c].attempts >= 1
  BY TypesKept DEF CountInv
<1>1. CASE UNCHANGED <<asked, call, stats>>
  <2>1. Active' = Active /\ Calls' = Calls
    BY <1>1 DEF Active, Calls
  <2>2. Recovered' = Recovered /\ \A e : Yes(e)' = Yes(e) /\ No(e)' = No(e) /\ Owed(e)' = Owed(e)
    BY <1>1 DEF Recovered, Yes, No, Told, Owed, Calls
  <2>3. Balanced'
    BY <1>0, <1>1, <2>2 DEF Balanced
  <2> QED
    BY <1>0, <1>1, <2>1, <2>3 DEF CountInv
<1>2. ASSUME NEW c \in Calls, Handle(c)
      PROVE  CountInv'
  <2>1. HandlerMoves(c)
    BY <1>0, <1>2, HandleMoves
  <2>2. stats' \in Counters /\ Balanced' /\ IsFiniteSet(Active')
    BY <2>1, BalanceKept, SetsMove
  <2>3. /\ asked' = asked /\ \A d \in Calls \ {c} : call'[d] = call[d]
        /\ call[c].attempts \in Nat
    BY <1>0, <2>1 DEF HandlerMoves, FrontTypes, Handlers
  <2>4. /\ call'[c].stage # "new"
        /\ call'[c].stage \in {"attempting", "pausing"} => call'[c].attempts >= 1
    <3>1. CASE TurnedAway(c) \/ Finished(c)
      BY <3>1 DEF TurnedAway, Finished
    <3>2. CASE Entered(c)
      BY <3>2 DEF Entered
    <3>3. CASE Paused(c) \/ Resumed(c)
      <4>1. call[c].attempts >= 1
        BY <1>0, <3>3 DEF Paused, Resumed
      <4> QED
        BY <2>3, <3>3, <4>1 DEF Paused, Resumed
    <3> QED
      BY <2>1, <3>1, <3>2, <3>3 DEF HandlerMoves
  <2> QED
    BY <1>0, <2>2, <2>3, <2>4 DEF CountInv, Calls
<1> QED
  BY <1>1, <1>2 DEF FrontNext, Sweep, Tick, frontVars

(* The counters agree with what callers were told, also after a retry and  *)
(* after a throw (server.ts, the handlers of /verify and /settle).         *)
THEOREM CountsAgree == FrontSpec => []CountersBalance
<1>1. FrontInit => CountInv
  <2> SUFFICES ASSUME FrontInit PROVE CountInv
    OBVIOUS
  <2>1. FrontTypes /\ \A c \in Calls : call[c].stage = "new" /\ call[c].attempts = 0
    BY FrontStarts DEF FrontInit, Idle
  <2>2. Active = {} /\ Recovered = {} /\ \A e : Yes(e) = {} /\ No(e) = {} /\ Owed(e) = {}
    BY <2>1 DEF Active, Recovered, Yes, No, Told, Owed
  <2>3. stats = NoStats
    BY DEF FrontInit
  <2>4. Balanced
    BY <2>2, <2>3, FS_EmptySet DEF Balanced, NoStats
  <2> QED
    BY <2>1, <2>2, <2>3, <2>4, OnceIs, FS_EmptySet DEF CountInv
<1>2. CountInv /\ [FrontNext]_frontVars => CountInv'
  BY CountKept
<1>3. CountInv => CountersBalance
  BY DEF CountInv, Balanced, CountersBalance, Owed, Recovered, Yes, No
<1> QED
  BY <1>1, <1>2, <1>3, PTL DEF FrontSpec

----------------------------------------------------------------------------
(* The catalog outbox.  QueuedIsKept is not inductive: an acknowledge      *)
(* removes a file, which is harmless only because its event has been       *)
(* answered (AckedIsAnswered).  AnsweredStaysGone needs that markAttempt   *)
(* only writes over a file that is still there (BatchOnDisk), which holds  *)
(* because no second drain can acknowledge what the first one is           *)
(* delivering (SingleFlight).                                              *)

(* A drain acknowledges what the Bazaar has answered.                      *)
AckedIsAnswered ==
    \A d \in Drains : \A i \in Ids :
        stage[d] = "ack" /\ Delivering(d, i) => i \in answered

(* What a drain has still to deliver is on disk.                           *)
BatchOnDisk == \A d \in Drains : \A i \in batch[d] : spool[i] # "none"

(* At most one drain has work.                                             *)
SingleFlight ==
    \A d, e \in Drains : batch[d] # {} /\ batch[e] # {} => d = e

(* Only an event that was queued has a file or an answer.                  *)
OnlyQueued ==
    \A i \in Ids : spool[i] # "none" \/ i \in answered => event[i] = "queued"

OutboxInv ==
    /\ TypeOK
    /\ QueuedIsKept
    /\ AckedIsAnswered
    /\ BatchOnDisk
    /\ SingleFlight
    /\ OnlyQueued

USE OutboxAssumption

(* The first event of a drain is unique: Ids are numbers.                  *)
LEMMA DeliversOne ==
    ASSUME TypeOK, NEW d \in Drains, NEW i, NEW j,
           Delivering(d, i), Delivering(d, j)
    PROVE  i = j
<1>1. i \in Nat /\ j \in Nat
  BY DEF TypeOK, Delivering
<1>2. i <= j /\ j <= i
  BY DEF Delivering
<1> QED
  BY <1>1, <1>2

LEMMA OutboxStarts == Init => OutboxInv
BY DEF Init, OutboxInv, TypeOK, QueuedIsKept, AckedIsAnswered, BatchOnDisk,
       SingleFlight, OnlyQueued, Delivering

(* What the end of a delivery, whatever its outcome, does to the drains.   *)
LEMMA NextEventKeeps ==
    ASSUME OutboxInv, NEW d \in Drains, NEW i \in Ids,
           Delivering(d, i), NextEvent(d, i)
    PROVE  /\ batch' \in [Drains -> SUBSET Ids]
           /\ stage' \in [Drains -> {"idle", "mark", "post", "ack"}]
           /\ \A e \in Drains : stage'[e] = "idle" <=> batch'[e] = {}
           /\ \A e \in Drains : stage'[e] = "ack" => e # d /\ stage[e] = "ack" /\ batch'[e] = batch[e]
           /\ \A e \in Drains : batch'[e] \subseteq batch[e] \ {i}
           /\ SingleFlight'
<1>1. batch \in [Drains -> SUBSET Ids] /\ stage \in [Drains -> {"idle", "mark", "post", "ack"}]
  BY DEF OutboxInv, TypeOK
<1>2. \A e \in Drains : e # d => batch[e] = {} /\ batch'[e] = {} /\ stage'[e] = stage[e]
  BY <1>1 DEF OutboxInv, SingleFlight, Delivering, NextEvent
<1>3. /\ batch'[d] = batch[d] \ {i}
      /\ stage'[d] = IF batch[d] = {i} THEN "idle" ELSE "mark"
  BY <1>1 DEF NextEvent
<1>4. /\ batch' \in [Drains -> SUBSET Ids]
      /\ stage' \in [Drains -> {"idle", "mark", "post", "ack"}]
  BY <1>1 DEF NextEvent
<1>5. batch'[d] = {} <=> batch[d] = {i}
  BY <1>3 DEF Delivering
<1>6. \A e \in Drains : stage'[e] = "idle" <=> batch'[e] = {}
  <2> TAKE e \in Drains
  <2>1. CASE e = d
    BY <2>1, <1>3, <1>5
  <2>2. CASE e # d
    BY <2>2, <1>2 DEF OutboxInv, TypeOK
  <2> QED
    BY <2>1, <2>2
<1>7. \A e \in Drains : stage'[e] = "ack" => e # d /\ stage[e] = "ack" /\ batch'[e] = batch[e]
  BY <1>2, <1>3
<1>8. \A e \in Drains : batch'[e] \subseteq batch[e] \ {i}
  BY <1>2, <1>3
<1>9. SingleFlight'
  BY <1>2 DEF SingleFlight
<1> QED
  BY <1>4, <1>6, <1>7, <1>8, <1>9

LEMMA StepKeeps == OutboxInv /\ [Next]_vars => OutboxInv'
<1> SUFFICES ASSUME OutboxInv, [Next]_vars PROVE OutboxInv'
  OBVIOUS
<1> USE DEF OutboxInv
<1>1. ASSUME NEW i \in Ids, WriteTemporary(i) PROVE OutboxInv'
  BY <1>1 DEF WriteTemporary, TypeOK, QueuedIsKept, AckedIsAnswered, BatchOnDisk,
              SingleFlight, OnlyQueued, Delivering
<1>2. ASSUME NEW i \in Ids, EnqueueFails(i) PROVE OutboxInv'
  BY <1>2 DEF EnqueueFails, TypeOK, QueuedIsKept, AckedIsAnswered, BatchOnDisk,
              SingleFlight, OnlyQueued, Delivering
<1>3. ASSUME NEW i \in Ids, Rename(i) PROVE OutboxInv'
  BY <1>3 DEF Rename, TypeOK, QueuedIsKept, AckedIsAnswered, BatchOnDisk,
              SingleFlight, OnlyQueued, Delivering
<1>4. ASSUME NEW i \in Ids, Damage(i) PROVE OutboxInv'
  BY <1>4 DEF Damage, TypeOK, QueuedIsKept, AckedIsAnswered, BatchOnDisk,
              SingleFlight, OnlyQueued, Delivering
<1>5. ASSUME NEW d \in Drains, DrainStart(d) PROVE OutboxInv'
  <2>1. /\ \A e \in Drains : batch[e] = {}
        /\ Listed # {} /\ Listed \subseteq Ids
        /\ \A i \in Listed : spool[i] # "none"
    BY <1>5 DEF DrainStart, MayDrain, TypeOK, Listed, FirstOf, Files
  <2>2. /\ batch' = [batch EXCEPT ![d] = Listed]
        /\ stage' = [stage EXCEPT ![d] = "mark"]
        /\ UNCHANGED <<event, spool, answered, crashes, damaged>>
    BY <1>5 DEF DrainStart
  <2>3. TypeOK'
    BY <2>1, <2>2 DEF TypeOK
  <2>4. \A e \in Drains : stage'[e] # "ack"
    BY <1>5, <2>2 DEF DrainStart, MayDrain, TypeOK
  <2>5. AckedIsAnswered'
    BY <2>4 DEF AckedIsAnswered
  <2>6. BatchOnDisk' /\ SingleFlight'
    BY <2>1, <2>2 DEF BatchOnDisk, SingleFlight, TypeOK
  <2>7. QueuedIsKept' /\ OnlyQueued'
    BY <2>2 DEF QueuedIsKept, OnlyQueued
  <2> QED
    BY <2>3, <2>5, <2>6, <2>7
<1>6. ASSUME NEW d \in Drains, NEW i \in Ids, Mark(d, i) PROVE OutboxInv'
  <2>1. spool[i] # "none"
    BY <1>6 DEF Mark, Delivering, BatchOnDisk
  <2>2. TypeOK'
    BY <1>6 DEF Mark, TypeOK
  <2>3. AckedIsAnswered'
    BY <1>6 DEF Mark, AckedIsAnswered, Delivering, TypeOK
  <2>4. QueuedIsKept' /\ BatchOnDisk' /\ SingleFlight' /\ OnlyQueued'
    BY <1>6, <2>1 DEF Mark, TypeOK, QueuedIsKept, BatchOnDisk, SingleFlight, OnlyQueued
  <2> QED
    BY <2>2, <2>3, <2>4
<1>7. ASSUME NEW d \in Drains, NEW i \in Ids, PostAnswered(d, i) PROVE OutboxInv'
  <2>1. event[i] = "queued"
    BY <1>7 DEF PostAnswered, Delivering, BatchOnDisk, OnlyQueued
  <2>2. TypeOK'
    BY <1>7 DEF PostAnswered, TypeOK
  <2>3. \A e \in Drains : \A j \in Ids :
            stage'[e] = "ack" /\ Delivering(e, j) => j \in answered'
    <3> SUFFICES ASSUME NEW e \in Drains, NEW j \in Ids,
                        stage'[e] = "ack", Delivering(e, j)
                 PROVE  j \in answered'
      OBVIOUS
    <3>1. CASE e = d
      BY <3>1, <1>7, DeliversOne DEF PostAnswered
    <3>2. CASE e # d
      BY <3>2, <1>7 DEF PostAnswered, AckedIsAnswered, TypeOK
    <3> QED
      BY <3>1, <3>2
  <2>4. AckedIsAnswered'
    BY <2>3, <1>7 DEF AckedIsAnswered, Delivering, PostAnswered
  <2>5. QueuedIsKept' /\ BatchOnDisk' /\ SingleFlight' /\ OnlyQueued'
    BY <1>7, <2>1 DEF PostAnswered, QueuedIsKept, BatchOnDisk, SingleFlight, OnlyQueued
  <2> QED
    BY <2>2, <2>4, <2>5
<1>8. ASSUME NEW d \in Drains, NEW i \in Ids,
             MarkFails(d, i) \/ PostFails(d, i) \/ AcknowledgeFails(d, i)
      PROVE  OutboxInv'
  <2>1. Delivering(d, i) /\ NextEvent(d, i)
    BY <1>8 DEF MarkFails, PostFails, AcknowledgeFails
  <2>2. UNCHANGED <<event, spool, answered, crashes, damaged>>
    BY <1>8 DEF MarkFails, PostFails, AcknowledgeFails
  <2>3. TypeOK'
    BY <2>1, <2>2, NextEventKeeps DEF TypeOK
  <2>4. AckedIsAnswered'
    BY <2>1, <2>2, NextEventKeeps DEF AckedIsAnswered, Delivering
  <2>5. SingleFlight' /\ BatchOnDisk'
    BY <2>1, <2>2, NextEventKeeps DEF BatchOnDisk
  <2>6. QueuedIsKept' /\ OnlyQueued'
    BY <2>2 DEF QueuedIsKept, OnlyQueued
  <2> QED
    BY <2>3, <2>4, <2>5, <2>6
<1>9. ASSUME NEW d \in Drains, NEW i \in Ids, Acknowledge(d, i) PROVE OutboxInv'
  <2>1. Delivering(d, i) /\ NextEvent(d, i)
    BY <1>9 DEF Acknowledge
  <2>2. /\ spool' = [spool EXCEPT ![i] = "none"]
        /\ damaged' = damaged \ {i}
        /\ UNCHANGED <<event, answered, crashes>>
    BY <1>9 DEF Acknowledge
  <2>3. i \in answered
    BY <1>9 DEF Acknowledge, AckedIsAnswered
  <2>4. TypeOK'
    BY <2>1, <2>2, NextEventKeeps DEF TypeOK
  <2>5. AckedIsAnswered'
    BY <2>1, <2>2, NextEventKeeps DEF AckedIsAnswered, Delivering
  <2>6. SingleFlight'
    BY <2>1, NextEventKeeps
  <2>7. BatchOnDisk'
    <3> SUFFICES ASSUME NEW e \in Drains, NEW j \in batch'[e] PROVE spool'[j] # "none"
      BY DEF BatchOnDisk
    <3>1. j \in batch[e] /\ j # i
      BY <2>1, NextEventKeeps
    <3>2. spool[j] # "none"
      BY <3>1 DEF BatchOnDisk
    <3>3. spool'[j] = spool[j]
      BY <3>1, <2>2 DEF TypeOK
    <3> QED
      BY <3>2, <3>3
  <2>8. QueuedIsKept' /\ OnlyQueued'
    BY <2>2, <2>3 DEF QueuedIsKept, OnlyQueued, TypeOK
  <2> QED
    BY <2>4, <2>5, <2>6, <2>7, <2>8
<1>10. CASE Crash
  <2>1. /\ event' = [j \in Ids |-> IF event[j] = "writing" THEN "lost" ELSE event[j]]
        /\ batch' = [e \in Drains |-> {}]
        /\ stage' = [e \in Drains |-> "idle"]
        /\ UNCHANGED <<spool, answered, damaged>>
        /\ crashes' = crashes + 1
    BY <1>10 DEF Crash
  <2>2. TypeOK'
    BY <2>1 DEF TypeOK
  <2>3. QueuedIsKept' /\ OnlyQueued'
    BY <2>1 DEF QueuedIsKept, OnlyQueued
  <2>4. AckedIsAnswered' /\ BatchOnDisk' /\ SingleFlight'
    BY <2>1 DEF AckedIsAnswered, BatchOnDisk, SingleFlight
  <2> QED
    BY <2>2, <2>3, <2>4
<1>11. CASE UNCHANGED vars
  BY <1>11 DEF vars, TypeOK, QueuedIsKept, AckedIsAnswered, BatchOnDisk,
               SingleFlight, OnlyQueued, Delivering
<1> QED
  BY <1>1, <1>2, <1>3, <1>4, <1>5, <1>6, <1>7, <1>8, <1>9, <1>10, <1>11
  DEF Next, Deliver

LEMMA OutboxInvariance == Spec => []OutboxInv
BY OutboxStarts, StepKeeps, PTL DEF Spec

(* Every variable keeps its type, and a drain that has delivered its last  *)
(* event, or died, is idle.                                                *)
THEOREM OutboxTypeCorrect == Spec => []TypeOK
BY OutboxInvariance, PTL DEF OutboxInv

(* An event reported as queued is on disk until the Bazaar answered it.    *)
THEOREM QueuedKept == Spec => []QueuedIsKept
BY OutboxInvariance, PTL DEF OutboxInv

(* An answered event whose file was removed never comes back: a new file   *)
(* comes from an enqueue, whose event is not answered yet, or from an      *)
(* attempt marker, which finds its file on disk.                           *)
THEOREM AnsweredGone == Spec => AnsweredStaysGone
<1>1. ASSUME OutboxInv, [Next]_vars
      PROVE  [\A i \in answered : spool[i] = "none" => spool'[i] = "none"]_vars
  <2> SUFFICES ASSUME Next, NEW i \in answered, spool[i] = "none"
               PROVE  spool'[i] = "none"
    BY <1>1
  <2> i \in Ids /\ event[i] = "queued"
    BY <1>1 DEF OutboxInv, TypeOK, OnlyQueued
  <2>1. \A j \in Ids : WriteTemporary(j) \/ EnqueueFails(j) \/ Rename(j) \/ Damage(j)
            => spool'[i] = "none"
    BY <1>1 DEF OutboxInv, TypeOK, WriteTemporary, EnqueueFails, Rename, Damage
  <2>2. \A d \in Drains : \A j \in Ids : Mark(d, j) => spool'[i] = "none"
    BY <1>1 DEF OutboxInv, TypeOK, BatchOnDisk, Mark, Delivering
  <2>3. \A d \in Drains : \A j \in Ids : Acknowledge(d, j) => spool'[i] = "none"
    BY <1>1 DEF OutboxInv, TypeOK, Acknowledge
  <2>4. \A d \in Drains : \A j \in Ids :
            MarkFails(d, j) \/ PostAnswered(d, j) \/ PostFails(d, j) \/ AcknowledgeFails(d, j)
            => spool'[i] = "none"
    BY DEF MarkFails, PostAnswered, PostFails, AcknowledgeFails
  <2>5. (\E d \in Drains : DrainStart(d)) \/ Crash => spool'[i] = "none"
    BY DEF DrainStart, Crash
  <2> QED
    BY <2>1, <2>2, <2>3, <2>4, <2>5 DEF Next, Deliver
<1> QED
  BY <1>1, OutboxInvariance, PTL DEF Spec, AnsweredStaysGone
=============================================================================
