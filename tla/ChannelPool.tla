---------------------------- MODULE ChannelPool ----------------------------
(***************************************************************************)
(* The legacy channel pool (facilitator-service/src/channel/pool.ts) and   *)
(* the settler that is its only client (stellar/settler.ts behind POST     *)
(* /legacy/settle): channel accounts are handed to settlements one at a    *)
(* time, cool down after use, and are refilled by a background monitor.    *)
(*                                                                         *)
(* Everything between two awaits is one action.  Whether a settlement was  *)
(* refused, failed or went through is not told apart.  The keypair, the    *)
(* balance and the transactionCount of a channel are left out, and of its  *)
(* lastUsedAt all but when a cooldown is over: a channel whose cooldown    *)
(* timer runs is "armed", one in COOLDOWN that is not armed has cooled.    *)
(* The least recently used channel is any available one.  A timer is taken *)
(* not to run before Date.now() says that its time is over.                *)
(***************************************************************************)
EXTENDS Naturals, Sequences

CONSTANTS
    Channels,       \* public keys of the channel accounts
    Requests,       \* POST /legacy/settle requests
    Transaction,    \* [Requests -> Transactions]: what each request carries
    ExpectedAmount, \* X-Expected-Amount
    NoChannel       \* "undefined": the settler holds no channel

(* The verdicts that StellarTransactionVerifier.verify tells apart.        *)
Transactions ==
    [network : {"ours", "other"}, operation : {"none", "payment", "soroban", "other"},
     toFacilitator : BOOLEAN, native : BOOLEAN, amount : Nat, feeTooHigh : BOOLEAN,
     signed : BOOLEAN, simulates : BOOLEAN]

ASSUME ChannelAssumption ==
    /\ NoChannel \notin Channels
    /\ Transaction \in [Requests -> Transactions]
    /\ ExpectedAmount \in Nat

VARIABLES
    channel,          \* state of each ChannelAccount, "absent" outside the map
    isInitialized,
    acquisitionQueue,
    armed,            \* channels whose cooldown timer is still running
    timers,           \* cooldown timers that are due and have not run yet
    immediates,       \* setImmediate(processQueue) not run yet
    legacy,           \* where each POST /legacy/settle stands
    held              \* the ChannelAcquisition each of them holds

poolVars == <<channel, isInitialized, acquisitionQueue, armed, timers,
              immediates, legacy, held>>

ChannelStates == {"absent", "AVAILABLE", "IN_USE", "COOLDOWN", "ERROR"}
Answers == {"answered", "lost"}
LegacyStates == {"new", "verified", "waiting", "holding", "resyncing"} \cup Answers

Without(queue, i) ==
    [j \in 1..(Len(queue) - 1) |-> IF j < i THEN queue[j] ELSE queue[j + 1]]

PoolInit ==
    /\ channel = [c \in Channels |-> "absent"]
    /\ isInitialized = FALSE
    /\ acquisitionQueue = <<>>
    /\ armed = {} /\ timers = 0 /\ immediates = 0
    /\ legacy = [r \in Requests |-> "new"]
    /\ held = [r \in Requests |-> NoChannel]

----------------------------------------------------------------------------
(* The helpers of pool.ts, as functions of the channel states.             *)

Available(channels) == {c \in Channels : channels[c] = "AVAILABLE"}

(* processCooldowns, with cooldown timers running for the given channels.  *)
Cooled(channels, running) ==
    [c \in Channels |->
        IF channels[c] = "COOLDOWN" /\ c \notin running
            THEN "AVAILABLE" ELSE channels[c]]

(* processQueue: the head of the queue gets an available channel, and a    *)
(* further run is scheduled while others wait.  With none available the    *)
(* cooldowns are processed, but the waiter is left for a later run.        *)
(* `pending` immediates are still to run besides the one scheduled here.   *)
ProcessQueue(channels, running, calls, holds, pending) ==
    IF acquisitionQueue # <<>> /\ Available(channels) # {}
    THEN LET r == Head(acquisitionQueue) IN
         /\ \E c \in Available(channels) :
             /\ channel' = [channels EXCEPT ![c] = "IN_USE"]
             /\ held' = [holds EXCEPT ![r] = c]
         /\ legacy' = [calls EXCEPT ![r] = "holding"]
         /\ acquisitionQueue' = Tail(acquisitionQueue)
         /\ immediates' = IF Len(acquisitionQueue) > 1 THEN pending + 1 ELSE pending
    ELSE /\ channel' = IF acquisitionQueue = <<>> THEN channels ELSE Cooled(channels, running)
         /\ legacy' = calls /\ held' = holds /\ immediates' = pending
         /\ UNCHANGED acquisitionQueue

(* initializeChannel: the account was found, or created and funded.        *)
InitializeChannel(c) ==
    /\ channel[c] = "absent"
    /\ channel' = [channel EXCEPT ![c] = "AVAILABLE"]
    /\ UNCHANGED <<isInitialized, acquisitionQueue, armed, timers, immediates, legacy, held>>

----------------------------------------------------------------------------
(* POST /legacy/settle.                                                    *)

(* validateStructure, validatePayment, validateSignatures, and the         *)
(* simulation of a Soroban call; a payment has to be native XLM, to the    *)
(* facilitator, of the expected amount or more.                            *)
StructureOk(t) == t.operation # "none" /\ ~t.feeTooHigh

PaymentOk(t) ==
    \/ t.operation = "soroban"
    \/ /\ t.operation = "payment"
       /\ t.toFacilitator /\ t.native /\ t.amount >= ExpectedAmount

(* A simulation that cannot be run is only logged, and the call passes.    *)
SimulationOk(t, rpcReachable) == t.operation = "soroban" /\ rpcReachable => t.simulates

VerifyResult(t, rpcReachable) ==
    /\ t.network = "ours"
    /\ StructureOk(t) /\ PaymentOk(t) /\ t.signed
    /\ SimulationOk(t, rpcReachable)

Verify(r) ==
    /\ legacy[r] = "new"
    /\ \E rpcReachable \in BOOLEAN :
        legacy' = [legacy EXCEPT ![r] =
            IF VerifyResult(Transaction[r], rpcReachable) THEN "verified" ELSE "answered"]
    /\ UNCHANGED <<channel, isInitialized, acquisitionQueue, armed, timers, immediates, held>>

(* acquire: throws before initialize and after shutdown; takes a channel   *)
(* that is available; otherwise processes the cooldowns and queues, even   *)
(* if that made a channel available.                                       *)
AcquireThrows(r) ==
    /\ legacy[r] = "verified"
    /\ ~isInitialized
    /\ legacy' = [legacy EXCEPT ![r] = "answered"]
    /\ UNCHANGED <<channel, isInitialized, acquisitionQueue, armed, timers, immediates, held>>

AcquireNow(r) ==
    /\ legacy[r] = "verified"
    /\ isInitialized
    /\ \E c \in Available(channel) :
        /\ channel' = [channel EXCEPT ![c] = "IN_USE"]
        /\ held' = [held EXCEPT ![r] = c]
    /\ legacy' = [legacy EXCEPT ![r] = "holding"]
    /\ UNCHANGED <<isInitialized, acquisitionQueue, armed, timers, immediates>>

AcquireLater(r) ==
    /\ legacy[r] = "verified"
    /\ isInitialized
    /\ Available(channel) = {}
    /\ channel' = Cooled(channel, armed)
    /\ acquisitionQueue' = Append(acquisitionQueue, r)
    /\ legacy' = [legacy EXCEPT ![r] = "waiting"]
    /\ UNCHANGED <<isInitialized, armed, timers, immediates, held>>

(* "Channel acquisition timeout (30s)".                                    *)
AcquireTimesOut(r) ==
    /\ legacy[r] = "waiting"
    /\ \E i \in 1..Len(acquisitionQueue) :
        /\ acquisitionQueue[i] = r
        /\ acquisitionQueue' = Without(acquisitionQueue, i)
    /\ legacy' = [legacy EXCEPT ![r] = "answered"]
    /\ UNCHANGED <<channel, isInitialized, armed, timers, immediates, held>>

(* releaseChannel: a channel that is no longer IN_USE (the monitor put it  *)
(* in ERROR meanwhile) stays as it is, and the queue is not looked at.     *)
ReleaseChannel(r, channels) ==
    LET c     == held[r]
        calls == [legacy EXCEPT ![r] = "answered"]
        holds == [held EXCEPT ![r] = NoChannel]
    IN  IF channels[c] = "IN_USE"
        THEN /\ armed' = armed \cup {c}
             /\ ProcessQueue([channels EXCEPT ![c] = "COOLDOWN"], armed', calls, holds, immediates)
        ELSE /\ channel' = channels /\ legacy' = calls /\ held' = holds
             /\ UNCHANGED <<armed, acquisitionQueue, immediates>>

(* submitTransaction answers, the finally block releases the channel.      *)
SubmitEnds(r) ==
    /\ legacy[r] = "holding"
    /\ ReleaseChannel(r, channel)
    /\ UNCHANGED <<isInitialized, timers>>

(* tx_bad_seq: resyncSequence first; if that fails the channel is lost.    *)
SubmitBadSequence(r) ==
    /\ legacy[r] = "holding"
    /\ legacy' = [legacy EXCEPT ![r] = "resyncing"]
    /\ UNCHANGED <<channel, isInitialized, acquisitionQueue, armed, timers, immediates, held>>

ResyncEnds(r, loaded) ==
    /\ legacy[r] = "resyncing"
    /\ ReleaseChannel(r, IF loaded THEN channel
                         ELSE [channel EXCEPT ![held[r]] = "ERROR"])
    /\ UNCHANGED <<isInitialized, timers>>

----------------------------------------------------------------------------
(* Timers.                                                                 *)

(* cooldownMs have passed since the release: the timer is due.             *)
CooldownElapses(c) ==
    /\ c \in armed
    /\ armed' = armed \ {c}
    /\ timers' = timers + 1
    /\ UNCHANGED <<channel, isInitialized, acquisitionQueue, immediates, legacy, held>>

(* Mutant of TimerRuns: the queue is left for the next release.            *)
TimerOnlyCools ==
    /\ timers > 0
    /\ timers' = timers - 1
    /\ channel' = Cooled(channel, armed)
    /\ UNCHANGED <<isInitialized, acquisitionQueue, armed, immediates, legacy, held>>

(* A due timer runs: processCooldowns (every channel, not only its own),   *)
(* then processQueue.                                                      *)
TimerRuns ==
    /\ timers > 0
    /\ timers' = timers - 1
    /\ ProcessQueue(Cooled(channel, armed), armed, legacy, held, immediates)
    /\ UNCHANGED <<isInitialized, armed>>

(* A setImmediate of processQueue runs; it may schedule the next one.      *)
ImmediateRuns ==
    /\ immediates > 0
    /\ ProcessQueue(channel, armed, legacy, held, immediates - 1)
    /\ UNCHANGED <<isInitialized, armed, timers>>

(* Mutant of RefillFails: a refill that succeeds brings the channel back.  *)
RefillRestores(c) ==
    /\ channel[c] # "absent"
    /\ channel' = [channel EXCEPT ![c] = "AVAILABLE"]
    /\ UNCHANGED <<isInitialized, acquisitionQueue, armed, timers, immediates, legacy, held>>

(* monitorBalances finds a channel, in whatever state, below the threshold *)
(* and the refill fails (no funds, Horizon down, a sequence number that an *)
(* overlapping pass used): the channel is in ERROR, whoever holds it.  A   *)
(* refill that succeeds changes no state.                                  *)
RefillFails(c) ==
    /\ channel[c] # "absent"
    /\ channel' = [channel EXCEPT ![c] = "ERROR"]
    /\ UNCHANGED <<isInitialized, acquisitionQueue, armed, timers, immediates, legacy, held>>

(* shutdown: every queued request is rejected.                             *)
Shutdown ==
    /\ isInitialized' = FALSE
    /\ acquisitionQueue' = <<>>
    /\ legacy' = [r \in Requests |-> IF legacy[r] = "waiting" THEN "answered" ELSE legacy[r]]
    /\ UNCHANGED <<channel, armed, timers, immediates, held>>

LegacyStep(r) ==
    \/ Verify(r)
    \/ AcquireThrows(r) \/ AcquireNow(r) \/ AcquireLater(r) \/ AcquireTimesOut(r)
    \/ SubmitEnds(r)
    \/ SubmitBadSequence(r)
    \/ \E loaded \in BOOLEAN : ResyncEnds(r, loaded)

PoolStep ==
    \/ \E c \in Channels :
        \/ CooldownElapses(c)
        \/ RefillFails(c)
    \/ TimerRuns
    \/ ImmediateRuns

----------------------------------------------------------------------------
(* No two settlements hold one channel, and a channel in use is in use for *)
(* one of them: releases, timers, failed refills and resyncs neither hand  *)
(* a channel out twice nor leak one (channel/pool.ts, markAsInUse).        *)
ChannelExclusive ==
    /\ \A q, r \in Requests : q # r /\ held[q] # NoChannel => held[q] # held[r]
    /\ \A c \in Channels : channel[c] = "IN_USE" => \E r \in Requests : held[r] = c
    /\ \A r \in Requests : held[r] # NoChannel => channel[held[r]] \in {"IN_USE", "ERROR"}

(* No stranded waiter: with a channel available and a request queued, a    *)
(* run of processQueue is on its way, although acquire may free a channel  *)
(* and queue the caller all the same, and each run serves one waiter.      *)
NoStrandedWaiter ==
    acquisitionQueue # <<>> /\ Available(channel) # {} => timers + immediates > 0
=============================================================================
