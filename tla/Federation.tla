----------------------------- MODULE Federation -----------------------------
(***************************************************************************)
(* Bazaar federation: signed heartbeats of several announcers reach one    *)
(* Bazaar over GossipSub, which loses, reorders and repeats them, and      *)
(* become the liveness telemetry that decides what search shows            *)
(* (bazaar-service/src/p2p/node.ts, p2p/announcer.ts, telemetry/tracker.ts,*)
(* telemetry/circuit-breaker.ts and the code of server.ts that joins them).*)
(*                                                                         *)
(* Time is counted in ticks of the Bazaar's clock; every other clock is a  *)
(* fixed number of ticks ahead.  The replay cache and the highest sequence *)
(* of a node live in memory, the audit log and the telemetry in            *)
(* PostgreSQL.  A heartbeat is handled in a transaction that waits between *)
(* its count and its commit while others run, at READ COMMITTED.           *)
(*                                                                         *)
(* Messages that fail the peer list, the schema or the signature change    *)
(* nothing but counters and are left out, as are response times.           *)
(***************************************************************************)
EXTENDS Integers, Sequences, FiniteSets

CONSTANTS
    Announcers,          \* nodeId of every announcer
    AnnouncedResources,  \* [Announcers -> Seq(Resources)]
    Resources,
    Authorized,          \* <<announcer, resource>>: isHeartbeatAuthorized
    Ahead,               \* [Announcers -> Nat]: how far each clock is ahead
    HeartbeatInterval,   \* HEARTBEAT_INTERVAL_MS
    MaxMissed,           \* MAX_MISSED_HEARTBEATS
    SettlementWindow,    \* SETTLEMENT_LIVENESS_WINDOW_MS
    SettlementGrace,     \* how many of them until OFFLINE (7)
    MaxClockSkew,        \* MAX_CLOCK_SKEW_MS
    CacheTtl,            \* MESSAGE_CACHE_TTL_MS
    UptimeWindow,        \* the 30 days uptime is counted over
    PerTick,             \* announcements an announcer signs in a tick, at most
    MaxTime, MaxRounds, MaxRestarts, MaxSettlements,   \* bounds
    None

(* Rows of resource_telemetry.                                             *)
Rows == [nodeId : Announcers \cup {None}, lastHeartbeatAt : Nat, heartbeatSequence : Nat,
         uptime : Int, status : {"HEALTHY", "DEGRADED", "OFFLINE"},
         lastSettlementAt : Nat \cup {None}]

ASSUME FederationAssumption ==
    /\ AnnouncedResources \in [Announcers -> Seq(Resources)]
    /\ Authorized \subseteq Announcers \X Resources
    /\ Ahead \in [Announcers -> Nat]
    /\ {HeartbeatInterval, MaxMissed, SettlementWindow, SettlementGrace, PerTick}
           \subseteq Nat \ {0}
    /\ {MaxClockSkew, CacheTtl, UptimeWindow} \subseteq Nat
    /\ {MaxTime, MaxRounds, MaxRestarts, MaxSettlements} \subseteq Nat
    /\ None \notin Nat /\ None \notin Announcers /\ None \notin Rows

AnnounceMessages ==
    [nodeId : Announcers, resource : Resources, timestamp : Nat, sequence : Nat]

VARIABLES
    now,
    sequenceCounter,     \* of each Announcer
    published,           \* messages GossipSub may deliver at any time, again too
    node,                \* "down", "joined" (no message handler yet) or "serving"
    seenMessages,        \* [message hash -> when it was seen], as a set of records
    highestSequence,     \* highestSequenceByNode
    transactions,        \* calls of processHeartbeat
    catalogued,          \* resources with a row in catalog_resources
    nodeHeartbeats,      \* the audit log: the messages it has a row of
    telemetry,           \* resource_telemetry
    rounds, restarts, settlements,
    \* History, read by the properties only:
    handled,             \* messages of each node handed to the handler, in
                         \* order, since the Bazaar started
    heardAt, settledAt   \* when a heartbeat or a settlement was last recorded

gossip == <<sequenceCounter, published, rounds>>
memory == <<node, seenMessages, highestSequence, handled>>
database == <<catalogued, nodeHeartbeats, telemetry, settlements, heardAt, settledAt>>
vars == <<now, gossip, memory, transactions, database, restarts>>

Clock(n) == now + Ahead[n]
Never(time) == time = None
Since(time, window) == ~Never(time) /\ time >= now - window

Init ==
    /\ now = 0
    /\ sequenceCounter = [n \in Announcers |-> PerTick * Clock(n)]
    /\ published = {} /\ rounds = 0 /\ restarts = 0
    /\ node = "down" /\ seenMessages = {} /\ transactions = {}
    /\ highestSequence = [n \in Announcers |-> None]
    /\ catalogued \in SUBSET Resources
    /\ nodeHeartbeats = {} /\ telemetry = [r \in Resources |-> None]
    /\ settlements = 0
    /\ handled = [n \in Announcers |-> <<>>]
    /\ heardAt = [r \in Resources |-> None]
    /\ settledAt = [r \in Resources |-> None]

Tick ==
    /\ now < MaxTime
    /\ now' = now + 1
    /\ UNCHANGED <<gossip, memory, transactions, database, restarts>>

----------------------------------------------------------------------------
(* The announcers.                                                         *)

(* createAnnouncement for the i-th resource of the round.                  *)
Announcement(n, i) ==
    [nodeId |-> n, resource |-> AnnouncedResources[n][i],
     timestamp |-> Clock(n), sequence |-> sequenceCounter[n] + i - 1]

IsHeartbeatAuthorized(m) == <<m.nodeId, m.resource>> \in Authorized

(* publishAnnouncement throws for what its own node is not authorised for. *)
Publish(messages) ==
    /\ \A m \in messages : IsHeartbeatAuthorized(m)
    /\ published' = published \cup messages

(* publishHeartbeats: one announcement per resource, in order.  A round    *)
(* ends at the first publication that throws, whose number is used up.     *)
PublishHeartbeats(n) ==
    /\ rounds < MaxRounds
    /\ sequenceCounter[n] + Len(AnnouncedResources[n]) <= PerTick * (Clock(n) + 1)
    /\ rounds' = rounds + 1
    /\ \E sent \in 0..Len(AnnouncedResources[n]) :
        LET signed == IF sent < Len(AnnouncedResources[n]) THEN sent + 1 ELSE sent IN
        /\ Publish({Announcement(n, i) : i \in 1..sent})
        /\ sequenceCounter' = [sequenceCounter EXCEPT ![n] = @ + signed]
    /\ UNCHANGED <<now, memory, transactions, database, restarts>>

(* Mutant of FirstSequence: an announcer starts counting from zero.        *)
FirstSequenceZero(n) == 0
FirstSequence(n) == PerTick * Clock(n)

(* A new Announcer, with a counter that starts at its clock.  It comes up  *)
(* in a later tick than its predecessor last announced in.                 *)
RestartAnnouncer(n) ==
    /\ restarts < MaxRestarts /\ sequenceCounter[n] <= PerTick * Clock(n)
    /\ restarts' = restarts + 1
    /\ sequenceCounter' = [sequenceCounter EXCEPT ![n] = FirstSequence(n)]
    /\ UNCHANGED <<now, published, rounds, memory, transactions, database>>

----------------------------------------------------------------------------
(* The Bazaar's P2P node.                                                  *)

(* P2PNode.start: subscribed and dialling, but onMessage is not yet set.   *)
Join ==
    /\ node = "down"
    /\ node' = "joined"
    /\ UNCHANGED <<now, gossip, seenMessages, highestSequence, handled,
                   transactions, database, restarts>>

OnMessage ==
    /\ node = "joined"
    /\ node' = "serving"
    /\ UNCHANGED <<now, gossip, seenMessages, highestSequence, handled,
                   transactions, database, restarts>>

(* The process stops or dies: PostgreSQL rolls back what was running, and  *)
(* everything kept in memory is gone.                                      *)
Stop ==
    /\ node # "down" /\ restarts < MaxRestarts
    /\ node' = "down" /\ restarts' = restarts + 1
    /\ seenMessages' = {} /\ transactions' = {}
    /\ highestSequence' = [n \in Announcers |-> None]
    /\ handled' = [n \in Announcers |-> <<>>]
    /\ UNCHANGED <<now, gossip, database>>

(* Mutant of IsFresh: only a message that is too old is refused.           *)
IsFreshOrFuture(m) == now - m.timestamp <= MaxClockSkew

IsFresh(m) ==
    /\ now - m.timestamp <= MaxClockSkew
    /\ m.timestamp - now <= MaxClockSkew

(* Mutant of IsDuplicate: only the cache of recent messages is asked.      *)
IsDuplicateCached(m) ==
    \E s \in seenMessages : s.nodeId = m.nodeId /\ s.sequence = m.sequence

IsDuplicate(m) ==
    \/ \E s \in seenMessages : s.nodeId = m.nodeId /\ s.sequence = m.sequence
    \/ /\ highestSequence[m.nodeId] # None
       /\ m.sequence <= highestSequence[m.nodeId]

MarkAsSeen(m) ==
    /\ seenMessages' = seenMessages \cup
           {[nodeId |-> m.nodeId, sequence |-> m.sequence, at |-> now]}
    /\ highestSequence' = [highestSequence EXCEPT ![m.nodeId] = m.sequence]

(* handleIncomingMessage: marked as seen whether or not there is a handler *)
(* and whatever becomes of its transaction.  A refused message changes     *)
(* nothing.                                                                *)
HandleIncomingMessage(m) ==
    /\ node # "down"
    /\ IsFresh(m) /\ IsHeartbeatAuthorized(m) /\ ~IsDuplicate(m)
    /\ MarkAsSeen(m)
    /\ IF node = "serving"
       THEN /\ handled' = [handled EXCEPT ![m.nodeId] = Append(@, m)]
            /\ transactions' = transactions \cup {[message |-> m, pings |-> None]}
       ELSE UNCHANGED <<handled, transactions>>
    /\ UNCHANGED <<now, gossip, node, database, restarts>>

(* The cleanup interval.                                                   *)
CleanSeenMessages ==
    /\ \E s \in seenMessages : now - s.at > CacheTtl
    /\ seenMessages' = {s \in seenMessages : now - s.at <= CacheTtl}
    /\ UNCHANGED <<now, gossip, node, highestSequence, handled, transactions,
                   database, restarts>>

----------------------------------------------------------------------------
(* TelemetryTracker.processHeartbeat.                                      *)

(* INSERT INTO node_heartbeats ... ON CONFLICT (node_id, sequence) DO      *)
(* NOTHING: the rows there are with this one.                              *)
Recorded(m) ==
    IF \E h \in nodeHeartbeats : h.nodeId = m.nodeId /\ h.sequence = m.sequence
    THEN nodeHeartbeats
    ELSE nodeHeartbeats \cup {m}

ExpectedPings == UptimeWindow \div HeartbeatInterval

(* calculateUptimeRatio, as the number of ExpectedPings it counts for.     *)
UptimeRatio(pings) == IF pings > ExpectedPings THEN ExpectedPings ELSE pings

(* The resource is not in the catalogue: rolled back, nothing recorded.    *)
SkipHeartbeat(t) ==
    /\ t.pings = None /\ t.message.resource \notin catalogued
    /\ transactions' = transactions \ {t}
    /\ UNCHANGED <<now, gossip, memory, database, restarts>>

(* The audit row and the count of the last 30 days, before the commit.     *)
CountPings(t) ==
    /\ t.pings = None /\ t.message.resource \in catalogued
    /\ LET pings == Cardinality({h \in Recorded(t.message) :
                        /\ h.resource = t.message.resource
                        /\ h.timestamp >= now - UptimeWindow})
       IN  transactions' = (transactions \ {t}) \cup {[t EXCEPT !.pings = pings]}
    /\ UNCHANGED <<now, gossip, memory, database, restarts>>

(* Mutant of NextSequence: the telemetry takes the sequence as it comes.   *)
NextSequenceAsSent(r, sequence) == sequence

(* GREATEST(resource_telemetry.heartbeat_sequence, EXCLUDED...).           *)
NextSequence(r, sequence) ==
    IF telemetry[r] # None /\ telemetry[r].heartbeatSequence > sequence
    THEN telemetry[r].heartbeatSequence ELSE sequence

(* The upsert of resource_telemetry and COMMIT.                            *)
CommitHeartbeat(t) ==
    LET m == t.message
        r == m.resource
    IN
    /\ t.pings # None
    /\ nodeHeartbeats' = Recorded(m)
    /\ telemetry' = [telemetry EXCEPT ![r] =
           [nodeId |-> m.nodeId, lastHeartbeatAt |-> m.timestamp,
            heartbeatSequence |-> NextSequence(r, m.sequence),
            uptime |-> UptimeRatio(t.pings), status |-> "HEALTHY",
            lastSettlementAt |-> IF telemetry[r] = None THEN None
                                 ELSE telemetry[r].lastSettlementAt]]
    /\ heardAt' = [heardAt EXCEPT ![r] = now]
    /\ transactions' = transactions \ {t}
    /\ UNCHANGED <<now, gossip, memory, catalogued, settlements, settledAt, restarts>>

(* Any of its queries fails: rolled back, and the handler only logs.       *)
FailHeartbeat(t) ==
    /\ transactions' = transactions \ {t}
    /\ UNCHANGED <<now, gossip, memory, database, restarts>>

(* ingest lists the resource and records its settlement; a new telemetry   *)
(* row takes the column defaults.                                          *)
RecordSettlement(r) ==
    /\ node # "down" /\ settlements < MaxSettlements
    /\ settlements' = settlements + 1
    /\ catalogued' = catalogued \cup {r}
    /\ telemetry' = [telemetry EXCEPT ![r] =
           IF @ = None
           THEN [nodeId |-> None, lastHeartbeatAt |-> now, heartbeatSequence |-> 0,
                 uptime |-> ExpectedPings, status |-> "HEALTHY", lastSettlementAt |-> now]
           ELSE [@ EXCEPT !.lastSettlementAt = now, !.status = "HEALTHY"]]
    /\ settledAt' = [settledAt EXCEPT ![r] = now]
    /\ UNCHANGED <<now, gossip, memory, transactions, nodeHeartbeats, heardAt, restarts>>

(* The liveness of a telemetry row, as the CASE of pruneOfflineNodes.      *)
LivenessStatus(row) ==
    IF \/ Since(row.lastHeartbeatAt, HeartbeatInterval)
       \/ Since(row.lastSettlementAt, SettlementWindow)
    THEN "HEALTHY"
    ELSE IF \/ Since(row.lastHeartbeatAt, HeartbeatInterval * MaxMissed)
            \/ Since(row.lastSettlementAt, SettlementWindow * SettlementGrace)
    THEN "DEGRADED" ELSE "OFFLINE"

(* One UPDATE over every row, when the liveness interval fires.            *)
PruneOfflineNodes ==
    /\ node = "serving"
    /\ telemetry' = [r \in Resources |->
           IF telemetry[r] = None THEN None
           ELSE [telemetry[r] EXCEPT !.status = LivenessStatus(telemetry[r])]]
    /\ UNCHANGED <<now, gossip, memory, transactions, catalogued, nodeHeartbeats,
                   settlements, heardAt, settledAt, restarts>>

Next ==
    \/ Tick \/ Join \/ OnMessage \/ Stop \/ CleanSeenMessages \/ PruneOfflineNodes
    \/ \E n \in Announcers : PublishHeartbeats(n) \/ RestartAnnouncer(n)
    \/ \E m \in published : HandleIncomingMessage(m)
    \/ \E t \in transactions :
           SkipHeartbeat(t) \/ CountPings(t) \/ CommitHeartbeat(t) \/ FailHeartbeat(t)
    \/ \E r \in Resources : RecordSettlement(r)

Spec == Init /\ [][Next]_vars

----------------------------------------------------------------------------
(* Properties.                                                             *)

TypeOK ==
    /\ now \in Nat /\ rounds \in Nat /\ restarts \in Nat /\ settlements \in Nat
    /\ sequenceCounter \in [Announcers -> Nat]
    /\ published \subseteq AnnounceMessages
    /\ node \in {"down", "joined", "serving"}
    /\ \A s \in seenMessages : s \in [nodeId : Announcers, sequence : Nat, at : Nat]
    /\ highestSequence \in [Announcers -> Nat \cup {None}]
    /\ \A t \in transactions : t \in [message : published, pings : Nat \cup {None}]
    /\ catalogued \subseteq Resources
    /\ handled \in [Announcers -> Seq(published)]

(* While the Bazaar runs, the heartbeats of a node are handed to telemetry *)
(* in the order of their sequence, none of them twice, however gossip      *)
(* orders and repeats them: a heartbeat may be fresh longer than the cache *)
(* of seen messages remembers it (isDuplicate, markAsSeen).                *)
HandledInOrder ==
    \A n \in Announcers : \A i, j \in 1..Len(handled[n]) :
        i < j => handled[n][i].sequence < handled[n][j].sequence

(* What is refused as a duplicate is old news: a message at or below the   *)
(* highest sequence of its node is no younger than the one that set it,    *)
(* restarts of the announcer included (sequenceCounter = Date.now()).      *)
OnlyOldNewsIsSuppressed ==
    \A m \in published :
        /\ highestSequence[m.nodeId] # None
        /\ m.sequence <= highestSequence[m.nodeId]
        => \A h \in published :
               h.nodeId = m.nodeId /\ h.sequence = highestSequence[m.nodeId] =>
                   h.timestamp >= m.timestamp

(* The uptime shown counts every signed heartbeat once at most, also when  *)
(* a restart has forgotten which ones were handled (node_heartbeats UNIQUE *)
(* (node_id, sequence), ON CONFLICT DO NOTHING).                           *)
UptimeIsHonest ==
    \A r \in Resources :
        telemetry[r] # None /\ telemetry[r].nodeId # None =>
            telemetry[r].uptime <= Cardinality({m \in published : m.resource = r})

(* heartbeat_sequence of a resource never goes down, whatever order the    *)
(* transactions commit in, unless the row is new.                          *)
SequenceNeverDown ==
    [][\A r \in Resources :
         telemetry[r] # None =>
             telemetry'[r].heartbeatSequence >= telemetry[r].heartbeatSequence]_vars

(* A resource that an evaluation now would leave in search was heard of:   *)
(* within the heartbeats it may miss plus the clock skew allowed, or by a  *)
(* settlement in its window (pruneOfflineNodes, isFresh).                  *)
ShownMeansHeard ==
    \A r \in Resources :
        telemetry[r] # None /\ LivenessStatus(telemetry[r]) # "OFFLINE" =>
            \/ Since(heardAt[r], HeartbeatInterval * MaxMissed + MaxClockSkew)
            \/ Since(settledAt[r], SettlementWindow * SettlementGrace)
            \/ Since(settledAt[r], HeartbeatInterval * MaxMissed)

(* What the catalog shows of a resource, its uptime and that it is not     *)
(* OFFLINE, rests on heartbeats and settlements there really were.         *)
ShownIsHonest == UptimeIsHonest /\ ShownMeansHeard

=============================================================================
