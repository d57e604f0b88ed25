-------------------------- MODULE Federation_proofs --------------------------
(***************************************************************************)
(* Proofs about federation, for any announcers, resources, clocks, windows *)
(* and bounds.  Order rests on two facts: the counter of an announcer is   *)
(* above everything it has published, whatever restarts did to it          *)
(* (PublishedInOrder), and the highest sequence kept of a node is no lower *)
(* than anything handed to telemetry (HighestCoversHandled).               *)
(*                                                                         *)
(* And proofs about reading what was listed, a page at a time, for any     *)
(* rows, filters, scores, pool, page sizes and changes meanwhile.  A page  *)
(* is a stretch of one ranking: each row stands on it at the number of the *)
(* rows before it (Place), a change that drops no row only raises that     *)
(* number, and so the rows seen account for every place up to where the    *)
(* walk stands (Covers).                                                   *)
(***************************************************************************)
EXTENDS Federation, CatalogSearch, FiniteSetTheorems, SequenceTheorems, TLAPS

(* The tables, of which TypeOK says nothing.                               *)
RowsOK ==
    /\ telemetry \in [Resources -> Rows \cup {None}]
    /\ IsFiniteSet(nodeHeartbeats)

(* What a node published: behind its counter and its clock, and a higher   *)
(* sequence is never older.                                                *)
PublishedInOrder ==
    /\ \A m \in published :
        m.sequence < sequenceCounter[m.nodeId] /\ m.timestamp <= Clock(m.nodeId)
    /\ \A m, h \in published :
        m.nodeId = h.nodeId /\ m.sequence <= h.sequence => m.timestamp <= h.timestamp

(* The in-memory high-water mark covers everything that was handled.       *)
HighestCoversHandled ==
    \A n \in Announcers : \A i \in 1..Len(handled[n]) :
        highestSequence[n] # None /\ handled[n][i].sequence <= highestSequence[n]

IInv ==
    /\ TypeOK
    /\ PublishedInOrder
    /\ HighestCoversHandled
    /\ HandledInOrder
    /\ RowsOK

----------------------------------------------------------------------------
LEMMA ClockIsNat ==
    now \in Nat => \A n \in Announcers : Clock(n) \in Nat /\ PerTick * Clock(n) \in Nat
  BY FederationAssumption DEF Clock

LEMMA InitIInv == Init => IInv
  <1> SUFFICES ASSUME Init PROVE IInv
    OBVIOUS
  <1> USE DEF Init
  <1>1. \A n \in Announcers : PerTick * Clock(n) \in Nat
    BY ClockIsNat
  <1>2. TypeOK
    BY <1>1, FederationAssumption DEF TypeOK
  <1>3. RowsOK
    BY FS_EmptySet DEF RowsOK
  <1> QED BY <1>2, <1>3 DEF IInv, PublishedInOrder, HighestCoversHandled, HandledInOrder

(* Announcing: what is new is numbered from the counter on and stamped     *)
(* with the clock, which is ahead of everything published before.          *)
LEMMA PublishIInv ==
    ASSUME IInv, NEW n \in Announcers, PublishHeartbeats(n)
    PROVE  IInv'
  <1> USE DEF IInv
  <1>0. AnnouncedResources[n] \in Seq(Resources)
    BY FederationAssumption
  <1>1. PICK sent \in 0..Len(AnnouncedResources[n]) :
            /\ published' = published \cup {Announcement(n, i) : i \in 1..sent}
            /\ sequenceCounter' = [sequenceCounter EXCEPT
                   ![n] = @ + IF sent < Len(AnnouncedResources[n]) THEN sent + 1 ELSE sent]
    BY DEF PublishHeartbeats, Publish
  <1> DEFINE signed == IF sent < Len(AnnouncedResources[n]) THEN sent + 1 ELSE sent
  <1>2. /\ sent \in Nat /\ signed \in Nat /\ signed >= sent
        /\ sequenceCounter' = [sequenceCounter EXCEPT ![n] = sequenceCounter[n] + signed]
    BY <1>0, <1>1
  <1> HIDE DEF signed
  <1>3. /\ rounds' = rounds + 1
        /\ UNCHANGED <<now, memory, transactions, database, restarts>>
    BY DEF PublishHeartbeats
  <1>4. now' = now /\ Clock(n)' = Clock(n) /\ Clock(n) \in Nat /\ sequenceCounter[n] \in Nat
    BY <1>3, ClockIsNat DEF TypeOK, Clock
  <1>5. \A i \in 1..sent :
            /\ Announcement(n, i) \in AnnounceMessages
            /\ Announcement(n, i).nodeId = n
            /\ Announcement(n, i).timestamp = Clock(n)
            /\ Announcement(n, i).sequence = sequenceCounter[n] + i - 1
    <2>1. ASSUME NEW i \in 1..sent
          PROVE  AnnouncedResources[n][i] \in Resources
      BY <1>0, <1>1
    <2>2. ASSUME NEW i \in 1..sent
          PROVE  sequenceCounter[n] + i - 1 \in Nat
      <3>1. sequenceCounter[n] \in Nat /\ i \in Nat /\ i >= 1
        BY <1>2, <1>4
      <3> QED BY <3>1
    <2> QED BY <1>4, <2>1, <2>2 DEF Announcement, AnnounceMessages
  <1>6. \A m \in published' :
            \/ m \in published
            \/ /\ m.nodeId = n /\ m.timestamp = Clock(n) /\ m \in AnnounceMessages
               /\ m.sequence >= sequenceCounter[n] /\ m.sequence < sequenceCounter[n] + signed
    <2>1. ASSUME NEW m \in published', m \notin published
          PROVE  /\ m.nodeId = n /\ m.timestamp = Clock(n) /\ m \in AnnounceMessages
                 /\ m.sequence >= sequenceCounter[n]
                 /\ m.sequence < sequenceCounter[n] + signed
      <3>1. PICK i \in 1..sent : m = Announcement(n, i)
        BY <1>1, <2>1
      <3>2. m.sequence = sequenceCounter[n] + i - 1 /\ i \in Nat /\ i >= 1 /\ i <= signed
        BY <1>2, <1>5, <3>1
      <3> QED BY <1>2, <1>4, <1>5, <3>1, <3>2
    <2> QED BY <2>1
  <1>7. published \subseteq AnnounceMessages
    BY DEF TypeOK
  <1>8. TypeOK'
    <2>1. published \subseteq published' /\ published' \subseteq AnnounceMessages
      BY <1>1, <1>6, <1>7
    <2>2. sequenceCounter' \in [Announcers -> Nat] /\ rounds' \in Nat
      <3>1. sequenceCounter \in [Announcers -> Nat] /\ rounds \in Nat
        BY DEF TypeOK
      <3>2. sequenceCounter[n] + signed \in Nat
        BY <1>2, <1>4
      <3> QED BY <1>2, <1>3, <3>1, <3>2
    <2>3. handled' \in [Announcers -> Seq(published')]
      <3>1. \A s \in Seq(published) : s \in Seq(published')
        BY <2>1
      <3> QED BY <1>3, <3>1 DEF TypeOK, memory
    <2>4. \A t \in transactions' : t \in [message : published', pings : Nat \cup {None}]
      BY <1>3, <2>1 DEF TypeOK
    <2> QED BY <1>3, <2>1, <2>2, <2>3, <2>4 DEF TypeOK, memory, database
  <1>9. PublishedInOrder'
    <2>1. \A a \in Announcers : Clock(a)' = Clock(a)
      BY <1>4 DEF Clock
    <2>2. /\ sequenceCounter'[n] = sequenceCounter[n] + signed
          /\ \A a \in Announcers : a # n => sequenceCounter'[a] = sequenceCounter[a]
          /\ \A m \in published' : m.nodeId \in Announcers /\ m.sequence \in Nat
      BY <1>2, <1>6, <1>7 DEF TypeOK, AnnounceMessages
    <2>3. \A m \in published :
              m.sequence < sequenceCounter[m.nodeId] /\ m.timestamp <= Clock(m.nodeId)
      BY DEF PublishedInOrder
    <2>4. ASSUME NEW m \in published'
          PROVE  m.sequence < sequenceCounter'[m.nodeId] /\ m.timestamp <= Clock(m.nodeId)
      <3>1. CASE m \in published
        <4>1. m.nodeId # n => sequenceCounter'[m.nodeId] = sequenceCounter[m.nodeId]
          BY <2>2
        <4>2. m.sequence < sequenceCounter[n] =>
                  m.sequence < sequenceCounter[n] + signed
          BY <1>2, <1>4, <2>2
        <4> QED BY <2>2, <2>3, <3>1, <4>1, <4>2
      <3>2. CASE m \notin published
        BY <1>4, <1>6, <2>2, <3>2
      <3> QED BY <3>1, <3>2
    <2>5. ASSUME NEW m \in published', NEW h \in published',
                 m.nodeId = h.nodeId, m.sequence <= h.sequence
          PROVE  m.timestamp <= h.timestamp
      <3>1. CASE m \in published /\ h \in published
        BY <2>5, <3>1 DEF PublishedInOrder
      <3>2. CASE m \in published /\ h \notin published
        BY <1>6, <2>3, <2>5, <3>2
      <3>3. CASE m \notin published /\ h \in published
        <4>1. m.sequence >= sequenceCounter[n] /\ h.sequence < sequenceCounter[n]
          BY <1>6, <2>3, <2>5, <3>3
        <4> QED BY <1>4, <2>2, <2>5, <4>1
      <3>4. CASE m \notin published /\ h \notin published
        BY <1>4, <1>6, <3>4
      <3> QED BY <3>1, <3>2, <3>3, <3>4
    <2> QED BY <2>1, <2>2, <2>4, <2>5 DEF PublishedInOrder
  <1>10. (HighestCoversHandled /\ HandledInOrder /\ RowsOK)'
    BY <1>3 DEF HighestCoversHandled, HandledInOrder, RowsOK, memory, database
  <1> QED BY <1>8, <1>9, <1>10

(* A new announcer starts at its clock, above what its predecessor used.   *)
LEMMA RestartAnnouncerIInv ==
    ASSUME IInv, NEW n \in Announcers, RestartAnnouncer(n)
    PROVE  IInv'
  <1> USE DEF IInv
  <1>1. /\ sequenceCounter' = [sequenceCounter EXCEPT ![n] = PerTick * Clock(n)]
        /\ sequenceCounter[n] <= PerTick * Clock(n) /\ restarts' = restarts + 1
        /\ UNCHANGED <<now, published, rounds, memory, transactions, database>>
    BY DEF RestartAnnouncer, FirstSequence
  <1>2. PerTick * Clock(n) \in Nat /\ sequenceCounter \in [Announcers -> Nat]
    BY ClockIsNat DEF TypeOK
  <1>3. \A a \in Announcers : sequenceCounter[a] <= sequenceCounter'[a]
    <2> DEFINE first == PerTick * Clock(n)
    <2> HIDE DEF first
    <2>1. sequenceCounter' = [sequenceCounter EXCEPT ![n] = first] /\ sequenceCounter[n] <= first
      BY <1>1 DEF first
    <2> QED BY <1>2, <2>1
  <1>4. TypeOK'
    BY <1>1, <1>2 DEF TypeOK, memory, database
  <1>5. PublishedInOrder'
    <2>1. \A m \in published : m.nodeId \in Announcers /\ m.sequence \in Nat
      BY DEF TypeOK, AnnounceMessages
    <2>2. \A m \in published : m.sequence < sequenceCounter'[m.nodeId]
      BY <1>2, <1>3, <1>4, <2>1 DEF PublishedInOrder, TypeOK
    <2> QED BY <1>1, <2>2 DEF PublishedInOrder, Clock
  <1>6. (HighestCoversHandled /\ HandledInOrder /\ RowsOK)'
    BY <1>1 DEF HighestCoversHandled, HandledInOrder, RowsOK, memory, database
  <1> QED BY <1>4, <1>5, <1>6

(* A message that is handled is above the highest sequence of its node,    *)
(* and so above everything that was handled before it.                     *)
LEMMA HandleIInv ==
    ASSUME IInv, NEW m \in published, HandleIncomingMessage(m)
    PROVE  IInv'
  <1> USE DEF IInv
  <1> DEFINE n == m.nodeId
  <1>1. /\ n \in Announcers /\ m.sequence \in Nat /\ now \in Nat
        /\ highestSequence \in [Announcers -> Nat \cup {None}]
        /\ handled \in [Announcers -> Seq(published)]
    BY DEF TypeOK, AnnounceMessages
  <1>2. highestSequence[n] # None => highestSequence[n] < m.sequence
    BY <1>1 DEF HandleIncomingMessage, IsDuplicate
  <1>3. /\ seenMessages' = seenMessages \cup {[nodeId |-> n, sequence |-> m.sequence, at |-> now]}
        /\ highestSequence' = [highestSequence EXCEPT ![n] = m.sequence]
        /\ UNCHANGED <<now, gossip, node, database, restarts>>
    BY DEF HandleIncomingMessage, MarkAsSeen
  <1>4. \/ /\ handled' = [handled EXCEPT ![n] = Append(handled[n], m)]
           /\ transactions' = transactions \cup {[message |-> m, pings |-> None]}
        \/ UNCHANGED <<handled, transactions>>
    BY DEF HandleIncomingMessage
  <1>5. handled[n] \in Seq(published)
    BY <1>1
  <1>6. TypeOK'
    <2>1. handled' \in [Announcers -> Seq(published)]
      <3> DEFINE longer == Append(handled[n], m)
      <3>1. longer \in Seq(published)
        BY <1>5
      <3>2. handled' = [handled EXCEPT ![n] = longer] \/ handled' = handled
        BY <1>4
      <3> HIDE DEF longer, n
      <3> QED BY <1>1, <3>1, <3>2
    <2>2. highestSequence' \in [Announcers -> Nat \cup {None}]
      BY <1>1, <1>3
    <2>3. \A s \in seenMessages' : s \in [nodeId : Announcers, sequence : Nat, at : Nat]
      BY <1>1, <1>3 DEF TypeOK
    <2>4. \A t \in transactions' : t \in [message : published, pings : Nat \cup {None}]
      BY <1>4 DEF TypeOK
    <2> QED BY <1>3, <2>1, <2>2, <2>3, <2>4 DEF TypeOK, gossip, database
  <1>7. PublishedInOrder' /\ RowsOK'
    BY <1>3 DEF PublishedInOrder, RowsOK, Clock, gossip, database
  <1> HIDE DEF n
  <1>8. \A i \in 1..Len(handled[n]) : handled[n][i].sequence < m.sequence
    <2>1. ASSUME NEW i \in 1..Len(handled[n])
          PROVE  handled[n][i].sequence < m.sequence
      <3>1. highestSequence[n] # None /\ handled[n][i].sequence <= highestSequence[n]
        BY <1>1 DEF HighestCoversHandled
      <3>2. highestSequence[n] \in Nat
        BY <1>1, <3>1
      <3>3. handled[n][i] \in published
        BY <1>5
      <3>4. handled[n][i].sequence \in Nat
        BY <3>3 DEF TypeOK, AnnounceMessages
      <3> QED BY <1>1, <1>2, <3>1, <3>2, <3>4
    <2> QED BY <2>1
  <1>9. \A i \in 1..Len(handled'[n]) :
            \/ i \in 1..Len(handled[n]) /\ handled'[n][i] = handled[n][i]
            \/ i = Len(handled[n]) + 1 /\ handled'[n][i] = m
    BY <1>1, <1>4, <1>5
  <1>10. \A a \in Announcers : a # n => handled'[a] = handled[a] /\ highestSequence'[a] = highestSequence[a]
    BY <1>1, <1>3, <1>4
  <1>11. highestSequence'[n] = m.sequence /\ m.sequence # None
    BY <1>1, <1>3, FederationAssumption
  <1>12. HighestCoversHandled'
    <2>1. ASSUME NEW i \in 1..Len(handled'[n])
          PROVE  handled'[n][i].sequence <= m.sequence
      <3>1. CASE i \in 1..Len(handled[n]) /\ handled'[n][i] = handled[n][i]
        <4>1. handled[n][i] \in published
          BY <1>5, <3>1
        <4>2. handled[n][i].sequence \in Nat
          BY <4>1 DEF TypeOK, AnnounceMessages
        <4> QED BY <1>1, <1>8, <3>1, <4>2
      <3>2. CASE handled'[n][i] = m
        BY <1>1, <3>2
      <3> QED BY <1>9, <2>1, <3>1, <3>2
    <2> QED BY <1>10, <1>11, <2>1 DEF HighestCoversHandled
  <1>13. HandledInOrder'
    <2>1. ASSUME NEW i \in 1..Len(handled'[n]), NEW j \in 1..Len(handled'[n]), i < j
          PROVE  handled'[n][i].sequence < handled'[n][j].sequence
      <3>0. Len(handled[n]) \in Nat
        BY <1>5
      <3>1. i \in 1..Len(handled[n]) /\ handled'[n][i] = handled[n][i]
        BY <1>9, <2>1, <3>0
      <3>2. CASE j \in 1..Len(handled[n]) /\ handled'[n][j] = handled[n][j]
        BY <1>1, <2>1, <3>1, <3>2 DEF HandledInOrder
      <3>3. CASE handled'[n][j] = m
        BY <1>8, <3>1, <3>3
      <3> QED BY <1>9, <3>2, <3>3
    <2> QED BY <1>10, <2>1 DEF HandledInOrder
  <1> QED BY <1>6, <1>7, <1>12, <1>13

(* What touches neither the announcers nor the memory of the node.         *)
LEMMA DatabaseIInv ==
    ASSUME IInv, UNCHANGED <<now, gossip, memory>>, RowsOK',
           transactions' \subseteq [message : published, pings : Nat \cup {None}],
           catalogued' \subseteq Resources, restarts' = restarts, settlements' \in Nat
    PROVE  IInv'
  <1> USE DEF IInv
  <1>1. TypeOK'
    BY DEF TypeOK, gossip, memory
  <1>2. (PublishedInOrder /\ HighestCoversHandled /\ HandledInOrder)'
    BY DEF PublishedInOrder, HighestCoversHandled, HandledInOrder, Clock, gossip, memory
  <1> QED BY <1>1, <1>2

LEMMA TransactionIInv ==
    ASSUME IInv, NEW t \in transactions,
           SkipHeartbeat(t) \/ CountPings(t) \/ CommitHeartbeat(t) \/ FailHeartbeat(t)
    PROVE  IInv'
  <1> USE DEF IInv
  <1>1. /\ transactions \subseteq [message : published, pings : Nat \cup {None}]
        /\ catalogued \subseteq Resources /\ settlements \in Nat
    BY DEF TypeOK
  <1>2. t.message \in published /\ t.pings \in Nat \cup {None}
    BY <1>1
  <1>3. t.message \in AnnounceMessages
    BY <1>2 DEF TypeOK
  <1>4. IsFiniteSet(Recorded(t.message))
    BY FS_AddElement DEF Recorded, RowsOK
  <1>5. CASE SkipHeartbeat(t) \/ FailHeartbeat(t)
    BY <1>1, <1>5, DatabaseIInv DEF SkipHeartbeat, FailHeartbeat, RowsOK, database
  <1>6. CASE CountPings(t)
    <2> DEFINE counted == {h \in Recorded(t.message) :
                              /\ h.resource = t.message.resource
                              /\ h.timestamp >= now - UptimeWindow}
    <2>1. Cardinality(counted) \in Nat
      <3>1. counted \subseteq Recorded(t.message)
        OBVIOUS
      <3> HIDE DEF counted
      <3> QED BY <1>4, <3>1, FS_Subset, FS_CardinalityType
    <2>2. /\ transactions' = (transactions \ {t}) \cup {[t EXCEPT !.pings = Cardinality(counted)]}
          /\ UNCHANGED <<now, gossip, memory, database, restarts>>
      BY <1>6 DEF CountPings
    <2>3. [t EXCEPT !.pings = Cardinality(counted)]
              \in [message : published, pings : Nat \cup {None}]
      <3> HIDE DEF counted
      <3> QED BY <1>1, <2>1
    <2> HIDE DEF counted
    <2> QED BY <1>1, <2>2, <2>3, DatabaseIInv DEF RowsOK, database
  <1>7. CASE CommitHeartbeat(t)
    <2> DEFINE m == t.message
               r == m.resource
               row == [nodeId |-> m.nodeId, lastHeartbeatAt |-> m.timestamp,
                       heartbeatSequence |-> NextSequence(r, m.sequence),
                       uptime |-> UptimeRatio(t.pings), status |-> "HEALTHY",
                       lastSettlementAt |-> IF telemetry[r] = None THEN None
                                            ELSE telemetry[r].lastSettlementAt]
    <2>1. /\ nodeHeartbeats' = Recorded(m)
          /\ telemetry' = [telemetry EXCEPT ![r] = row]
          /\ transactions' = transactions \ {t}
          /\ UNCHANGED <<now, gossip, memory, catalogued, settlements, settledAt, restarts>>
          /\ t.pings \in Nat
      BY <1>2, <1>7 DEF CommitHeartbeat
    <2>2. r \in Resources /\ m.nodeId \in Announcers /\ m.timestamp \in Nat /\ m.sequence \in Nat
      BY <1>3 DEF AnnounceMessages
    <2>3. telemetry[r] \in Rows \cup {None}
      BY <2>2 DEF RowsOK
    <2>4. UptimeRatio(t.pings) \in Int
      BY <2>1, FederationAssumption DEF UptimeRatio, ExpectedPings
    <2>5. NextSequence(r, m.sequence) \in Nat
      BY <2>2, <2>3 DEF NextSequence, Rows
    <2>6. row \in Rows
      BY <2>2, <2>3, <2>4, <2>5 DEF Rows
    <2> HIDE DEF row
    <2>7. RowsOK'
      BY <1>4, <2>1, <2>2, <2>6 DEF RowsOK
    <2> QED BY <1>1, <2>1, <2>7, DatabaseIInv
  <1> QED BY <1>5, <1>6, <1>7

LEMMA RecordSettlementIInv ==
    ASSUME IInv, NEW r \in Resources, RecordSettlement(r)
    PROVE  IInv'
  <1> USE DEF IInv
  <1>1. /\ transactions \subseteq [message : published, pings : Nat \cup {None}]
        /\ catalogued \subseteq Resources /\ settlements \in Nat /\ now \in Nat
    BY DEF TypeOK
  <1> DEFINE fresh == [nodeId |-> None, lastHeartbeatAt |-> now, heartbeatSequence |-> 0,
                       uptime |-> ExpectedPings, status |-> "HEALTHY",
                       lastSettlementAt |-> now]
             kept == [telemetry[r] EXCEPT !.lastSettlementAt = now, !.status = "HEALTHY"]
  <1>2. telemetry' = [telemetry EXCEPT ![r] = IF telemetry[r] = None THEN fresh ELSE kept]
    BY DEF RecordSettlement
  <1>3. ExpectedPings \in Int
    BY FederationAssumption DEF ExpectedPings
  <1>4. fresh \in Rows
    BY <1>1, <1>3 DEF Rows
  <1>5. telemetry[r] # None => kept \in Rows
    BY <1>1 DEF RowsOK, Rows
  <1> HIDE DEF fresh, kept
  <1>6. RowsOK'
    BY <1>2, <1>4, <1>5 DEF RecordSettlement, RowsOK
  <1>7. /\ UNCHANGED <<now, gossip, memory, transactions, restarts>>
        /\ catalogued' = catalogued \cup {r} /\ settlements' = settlements + 1
    BY DEF RecordSettlement
  <1> QED BY <1>1, <1>6, <1>7, DatabaseIInv

LEMMA PruneIInv ==
    ASSUME IInv, PruneOfflineNodes
    PROVE  IInv'
  <1> USE DEF IInv
  <1>1. ASSUME NEW row \in Rows
        PROVE  [row EXCEPT !.status = LivenessStatus(row)] \in Rows
    <2>1. LivenessStatus(row) \in {"HEALTHY", "DEGRADED", "OFFLINE"}
      BY DEF LivenessStatus
    <2> QED BY <2>1 DEF Rows
  <1>2. RowsOK'
    <2>1. /\ telemetry' = [r \in Resources |->
                 IF telemetry[r] = None THEN None
                 ELSE [telemetry[r] EXCEPT !.status = LivenessStatus(telemetry[r])]]
          /\ nodeHeartbeats' = nodeHeartbeats
      BY DEF PruneOfflineNodes
    <2> QED BY <1>1, <2>1 DEF RowsOK
  <1>3. UNCHANGED <<now, gossip, memory, transactions, catalogued, settlements, restarts>>
    BY DEF PruneOfflineNodes
  <1> QED BY <1>2, <1>3, DatabaseIInv DEF TypeOK

(* The node's own life: joining, stopping, forgetting, and the clock.      *)
LEMMA NodeIInv ==
    ASSUME IInv, Tick \/ Join \/ OnMessage \/ Stop \/ CleanSeenMessages
    PROVE  IInv'
  <1> USE DEF IInv
  <1>1. CASE Tick
    <2>1. /\ now' = now + 1 /\ now \in Nat
          /\ UNCHANGED <<gossip, memory, transactions, database, restarts>>
      BY <1>1 DEF Tick, TypeOK
    <2>2. \A n \in Announcers : Clock(n) \in Nat /\ Clock(n)' = Clock(n) + 1
      <3>1. \A n \in Announcers : Ahead[n] \in Nat
        BY FederationAssumption
      <3> QED BY <2>1, <3>1 DEF Clock
    <2>3. TypeOK'
      BY <2>1 DEF TypeOK, gossip, memory, database
    <2>4. PublishedInOrder'
      <3>1. \A m \in published : m.nodeId \in Announcers /\ m.timestamp \in Nat
        BY DEF TypeOK, AnnounceMessages
      <3>2. \A m \in published : m.timestamp <= Clock(m.nodeId)'
        BY <2>2, <3>1 DEF PublishedInOrder
      <3> QED BY <2>1, <3>2 DEF PublishedInOrder, gossip
    <2> QED BY <2>1, <2>3, <2>4
          DEF HighestCoversHandled, HandledInOrder, RowsOK, memory, database
  <1>2. CASE Stop
    <2>1. /\ node' = "down" /\ restarts' = restarts + 1
          /\ seenMessages' = {} /\ transactions' = {}
          /\ highestSequence' = [n \in Announcers |-> None]
          /\ handled' = [n \in Announcers |-> <<>>]
          /\ UNCHANGED <<now, gossip, database>>
      BY <1>2 DEF Stop
    <2>2. TypeOK'
      BY <2>1 DEF TypeOK, gossip, database
    <2>3. PublishedInOrder' /\ RowsOK'
      BY <2>1 DEF PublishedInOrder, RowsOK, Clock, gossip, database
    <2>4. \A n \in Announcers : Len(handled'[n]) = 0
      BY <2>1
    <2>5. (HighestCoversHandled /\ HandledInOrder)'
      BY <2>4 DEF HighestCoversHandled, HandledInOrder
    <2> QED BY <2>2, <2>3, <2>5
  <1>3. CASE Join \/ OnMessage \/ CleanSeenMessages
    <2>1. /\ node' \in {"down", "joined", "serving"} /\ seenMessages' \subseteq seenMessages
          /\ UNCHANGED <<now, gossip, highestSequence, handled, transactions, database, restarts>>
      BY <1>3 DEF Join, OnMessage, CleanSeenMessages, TypeOK
    <2>2. TypeOK'
      BY <2>1 DEF TypeOK, gossip, database
    <2> QED BY <2>1, <2>2 DEF PublishedInOrder, HighestCoversHandled, HandledInOrder, RowsOK,
                              Clock, gossip, database
  <1> QED BY <1>1, <1>2, <1>3

----------------------------------------------------------------------------
LEMMA NextIInv == IInv /\ [Next]_vars => IInv'
  <1> SUFFICES ASSUME IInv, [Next]_vars PROVE IInv'
    OBVIOUS
  <1>1. CASE Tick \/ Join \/ OnMessage \/ Stop \/ CleanSeenMessages
    BY <1>1, NodeIInv
  <1>2. CASE PruneOfflineNodes
    BY <1>2, PruneIInv
  <1>3. CASE \E n \in Announcers : PublishHeartbeats(n) \/ RestartAnnouncer(n)
    BY <1>3, PublishIInv, RestartAnnouncerIInv
  <1>4. CASE \E m \in published : HandleIncomingMessage(m)
    BY <1>4, HandleIInv
  <1>5. CASE \E t \in transactions :
                 SkipHeartbeat(t) \/ CountPings(t) \/ CommitHeartbeat(t) \/ FailHeartbeat(t)
    BY <1>5, TransactionIInv
  <1>6. CASE \E r \in Resources : RecordSettlement(r)
    BY <1>6, RecordSettlementIInv
  <1>7. CASE UNCHANGED vars
    BY <1>7 DEF vars, gossip, memory, database, IInv, TypeOK, PublishedInOrder, Clock,
                HighestCoversHandled, HandledInOrder, RowsOK
  <1> QED BY <1>1, <1>2, <1>3, <1>4, <1>5, <1>6, <1>7 DEF Next

THEOREM Invariance == Spec => []IInv
  BY InitIInv, NextIInv, PTL DEF Spec

THEOREM TypeCorrectness == Spec => []TypeOK
  <1>1. IInv => TypeOK
    BY DEF IInv
  <1> QED BY <1>1, Invariance, PTL

(* Telemetry is handed the heartbeats of a node in their order and each    *)
(* once, whatever GossipSub repeats or reorders (isDuplicate, markAsSeen). *)
THEOREM HeartbeatsInOrder == Spec => []HandledInOrder
  <1>1. IInv => HandledInOrder
    BY DEF IInv
  <1> QED BY <1>1, Invariance, PTL

(* A restarted announcer is never silenced by its predecessor's numbers: a *)
(* message dropped as a duplicate is no younger than the one it lost to.   *)
THEOREM SuppressedIsOld == Spec => []OnlyOldNewsIsSuppressed
  <1>1. IInv => OnlyOldNewsIsSuppressed
    <2> SUFFICES ASSUME IInv, NEW m \in published, NEW h \in published,
                        highestSequence[m.nodeId] # None,
                        m.sequence <= highestSequence[m.nodeId],
                        h.nodeId = m.nodeId, h.sequence = highestSequence[m.nodeId]
                 PROVE  h.timestamp >= m.timestamp
      BY DEF OnlyOldNewsIsSuppressed
    <2>1. m \in AnnounceMessages /\ h \in AnnounceMessages
      BY DEF IInv, TypeOK
    <2>2. m.timestamp <= h.timestamp
      BY DEF IInv, PublishedInOrder
    <2> QED BY <2>1, <2>2 DEF AnnounceMessages
  <1> QED BY <1>1, Invariance, PTL

(* The sequence a row shows never goes down, in whatever order concurrent  *)
(* transactions commit (GREATEST in the upsert of processHeartbeat).       *)
THEOREM SequenceMonotone == Spec => SequenceNeverDown
  <1> DEFINE Rises == \A r \in Resources :
                        telemetry[r] # None =>
                            telemetry'[r].heartbeatSequence >= telemetry[r].heartbeatSequence
  <1>1. IInv /\ [Next]_vars => [Rises]_vars
    <2> SUFFICES ASSUME IInv, Next, NEW r \in Resources, telemetry[r] # None
                 PROVE  telemetry'[r].heartbeatSequence >= telemetry[r].heartbeatSequence
      BY DEF vars
    <2>1. telemetry \in [Resources -> Rows \cup {None}] /\ telemetry[r] \in Rows
      BY DEF IInv, RowsOK
    <2>2. telemetry[r].heartbeatSequence \in Nat
      BY <2>1 DEF Rows
    <2>3. CASE telemetry' = telemetry
      BY <2>2, <2>3
    <2>4. CASE PruneOfflineNodes
      <3>1. telemetry'[r] = [telemetry[r] EXCEPT !.status = LivenessStatus(telemetry[r])]
        BY <2>4 DEF PruneOfflineNodes
      <3> QED BY <2>1, <2>2, <3>1 DEF Rows
    <2>5. CASE \E q \in Resources : RecordSettlement(q)
      <3>1. PICK q \in Resources : RecordSettlement(q)
        BY <2>5
      <3>2. \/ telemetry'[r] = telemetry[r]
            \/ telemetry'[r] = [telemetry[r] EXCEPT !.lastSettlementAt = now,
                                                    !.status = "HEALTHY"]
        BY <2>1, <3>1 DEF RecordSettlement
      <3>3. [telemetry[r] EXCEPT !.lastSettlementAt = now, !.status = "HEALTHY"].heartbeatSequence
                = telemetry[r].heartbeatSequence
        BY <2>1 DEF Rows
      <3>4. telemetry'[r].heartbeatSequence = telemetry[r].heartbeatSequence
        BY <3>2, <3>3
      <3> QED BY <2>2, <3>4
    <2>6. CASE \E t \in transactions : CommitHeartbeat(t)
      <3>1. PICK t \in transactions : CommitHeartbeat(t)
        BY <2>6
      <3>2. t.message.sequence \in Nat
        BY DEF IInv, TypeOK, AnnounceMessages
      <3>3. \/ telemetry'[r] = telemetry[r]
            \/ telemetry'[r].heartbeatSequence = NextSequence(r, t.message.sequence)
        BY <2>1, <3>1 DEF CommitHeartbeat
      <3> QED BY <2>2, <3>2, <3>3 DEF NextSequence
    <2>7. CASE \/ Tick \/ Join \/ OnMessage \/ Stop \/ CleanSeenMessages
               \/ \E n \in Announcers : PublishHeartbeats(n) \/ RestartAnnouncer(n)
               \/ \E m \in published : HandleIncomingMessage(m)
               \/ \E t \in transactions :
                      SkipHeartbeat(t) \/ CountPings(t) \/ FailHeartbeat(t)
      BY <2>3, <2>7 DEF Tick, Join, OnMessage, Stop, CleanSeenMessages, PublishHeartbeats,
           RestartAnnouncer, HandleIncomingMessage, SkipHeartbeat, CountPings,
           FailHeartbeat, database
    <2> QED BY <2>4, <2>5, <2>6, <2>7 DEF Next
  <1> QED BY <1>1, Invariance, PTL DEF Spec, SequenceNeverDown

----------------------------------------------------------------------------
(* What is shown of a resource.                                            *)

Signed(r) == {m \in published : m.resource = r}

(* A transaction carries a message that was fresh when it was taken, and a *)
(* count of audit rows, which are all of signed messages.                  *)
TransactionsAreHonest ==
    \A t \in transactions :
        /\ t.message.timestamp <= now + MaxClockSkew
        /\ t.pings # None => t.pings <= Cardinality(Signed(t.message.resource))

(* The times in a row are those of a heartbeat or a settlement there was.  *)
RowsAreHeard ==
    /\ heardAt \in [Resources -> Nat \cup {None}]
    /\ settledAt \in [Resources -> Nat \cup {None}]
    /\ \A r \in Resources : settledAt[r] # None => settledAt[r] <= now
    /\ \A r \in Resources : telemetry[r] = None => settledAt[r] = None
    /\ \A r \in Resources : telemetry[r] # None =>
        /\ telemetry[r].lastSettlementAt = settledAt[r]
        /\ \/ /\ heardAt[r] # None
              /\ telemetry[r].lastHeartbeatAt <= heardAt[r] + MaxClockSkew
           \/ /\ settledAt[r] # None
              /\ telemetry[r].lastHeartbeatAt <= settledAt[r]

(* UptimeIsHonest needs that the audit log holds signed messages only, and *)
(* ShownMeansHeard that a row's times are at most MaxClockSkew ahead.      *)
HonestInv ==
    /\ IsFiniteSet(published)
    /\ nodeHeartbeats \subseteq published
    /\ TransactionsAreHonest
    /\ UptimeIsHonest
    /\ RowsAreHeard

LEMMA SignedFinite ==
    ASSUME IsFiniteSet(published), NEW r
    PROVE  IsFiniteSet(Signed(r)) /\ Cardinality(Signed(r)) \in Nat
  <1>1. Signed(r) \subseteq published
    BY DEF Signed
  <1> QED BY <1>1, FS_Subset, FS_CardinalityType

LEMMA InitHonest == Init => HonestInv
  <1> SUFFICES ASSUME Init PROVE HonestInv
    OBVIOUS
  <1> USE DEF Init
  <1>1. IsFiniteSet(published) /\ nodeHeartbeats \subseteq published
    BY FS_EmptySet
  <1>2. TransactionsAreHonest
    BY DEF TransactionsAreHonest
  <1>3. UptimeIsHonest
    BY DEF UptimeIsHonest
  <1>4. RowsAreHeard
    BY DEF RowsAreHeard
  <1> QED BY <1>1, <1>2, <1>3, <1>4 DEF HonestInv

(* What only lets time pass, forgets, or ends transactions.                *)
LEMMA StillHonest ==
    ASSUME IInv, HonestInv, now' \in Nat, now' >= now,
           transactions' \subseteq transactions,
           UNCHANGED <<published, nodeHeartbeats, telemetry, heardAt, settledAt>>
    PROVE  HonestInv'
  <1> USE DEF HonestInv
  <1>1. now \in Nat /\ MaxClockSkew \in Nat
    BY FederationAssumption DEF IInv, TypeOK
  <1>2. TransactionsAreHonest'
    <2> SUFFICES ASSUME NEW t \in transactions
                 PROVE  /\ t.message.timestamp <= now' + MaxClockSkew
                        /\ t.pings # None =>
                             t.pings <= Cardinality(Signed(t.message.resource)')
      BY DEF TransactionsAreHonest, Signed
    <2>1. t.message \in AnnounceMessages
      BY DEF IInv, TypeOK
    <2>2. t.message.timestamp \in Nat /\ t.message.timestamp <= now + MaxClockSkew
      BY <2>1 DEF AnnounceMessages, TransactionsAreHonest
    <2>3. Signed(t.message.resource)' = Signed(t.message.resource)
      BY DEF Signed
    <2> QED BY <1>1, <2>2, <2>3 DEF TransactionsAreHonest
  <1>3. UptimeIsHonest'
    BY DEF UptimeIsHonest
  <1>4. RowsAreHeard'
    <2>1. ASSUME NEW r \in Resources, settledAt[r] # None
          PROVE  settledAt[r] <= now'
      <3>1. settledAt[r] \in Nat /\ settledAt[r] <= now
        BY <2>1 DEF RowsAreHeard
      <3> QED BY <1>1, <3>1
    <2> QED BY <2>1 DEF RowsAreHeard
  <1> QED BY <1>2, <1>3, <1>4

(* More is announced: every count of signed messages can only grow.        *)
LEMMA PublishHonest ==
    ASSUME IInv, HonestInv, NEW n \in Announcers, PublishHeartbeats(n)
    PROVE  HonestInv'
  <1> USE DEF HonestInv
  <1>1. PICK sent \in 0..Len(AnnouncedResources[n]) :
            published' = published \cup {Announcement(n, i) : i \in 1..sent}
    BY DEF PublishHeartbeats, Publish
  <1>2. UNCHANGED <<now, transactions, nodeHeartbeats, telemetry, heardAt, settledAt>>
    BY DEF PublishHeartbeats, database
  <1>3. sent \in Nat
    <2>1. Len(AnnouncedResources[n]) \in Nat
      BY FederationAssumption
    <2> QED BY <2>1
  <1>4. IsFiniteSet({Announcement(n, i) : i \in 1..sent})
    <2> DEFINE f == [i \in 1..sent |-> Announcement(n, i)]
               T == {Announcement(n, i) : i \in 1..sent}
    <2>1. f \in Surjection(1..sent, T)
      BY DEF Surjection
    <2>2. IsFiniteSet(1..sent)
      BY <1>3, FS_Interval
    <2> HIDE DEF f, T
    <2>3. IsFiniteSet(T)
      BY <2>1, <2>2, FS_Surjection
    <2> QED BY <2>3 DEF T
  <1>5. IsFiniteSet(published')
    BY <1>1, <1>4, FS_Union
  <1>6. ASSUME NEW r
        PROVE  /\ Cardinality(Signed(r)) \in Nat /\ Cardinality(Signed(r)') \in Nat
               /\ Cardinality(Signed(r)) <= Cardinality(Signed(r)')
    <2>1. Signed(r) \subseteq Signed(r)' /\ Signed(r)' \subseteq published'
      BY <1>1 DEF Signed
    <2>2. IsFiniteSet(Signed(r)')
      BY <1>5, <2>1, FS_Subset
    <2> QED BY <2>1, <2>2, SignedFinite, FS_Subset, FS_CardinalityType
  <1>7. TransactionsAreHonest'
    <2> SUFFICES ASSUME NEW t \in transactions
                 PROVE  /\ t.message.timestamp <= now + MaxClockSkew
                        /\ t.pings # None =>
                             t.pings <= Cardinality(Signed(t.message.resource)')
      BY <1>2 DEF TransactionsAreHonest, Signed
    <2>1. t.pings # None => t.pings \in Nat
      BY DEF IInv, TypeOK
    <2> QED BY <1>6, <2>1 DEF TransactionsAreHonest
  <1>8. UptimeIsHonest'
    <2> SUFFICES ASSUME NEW r \in Resources, telemetry[r] # None, telemetry[r].nodeId # None
                 PROVE  telemetry[r].uptime <= Cardinality(Signed(r)')
      BY <1>2 DEF UptimeIsHonest, Signed
    <2>1. telemetry[r].uptime \in Int
      BY DEF IInv, RowsOK, Rows
    <2>2. telemetry[r].uptime <= Cardinality(Signed(r))
      BY DEF UptimeIsHonest, Signed
    <2> QED BY <1>6, <2>1, <2>2
  <1>9. RowsAreHeard'
    BY <1>2 DEF RowsAreHeard
  <1> QED BY <1>1, <1>2, <1>5, <1>7, <1>8, <1>9

(* A message is taken while it is fresh, and counted nothing yet.          *)
LEMMA HandleHonest ==
    ASSUME IInv, HonestInv, NEW m \in published, HandleIncomingMessage(m)
    PROVE  HonestInv'
  <1> USE DEF HonestInv
  <1>1. UNCHANGED <<now, published, nodeHeartbeats, telemetry, heardAt, settledAt>>
    BY DEF HandleIncomingMessage, gossip, database
  <1>2. transactions' \subseteq transactions \cup {[message |-> m, pings |-> None]}
    BY DEF HandleIncomingMessage
  <1>3. m.timestamp <= now + MaxClockSkew
    <2>1. m.timestamp \in Nat /\ now \in Nat /\ MaxClockSkew \in Nat
      BY FederationAssumption DEF IInv, TypeOK, AnnounceMessages
    <2> QED BY <2>1 DEF HandleIncomingMessage, IsFresh
  <1>4. TransactionsAreHonest'
    BY <1>1, <1>2, <1>3 DEF TransactionsAreHonest, Signed
  <1>5. UptimeIsHonest' /\ RowsAreHeard'
    BY <1>1 DEF UptimeIsHonest, RowsAreHeard
  <1> QED BY <1>1, <1>4, <1>5

LEMMA CountHonest ==
    ASSUME IInv, HonestInv, NEW t \in transactions, CountPings(t)
    PROVE  HonestInv'
  <1> USE DEF HonestInv
  <1> DEFINE counted == {h \in Recorded(t.message) :
                            /\ h.resource = t.message.resource
                            /\ h.timestamp >= now - UptimeWindow}
             counting == [t EXCEPT !.pings = Cardinality(counted)]
  <1>1. /\ transactions' = (transactions \ {t}) \cup {counting}
        /\ UNCHANGED <<now, published, nodeHeartbeats, telemetry, heardAt, settledAt>>
    BY DEF CountPings, gossip, database
  <1>2. t \in [message : published, pings : Nat \cup {None}]
    BY DEF IInv, TypeOK
  <1>3. counted \subseteq Signed(t.message.resource)
    BY <1>2 DEF Recorded, Signed
  <1>4. Cardinality(counted) <= Cardinality(Signed(t.message.resource))
    BY <1>3, SignedFinite, FS_Subset
  <1> HIDE DEF counted
  <1>5. counting.message = t.message /\ counting.pings = Cardinality(counted)
    BY <1>2
  <1> HIDE DEF counting
  <1>6. \A u \in transactions' : u \in transactions \/ u = counting
    BY <1>1
  <1>7. TransactionsAreHonest'
    <2> SUFFICES ASSUME NEW u \in transactions'
                 PROVE  /\ u.message.timestamp <= now + MaxClockSkew
                        /\ u.pings # None => u.pings <= Cardinality(Signed(u.message.resource))
      BY <1>1 DEF TransactionsAreHonest, Signed
    <2>1. CASE u \in transactions
      BY <2>1 DEF TransactionsAreHonest
    <2>2. CASE u = counting
      <3>1. u.message = t.message /\ u.pings = Cardinality(counted)
        BY <1>5, <2>2
      <3> QED BY <1>4, <3>1 DEF TransactionsAreHonest
    <2> QED BY <1>6, <2>1, <2>2
  <1>8. UptimeIsHonest' /\ RowsAreHeard'
    BY <1>1 DEF UptimeIsHonest, RowsAreHeard
  <1> QED BY <1>1, <1>7, <1>8

LEMMA CommitHonest ==
    ASSUME IInv, HonestInv, NEW t \in transactions, CommitHeartbeat(t)
    PROVE  HonestInv'
  <1> USE DEF HonestInv
  <1> DEFINE m == t.message
             r == m.resource
             row == [nodeId |-> m.nodeId, lastHeartbeatAt |-> m.timestamp,
                     heartbeatSequence |-> NextSequence(r, m.sequence),
                     uptime |-> UptimeRatio(t.pings), status |-> "HEALTHY",
                     lastSettlementAt |-> IF telemetry[r] = None THEN None
                                          ELSE telemetry[r].lastSettlementAt]
  <1>1. /\ t.pings # None
        /\ nodeHeartbeats' = Recorded(m)
        /\ telemetry' = [telemetry EXCEPT ![r] = row]
        /\ heardAt' = [heardAt EXCEPT ![r] = now]
        /\ transactions' = transactions \ {t}
        /\ UNCHANGED <<now, published, settledAt>>
    BY DEF CommitHeartbeat, gossip
  <1>2. t \in [message : published, pings : Nat \cup {None}] /\ m \in AnnounceMessages
    BY DEF IInv, TypeOK
  <1>3. m \in published /\ t.pings \in Nat /\ r \in Resources /\ m.timestamp \in Nat
    BY <1>1, <1>2 DEF AnnounceMessages
  <1>4. nodeHeartbeats' \subseteq published'
    BY <1>1, <1>3 DEF Recorded
  <1>5. TransactionsAreHonest'
    BY <1>1 DEF TransactionsAreHonest, Signed
  <1>6. telemetry \in [Resources -> Rows \cup {None}] /\ now \in Nat
    BY DEF IInv, RowsOK, TypeOK
  <1>7. /\ row # None
        /\ row.uptime = UptimeRatio(t.pings) /\ row.lastHeartbeatAt = m.timestamp
        /\ row.lastSettlementAt = IF telemetry[r] = None THEN None
                                  ELSE telemetry[r].lastSettlementAt
    <2>1. UptimeRatio(t.pings) \in Int
      BY <1>3, FederationAssumption DEF UptimeRatio, ExpectedPings
    <2>2. NextSequence(r, m.sequence) \in Nat
      BY <1>2, <1>3, <1>6 DEF NextSequence, Rows, AnnounceMessages
    <2>3. telemetry[r] # None => telemetry[r].lastSettlementAt \in Nat \cup {None}
      BY <1>3, <1>6 DEF Rows
    <2>4. row \in Rows
      BY <1>2, <2>1, <2>2, <2>3 DEF Rows, AnnounceMessages
    <2>5. row # None
      BY <2>4, FederationAssumption
    <2> QED BY <2>5
  <1>8. \A q \in Resources :
            telemetry'[q] = IF q = r THEN row ELSE telemetry[q]
    BY <1>1, <1>6
  <1> HIDE DEF row
  <1>9. UptimeIsHonest'
    <2> SUFFICES ASSUME NEW q \in Resources, telemetry'[q] # None, telemetry'[q].nodeId # None
                 PROVE  telemetry'[q].uptime <= Cardinality(Signed(q))
      BY <1>1 DEF UptimeIsHonest, Signed
    <2>1. CASE q = r
      <3>1. t.pings <= Cardinality(Signed(r)) /\ Cardinality(Signed(r)) \in Nat
        BY <1>1, SignedFinite DEF TransactionsAreHonest
      <3>2. UptimeRatio(t.pings) \in Int /\ UptimeRatio(t.pings) <= t.pings
        BY <1>3, FederationAssumption DEF UptimeRatio, ExpectedPings
      <3>3. telemetry'[q].uptime = UptimeRatio(t.pings)
        BY <1>7, <1>8, <2>1
      <3> QED BY <1>3, <2>1, <3>1, <3>2, <3>3
    <2>2. CASE q # r
      BY <1>8, <2>2 DEF UptimeIsHonest, Signed
    <2> QED BY <2>1, <2>2
  <1>10. RowsAreHeard'
    <2>1. /\ heardAt' \in [Resources -> Nat \cup {None}]
          /\ settledAt' \in [Resources -> Nat \cup {None}]
          /\ \A q \in Resources : heardAt'[q] = IF q = r THEN now ELSE heardAt[q]
      BY <1>1, <1>6 DEF RowsAreHeard
    <2>2. \A q \in Resources : telemetry'[q] = None => settledAt'[q] = None
      BY <1>1, <1>7, <1>8 DEF RowsAreHeard
    <2>3. ASSUME NEW q \in Resources, telemetry'[q] # None
          PROVE  /\ telemetry'[q].lastSettlementAt = settledAt[q]
                 /\ \/ /\ heardAt'[q] # None
                       /\ telemetry'[q].lastHeartbeatAt <= heardAt'[q] + MaxClockSkew
                    \/ /\ settledAt[q] # None
                       /\ telemetry'[q].lastHeartbeatAt <= settledAt[q]
      <3>1. CASE q = r
        <4>1. m.timestamp <= now + MaxClockSkew
          BY DEF TransactionsAreHonest
        <4>2. now # None
          BY <1>6, FederationAssumption
        <4>3. row.lastSettlementAt = settledAt[r]
          BY <1>3, <1>7 DEF RowsAreHeard
        <4> QED BY <1>7, <1>8, <2>1, <3>1, <4>1, <4>2, <4>3
      <3>2. CASE q # r
        BY <1>8, <2>1, <2>3, <3>2 DEF RowsAreHeard
      <3> QED BY <3>1, <3>2
    <2> QED BY <1>1, <2>1, <2>2, <2>3 DEF RowsAreHeard
  <1> QED BY <1>1, <1>4, <1>5, <1>9, <1>10

(* A settlement is of now, and leaves the uptime of a row that has one.    *)
LEMMA RecordSettlementHonest ==
    ASSUME IInv, HonestInv, NEW r \in Resources, RecordSettlement(r)
    PROVE  HonestInv'
  <1> USE DEF HonestInv
  <1> DEFINE fresh == [nodeId |-> None, lastHeartbeatAt |-> now, heartbeatSequence |-> 0,
                       uptime |-> ExpectedPings, status |-> "HEALTHY",
                       lastSettlementAt |-> now]
             kept == [telemetry[r] EXCEPT !.lastSettlementAt = now, !.status = "HEALTHY"]
  <1>1. /\ telemetry' = [telemetry EXCEPT ![r] = IF telemetry[r] = None THEN fresh ELSE kept]
        /\ settledAt' = [settledAt EXCEPT ![r] = now]
        /\ UNCHANGED <<now, published, transactions, nodeHeartbeats, heardAt>>
    BY DEF RecordSettlement, gossip
  <1>2. telemetry \in [Resources -> Rows \cup {None}] /\ now \in Nat /\ now # None
    BY FederationAssumption DEF IInv, RowsOK, TypeOK
  <1>3. /\ fresh.nodeId = None /\ fresh.lastHeartbeatAt = now /\ fresh.lastSettlementAt = now
        /\ fresh # None
    <2>1. ExpectedPings \in Int
      BY FederationAssumption DEF ExpectedPings
    <2>2. fresh \in Rows
      BY <1>2, <2>1 DEF Rows
    <2>3. fresh # None
      BY <2>2, FederationAssumption
    <2> QED BY <2>3
  <1>4. telemetry[r] # None =>
            /\ kept # None
            /\ kept.nodeId = telemetry[r].nodeId /\ kept.uptime = telemetry[r].uptime
            /\ kept.lastHeartbeatAt = telemetry[r].lastHeartbeatAt
            /\ kept.lastSettlementAt = now
    <2> SUFFICES ASSUME telemetry[r] \in Rows
                 PROVE  /\ kept # None
                        /\ kept.nodeId = telemetry[r].nodeId
                        /\ kept.uptime = telemetry[r].uptime
                        /\ kept.lastHeartbeatAt = telemetry[r].lastHeartbeatAt
                        /\ kept.lastSettlementAt = now
      BY <1>2
    <2>1. kept \in Rows
      BY <1>2 DEF Rows
    <2>2. kept # None
      BY <2>1, FederationAssumption
    <2> QED BY <2>2 DEF Rows
  <1> HIDE DEF fresh, kept
  <1>5. /\ \A q \in Resources : q # r => telemetry'[q] = telemetry[q]
        /\ telemetry'[r] = IF telemetry[r] = None THEN fresh ELSE kept
    BY <1>1, <1>2
  <1>6. TransactionsAreHonest'
    BY <1>1 DEF TransactionsAreHonest, Signed
  <1>7. UptimeIsHonest'
    <2> SUFFICES ASSUME NEW q \in Resources, telemetry'[q] # None, telemetry'[q].nodeId # None
                 PROVE  telemetry'[q].uptime <= Cardinality(Signed(q))
      BY <1>1 DEF UptimeIsHonest, Signed
    <2>1. CASE q # r
      BY <1>5, <2>1 DEF UptimeIsHonest, Signed
    <2>2. CASE q = r
      BY <1>3, <1>4, <1>5, <2>2 DEF UptimeIsHonest, Signed
    <2> QED BY <2>1, <2>2
  <1>8. RowsAreHeard'
    <2>1. /\ settledAt' \in [Resources -> Nat \cup {None}]
          /\ \A q \in Resources : settledAt'[q] = IF q = r THEN now ELSE settledAt[q]
      BY <1>1, <1>2 DEF RowsAreHeard
    <2>2. \A q \in Resources : telemetry'[q] = None => settledAt'[q] = None
      BY <1>3, <1>4, <1>5, <2>1 DEF RowsAreHeard
    <2>3. ASSUME NEW q \in Resources, telemetry'[q] # None
          PROVE  /\ telemetry'[q].lastSettlementAt = settledAt'[q]
                 /\ \/ /\ heardAt[q] # None
                       /\ telemetry'[q].lastHeartbeatAt <= heardAt[q] + MaxClockSkew
                    \/ /\ settledAt'[q] # None
                       /\ telemetry'[q].lastHeartbeatAt <= settledAt'[q]
      <3>1. CASE q # r
        BY <1>5, <2>1, <2>3, <3>1 DEF RowsAreHeard
      <3>2. CASE q = r /\ telemetry[r] = None
        BY <1>2, <1>3, <1>5, <2>1, <3>2
      <3>3. CASE q = r /\ telemetry[r] # None
        <4>1. telemetry'[q].lastSettlementAt = now /\ settledAt'[q] = now
          BY <1>4, <1>5, <2>1, <3>3
        <4>2. telemetry'[q].lastHeartbeatAt = telemetry[r].lastHeartbeatAt
          BY <1>4, <1>5, <3>3
        <4>3. CASE heardAt[r] # None
                    /\ telemetry[r].lastHeartbeatAt <= heardAt[r] + MaxClockSkew
          BY <3>3, <4>1, <4>2, <4>3
        <4>4. CASE settledAt[r] # None /\ telemetry[r].lastHeartbeatAt <= settledAt[r]
          <5>1. settledAt[r] <= now /\ settledAt[r] \in Nat
            BY <3>3, <4>4 DEF RowsAreHeard
          <5>2. telemetry[r].lastHeartbeatAt \in Nat
            BY <1>2, <3>3 DEF Rows
          <5> QED BY <1>2, <3>3, <4>1, <4>2, <4>4, <5>1, <5>2
        <4> QED BY <3>3, <4>3, <4>4 DEF RowsAreHeard
      <3> QED BY <3>1, <3>2, <3>3
    <2>4. \A q \in Resources : settledAt'[q] # None => settledAt'[q] <= now
      BY <1>2, <2>1 DEF RowsAreHeard
    <2> QED BY <1>1, <2>1, <2>2, <2>3, <2>4 DEF RowsAreHeard
  <1> QED BY <1>1, <1>6, <1>7, <1>8

(* An evaluation rewrites statuses only.                                   *)
LEMMA PruneHonest ==
    ASSUME IInv, HonestInv, PruneOfflineNodes
    PROVE  HonestInv'
  <1> USE DEF HonestInv
  <1>1. UNCHANGED <<now, published, transactions, nodeHeartbeats, heardAt, settledAt>>
    BY DEF PruneOfflineNodes, gossip
  <1>2. telemetry \in [Resources -> Rows \cup {None}]
    BY DEF IInv, RowsOK
  <1>3. ASSUME NEW r \in Resources
        PROVE  \/ telemetry[r] = None /\ telemetry'[r] = None
               \/ /\ telemetry[r] # None /\ telemetry'[r] # None
                  /\ telemetry'[r].nodeId = telemetry[r].nodeId
                  /\ telemetry'[r].uptime = telemetry[r].uptime
                  /\ telemetry'[r].lastHeartbeatAt = telemetry[r].lastHeartbeatAt
                  /\ telemetry'[r].lastSettlementAt = telemetry[r].lastSettlementAt
    <2>1. telemetry'[r] = IF telemetry[r] = None THEN None
                          ELSE [telemetry[r] EXCEPT !.status = LivenessStatus(telemetry[r])]
      BY DEF PruneOfflineNodes
    <2>2. CASE telemetry[r] = None
      BY <2>1, <2>2
    <2>3. CASE telemetry[r] \in Rows
      <3>1. LivenessStatus(telemetry[r]) \in {"HEALTHY", "DEGRADED", "OFFLINE"}
        BY DEF LivenessStatus
      <3>2. telemetry'[r] \in Rows
        BY <2>1, <2>3, <3>1, FederationAssumption DEF Rows
      <3> QED BY <2>1, <2>3, <3>2, FederationAssumption DEF Rows
    <2> QED BY <1>2, <2>2, <2>3
  <1>4. TransactionsAreHonest'
    BY <1>1 DEF TransactionsAreHonest, Signed
  <1>5. UptimeIsHonest'
    <2> SUFFICES ASSUME NEW r \in Resources, telemetry'[r] # None, telemetry'[r].nodeId # None
                 PROVE  telemetry'[r].uptime <= Cardinality(Signed(r))
      BY <1>1 DEF UptimeIsHonest, Signed
    <2> QED BY <1>3 DEF UptimeIsHonest, Signed
  <1>6. RowsAreHeard'
    <2>1. \A r \in Resources : telemetry'[r] = None => settledAt[r] = None
      BY <1>3 DEF RowsAreHeard
    <2>2. ASSUME NEW r \in Resources, telemetry'[r] # None
          PROVE  /\ telemetry'[r].lastSettlementAt = settledAt[r]
                 /\ \/ /\ heardAt[r] # None
                       /\ telemetry'[r].lastHeartbeatAt <= heardAt[r] + MaxClockSkew
                    \/ /\ settledAt[r] # None
                       /\ telemetry'[r].lastHeartbeatAt <= settledAt[r]
      BY <1>3, <2>2 DEF RowsAreHeard
    <2> QED BY <1>1, <2>1, <2>2 DEF RowsAreHeard
  <1> QED BY <1>1, <1>4, <1>5, <1>6

LEMMA NextHonest == IInv /\ HonestInv /\ [Next]_vars => HonestInv'
  <1> SUFFICES ASSUME IInv, HonestInv, [Next]_vars PROVE HonestInv'
    OBVIOUS
  <1>0. now \in Nat
    BY DEF IInv, TypeOK
  <1>1. CASE Tick
    BY <1>0, <1>1, StillHonest DEF Tick, gossip, database
  <1>2. CASE Join \/ OnMessage \/ CleanSeenMessages \/ UNCHANGED vars
    BY <1>0, <1>2, StillHonest
       DEF Join, OnMessage, CleanSeenMessages, vars, gossip, database
  <1>3. CASE Stop
    <2>1. /\ transactions' = {}
          /\ UNCHANGED <<now, published, nodeHeartbeats, telemetry, heardAt, settledAt>>
      BY <1>3 DEF Stop, gossip, database
    <2> QED BY <1>0, <2>1, StillHonest
  <1>4. CASE PruneOfflineNodes
    BY <1>4, PruneHonest
  <1>5. ASSUME NEW n \in Announcers, PublishHeartbeats(n)
        PROVE  HonestInv'
    BY <1>5, PublishHonest
  <1>6. ASSUME NEW n \in Announcers, RestartAnnouncer(n)
        PROVE  HonestInv'
    BY <1>0, <1>6, StillHonest DEF RestartAnnouncer, database
  <1>7. ASSUME NEW m \in published, HandleIncomingMessage(m)
        PROVE  HonestInv'
    BY <1>7, HandleHonest
  <1>8. ASSUME NEW t \in transactions, SkipHeartbeat(t) \/ FailHeartbeat(t)
        PROVE  HonestInv'
    <2>1. /\ transactions' \subseteq transactions
          /\ UNCHANGED <<now, published, nodeHeartbeats, telemetry, heardAt, settledAt>>
      BY <1>8 DEF SkipHeartbeat, FailHeartbeat, gossip, database
    <2> QED BY <1>0, <2>1, StillHonest
  <1>9. ASSUME NEW t \in transactions, CountPings(t) \/ CommitHeartbeat(t)
        PROVE  HonestInv'
    BY <1>9, CountHonest, CommitHonest
  <1>10. ASSUME NEW r \in Resources, RecordSettlement(r)
         PROVE  HonestInv'
    BY <1>10, RecordSettlementHonest
  <1> QED BY <1>1, <1>2, <1>3, <1>4, <1>5, <1>6, <1>7, <1>8, <1>9, <1>10 DEF Next

THEOREM HonestInvariance == Spec => []HonestInv
  BY InitHonest, NextHonest, Invariance, PTL DEF Spec

LEMMA FewerIsSooner ==
    ASSUME NEW n \in Nat, NEW k \in Nat \ {0}
    PROVE  n * k \in Nat /\ n <= n * k
  <1>1. n * k = n * (k - 1) + n
    OBVIOUS
  <1>2. k - 1 \in Nat
    OBVIOUS
  <1>3. n * (k - 1) \in Nat
    BY <1>2
  <1> QED BY <1>1, <1>3

(* What the catalog shows rests on heartbeats and settlements there really *)
(* were: the uptime counts signed heartbeats, and a resource is kept in    *)
(* the search only by something recorded in the window, for any clocks,    *)
(* any interleaving of transactions and any restarts.                      *)
THEOREM ShownIsProven == Spec => []ShownIsHonest
  <1>1. IInv /\ HonestInv => ShownIsHonest
    <2> SUFFICES ASSUME IInv, HonestInv, NEW r \in Resources,
                        telemetry[r] # None, LivenessStatus(telemetry[r]) # "OFFLINE"
                 PROVE  \/ Since(heardAt[r], HeartbeatInterval * MaxMissed + MaxClockSkew)
                        \/ Since(settledAt[r], SettlementWindow * SettlementGrace)
                        \/ Since(settledAt[r], HeartbeatInterval * MaxMissed)
      BY DEF ShownIsHonest, ShownMeansHeard, HonestInv
    <2> DEFINE row == telemetry[r]
               missed == HeartbeatInterval * MaxMissed
               grace == SettlementWindow * SettlementGrace
    <2>1. /\ HeartbeatInterval \in Nat /\ SettlementWindow \in Nat /\ MaxClockSkew \in Nat
          /\ MaxMissed \in Nat \ {0} /\ SettlementGrace \in Nat \ {0}
      BY FederationAssumption
    <2>2. /\ missed \in Nat /\ HeartbeatInterval <= missed
          /\ grace \in Nat /\ SettlementWindow <= grace
      BY <2>1, FewerIsSooner
    <2>3. \/ Since(row.lastHeartbeatAt, HeartbeatInterval)
          \/ Since(row.lastSettlementAt, SettlementWindow)
          \/ Since(row.lastHeartbeatAt, missed)
          \/ Since(row.lastSettlementAt, grace)
      BY DEF LivenessStatus
    <2> HIDE DEF missed, grace
    <2>4. /\ now \in Nat /\ row.lastHeartbeatAt \in Nat
          /\ heardAt[r] \in Nat \cup {None} /\ settledAt[r] \in Nat \cup {None}
      BY DEF IInv, TypeOK, RowsOK, Rows, HonestInv, RowsAreHeard
    <2>5. /\ row.lastSettlementAt = settledAt[r]
          /\ \/ heardAt[r] # None /\ row.lastHeartbeatAt <= heardAt[r] + MaxClockSkew
             \/ settledAt[r] # None /\ row.lastHeartbeatAt <= settledAt[r]
      BY DEF HonestInv, RowsAreHeard
    <2>6. CASE row.lastHeartbeatAt >= now - missed
      <3>1. CASE heardAt[r] # None /\ row.lastHeartbeatAt <= heardAt[r] + MaxClockSkew
        <4>1. heardAt[r] \in Nat /\ heardAt[r] >= now - (missed + MaxClockSkew)
          BY <2>1, <2>2, <2>4, <2>6, <3>1
        <4> QED BY <3>1, <4>1 DEF Since, Never, missed
      <3>2. CASE settledAt[r] # None /\ row.lastHeartbeatAt <= settledAt[r]
        <4>1. settledAt[r] \in Nat /\ settledAt[r] >= now - missed
          BY <2>2, <2>4, <2>6, <3>2
        <4> QED BY <3>2, <4>1 DEF Since, Never, missed
      <3> QED BY <2>5, <3>1, <3>2
    <2>7. CASE settledAt[r] # None /\ settledAt[r] >= now - grace
      BY <2>7 DEF Since, Never, grace
    <2>8. row.lastHeartbeatAt >= now - missed
            \/ (settledAt[r] # None /\ settledAt[r] >= now - grace)
      BY <2>1, <2>2, <2>3, <2>4, <2>5 DEF Since, Never
    <2> QED BY <2>6, <2>7, <2>8
  <1> QED BY <1>1, Invariance, HonestInvariance, PTL

-----------------------------------------------------------------------------
(* Reading the catalog a page at a time.                                   *)

LEMMA MaxOfTwo ==
    ASSUME NEW a \in Int, NEW b \in Int
    PROVE  Max({a, b}) = IF a >= b THEN a ELSE b
<1> DEFINE Greatest(x) == x \in {a, b} /\ \A y \in {a, b} : x >= y
<1>1. Greatest(IF a >= b THEN a ELSE b)
  OBVIOUS
<1>2. Greatest(CHOOSE x : Greatest(x))
  BY <1>1
<1>3. Max({a, b}) = CHOOSE x : Greatest(x)
  BY DEF Max
<1> QED
  BY <1>2, <1>3

LEMMA MinOfTwo ==
    ASSUME NEW a \in Int, NEW b \in Int
    PROVE  Min({a, b}) = IF a <= b THEN a ELSE b
<1> DEFINE Least(x) == x \in {a, b} /\ \A y \in {a, b} : x <= y
<1>1. Least(IF a <= b THEN a ELSE b)
  OBVIOUS
<1>2. Least(CHOOSE x : Least(x))
  BY <1>1
<1>3. Min({a, b}) = CHOOSE x : Least(x)
  BY DEF Min
<1> QED
  BY <1>2, <1>3

(* Whatever a client asks for, a page may hold a row.                      *)
LEMMA LimitIsPositive ==
    ASSUME NEW n \in Int
    PROVE  ClampLimit(n) \in Nat \ {0}
<1>1. MaxLimit \in Nat \ {0}
  BY SearchAssumption
<1>2. Max({1, n}) \in Int /\ Max({1, n}) >= 1
  BY MaxOfTwo
<1> QED
  BY <1>1, <1>2, MinOfTwo DEF ClampLimit

(* An arrangement of a finite set holds each of its elements, once.        *)
LEMMA Arranged ==
    ASSUME NEW S, IsFiniteSet(S), NEW s \in SetToSeqs(S)
    PROVE  /\ s \in Seq(S) /\ Len(s) = Cardinality(S)
           /\ \A i, j \in 1..Len(s) : s[i] = s[j] => i = j
           /\ \A x \in S : \E i \in 1..Len(s) : s[i] = x
<1> DEFINE n == Cardinality(S)
<1>1. n \in Nat
  BY FS_CardinalityType
<1>2. s \in [1..n -> S] /\ \A i, j \in 1..n : i # j => s[i] # s[j]
  BY DEF SetToSeqs
<1>3. s \in Seq(S) /\ Len(s) = n
  BY <1>1, <1>2
<1>4. s \in Injection(1..n, S)
  BY <1>2 DEF Injection, IsInjective
<1>5. Cardinality(1..n) = n
  BY <1>1, FS_Interval
<1>6. s \in Surjection(1..n, S)
  BY <1>4, <1>5, FS_Injection
<1> QED
  BY <1>2, <1>3, <1>6 DEF Surjection

(* How many of S come before x in the order R.                             *)
Place(S, R, x) == Cardinality({y \in S : <<y, x>> \in R})

(* In an arrangement along an order every element stands at its place.     *)
LEMMA StandsAtItsPlace ==
    ASSUME NEW S, IsFiniteSet(S), NEW s \in SetToSeqs(S), NEW R,
           \A i, j \in 1..Len(s) : i < j => <<s[i], s[j]>> \in R,
           \A x, y \in S : ~(<<x, y>> \in R /\ <<y, x>> \in R),
           NEW i \in 1..Len(s)
    PROVE  Place(S, R, s[i]) = i - 1
<1> DEFINE before == {y \in S : <<y, s[i]>> \in R}
           first == [j \in 1..(i - 1) |-> s[j]]
<1>1. /\ s \in Seq(S)
      /\ \A j, k \in 1..Len(s) : s[j] = s[k] => j = k
      /\ \A x \in S : \E j \in 1..Len(s) : s[j] = x
  BY Arranged
<1>2. Len(s) \in Nat /\ \A j \in 1..Len(s) : s[j] \in S
  BY <1>1
<1>3. \A j \in 1..(i - 1) : j \in 1..Len(s) /\ s[j] \in before
  BY <1>2
<1>4. ASSUME NEW y \in before
      PROVE  \E j \in 1..(i - 1) : first[j] = y
  <2>1. PICK j \in 1..Len(s) : s[j] = y
    BY <1>1
  <2>2. ~(i < j)
    BY <1>2, <2>1
  <2>3. i # j
    BY <1>2, <2>1
  <2> QED
    BY <2>1, <2>2, <2>3, <1>2
<1>5. first \in Bijection(1..(i - 1), before)
  <2>1. first \in [1..(i - 1) -> before]
    BY <1>3
  <2>2. IsInjective(first)
    BY <1>1, <1>3 DEF IsInjective
  <2> QED
    BY <1>4, <2>1, <2>2 DEF Bijection, Injection, Surjection
<1>6. IsFiniteSet(1..(i - 1)) /\ Cardinality(1..(i - 1)) = i - 1
  <2>1. i \in Int /\ i >= 1 /\ i - 1 \in Int
    BY <1>2
  <2>2. /\ IsFiniteSet(1..(i - 1))
        /\ Cardinality(1..(i - 1)) = IF 1 > i - 1 THEN 0 ELSE (i - 1) - 1 + 1
    BY <2>1, FS_Interval
  <2> QED
    BY <2>1, <2>2
<1>7. Cardinality(before) = i - 1
  BY <1>5, <1>6, FS_Bijection DEF ExistsBijection
<1> QED
  BY <1>7 DEF Place

(* A page is the stretch of the arrangement it was cut from.               *)
LEMMA SliceIsStretch ==
    ASSUME NEW S, NEW s \in Seq(S), NEW offset \in Nat, NEW limit \in Nat \ {0}
    PROVE  LET rows == Slice(s, offset, limit)
           IN  /\ rows \in Seq(S)
               /\ rows = <<>> <=> offset >= Len(s)
               /\ rows # <<>> => offset + Len(rows) <= Len(s)
               /\ \A i \in 1..Len(rows) :
                    offset + i \in 1..Len(s) /\ rows[i] = s[offset + i]
<1> DEFINE end == Min({offset + limit, Len(s)})
           rows == Slice(s, offset, limit)
<1>1. Len(s) \in Nat /\ \A i \in 1..Len(s) : s[i] \in S
  OBVIOUS
<1>2. end = IF offset + limit <= Len(s) THEN offset + limit ELSE Len(s)
  BY <1>1, MinOfTwo
<1>3. end \in Nat /\ end <= Len(s) /\ (offset < end <=> offset < Len(s))
  BY <1>1, <1>2
<1>4. rows = SubSeq(s, offset + 1, end)
  BY DEF Slice
<1>5. \A i \in (offset + 1)..end : s[i] \in S
  BY <1>1, <1>3
<1> HIDE DEF end
<1>6. /\ rows \in Seq(S)
      /\ Len(rows) = IF offset + 1 <= end THEN end - offset ELSE 0
      /\ \A i \in 1..(end - offset) : rows[i] = s[offset + i]
  <2>1. /\ SubSeq(s, offset + 1, end) \in Seq(S)
        /\ Len(SubSeq(s, offset + 1, end)) =
              IF offset + 1 <= end THEN end - (offset + 1) + 1 ELSE 0
        /\ \A i \in 1..(end - (offset + 1) + 1) :
              SubSeq(s, offset + 1, end)[i] = s[(offset + 1) + i - 1]
    BY <1>3, <1>5, SubSeqProperties
  <2> QED
    BY <1>3, <1>4, <2>1
<1>7. rows = <<>> <=> Len(rows) = 0
  BY <1>6
<1> HIDE DEF rows
<1>8. /\ rows = <<>> <=> offset >= Len(s)
      /\ rows # <<>> => offset + Len(rows) <= Len(s)
      /\ \A i \in 1..Len(rows) : offset + i \in 1..Len(s) /\ rows[i] = s[offset + i]
  BY <1>1, <1>3, <1>6, <1>7
<1> QED
  BY <1>6, <1>8 DEF rows

(* An element is put in, and what comes after it moves up.                 *)
LEMMA Inserted ==
    ASSUME NEW S, NEW s \in Seq(S), NEW x \in S, NEW i \in 1..(Len(s) + 1)
    PROVE  /\ InsertAt(s, i, x) \in Seq(S)
           /\ Len(InsertAt(s, i, x)) = Len(s) + 1
           /\ \A j \in 1..(i - 1) : InsertAt(s, i, x)[j] = s[j]
           /\ InsertAt(s, i, x)[i] = x
           /\ \A j \in i..Len(s) : InsertAt(s, i, x)[j + 1] = s[j]
<1> DEFINE front == SubSeq(s, 1, i - 1)
           back == SubSeq(s, i, Len(s))
<1>1. Len(s) \in Nat /\ i \in Int /\ 1 <= i /\ i <= Len(s) + 1
  OBVIOUS
<1>2. \A j \in 1..(i - 1) : s[j] \in S
  BY <1>1
<1>3. \A j \in i..Len(s) : s[j] \in S
  BY <1>1
<1>4. /\ front \in Seq(S) /\ Len(front) = i - 1
      /\ \A j \in 1..(i - 1) : front[j] = s[j]
  <2>1. i - 1 \in Int /\ 1 \in Int
    BY <1>1
  <2>2. /\ front \in Seq(S)
        /\ Len(front) = IF 1 <= i - 1 THEN i - 1 - 1 + 1 ELSE 0
        /\ \A j \in 1..(i - 1 - 1 + 1) : front[j] = s[1 + j - 1]
    BY <1>2, <2>1, SubSeqProperties
  <2> QED
    BY <1>1, <2>2
<1>5. /\ back \in Seq(S) /\ Len(back) = Len(s) - i + 1
      /\ \A j \in 1..(Len(s) - i + 1) : back[j] = s[i + j - 1]
  BY <1>1, <1>3, SubSeqProperties
<1> HIDE DEF front, back
<1>6. <<x>> \in Seq(S) /\ Len(<<x>>) = 1 /\ <<x>>[1] = x
  OBVIOUS
<1>7. /\ front \o <<x>> \in Seq(S)
      /\ Len(front \o <<x>>) = i
      /\ \A j \in 1..i : (front \o <<x>>)[j] = IF j < i THEN s[j] ELSE x
  <2>1. /\ front \o <<x>> \in Seq(S)
        /\ Len(front \o <<x>>) = Len(front) + Len(<<x>>)
        /\ \A j \in 1..(Len(front) + Len(<<x>>)) : (front \o <<x>>)[j] =
              IF j <= Len(front) THEN front[j] ELSE <<x>>[j - Len(front)]
    BY <1>4, <1>6, ConcatProperties
  <2> QED
    BY <1>1, <1>4, <1>6, <2>1
<1>8. InsertAt(s, i, x) = (front \o <<x>>) \o back
  BY DEF InsertAt, front, back
<1> DEFINE both == front \o <<x>>
<1> HIDE DEF both
<1>9. both \in Seq(S) /\ Len(both) = i /\ \A j \in 1..i : both[j] = IF j < i THEN s[j] ELSE x
  BY <1>7 DEF both
<1>10. /\ both \o back \in Seq(S)
       /\ Len(both \o back) = Len(both) + Len(back)
       /\ \A j \in 1..(Len(both) + Len(back)) : (both \o back)[j] =
             IF j <= Len(both) THEN both[j] ELSE back[j - Len(both)]
  BY <1>5, <1>9, ConcatProperties
<1>11. \A j \in 1..(i - 1) : (both \o back)[j] = s[j]
  BY <1>1, <1>5, <1>9, <1>10
<1>12. (both \o back)[i] = x
  BY <1>1, <1>5, <1>9, <1>10
<1>13. ASSUME NEW j \in i..Len(s)
       PROVE  (both \o back)[j + 1] = s[j]
  <2>1. (both \o back)[j + 1] = back[j + 1 - i]
    BY <1>1, <1>5, <1>9, <1>10
  <2>2. j + 1 - i \in 1..(Len(s) - i + 1) /\ i + (j + 1 - i) - 1 = j
    BY <1>1
  <2> QED
    BY <1>5, <2>1, <2>2
<1>14. InsertAt(s, i, x) = both \o back
  BY <1>8 DEF both
<1>15. (both \o back) \in Seq(S) /\ Len(both \o back) = Len(s) + 1
  BY <1>1, <1>5, <1>9, <1>10
<1> QED
  BY <1>11, <1>12, <1>13, <1>14, <1>15

-----------------------------------------------------------------------------
(* The table and its telemetry.                                            *)

TableOK ==
    /\ listed \in Seq(Entries)
    /\ \A i, j \in 1..Len(listed) : listed[i] = listed[j] => i = j
    /\ live \in [Entries -> {"HEALTHY", "DEGRADED", "OFFLINE"}]
    /\ form \in [Entries -> Forms]

LEMMA TableHolds ==
    ASSUME TableOK, [SearchNext]_searchVars
    PROVE  TableOK'
<1>1. CASE UNCHANGED catalog
  BY <1>1 DEF catalog, TableOK
<1>2. ASSUME NEW r \in Entries, NEW f \in Forms, Insert(r, f)
      PROVE  TableOK'
  <2>1. PICK i \in 1..(Len(listed) + 1) : listed' = InsertAt(listed, i, r)
    BY <1>2 DEF Insert
  <2>2. /\ listed \in Seq(Entries) /\ Len(listed) \in Nat
        /\ \A j \in 1..Len(listed) : listed[j] \in Entries /\ listed[j] # r
    BY <1>2 DEF Insert, TableOK, ToSet
  <2>3. /\ listed' \in Seq(Entries)
        /\ Len(listed') = Len(listed) + 1
        /\ \A j \in 1..(i - 1) : listed'[j] = listed[j]
        /\ listed'[i] = r
        /\ \A j \in i..Len(listed) : listed'[j + 1] = listed[j]
    <3>1. listed \in Seq(Entries)
      BY <2>2
    <3>2. InsertAt(listed, i, r) \in Seq(Entries)
      BY <3>1, Inserted
    <3>3. Len(InsertAt(listed, i, r)) = Len(listed) + 1
      BY <3>1, Inserted
    <3>4. \A j \in 1..(i - 1) : InsertAt(listed, i, r)[j] = listed[j]
      BY <3>1, Inserted
    <3>5. InsertAt(listed, i, r)[i] = r
      BY <3>1, Inserted
    <3>6. \A j \in i..Len(listed) : InsertAt(listed, i, r)[j + 1] = listed[j]
      BY <3>1, Inserted
    <3> QED
      BY <2>1, <3>2, <3>3, <3>4, <3>5, <3>6
  <2>4. ASSUME NEW j \in 1..Len(listed'), NEW k \in 1..Len(listed'),
               listed'[j] = listed'[k], j # k
        PROVE  FALSE
    <3>1. /\ i \in Int /\ j \in Int /\ k \in Int /\ 1 <= j /\ 1 <= k
          /\ j <= Len(listed) + 1 /\ k <= Len(listed) + 1 /\ 1 <= i
      BY <2>2, <2>3
    <3> DEFINE old(m) == IF m < i THEN m ELSE m - 1
    <3>2. \A m \in {j, k} : m # i => old(m) \in 1..Len(listed) /\ listed'[m] = listed[old(m)]
      <4> SUFFICES ASSUME NEW m \in {j, k}, m # i
                   PROVE  old(m) \in 1..Len(listed) /\ listed'[m] = listed[old(m)]
        OBVIOUS
      <4>1. CASE m < i
        BY <2>2, <2>3, <3>1, <4>1
      <4>2. CASE m > i
        <5>1. m - 1 \in i..Len(listed) /\ m = (m - 1) + 1
          BY <2>2, <3>1, <4>2
        <5> QED
          BY <2>2, <2>3, <3>1, <4>2, <5>1
      <4> QED
        BY <3>1, <4>1, <4>2
    <3>3. j # i /\ k # i
      BY <2>2, <2>3, <2>4, <3>2
    <3>4. old(j) = old(k)
      BY <2>4, <3>2, <3>3 DEF TableOK
    <3> QED
      BY <2>4, <3>1, <3>3, <3>4
  <2> QED
    BY <1>2, <2>3, <2>4 DEF Insert, TableOK
<1>3. ASSUME NEW r \in Entries, NEW f \in Forms, Drop(r) \/ Rewrite(r, f) \/ Beat(r)
      PROVE  TableOK'
  <2>1. CASE Drop(r) \/ Beat(r)
    BY <2>1 DEF Drop, Beat, TableOK
  <2>2. CASE Rewrite(r, f)
    BY <2>2 DEF Rewrite, TableOK
  <2> QED
    BY <1>3, <2>1, <2>2
<1>4. CASE CatalogChange
  <2>1. PICK f \in Forms : TRUE
    BY SearchAssumption, <1>4 DEF CatalogChange, TableOK
  <2> QED
    BY <1>2, <1>3, <1>4, <2>1 DEF CatalogChange
<1> QED
  BY <1>1, <1>4 DEF SearchNext, OpenSearch, OpenListing, Begin, Discover, OpenWithCursor,
        Continue, SdkSearch, SdkList, NextByOffset, searchVars, catalog

-----------------------------------------------------------------------------
(* What is shown of the table, and in which order.                         *)

Order(q) ==
    {p \in Entries \X Entries :
        IF q \in Listings THEN Newer(p[1], p[2])
        ELSE Score(q, Hits(q), Near(q), p[1])
                > Score(q, Hits(q), Near(q), p[2])}

(* Every two of S are in order.                                            *)
Decided(S, R) == \A x, y \in S : x # y => <<x, y>> \in R \/ <<y, x>> \in R

LEMMA ScoreType ==
    ASSUME TableOK, NEW q \in Searches, NEW text, NEW vector, NEW r \in Entries
    PROVE  Score(q, text, vector, r) \in Int
<1>1. Relevance[q][form[r]] \in Int
  BY SearchAssumption DEF TableOK
<1> DEFINE legs == (IF r \in text THEN 1 ELSE 0) + (IF r \in vector THEN 1 ELSE 0)
           weight == IF live[r] = "HEALTHY" THEN 10 ELSE 3
<1>2. legs \in Int /\ weight \in Int
  OBVIOUS
<1> HIDE DEF legs, weight
<1>3. Relevance[q][form[r]] * legs * weight \in Int
  BY <1>1, <1>2
<1> QED
  BY <1>3 DEF Score, legs, weight

LEMMA RowsAreFinite ==
    ASSUME NEW S, NEW s \in Seq(S), NEW T, T \subseteq ToSet(s)
    PROVE  IsFiniteSet(T) /\ T \subseteq S
<1>1. Len(s) \in Nat /\ IsFiniteSet(1..Len(s))
  BY FS_Interval
<1>2. s \in Surjection(1..Len(s), ToSet(s))
  BY DEF Surjection, ToSet
<1>3. IsFiniteSet(ToSet(s))
  BY <1>1, <1>2, FS_Surjection
<1>4. ToSet(s) \subseteq S
  BY DEF ToSet
<1> QED
  BY <1>3, <1>4, FS_Subset

LEMMA VisibleIsFinite ==
    ASSUME TableOK, NEW q \in Questions
    PROVE  /\ IsFiniteSet(Visible(q)) /\ Visible(q) \subseteq Entries
           /\ IsFiniteSet(Hits(q)) /\ Hits(q) \subseteq Entries
<1>1. listed \in Seq(Entries)
  BY DEF TableOK
<1>2. Visible(q) \subseteq ToSet(listed) /\ Hits(q) \subseteq ToSet(listed)
  BY DEF Visible, Shown, Hits
<1> QED
  BY <1>1, <1>2, RowsAreFinite

LEMMA OrderIsOneWay ==
    ASSUME TableOK, NEW q \in Questions, NEW x, NEW y
    PROVE  ~(<<x, y>> \in Order(q) /\ <<y, x>> \in Order(q))
<1> SUFFICES ASSUME <<x, y>> \in Order(q), <<y, x>> \in Order(q) PROVE FALSE
  OBVIOUS
<1>1. x \in Entries /\ y \in Entries
  BY DEF Order
<1>2. CASE q \in Listings
  <2>1. Newer(x, y) /\ Newer(y, x)
    BY <1>2 DEF Order
  <2>2. PICK i, j \in DOMAIN listed : i < j /\ listed[i] = x /\ listed[j] = y
    BY <2>1 DEF Newer
  <2>3. PICK k, l \in DOMAIN listed : k < l /\ listed[k] = y /\ listed[l] = x
    BY <2>1 DEF Newer
  <2>4. DOMAIN listed = 1..Len(listed) /\ Len(listed) \in Nat
    BY DEF TableOK
  <2>5. i = l /\ j = k
    BY <2>2, <2>3, <2>4 DEF TableOK
  <2> QED
    BY <2>2, <2>3, <2>4, <2>5
<1>3. CASE q \notin Listings
  <2> DEFINE score(r) == Score(q, Hits(q), Near(q), r)
  <2>1. q \in Searches
    BY <1>3 DEF Questions
  <2>2. score(x) \in Int /\ score(y) \in Int
    BY <1>1, <2>1, ScoreType
  <2>3. score(x) > score(y) /\ score(y) > score(x)
    BY <1>3 DEF Order
  <2> HIDE DEF score
  <2> QED
    BY <2>2, <2>3
<1> QED
  BY <1>2, <1>3

-----------------------------------------------------------------------------
(* One page.                                                               *)

Cursors == [offset : Nat, fingerprint : Questions]

Pages ==
    [rows : Seq(Entries), offset : Nat, total : Nat, partial : BOOLEAN,
     next : Cursors \cup {Nothing}, left : SUBSET Entries]

(* The rows are the stretch of the ranking of V by O that begins at offset.*)
IsStretch(rows, offset, V, O) ==
    /\ \A i \in 1..Len(rows) : rows[i] \in V /\ Place(V, O, rows[i]) = offset + i - 1
    /\ \A r \in V :
        /\ Place(V, O, r) \in Nat /\ Place(V, O, r) < Cardinality(V)
        /\ offset <= Place(V, O, r) /\ Place(V, O, r) < offset + Len(rows)
            => \E i \in 1..Len(rows) : rows[i] = r

(* Where there is one ranking to page through.                             *)
Pageable(q, decided, V) ==
    \/ q \in Listings
    \/ q \in Searches /\ decided /\ Cardinality(V) <= PoolSize

PageOK(q, page, offset, V, O) ==
    /\ page \in Pages /\ page.offset = offset
    /\ page.next \in {Nothing, EncodeCursor(offset + Len(page.rows), q)}
    /\ page.rows # <<>> /\ page.left # {} => page.partial
    /\ Pageable(q, Decided(V, O), V) =>
        /\ IsStretch(page.rows, offset, V, O)
        /\ page.next = Nothing => offset + Len(page.rows) >= Cardinality(V)

LEMMA RankingCut ==
    ASSUME NEW V, IsFiniteSet(V), NEW O, NEW ranked \in SetToSeqs(V),
           \A i, j \in 1..Len(ranked) : i < j => <<ranked[i], ranked[j]>> \in O,
           \A x, y \in V : ~(<<x, y>> \in O /\ <<y, x>> \in O),
           NEW offset \in Nat, NEW limit \in Nat \ {0}
    PROVE  /\ IsStretch(Slice(ranked, offset, limit), offset, V, O)
           /\ Len(ranked) = Cardinality(V)
<1> DEFINE rows == Slice(ranked, offset, limit)
<1>1. /\ ranked \in Seq(V) /\ Len(ranked) = Cardinality(V) /\ Len(ranked) \in Nat
      /\ \A x \in V : \E i \in 1..Len(ranked) : ranked[i] = x
      /\ \A i \in 1..Len(ranked) : ranked[i] \in V
  BY Arranged
<1>2. \A i \in 1..Len(ranked) : Place(V, O, ranked[i]) = i - 1
  BY StandsAtItsPlace
<1>3. /\ rows \in Seq(V)
      /\ rows = <<>> <=> offset >= Len(ranked)
      /\ \A i \in 1..Len(rows) : offset + i \in 1..Len(ranked) /\ rows[i] = ranked[offset + i]
  BY <1>1, SliceIsStretch
<1>4. ASSUME NEW i \in 1..Len(rows)
      PROVE  rows[i] \in V /\ Place(V, O, rows[i]) = offset + i - 1
  BY <1>1, <1>2, <1>3
<1>5. ASSUME NEW r \in V
      PROVE  /\ Place(V, O, r) \in Nat /\ Place(V, O, r) < Cardinality(V)
             /\ offset <= Place(V, O, r) /\ Place(V, O, r) < offset + Len(rows)
                 => \E i \in 1..Len(rows) : rows[i] = r
  <2>1. PICK i \in 1..Len(ranked) : ranked[i] = r
    BY <1>1
  <2>2. Place(V, O, r) = i - 1
    BY <1>2, <2>1
  <2>3. ASSUME offset <= Place(V, O, r), Place(V, O, r) < offset + Len(rows)
        PROVE  \E k \in 1..Len(rows) : rows[k] = r
    <3>1. i - offset \in 1..Len(rows) /\ offset + (i - offset) = i
      BY <1>1, <1>3, <2>2, <2>3
    <3> QED
      BY <1>3, <2>1, <3>1
  <2> QED
    BY <1>1, <2>2, <2>3
<1> QED
  BY <1>1, <1>4, <1>5 DEF IsStretch

(* What every page has, whatever it was cut from.                          *)
IsPageOf(page, q, ranked, offset, limit, count, partial, left) ==
    /\ page \in Pages /\ page.offset = offset
    /\ page.rows = Slice(ranked, offset, limit)
    /\ page.rows = <<>> => Len(page.rows) = 0 /\ offset >= Len(ranked)
    /\ page.left = left
    /\ page.rows # <<>> => page.partial = partial
    /\ page.next \in {Nothing, EncodeCursor(offset + Len(page.rows), q)}
    /\ page.next = Nothing => page.rows = <<>> \/ offset + Len(page.rows) >= count

LEMMA PageShape ==
    ASSUME NEW q \in Questions, NEW ranked \in Seq(Entries), NEW offset \in Nat,
           NEW limit \in Nat \ {0}, NEW count \in Nat, NEW partial \in BOOLEAN,
           NEW left \in SUBSET Entries
    PROVE  IsPageOf(Page(q, ranked, offset, limit, count, partial, left),
                    q, ranked, offset, limit, count, partial, left)
<1> DEFINE rows == Slice(ranked, offset, limit)
           total == IF rows = <<>> THEN 0 ELSE count
           next == IF offset + Len(rows) < total
                   THEN EncodeCursor(offset + Len(rows), q) ELSE Nothing
           page == Page(q, ranked, offset, limit, count, partial, left)
<1>1. /\ rows \in Seq(Entries) /\ Len(rows) \in Nat
      /\ rows = <<>> => Len(rows) = 0 /\ offset >= Len(ranked)
  BY SliceIsStretch
<1> HIDE DEF rows
<1>2. EncodeCursor(offset + Len(rows), q) \in Cursors
  BY <1>1 DEF EncodeCursor, Cursors
<1>3. EncodeCursor(offset + Len(rows), q) # Nothing
  BY <1>2, SearchAssumption DEF Cursors
<1>4. /\ next \in Cursors \cup {Nothing}
      /\ next \in {Nothing, EncodeCursor(offset + Len(rows), q)}
      /\ next = Nothing => rows = <<>> \/ offset + Len(rows) >= count
  BY <1>1, <1>2, <1>3
<1>5. total \in Nat
  OBVIOUS
<1> DEFINE owned == partial /\ rows # <<>>
<1>6. owned \in BOOLEAN /\ (rows # <<>> => owned = partial)
  OBVIOUS
<1>7. page = [rows |-> rows, offset |-> offset, total |-> total, partial |-> owned,
              next |-> next, left |-> left]
  BY DEF Page, rows
<1> HIDE DEF total, next, page, owned
<1>8. page \in Pages
  BY <1>1, <1>4, <1>5, <1>6, <1>7 DEF Pages
<1> QED
  BY <1>1, <1>4, <1>6, <1>7, <1>8 DEF page, rows, IsPageOf

(* A leg that leaves a row out is full, and one that need not leaves none. *)
LEMMA LegsAreFull ==
    ASSUME NEW S, IsFiniteSet(S), NEW leg \in Legs(S)
    PROVE  /\ IsFiniteSet(leg) /\ leg \subseteq S /\ Cardinality(leg) \in Nat
           /\ leg # S => Cardinality(leg) = PoolSize
           /\ Cardinality(S) <= PoolSize => leg = S
<1>1. Cardinality(S) \in Nat /\ PoolSize \in Nat
  BY FS_CardinalityType, SearchAssumption
<1>2. leg \in SUBSET S /\ Cardinality(leg) = Min({PoolSize, Cardinality(S)})
  BY DEF Legs
<1>3. Cardinality(leg) = IF PoolSize <= Cardinality(S) THEN PoolSize ELSE Cardinality(S)
  BY <1>1, <1>2, MinOfTwo
<1>4. IsFiniteSet(leg) /\ (Cardinality(S) = Cardinality(leg) => S = leg)
  BY <1>2, FS_Subset
<1> QED
  BY <1>1, <1>2, <1>3, <1>4

LEMMA ListIsInOrder ==
    ASSUME TableOK, NEW q \in Listings, NEW offset \in Nat, NEW limit \in Nat \ {0},
           NEW page \in Answers(q, offset, limit)
    PROVE  PageOK(q, page, offset, Visible(q), Order(q))
<1> DEFINE V == Visible(q)
           O == Order(q)
<1>1. q \in Questions
  BY DEF Questions
<1>2. V = Shown(q)
  BY DEF Visible
<1>3. PICK ranked \in Newest(q) : page = List(q, offset, limit, ranked)
  BY DEF Answers
<1>4. ranked \in SetToSeqs(V)
  BY <1>2, <1>3 DEF Newest
<1>5. IsFiniteSet(V) /\ V \subseteq Entries
  BY <1>1, VisibleIsFinite
<1>6. /\ ranked \in Seq(V) /\ Len(ranked) = Cardinality(V) /\ Len(ranked) \in Nat
      /\ DOMAIN ranked = 1..Len(ranked)
      /\ \A i \in 1..Len(ranked) : ranked[i] \in Entries
  <2>1. ranked \in Seq(V) /\ Len(ranked) = Cardinality(V)
    BY <1>4, <1>5, Arranged
  <2> QED
    BY <2>1, <1>5
<1>7. \A i, j \in 1..Len(ranked) : i < j => <<ranked[i], ranked[j]>> \in O
  BY <1>3, <1>6 DEF Newest, Order
<1>8. \A x, y \in V : ~(<<x, y>> \in O /\ <<y, x>> \in O)
  BY <1>1, OrderIsOneWay
<1> HIDE DEF V, O
<1>9. IsStretch(Slice(ranked, offset, limit), offset, V, O)
  BY <1>4, <1>5, <1>7, <1>8, RankingCut
<1>10. ranked \in Seq(Entries)
  BY <1>5, <1>6, SeqMonotonic
<1>11. page = Page(q, ranked, offset, limit, Len(ranked), FALSE, {})
  BY <1>3 DEF List
<1>12. IsPageOf(page, q, ranked, offset, limit, Len(ranked), FALSE, {})
  <2>1. FALSE \in BOOLEAN /\ {} \in SUBSET Entries /\ Len(ranked) \in Nat
    BY <1>6
  <2> QED
    BY <1>1, <1>10, <1>11, <2>1, PageShape
<1>13. page.next = Nothing => offset + Len(page.rows) >= Cardinality(V)
  BY <1>6, <1>12 DEF IsPageOf
<1> QED
  BY <1>9, <1>12, <1>13 DEF IsPageOf, PageOK, V, O

LEMMA SearchIsInOrder ==
    ASSUME TableOK, NEW q \in Searches, NEW offset \in Nat, NEW limit \in Nat \ {0},
           NEW page \in Answers(q, offset, limit)
    PROVE  PageOK(q, page, offset, Visible(q), Order(q))
<1> DEFINE V == Visible(q)
           O == Order(q)
<1>1. q \in Questions /\ q \notin Listings
  BY SearchAssumption DEF Questions
<1>2. V = Hits(q)
  BY <1>1 DEF Visible
<1>3. IsFiniteSet(V) /\ V \subseteq Entries /\ Cardinality(V) \in Nat
  BY <1>1, VisibleIsFinite, FS_CardinalityType
<1>4. PICK legs \in Candidates(q) : \E ranked \in Rankings(q, legs.text, legs.vector) :
          page = Search(q, offset, limit, legs.text, legs.vector, ranked)
  BY <1>1 DEF Answers
<1> DEFINE text == legs.text
           vector == legs.vector
<1>5. PICK ranked \in Rankings(q, text, vector) :
          page = Search(q, offset, limit, text, vector, ranked)
  BY <1>4
<1>6. text \in Legs(V) /\ vector \in Legs(Near(q))
  BY <1>2, <1>4 DEF Candidates
<1>7. /\ IsFiniteSet(Near(q)) /\ Near(q) \subseteq V
      /\ Cardinality(Near(q)) \in Nat
      /\ Cardinality(Near(q)) <= Cardinality(V)
  <2>1. Near(q) \in SUBSET V
    BY <1>2 DEF Near
  <2>2. IsFiniteSet(Near(q)) /\ Cardinality(Near(q)) <= Cardinality(V)
    BY <1>3, <2>1, FS_Subset
  <2> QED
    BY <2>1, <2>2, FS_CardinalityType
<1>8. /\ IsFiniteSet(text) /\ text \subseteq V /\ Cardinality(text) \in Nat
      /\ text # V => Cardinality(text) = PoolSize
      /\ Cardinality(V) <= PoolSize => text = V
  BY <1>3, <1>6, LegsAreFull
<1>9. /\ IsFiniteSet(vector) /\ vector \subseteq Near(q)
      /\ Cardinality(V) <= PoolSize => vector = Near(q)
  <2>1. PoolSize \in Nat
    BY SearchAssumption
  <2> QED
    BY <1>3, <1>6, <1>7, <2>1, LegsAreFull
<1> HIDE DEF text, vector, V, O
<1> DEFINE found == text \cup vector
<1>10. IsFiniteSet(found) /\ found \subseteq V
  BY <1>7, <1>8, <1>9, FS_Union
<1>11. ranked \in SetToSeqs(found)
  BY <1>5 DEF Rankings
<1>12. ranked \in Seq(found) /\ Len(ranked) = Cardinality(found)
  BY <1>10, <1>11, Arranged
<1>13. ranked \in Seq(Entries) /\ Len(ranked) \in Nat
  BY <1>3, <1>10, <1>12, SeqMonotonic
<1>14. page = Page(q, ranked, offset, limit, Cardinality(V),
                   Saturated(text, vector), V \ found)
  BY <1>2, <1>5 DEF Search
<1>15. Saturated(text, vector) \in BOOLEAN /\ V \ found \in SUBSET Entries
  BY <1>3 DEF Saturated
<1>16. IsPageOf(page, q, ranked, offset, limit, Cardinality(V),
                Saturated(text, vector), V \ found)
  BY <1>1, <1>3, <1>13, <1>14, <1>15, PageShape
<1>17. page.rows # <<>> /\ page.left # {} => page.partial
  <2>1. page.left # {} => text # V
    BY <1>16 DEF IsPageOf
  <2>2. text # V => Saturated(text, vector)
    BY <1>8 DEF Saturated
  <2> QED
    BY <1>16, <2>1, <2>2 DEF IsPageOf
<1>18. ASSUME Decided(V, O), Cardinality(V) <= PoolSize
       PROVE  /\ IsStretch(page.rows, offset, V, O)
              /\ page.next = Nothing => offset + Len(page.rows) >= Cardinality(V)
  <2>1. found = V /\ text = V /\ vector = Near(q)
    BY <1>7, <1>8, <1>9, <1>18
  <2>2. /\ DOMAIN ranked = 1..Len(ranked)
        /\ \A i \in 1..Len(ranked) : ranked[i] \in V /\ ranked[i] \in Entries
        /\ \A i, j \in 1..Len(ranked) : ranked[i] = ranked[j] => i = j
    <3>1. ranked \in Seq(V) /\ \A i, j \in 1..Len(ranked) : ranked[i] = ranked[j] => i = j
      BY <1>3, <1>11, <2>1, Arranged
    <3> QED
      BY <1>3, <3>1
  <2> DEFINE score(r) == Score(q, V, Near(q), r)
  <2>3. \A i, j \in 1..Len(ranked) : i < j => score(ranked[i]) >= score(ranked[j])
    BY <1>5, <2>1, <2>2 DEF Rankings
  <2>4. \A r \in Entries : score(r) \in Int
    BY ScoreType
  <2>5. \A x, y \in Entries : <<x, y>> \in O <=> score(x) > score(y)
    BY <1>1, <1>2 DEF O, Order
  <2> HIDE DEF score
  <2>6. ASSUME NEW i \in 1..Len(ranked), NEW j \in 1..Len(ranked), i < j
        PROVE  <<ranked[i], ranked[j]>> \in O
    <3>1. ranked[i] # ranked[j] /\ ranked[i] \in V /\ ranked[j] \in V
          /\ ranked[i] \in Entries /\ ranked[j] \in Entries
      BY <1>13, <2>2, <2>6
    <3>2. <<ranked[i], ranked[j]>> \in O \/ <<ranked[j], ranked[i]>> \in O
      BY <1>18, <3>1 DEF Decided
    <3>3. score(ranked[i]) >= score(ranked[j])
      BY <2>3, <2>6
    <3>4. score(ranked[i]) \in Int /\ score(ranked[j]) \in Int
      BY <2>4, <3>1
    <3> QED
      BY <2>5, <3>1, <3>2, <3>3, <3>4
  <2>7. \A x, y \in V : ~(<<x, y>> \in O /\ <<y, x>> \in O)
    BY <1>1, OrderIsOneWay DEF O
  <2>8. IsStretch(page.rows, offset, V, O) /\ Len(ranked) = Cardinality(V)
    <3>1. ranked \in SetToSeqs(V)
      BY <1>11, <2>1
    <3>2. /\ IsStretch(Slice(ranked, offset, limit), offset, V, O)
          /\ Len(ranked) = Cardinality(V)
      BY <1>3, <2>6, <2>7, <3>1, RankingCut
    <3> QED
      BY <1>16, <3>2 DEF IsPageOf
  <2> QED
    BY <1>3, <1>16, <2>8 DEF IsPageOf
<1> QED
  BY <1>1, <1>16, <1>17, <1>18 DEF IsPageOf, PageOK, Pageable, V, O

LEMMA AnswersAreOK ==
    ASSUME TableOK, NEW q \in Questions, NEW offset \in Nat, NEW limit \in Nat \ {0},
           NEW page \in Answers(q, offset, limit)
    PROVE  PageOK(q, page, offset, Visible(q), Order(q))
BY ListIsInOrder, SearchIsInOrder DEF Questions

-----------------------------------------------------------------------------
(* A walk, page after page.                                                *)

Walks ==
    [question : Questions, by : {"cursor", "offset", "once"}, seen : Seq(Entries),
     last : Pages \cup {Nothing}, cursor : Cursors \cup {Nothing}, position : Nat,
     over : BOOLEAN, empty : BOOLEAN, throughout : SUBSET Entries,
     changed : BOOLEAN, lost : BOOLEAN, tied : BOOLEAN]

(* Of T, what the first n places of the ranking of V by O hold is among the
   first n rows seen.                                                      *)
Covers(seen, n, T, V, O) ==
    \A r \in T : Place(V, O, r) < n => \E i \in 1..n : seen[i] = r

Steady(w) == w.question \in Listings /\ ~w.lost

Exact(w) ==
    /\ w.question \in Searches /\ ~w.changed /\ ~w.tied
    /\ Cardinality(w.throughout) <= PoolSize

(* The rows seen so far account for the ranking up to their number.        *)
Underway(w, V, O) ==
    /\ w \in Walks /\ w.by # "once" /\ w.throughout \subseteq V
    /\ Steady(w) => Covers(w.seen, Len(w.seen), w.throughout, V, O)
    /\ Exact(w) =>
        /\ w.throughout = V /\ Decided(V, O)
        /\ \A i \in 1..Len(w.seen) : w.seen[i] \in V /\ Place(V, O, w.seen[i]) = i - 1

(* What the last page left behind.                                         *)
Turned(w) ==
    /\ w.position = Len(w.seen)
    /\ w.cursor \in {Nothing, EncodeCursor(Len(w.seen), w.question)}
    /\ w.over <=> w.cursor = Nothing
    /\ w.last.rows # <<>> /\ w.last.left # {} => w.last.partial
    /\ w.over /\ Steady(w) => w.throughout \subseteq ToSet(w.seen)
    /\ w.over /\ Exact(w) => Len(w.seen) >= Cardinality(w.throughout)

(* Every cursor still held marks a place that the rows seen account for.   *)
Marks(h, w, V, O) ==
    \A c \in h :
        /\ c \in Cursors /\ c.fingerprint = w.question /\ c.offset <= Len(w.seen)
        /\ Steady(w) => Covers(w.seen, c.offset, w.throughout, V, O)

WalkOK(w, h, V, O) ==
    \/ w.by = "once" /\ w.over /\ w.question \in Searches /\ h = {}
    \/ Underway(w, V, O) /\ Turned(w) /\ Marks(h, w, V, O)

WalkInv ==
    walk # Nothing =>
        /\ walk \in Walks
        /\ \A q \in Questions :
             walk.question = q => WalkOK(walk, held, Visible(q), Order(q))

SearchInv == TableOK /\ WalkInv

LEMMA PlaceType ==
    ASSUME NEW V, IsFiniteSet(V), NEW O, NEW x
    PROVE  Place(V, O, x) \in Nat
<1>1. {y \in V : <<y, x>> \in O} \in SUBSET V
  OBVIOUS
<1>2. IsFiniteSet({y \in V : <<y, x>> \in O})
  BY <1>1, FS_Subset
<1> QED
  BY <1>2, FS_CardinalityType DEF Place

LEMMA Joined ==
    ASSUME NEW S, NEW a \in Seq(S), NEW b \in Seq(S)
    PROVE  /\ a \o b \in Seq(S) /\ Len(a \o b) = Len(a) + Len(b)
           /\ \A i \in 1..Len(a) : (a \o b)[i] = a[i]
           /\ \A i \in 1..Len(b) : (a \o b)[Len(a) + i] = b[i]
<1>1. Len(a) \in Nat /\ Len(b) \in Nat
  OBVIOUS
<1>2. /\ a \o b \in Seq(S) /\ Len(a \o b) = Len(a) + Len(b)
      /\ \A i \in 1..(Len(a) + Len(b)) :
            (a \o b)[i] = IF i <= Len(a) THEN a[i] ELSE b[i - Len(a)]
  BY ConcatProperties
<1> DEFINE both == a \o b
<1> HIDE DEF both
<1>3. \A i \in 1..Len(a) : both[i] = a[i]
  BY <1>1, <1>2 DEF both
<1>4. ASSUME NEW i \in 1..Len(b)
      PROVE  both[Len(a) + i] = b[i]
  <2>1. /\ Len(a) + i \in 1..(Len(a) + Len(b)) /\ ~(Len(a) + i <= Len(a))
        /\ (Len(a) + i) - Len(a) = i
    BY <1>1
  <2> QED
    BY <1>2, <2>1 DEF both
<1> QED
  BY <1>2, <1>3, <1>4 DEF both

(* One more page, asked for where the rows seen end.                       *)
LEMMA PageAppended ==
    ASSUME NEW V, IsFiniteSet(V), NEW O, NEW w, Underway(w, V, O),
           NEW page, PageOK(w.question, page, Len(w.seen), V, O)
    PROVE  /\ Underway(Turn(w, page), V, O) /\ Turned(Turn(w, page))
           /\ Turn(w, page).question = w.question
           /\ Turn(w, page).throughout = w.throughout
           /\ Turn(w, page).lost = w.lost
           /\ Turn(w, page).cursor = page.next
           /\ Len(Turn(w, page).seen) \in Nat /\ Len(w.seen) \in Nat
           /\ Len(w.seen) <= Len(Turn(w, page).seen)
           /\ \A i \in 1..Len(w.seen) : Turn(w, page).seen[i] = w.seen[i]
<1> DEFINE rows == page.rows
           n == Len(w.seen)
           seen == w.seen \o rows
           t == Turn(w, page)
<1>1. w \in Walks /\ w.seen \in Seq(Entries) /\ n \in Nat
  BY DEF Underway, Walks
<1> HIDE DEF n
<1>2. /\ page \in Pages /\ page.offset = n /\ rows \in Seq(Entries) /\ Len(rows) \in Nat
      /\ page.next \in Cursors \cup {Nothing}
      /\ page.next \in {Nothing, EncodeCursor(n + Len(rows), w.question)}
      /\ rows # <<>> /\ page.left # {} => page.partial
  BY DEF PageOK, Pages, n
<1>3. w.seen \in Seq(Entries) /\ n = Len(w.seen) /\ n \in Nat /\ rows \in Seq(Entries)
       /\ Len(rows) \in Nat
  BY <1>1, <1>2 DEF n
<1> HIDE DEF rows
<1>4. /\ seen \in Seq(Entries) /\ Len(seen) = n + Len(rows)
      /\ \A i \in 1..n : seen[i] = w.seen[i]
      /\ \A i \in 1..Len(rows) : seen[n + i] = rows[i]
  BY <1>3, Joined
<1>5. /\ t.question = w.question /\ t.by = w.by /\ t.seen = seen /\ t.last = page
      /\ t.over = (page.next = Nothing) /\ t.cursor = page.next
      /\ t.position = n + Len(rows) /\ t.throughout = w.throughout
      /\ t.changed = w.changed /\ t.lost = w.lost /\ t.tied = w.tied
  BY <1>1, <1>2 DEF Turn, Walks, rows
<1>6. t \in Walks
  <2>1. (page.next = Nothing) \in BOOLEAN /\ (w.empty # (rows = <<>>)) \in BOOLEAN
    OBVIOUS
  <2>2. n + Len(rows) \in Nat
    BY <1>3
  <2> QED
    BY <1>1, <1>2, <1>4, <2>1, <2>2 DEF Turn, Walks, rows
<1> HIDE DEF t, seen
<1>7. w.by # "once" /\ w.throughout \subseteq V
  BY DEF Underway
<1>8. (Steady(t) <=> Steady(w)) /\ (Exact(t) <=> Exact(w))
  BY <1>5 DEF Steady, Exact
<1>9. ASSUME Steady(w)
      PROVE  /\ Covers(seen, Len(seen), w.throughout, V, O)
             /\ page.next = Nothing => w.throughout \subseteq ToSet(seen)
  <2>1. IsStretch(rows, n, V, O) /\ (page.next = Nothing => n + Len(rows) >= Cardinality(V))
    <3>1. w.question \in Listings
      BY <1>9 DEF Steady
    <3>2. Pageable(w.question, Decided(V, O), V)
      BY <3>1 DEF Pageable
    <3> QED
      BY <3>2 DEF PageOK, rows, n
  <2>2. Covers(w.seen, n, w.throughout, V, O)
    BY <1>9 DEF Underway, n
  <2>3. ASSUME NEW r \in w.throughout, Place(V, O, r) < n + Len(rows)
        PROVE  \E i \in 1..Len(seen) : seen[i] = r
    <3>1. r \in V /\ Place(V, O, r) \in Nat
      BY <1>7, PlaceType
    <3>2. CASE Place(V, O, r) < n
      <4>1. PICK i \in 1..n : w.seen[i] = r
        BY <2>2, <3>2 DEF Covers
      <4>2. i \in 1..Len(seen) /\ seen[i] = r
        BY <1>1, <1>2, <1>4, <4>1
      <4> QED
        BY <4>2
    <3>3. CASE n <= Place(V, O, r)
      <4>1. PICK i \in 1..Len(rows) : rows[i] = r
        BY <2>1, <2>3, <3>1, <3>3 DEF IsStretch
      <4>2. n + i \in 1..Len(seen) /\ seen[n + i] = r
        BY <1>1, <1>2, <1>4, <4>1
      <4> QED
        BY <4>2
    <3> QED
      BY <1>1, <3>1, <3>2, <3>3
  <2>4. Covers(seen, Len(seen), w.throughout, V, O)
    BY <1>4, <2>3 DEF Covers
  <2>5. ASSUME page.next = Nothing, NEW r \in w.throughout
        PROVE  r \in ToSet(seen)
    <3>1. Place(V, O, r) < n + Len(rows)
      <4>1. Place(V, O, r) \in Nat /\ Place(V, O, r) < Cardinality(V)
        BY <1>7, <2>1 DEF IsStretch
      <4>2. n + Len(rows) >= Cardinality(V) /\ Cardinality(V) \in Nat
        BY <2>1, <2>5, FS_CardinalityType
      <4> QED
        BY <1>1, <1>2, <4>1, <4>2
    <3>2. PICK i \in 1..Len(seen) : seen[i] = r
      BY <2>3, <3>1
    <3> QED
      BY <1>4, <3>2 DEF ToSet
  <2> QED
    BY <2>4, <2>5
<1>10. ASSUME Exact(w)
      PROVE  /\ w.throughout = V /\ Decided(V, O)
             /\ \A i \in 1..Len(seen) : seen[i] \in V /\ Place(V, O, seen[i]) = i - 1
             /\ page.next = Nothing => Len(seen) >= Cardinality(w.throughout)
  <2>1. /\ w.throughout = V /\ Decided(V, O) /\ Cardinality(V) <= PoolSize
        /\ \A i \in 1..n : w.seen[i] \in V /\ Place(V, O, w.seen[i]) = i - 1
    BY <1>10 DEF Underway, Exact, n
  <2>2. IsStretch(rows, n, V, O) /\ (page.next = Nothing => n + Len(rows) >= Cardinality(V))
    <3>1. w.question \in Searches
      BY <1>10 DEF Exact
    <3>2. Pageable(w.question, Decided(V, O), V)
      BY <2>1, <3>1 DEF Pageable
    <3> QED
      BY <3>2 DEF PageOK, rows, n
  <2>3. ASSUME NEW i \in 1..Len(seen)
        PROVE  seen[i] \in V /\ Place(V, O, seen[i]) = i - 1
    <3>1. CASE i <= n
      <4>1. i \in 1..n /\ seen[i] = w.seen[i]
        BY <1>3, <1>4, <3>1
      <4> QED
        BY <2>1, <4>1
    <3>2. CASE i > n
      <4>1. i - n \in 1..Len(rows) /\ n + (i - n) = i
        BY <1>1, <1>2, <1>4, <3>2
      <4>2. rows[i - n] \in V /\ Place(V, O, rows[i - n]) = n + (i - n) - 1
        BY <2>2, <4>1 DEF IsStretch
      <4>3. seen[i] = rows[i - n]
        BY <1>4, <4>1
      <4> QED
        BY <1>1, <4>1, <4>2, <4>3
    <3> QED
      BY <1>1, <3>1, <3>2
  <2> QED
    BY <1>4, <2>1, <2>2, <2>3
<1>11. Underway(t, V, O)
  <2>1. t \in Walks /\ t.by # "once" /\ t.throughout \subseteq V
    BY <1>5, <1>6, <1>7
  <2>2. Steady(t) => Covers(t.seen, Len(t.seen), t.throughout, V, O)
    BY <1>5, <1>8, <1>9
  <2>3. Exact(t) =>
           /\ t.throughout = V /\ Decided(V, O)
           /\ \A i \in 1..Len(t.seen) : t.seen[i] \in V /\ Place(V, O, t.seen[i]) = i - 1
    BY <1>5, <1>8, <1>10
  <2> QED
    BY <2>1, <2>2, <2>3 DEF Underway
<1>12. Turned(t)
  <2>1. t.position = Len(t.seen) /\ (t.over <=> t.cursor = Nothing)
    BY <1>4, <1>5
  <2>2. t.cursor \in {Nothing, EncodeCursor(Len(t.seen), t.question)}
    BY <1>2, <1>4, <1>5
  <2>3. t.last.rows # <<>> /\ t.last.left # {} => t.last.partial
    BY <1>2, <1>5 DEF rows
  <2>4. t.over /\ Steady(t) => t.throughout \subseteq ToSet(t.seen)
    BY <1>5, <1>8, <1>9
  <2>5. t.over /\ Exact(t) => Len(t.seen) >= Cardinality(t.throughout)
    BY <1>5, <1>8, <1>10
  <2> QED
    BY <2>1, <2>2, <2>3, <2>4, <2>5 DEF Turned
<1> QED
  BY <1>4, <1>5, <1>11, <1>12, <1>3 DEF t

(* The walk a first page is asked for.                                     *)
Fresh(q, by) ==
    [question |-> q, by |-> by, seen |-> <<>>, last |-> Nothing,
     cursor |-> Nothing, position |-> 0, over |-> FALSE, empty |-> FALSE,
     throughout |-> Visible(q), changed |-> FALSE, lost |-> FALSE,
     tied |-> Tied(q)]

LEMMA FreshIsUnderway ==
    ASSUME TableOK, NEW q \in Questions, NEW by \in {"cursor", "offset"}
    PROVE  Underway(Fresh(q, by), Visible(q), Order(q)) /\ Fresh(q, by).seen = <<>>
<1> DEFINE V == Visible(q)
           O == Order(q)
           w == Fresh(q, by)
<1>1. IsFiniteSet(V) /\ V \subseteq Entries /\ Hits(q) \subseteq Entries
  BY VisibleIsFinite
<1>2. Tied(q) \in BOOLEAN
  BY DEF Tied
<1>3. /\ w.question = q /\ w.by = by /\ w.seen = <<>> /\ w.throughout = V
      /\ w.tied = Tied(q)
  BY DEF Fresh
<1>4. w \in Walks
  <2>1. <<>> \in Seq(Entries) /\ 0 \in Nat /\ Nothing \in Pages \cup {Nothing}
        /\ Nothing \in Cursors \cup {Nothing} /\ FALSE \in BOOLEAN
    OBVIOUS
  <2> QED
    BY <1>1, <1>2, <2>1 DEF Fresh, Walks
<1>5. Len(w.seen) = 0
  BY <1>3
<1>6. Covers(w.seen, Len(w.seen), w.throughout, V, O)
  <2>1. \A r \in V : ~(Place(V, O, r) < 0)
    BY <1>1, PlaceType
  <2> QED
    BY <1>3, <1>5, <2>1 DEF Covers
<1>7. ASSUME q \in Searches, ~Tied(q)
      PROVE  Decided(V, O)
  <2> DEFINE score(r) == Score(q, Hits(q), Near(q), r)
  <2>1. q \notin Listings
    BY <1>7, SearchAssumption
  <2>2. V = Hits(q)
    BY <2>1 DEF Visible
  <2>3. \A x, y \in Hits(q) : x # y => score(x) # score(y)
    BY <1>7 DEF Tied
  <2>4. \A r \in Entries : score(r) \in Int
    BY <1>7, ScoreType
  <2>5. \A x, y \in Entries : <<x, y>> \in O <=> score(x) > score(y)
    BY <2>1 DEF Order
  <2> HIDE DEF score, O
  <2> SUFFICES ASSUME NEW x \in V, NEW y \in V, x # y
               PROVE  <<x, y>> \in O \/ <<y, x>> \in O
    BY DEF Decided
  <2>6. x \in Entries /\ y \in Entries /\ x \in Hits(q) /\ y \in Hits(q)
    BY <1>1, <2>2
  <2>7. score(x) \in Int /\ score(y) \in Int /\ score(x) # score(y)
    BY <2>3, <2>4, <2>6
  <2> QED
    BY <2>5, <2>6, <2>7
<1>8. Exact(w) => Decided(V, O)
  BY <1>3, <1>7 DEF Exact
<1> HIDE DEF V, O, w
<1>9. \A i \in 1..Len(w.seen) : w.seen[i] \in V /\ Place(V, O, w.seen[i]) = i - 1
  BY <1>5
<1>10. w.by # "once"
  BY <1>3
<1>11. Underway(w, V, O)
  BY <1>3, <1>4, <1>6, <1>8, <1>9, <1>10 DEF Underway
<1> QED
  BY <1>3, <1>11 DEF V, O, w

(* The walk taken up again at a cursor.                                    *)
Resumed(w, c) ==
    [w EXCEPT !.by = "cursor", !.cursor = c, !.seen = SubSeq(@, 1, c.offset)]

LEMMA ResumedIsUnderway ==
    ASSUME NEW V, NEW O, NEW w, Underway(w, V, O),
           NEW c \in Cursors, c.offset <= Len(w.seen),
           Steady(w) => Covers(w.seen, c.offset, w.throughout, V, O)
    PROVE  /\ Underway(Resumed(w, c), V, O)
           /\ Resumed(w, c).question = w.question
           /\ Resumed(w, c).throughout = w.throughout
           /\ Resumed(w, c).lost = w.lost
           /\ Len(Resumed(w, c).seen) = c.offset
           /\ \A i \in 1..c.offset : Resumed(w, c).seen[i] = w.seen[i]
<1> DEFINE n == c.offset
           t == Resumed(w, c)
<1>1. w \in Walks /\ w.seen \in Seq(Entries) /\ Len(w.seen) \in Nat
  BY DEF Underway, Walks
<1>2. n \in Nat /\ n <= Len(w.seen)
  BY DEF Cursors
<1>3. /\ SubSeq(w.seen, 1, n) \in Seq(Entries) /\ Len(SubSeq(w.seen, 1, n)) = n
      /\ \A i \in 1..n : SubSeq(w.seen, 1, n)[i] = w.seen[i]
  <2>1. \A i \in 1..n : w.seen[i] \in Entries
    BY <1>1, <1>2
  <2>2. /\ SubSeq(w.seen, 1, n) \in Seq(Entries)
        /\ Len(SubSeq(w.seen, 1, n)) = IF 1 <= n THEN n - 1 + 1 ELSE 0
        /\ \A i \in 1..(n - 1 + 1) : SubSeq(w.seen, 1, n)[i] = w.seen[1 + i - 1]
    BY <1>2, <2>1, SubSeqProperties
  <2> QED
    BY <1>2, <2>2
<1>4. /\ t.question = w.question /\ t.by = "cursor" /\ t.seen = SubSeq(w.seen, 1, n)
      /\ t.throughout = w.throughout /\ t.changed = w.changed /\ t.lost = w.lost
      /\ t.tied = w.tied
  BY <1>1 DEF Resumed, Walks
<1>5. t \in Walks
  BY <1>1, <1>3 DEF Resumed, Walks
<1> HIDE DEF t, n
<1>6. (Steady(t) <=> Steady(w)) /\ (Exact(t) <=> Exact(w))
  BY <1>4 DEF Steady, Exact
<1>7. w.throughout \subseteq V
  BY DEF Underway
<1>8. Len(t.seen) = n /\ \A i \in 1..n : t.seen[i] = w.seen[i]
  BY <1>3, <1>4
<1>9. Steady(t) => Covers(t.seen, Len(t.seen), t.throughout, V, O)
  BY <1>4, <1>6, <1>8 DEF Covers, n
<1>10. Exact(t) =>
          /\ t.throughout = V /\ Decided(V, O)
          /\ \A i \in 1..Len(t.seen) : t.seen[i] \in V /\ Place(V, O, t.seen[i]) = i - 1
  <2> SUFFICES ASSUME Exact(w)
               PROVE  /\ t.throughout = V /\ Decided(V, O)
                      /\ \A i \in 1..n : t.seen[i] \in V /\ Place(V, O, t.seen[i]) = i - 1
    BY <1>6, <1>8
  <2>1. /\ w.throughout = V /\ Decided(V, O)
        /\ \A i \in 1..Len(w.seen) : w.seen[i] \in V /\ Place(V, O, w.seen[i]) = i - 1
    BY DEF Underway
  <2>2. \A i \in 1..n : i \in 1..Len(w.seen)
    BY <1>1, <1>2
  <2> QED
    BY <1>4, <1>8, <2>1, <2>2
<1>11. Underway(t, V, O)
  BY <1>4, <1>5, <1>7, <1>9, <1>10 DEF Underway
<1> QED
  BY <1>4, <1>8, <1>11 DEF t, n

(* What marks a place goes on marking it while the rows up to it stay.     *)
LEMMA MarksStay ==
    ASSUME NEW V, NEW O, NEW w, NEW h, Marks(h, w, V, O), NEW t, NEW n \in Nat,
           t.question = w.question, t.throughout = w.throughout, t.lost = w.lost,
           n <= Len(t.seen), Len(t.seen) \in Nat, \A i \in 1..n : t.seen[i] = w.seen[i],
           NEW g, g \subseteq h, \A d \in g : d.offset <= n
    PROVE  Marks(g, t, V, O)
<1> SUFFICES ASSUME NEW c \in g
             PROVE  /\ c \in Cursors /\ c.fingerprint = t.question
                    /\ c.offset <= Len(t.seen)
                    /\ Steady(t) => Covers(t.seen, c.offset, t.throughout, V, O)
  BY DEF Marks
<1>1. /\ c \in Cursors /\ c.fingerprint = w.question /\ c.offset \in Nat
      /\ Steady(w) => Covers(w.seen, c.offset, w.throughout, V, O)
  BY DEF Marks, Cursors
<1>2. Steady(t) => Steady(w)
  BY DEF Steady
<1>3. \A i \in 1..c.offset : t.seen[i] = w.seen[i]
  BY <1>1
<1>4. Covers(w.seen, c.offset, w.throughout, V, O)
        => Covers(t.seen, c.offset, t.throughout, V, O)
  BY <1>3 DEF Covers
<1> QED
  BY <1>1, <1>2, <1>4

LEMMA NextMarks ==
    ASSUME NEW V, NEW O, NEW w, Underway(w, V, O), Turned(w)
    PROVE  Marks({w.cursor} \ {Nothing}, w, V, O)
<1>1. w \in Walks /\ Len(w.seen) \in Nat /\ w.question \in Questions
  BY DEF Underway, Walks
<1> SUFFICES ASSUME w.cursor # Nothing
             PROVE  /\ w.cursor \in Cursors /\ w.cursor.fingerprint = w.question
                    /\ w.cursor.offset <= Len(w.seen)
                    /\ Steady(w) => Covers(w.seen, w.cursor.offset, w.throughout, V, O)
  BY DEF Marks
<1>2. w.cursor = EncodeCursor(Len(w.seen), w.question)
  BY DEF Turned
<1>3. w.cursor \in Cursors /\ w.cursor.fingerprint = w.question /\ w.cursor.offset = Len(w.seen)
  BY <1>1, <1>2 DEF EncodeCursor, Cursors
<1> QED
  BY <1>1, <1>3 DEF Underway

-----------------------------------------------------------------------------
(* The catalog moves under the walk.                                       *)

(* Two rows of the table keep the order they have.                         *)
LEMMA OrderStays ==
    ASSUME TableOK, NEW q \in Listings, NEW r \in Entries, NEW f \in Forms,
           Insert(r, f) \/ Drop(r) \/ Rewrite(r, f) \/ Beat(r)
    PROVE  Order(q) \subseteq Order(q)'
<1>1. listed \in Seq(Entries) /\ Len(listed) \in Nat /\ DOMAIN listed = 1..Len(listed)
  BY DEF TableOK
<1>2. CASE Drop(r) \/ Rewrite(r, f) \/ Beat(r)
  <2>1. listed' = listed
    BY <1>2 DEF Drop, Rewrite, Beat
  <2> QED
    BY <2>1 DEF Order, Newer
<1>3. CASE Insert(r, f)
  <2>1. PICK i \in 1..(Len(listed) + 1) : listed' = InsertAt(listed, i, r)
    BY <1>3 DEF Insert
  <2>3. Len(listed') = Len(listed) + 1 /\ listed' \in Seq(Entries)
    BY <1>1, <2>1, Inserted
  <2>4. \A j \in 1..(i - 1) : listed'[j] = listed[j]
    BY <1>1, <2>1, Inserted
  <2>5. \A j \in i..Len(listed) : listed'[j + 1] = listed[j]
    BY <1>1, <2>1, Inserted
  <2> DEFINE new(j) == IF j < i THEN j ELSE j + 1
  <2>6. ASSUME NEW j \in 1..Len(listed)
        PROVE  new(j) \in 1..Len(listed') /\ listed'[new(j)] = listed[j]
    <3>1. CASE j < i
      <4>1. j \in 1..(i - 1)
        BY <1>1, <3>1
      <4> QED
        BY <1>1, <2>3, <2>4, <3>1, <4>1
    <3>2. CASE ~(j < i)
      <4>1. j \in i..Len(listed)
        BY <1>1, <3>2
      <4> QED
        BY <1>1, <2>3, <2>5, <3>2, <4>1
    <3> QED
      BY <3>1, <3>2
  <2>7. DOMAIN listed' = 1..Len(listed')
    BY <2>3
  <2>8. ASSUME NEW x, NEW y, Newer(x, y)
         PROVE  Newer(x, y)'
    <3>1. PICK j, k \in 1..Len(listed) : j < k /\ listed[j] = x /\ listed[k] = y
      BY <1>1, <2>8 DEF Newer
    <3>2. new(j) \in 1..Len(listed') /\ listed'[new(j)] = x
      BY <2>6, <3>1
    <3>3. new(k) \in 1..Len(listed') /\ listed'[new(k)] = y
      BY <2>6, <3>1
    <3>4. new(j) < new(k)
      BY <1>1, <3>1
    <3> HIDE DEF new
    <3> QED
      BY <2>7, <3>2, <3>3, <3>4 DEF Newer
  <2> QED
    BY <2>8 DEF Order
<1> QED
  BY <1>2, <1>3

LEMMA CoversOn ==
    ASSUME NEW V, NEW O, NEW T, NEW W, IsFiniteSet(W), NEW P, NEW U,
           V \subseteq W, O \subseteq P, U \subseteq T,
           NEW seen, NEW n \in Nat, Covers(seen, n, T, V, O)
    PROVE  Covers(seen, n, U, W, P)
<1> SUFFICES ASSUME NEW r \in U, Place(W, P, r) < n
             PROVE  \E i \in 1..n : seen[i] = r
  BY DEF Covers
<1> DEFINE before == {y \in V : <<y, r>> \in O}
           after == {y \in W : <<y, r>> \in P}
<1>1. before \subseteq after /\ after \subseteq W
  OBVIOUS
<1>2. IsFiniteSet(after) /\ IsFiniteSet(before) /\ Cardinality(before) <= Cardinality(after)
  BY <1>1, FS_Subset
<1>3. Cardinality(before) \in Nat /\ Cardinality(after) \in Nat
  BY <1>2, FS_CardinalityType
<1>4. Cardinality(before) < n
  BY <1>2, <1>3 DEF Place
<1> QED
  BY <1>4 DEF Covers, Place

Noted(w, V, W, tied) ==
    [w EXCEPT !.throughout = @ \cap W, !.changed = TRUE,
              !.lost = @ \/ ~(V \subseteq W), !.tied = tied]

(* The walk is told of a change: what it has seen stays what it was.       *)
LEMMA WalkNoted ==
    ASSUME NEW V, NEW O, NEW W, IsFiniteSet(W), NEW P, NEW w \in Walks, NEW h,
           WalkOK(w, h, V, O), NEW tied \in BOOLEAN,
           w.question \in Listings => O \subseteq P
    PROVE  Noted(w, V, W, tied) \in Walks /\ WalkOK(Noted(w, V, W, tied), h, W, P)
<1> DEFINE t == Noted(w, V, W, tied)
<1>1. /\ t.question = w.question /\ t.by = w.by /\ t.seen = w.seen /\ t.last = w.last
      /\ t.cursor = w.cursor /\ t.position = w.position /\ t.over = w.over
      /\ t.throughout = w.throughout \cap W /\ t.changed
      /\ t.lost = (w.lost \/ ~(V \subseteq W))
  BY DEF Walks, Noted
<1>2. t \in Walks
  BY DEF Walks, Noted
<1> HIDE DEF t
<1> SUFFICES WalkOK(t, h, W, P)
  BY <1>2 DEF t
<1>3. ~Exact(t)
  BY <1>1 DEF Exact
<1>4. Steady(t) => Steady(w) /\ V \subseteq W /\ O \subseteq P
  BY <1>1 DEF Steady
<1>5. CASE w.by = "once"
  BY <1>1, <1>2, <1>5 DEF WalkOK, Underway
<1>6. CASE Underway(w, V, O) /\ Turned(w) /\ Marks(h, w, V, O)
  <2>1. Len(w.seen) \in Nat /\ w.by # "once"
    BY <1>6 DEF Underway, Walks
  <2>2. t.throughout \subseteq W /\ t.throughout \subseteq w.throughout
    BY <1>1
  <2>3. Steady(t) => Covers(t.seen, Len(t.seen), t.throughout, W, P)
    <3> SUFFICES ASSUME Steady(t)
                 PROVE  Covers(w.seen, Len(w.seen), t.throughout, W, P)
      BY <1>1
    <3>1. Covers(w.seen, Len(w.seen), w.throughout, V, O)
      BY <1>4, <1>6 DEF Underway
    <3> QED
      BY <1>4, <2>1, <2>2, <3>1, CoversOn
  <2>4. Underway(t, W, P)
    BY <1>1, <1>2, <1>3, <2>1, <2>2, <2>3 DEF Underway
  <2>5. Turned(t)
    <3>1. t.over /\ Steady(t) => t.throughout \subseteq ToSet(t.seen)
      BY <1>1, <1>4, <1>6, <2>2 DEF Turned
    <3> QED
      BY <1>1, <1>3, <1>6, <3>1 DEF Turned
  <2>6. Marks(h, t, W, P)
    <3> SUFFICES ASSUME NEW c \in h
                 PROVE  /\ c \in Cursors /\ c.fingerprint = t.question
                        /\ c.offset <= Len(t.seen)
                        /\ Steady(t) => Covers(t.seen, c.offset, t.throughout, W, P)
      BY DEF Marks
    <3>1. /\ c \in Cursors /\ c.fingerprint = w.question /\ c.offset <= Len(w.seen)
          /\ c.offset \in Nat
          /\ Steady(w) => Covers(w.seen, c.offset, w.throughout, V, O)
      BY <1>6 DEF Marks, Cursors
    <3>2. ASSUME Steady(t)
          PROVE  Covers(w.seen, c.offset, t.throughout, W, P)
      BY <1>4, <2>2, <3>1, <3>2, CoversOn
    <3> QED
      BY <1>1, <3>1, <3>2
  <2> QED
    BY <1>2, <2>4, <2>5, <2>6 DEF WalkOK
<1> QED
  BY <1>5, <1>6 DEF WalkOK

LEMMA ChangeKeepsWalk ==
    ASSUME SearchInv, TableOK', CatalogChange
    PROVE  WalkInv'
<1>1. PICK r \in Entries :
         \/ Drop(r) \/ Beat(r)
         \/ \E f \in Forms : Insert(r, f) \/ Rewrite(r, f)
  BY DEF CatalogChange
<1>2. held' = held
  BY DEF CatalogChange
<1>3. Noting
  BY <1>1 DEF Insert, Drop, Rewrite, Beat
<1>4. PICK f \in Forms : Insert(r, f) \/ Drop(r) \/ Rewrite(r, f) \/ Beat(r)
  BY <1>1, SearchAssumption
<1>5. CASE walk = Nothing
  BY <1>3, <1>5 DEF Noting, WalkInv
<1>6. CASE walk # Nothing
  <2>1. PICK q \in {walk.question} :
          walk' = [walk EXCEPT !.throughout = @ \cap Visible(q)',
                               !.changed = TRUE,
                               !.lost = @ \/ ~(Visible(q) \subseteq Visible(q)'),
                               !.tied = @ \/ Tied(q)']
    BY <1>3, <1>6 DEF Noting
  <2>2. walk \in Walks /\ q \in Questions /\ q = walk.question
    BY <1>6, <2>1 DEF SearchInv, WalkInv, Walks
  <2>3. WalkOK(walk, held, Visible(q), Order(q))
    BY <1>6, <2>2 DEF SearchInv, WalkInv
  <2> DEFINE tied == walk.tied \/ Tied(q)'
  <2>4. tied \in BOOLEAN
    OBVIOUS
  <2>5. walk' = [walk EXCEPT !.throughout = @ \cap Visible(q)',
                             !.changed = TRUE,
                             !.lost = @ \/ ~(Visible(q) \subseteq Visible(q)'),
                             !.tied = tied]
    BY <2>1
  <2> HIDE DEF tied
  <2>6. walk.question \in Listings => Order(q) \subseteq Order(q)'
    BY <1>4, <2>2, OrderStays DEF SearchInv
  <2>7. IsFiniteSet(Visible(q)')
    <3>1. listed' \in Seq(Entries)
      BY DEF TableOK
    <3>2. Visible(q)' \subseteq ToSet(listed')
      BY DEF Visible, Shown, Hits
    <3> QED
      BY <3>1, <3>2, RowsAreFinite
  <2> DEFINE V == Visible(q)
             O == Order(q)
             W == Visible(q)'
             P == Order(q)'
  <2> HIDE DEF V, O, W, P
  <2>8. walk' \in Walks /\ WalkOK(walk', held, W, P)
    <3>1. /\ WalkOK(walk, held, V, O) /\ IsFiniteSet(W)
          /\ walk.question \in Listings => O \subseteq P
          /\ walk' = Noted(walk, V, W, tied)
      BY <2>3, <2>5, <2>6, <2>7 DEF V, O, W, P, Noted
    <3> QED
      BY <2>2, <2>4, <3>1, WalkNoted
  <2>9. walk'.question = q
    BY <2>2, <2>5 DEF Walks
  <2> QED
    BY <1>2, <2>8, <2>9 DEF WalkInv, W, P
<1> QED
  BY <1>5, <1>6

-----------------------------------------------------------------------------
(* The client's own steps.                                                 *)

LEMMA PageTaken ==
    ASSUME NEW V, IsFiniteSet(V), NEW O, NEW w, Underway(w, V, O),
           NEW page, PageOK(w.question, page, Len(w.seen), V, O),
           NEW h, Marks(h, w, V, O), NEW g, g \subseteq h \cup ({page.next} \ {Nothing})
    PROVE  /\ Turn(w, page) \in Walks /\ Turn(w, page).question = w.question
           /\ WalkOK(Turn(w, page), g, V, O)
<1> DEFINE t == Turn(w, page)
           n == Len(w.seen)
<1>1. /\ Underway(t, V, O) /\ Turned(t)
      /\ t.question = w.question /\ t.throughout = w.throughout /\ t.lost = w.lost
      /\ t.cursor = page.next
  BY PageAppended
<1>2. /\ n \in Nat /\ Len(t.seen) \in Nat /\ n <= Len(t.seen)
      /\ \A i \in 1..n : t.seen[i] = w.seen[i]
  BY PageAppended
<1> HIDE DEF t, n
<1>3. \A d \in h : d.offset <= n
  BY DEF Marks, n
<1>4. Marks(h, t, V, O)
  BY <1>1, <1>2, <1>3, MarksStay
<1>5. Marks({page.next} \ {Nothing}, t, V, O)
  BY <1>1, NextMarks
<1>6. Marks(g, t, V, O)
  BY <1>4, <1>5 DEF Marks
<1>7. t \in Walks
  BY <1>1 DEF Underway
<1> QED
  BY <1>1, <1>6, <1>7 DEF WalkOK, t

(* A page that answers the walk where it stands keeps the invariant.       *)
LEMMA PageKeepsWalk ==
    ASSUME TableOK, UNCHANGED catalog, NEW q \in Questions, NEW w,
           Underway(w, Visible(q), Order(q)), w.question = q,
           NEW n \in Int, NEW page \in Answers(q, Len(w.seen), ClampLimit(n)),
           walk' = Turn(w, page),
           NEW h, Marks(h, w, Visible(q), Order(q)),
           held' \subseteq h \cup ({page.next} \ {Nothing})
    PROVE  WalkInv'
<1>1. IsFiniteSet(Visible(q))
  BY VisibleIsFinite
<1>2. Len(w.seen) \in Nat
  BY DEF Underway, Walks
<1>3. ClampLimit(n) \in Nat \ {0}
  BY LimitIsPositive
<1>4. PageOK(q, page, Len(w.seen), Visible(q), Order(q))
  BY <1>2, <1>3, AnswersAreOK
<1> DEFINE V == Visible(q)
           O == Order(q)
<1>5. V' = V /\ O' = O
  BY DEF catalog, Visible, Shown, Hits, Near, Order, Newer, Score
<1> DEFINE t == Turn(w, page)
<1>6. t \in Walks /\ t.question = q /\ WalkOK(t, held', V, O)
  <2> HIDE DEF V, O
  <2>1. /\ IsFiniteSet(V) /\ Underway(w, V, O) /\ Marks(h, w, V, O)
        /\ PageOK(w.question, page, Len(w.seen), V, O)
    BY <1>1, <1>4 DEF V, O
  <2>2. /\ t \in Walks /\ t.question = w.question
        /\ WalkOK(t, held', V, O)
    BY <2>1, PageTaken
  <2> QED
    BY <2>2
<1>7. walk' = t
  OBVIOUS
<1> HIDE DEF t
<1>8. \A p \in Questions : walk'.question = p => WalkOK(walk', held', Visible(p)', Order(p)')
  BY <1>5, <1>6, <1>7
<1> QED
  BY <1>6, <1>7, <1>8 DEF WalkInv

LEMMA BeginKeepsWalk ==
    ASSUME TableOK, NEW q \in Questions, NEW by \in {"cursor", "offset"},
           NEW n \in Asked, Begin(q, by, n)
    PROVE  WalkInv'
<1>1. n \in Int
  BY SearchAssumption
<1>2. PICK page \in Answers(q, 0, ClampLimit(n)) :
        /\ walk' = Turn(Fresh(q, by), page)
        /\ held' = {page.next} \ {Nothing}
  BY DEF Begin, Fresh
<1> DEFINE w == Fresh(q, by)
<1>3. Underway(w, Visible(q), Order(q)) /\ w.seen = <<>>
  BY FreshIsUnderway
<1>4. w.question = q
  BY DEF Fresh
<1> HIDE DEF w
<1>5. Len(w.seen) = 0
  BY <1>3
<1>6. Marks({}, w, Visible(q), Order(q))
  BY DEF Marks
<1>7. UNCHANGED catalog
  BY DEF Begin
<1>8. walk' = Turn(w, page)
  BY <1>2 DEF w
<1>9. held' \subseteq {} \cup ({page.next} \ {Nothing})
  BY <1>2
<1>10. page \in Answers(q, Len(w.seen), ClampLimit(n))
  BY <1>5
<1> QED
  BY <1>1, <1>3, <1>4, <1>6, <1>7, <1>8, <1>9, <1>10, PageKeepsWalk

LEMMA DiscoverKeepsWalk ==
    ASSUME TableOK, NEW q \in Questions, Discover(q)
    PROVE  WalkInv'
<1>1. PICK n \in Asked : \E page \in Answers(q, 0, ClampLimit(n)) :
        walk' = [question |-> q, by |-> "once", seen |-> page.rows,
                 last |-> [page EXCEPT !.partial = FALSE, !.next = Nothing],
                 cursor |-> Nothing, position |-> Len(page.rows), over |-> TRUE,
                 empty |-> FALSE, throughout |-> Visible(q), changed |-> FALSE,
                 lost |-> FALSE, tied |-> Tied(q)]
  BY DEF Discover
<1>2. PICK page \in Answers(q, 0, ClampLimit(n)) :
        walk' = [question |-> q, by |-> "once", seen |-> page.rows,
                 last |-> [page EXCEPT !.partial = FALSE, !.next = Nothing],
                 cursor |-> Nothing, position |-> Len(page.rows), over |-> TRUE,
                 empty |-> FALSE, throughout |-> Visible(q), changed |-> FALSE,
                 lost |-> FALSE, tied |-> Tied(q)]
  BY <1>1
<1>3. ClampLimit(n) \in Nat \ {0}
  BY LimitIsPositive, SearchAssumption
<1>4. page \in Pages
  BY <1>3, AnswersAreOK DEF PageOK
<1>5. /\ page.rows \in Seq(Entries) /\ Len(page.rows) \in Nat
      /\ [page EXCEPT !.partial = FALSE, !.next = Nothing] \in Pages
  <2>1. page.rows \in Seq(Entries)
    BY <1>4 DEF Pages
  <2>2. [page EXCEPT !.partial = FALSE] \in Pages
    BY <1>4 DEF Pages
  <2>3. [page EXCEPT !.partial = FALSE, !.next = Nothing] \in Pages
    BY <2>2 DEF Pages
  <2> QED
    BY <2>1, <2>3
<1>6. Visible(q) \in SUBSET Entries /\ Tied(q) \in BOOLEAN
  BY VisibleIsFinite DEF Tied
<1>7. walk' \in Walks
  BY <1>2, <1>5, <1>6 DEF Walks
<1>8. /\ walk'.by = "once" /\ walk'.over /\ walk'.question \in Searches /\ held' = {}
  BY <1>2 DEF Discover
<1> QED
  BY <1>7, <1>8 DEF WalkInv, WalkOK

LEMMA ContinueKeepsWalk ==
    ASSUME SearchInv, Continue \/ NextByOffset
    PROVE  WalkInv'
<1> DEFINE q == walk.question
           V == Visible(walk.question)
           O == Order(walk.question)
<1>1. walk # Nothing /\ ~walk.over /\ UNCHANGED catalog
  BY DEF Continue, NextByOffset
<1>2. walk \in Walks /\ q \in Questions
  BY <1>1 DEF SearchInv, WalkInv, Walks
<1>3. PICK p \in Questions : p = walk.question
  BY <1>2
<1>4. Underway(walk, Visible(p), Order(p)) /\ Turned(walk) /\ Marks(held, walk, Visible(p), Order(p))
  BY <1>1, <1>3 DEF SearchInv, WalkInv, WalkOK
<1>5. PICK w : w = walk
  OBVIOUS
<1>6. PICK h : h = held
  OBVIOUS
<1>7. Len(walk.seen) \in Nat
  BY <1>2 DEF Walks
<1>8. CASE Continue
  <2>1. PICK n \in Asked : \E page \in Answers(p, walk.cursor.offset, ClampLimit(n)) :
          walk' = Turn(walk, page) /\ held' = held \cup ({page.next} \ {Nothing})
    BY <1>3, <1>8 DEF Continue
  <2>2. PICK page \in Answers(p, walk.cursor.offset, ClampLimit(n)) :
          walk' = Turn(walk, page) /\ held' = held \cup ({page.next} \ {Nothing})
    BY <2>1
  <2>3. walk.cursor = EncodeCursor(Len(walk.seen), walk.question)
    BY <1>1, <1>4 DEF Turned
  <2>4. walk.cursor.offset = Len(walk.seen)
    BY <2>3 DEF EncodeCursor
  <2>5. n \in Int
    BY SearchAssumption
  <2>6. page \in Answers(p, Len(w.seen), ClampLimit(n))
    BY <1>5, <2>2, <2>4
  <2>7. walk' = Turn(w, page) /\ held' \subseteq h \cup ({page.next} \ {Nothing})
    BY <1>5, <1>6, <2>2
  <2>8. Underway(w, Visible(p), Order(p)) /\ Marks(h, w, Visible(p), Order(p)) /\ w.question = p
    BY <1>3, <1>4, <1>5, <1>6
  <2> QED
    BY <1>1, <2>5, <2>6, <2>7, <2>8, PageKeepsWalk DEF SearchInv
<1>9. CASE NextByOffset
  <2>1. PICK n \in Asked : \E page \in Answers(p, ClampOffset(walk.position), ClampLimit(n)) :
          walk' = Turn(walk, page)
    BY <1>3, <1>9 DEF NextByOffset
  <2>2. PICK page \in Answers(p, ClampOffset(walk.position), ClampLimit(n)) :
          walk' = Turn(walk, page)
    BY <2>1
  <2>3. ClampOffset(walk.position) = Len(walk.seen)
    <3>1. walk.position = Len(walk.seen)
      BY <1>4 DEF Turned
    <3> QED
      BY <1>7, <3>1, MaxOfTwo DEF ClampOffset
  <2>4. held' = held
    BY <1>9 DEF NextByOffset
  <2>5. n \in Int
    BY SearchAssumption
  <2>6. page \in Answers(p, Len(w.seen), ClampLimit(n))
    BY <1>5, <2>2, <2>3
  <2>7. walk' = Turn(w, page) /\ held' \subseteq h \cup ({page.next} \ {Nothing})
    BY <1>5, <1>6, <2>2, <2>4
  <2>8. Underway(w, Visible(p), Order(p)) /\ Marks(h, w, Visible(p), Order(p)) /\ w.question = p
    BY <1>3, <1>4, <1>5, <1>6
  <2> QED
    BY <1>1, <2>5, <2>6, <2>7, <2>8, PageKeepsWalk DEF SearchInv
<1> QED
  BY <1>8, <1>9

LEMMA OpenWithCursorKeepsWalk ==
    ASSUME SearchInv, NEW q \in Questions, OpenWithCursor(q)
    PROVE  WalkInv'
<1>1. walk # Nothing /\ walk.over /\ UNCHANGED catalog
  BY DEF OpenWithCursor
<1>2. PICK w : w = walk
  OBVIOUS
<1>3. PICK c \in held :
        /\ CursorFits(c, q)
        /\ \E n \in Asked : \E page \in Answers(q, c.offset, ClampLimit(n)) :
            /\ held' = {d \in held : d.offset <= c.offset} \cup ({page.next} \ {Nothing})
            /\ walk' = Turn([w EXCEPT
                            !.question = q, !.by = "cursor", !.cursor = c,
                            !.seen = IF q = w.question
                                     THEN SubSeq(@, 1, c.offset) ELSE <<>>,
                            !.throughout = IF q = w.question THEN @ ELSE Visible(q),
                            !.changed = IF q = w.question THEN @ ELSE FALSE,
                            !.lost = IF q = w.question THEN @ ELSE FALSE,
                            !.tied = IF q = w.question THEN @ ELSE Tied(q)], page)
  BY <1>2 DEF OpenWithCursor
<1>4. w \in Walks
  BY <1>1, <1>2 DEF SearchInv, WalkInv
<1>5. PICK p \in Questions : p = w.question
  BY <1>4 DEF Walks
<1>6. WalkOK(w, held, Visible(p), Order(p))
  BY <1>1, <1>2, <1>5 DEF SearchInv, WalkInv
<1>7. Underway(w, Visible(p), Order(p)) /\ Marks(held, w, Visible(p), Order(p))
  BY <1>3, <1>6 DEF WalkOK
<1>8. /\ c \in Cursors /\ c.fingerprint = w.question /\ c.offset <= Len(w.seen)
      /\ Steady(w) => Covers(w.seen, c.offset, w.throughout, Visible(p), Order(p))
  BY <1>7 DEF Marks
<1>9. q = w.question /\ p = q
  BY <1>3, <1>5, <1>8 DEF CursorFits
<1>10. PICK n \in Asked : \E page \in Answers(q, c.offset, ClampLimit(n)) :
         /\ held' = {d \in held : d.offset <= c.offset} \cup ({page.next} \ {Nothing})
         /\ walk' = Turn(Resumed(w, c), page)
  <2>1. [w EXCEPT !.question = q, !.by = "cursor", !.cursor = c,
                  !.seen = IF q = w.question THEN SubSeq(@, 1, c.offset) ELSE <<>>,
                  !.throughout = IF q = w.question THEN @ ELSE Visible(q),
                  !.changed = IF q = w.question THEN @ ELSE FALSE,
                  !.lost = IF q = w.question THEN @ ELSE FALSE,
                  !.tied = IF q = w.question THEN @ ELSE Tied(q)]
          = Resumed(w, c)
    BY <1>4, <1>9 DEF Walks, Resumed
  <2> QED
    BY <1>3, <2>1
<1>11. PICK page \in Answers(q, c.offset, ClampLimit(n)) :
         /\ held' = {d \in held : d.offset <= c.offset} \cup ({page.next} \ {Nothing})
         /\ walk' = Turn(Resumed(w, c), page)
  BY <1>10
<1> DEFINE t == Resumed(w, c)
           h == {d \in held : d.offset <= c.offset}
           V == Visible(q)
           O == Order(q)
<1>12. /\ Underway(t, V, O) /\ t.question = w.question /\ t.throughout = w.throughout
       /\ t.lost = w.lost
  BY <1>7, <1>8, <1>9, ResumedIsUnderway
<1>13. Len(t.seen) = c.offset /\ \A i \in 1..c.offset : t.seen[i] = w.seen[i]
  BY <1>7, <1>8, <1>9, ResumedIsUnderway
<1>14. c.offset \in Nat
  BY <1>8 DEF Cursors
<1> HIDE DEF t
<1>15. Marks(h, t, V, O)
  <2>1. Marks(held, w, V, O)
    BY <1>7, <1>9
  <2> HIDE DEF V, O
  <2>2. PICK m : m = c.offset
    OBVIOUS
  <2>3. m \in Nat /\ Len(t.seen) \in Nat /\ m <= Len(t.seen)
        /\ \A i \in 1..m : t.seen[i] = w.seen[i]
    BY <1>13, <1>14, <2>2
  <2>4. h \subseteq held /\ \A d \in h : d.offset <= m
    BY <2>2
  <2> HIDE DEF h
  <2> QED
    BY <1>12, <2>1, <2>3, <2>4, MarksStay
<1> HIDE DEF h
<1>16. PICK k : k = h
  OBVIOUS
<1>17. n \in Int
  BY SearchAssumption
<1>18. held' \subseteq k \cup ({page.next} \ {Nothing})
  BY <1>11, <1>16 DEF h
<1>19. page \in Answers(q, Len(t.seen), ClampLimit(n)) /\ walk' = Turn(t, page)
  BY <1>11, <1>13 DEF t
<1>20. Underway(t, Visible(q), Order(q)) /\ Marks(k, t, Visible(q), Order(q)) /\ t.question = q
  BY <1>9, <1>12, <1>15, <1>16
<1> QED
  BY <1>1, <1>17, <1>18, <1>19, <1>20, PageKeepsWalk DEF SearchInv

LEMMA SearchInvHolds == SearchSpec => []SearchInv
<1>1. SearchInit => SearchInv
  <2> SUFFICES ASSUME SearchInit PROVE SearchInv
    OBVIOUS
  <2>1. listed \in Seq(Entries) /\ IsInjective(listed)
    BY SearchAssumption DEF SearchInit
  <2>2. \A i, j \in 1..Len(listed) : listed[i] = listed[j] => i = j
    BY <2>1 DEF IsInjective
  <2>3. /\ live \in [Entries -> {"HEALTHY", "DEGRADED", "OFFLINE"}]
        /\ form \in [Entries -> Forms]
    BY SearchAssumption DEF SearchInit
  <2> QED
    BY <2>1, <2>2, <2>3 DEF SearchInit, SearchInv, TableOK, WalkInv
<1>2. SearchInv /\ [SearchNext]_searchVars => SearchInv'
  <2> SUFFICES ASSUME SearchInv, [SearchNext]_searchVars PROVE SearchInv'
    OBVIOUS
  <2>1. TableOK /\ TableOK'
    BY TableHolds DEF SearchInv
  <2> SUFFICES WalkInv'
    BY <2>1 DEF SearchInv
  <2>2. CASE UNCHANGED searchVars
    <3>1. UNCHANGED catalog /\ walk' = walk /\ held' = held
      BY <2>2 DEF searchVars, catalog
    <3>2. \A q \in Questions : Visible(q)' = Visible(q) /\ Order(q)' = Order(q)
      BY <3>1 DEF catalog, Visible, Shown, Hits, Near, Order, Newer, Score
    <3> QED
      BY <3>1, <3>2 DEF SearchInv, WalkInv
  <2>3. CASE CatalogChange
    BY <2>1, <2>3, ChangeKeepsWalk
  <2>4. CASE Continue \/ SdkSearch \/ SdkList
    BY <2>4, ContinueKeepsWalk DEF SdkSearch, SdkList
  <2>5. ASSUME NEW q \in Questions, OpenSearch(q) \/ OpenListing(q)
        PROVE  WalkInv'
    BY <2>1, <2>5, BeginKeepsWalk DEF OpenSearch, OpenListing
  <2>6. ASSUME NEW q \in Questions, Discover(q)
        PROVE  WalkInv'
    BY <2>1, <2>6, DiscoverKeepsWalk
  <2>7. ASSUME NEW q \in Questions, OpenWithCursor(q)
        PROVE  WalkInv'
    BY <2>7, OpenWithCursorKeepsWalk
  <2> QED
    BY <2>2, <2>3, <2>4, <2>5, <2>6, <2>7 DEF SearchNext
<1> QED
  BY <1>1, <1>2, PTL DEF SearchSpec

(* A client that pages the listing to its end has been shown every row that*)
(* was in it throughout: engine.ts list.                                   *)
THEOREM NothingIsSkipped == SearchSpec => []NothingSkipped
<1>1. SearchInv => NothingSkipped
  <2> SUFFICES ASSUME SearchInv, walk # Nothing, walk.over, walk.question \in Listings,
                      ~walk.lost
               PROVE  walk.throughout \subseteq ToSet(walk.seen)
    BY DEF NothingSkipped
  <2>1. walk.question \in Questions /\ walk.question \notin Searches
    BY SearchAssumption DEF Questions
  <2>2. WalkOK(walk, held, Visible(walk.question), Order(walk.question))
    BY <2>1 DEF SearchInv, WalkInv
  <2>3. Turned(walk) /\ Steady(walk)
    BY <2>1, <2>2 DEF WalkOK, Steady
  <2> QED
    BY <2>3 DEF Turned
<1> QED
  BY <1>1, SearchInvHolds, PTL

(* Pages of a ranking are exact, each match once, or own up to being cut:  *)
(* engine.ts search.                                                       *)
THEOREM RankingsAreHonest == SearchSpec => []RankingIsHonest
<1>1. SearchInv => TruncationIsSaid
  <2> SUFFICES ASSUME SearchInv, walk # Nothing, walk.by # "once",
                      walk.last.rows # <<>>, walk.last.left # {}
               PROVE  walk.last.partial
    BY DEF TruncationIsSaid
  <2>1. walk.question \in Questions
    BY DEF SearchInv, WalkInv, Walks
  <2>2. WalkOK(walk, held, Visible(walk.question), Order(walk.question))
    BY <2>1 DEF SearchInv, WalkInv
  <2> QED
    BY <2>2 DEF WalkOK, Turned
<1>2. SearchInv => SearchIsExact
  <2> SUFFICES ASSUME SearchInv, walk # Nothing, walk.over, walk.by # "once",
                      walk.question \in Searches, ~walk.changed, ~walk.tied,
                      Cardinality(walk.throughout) <= PoolSize
               PROVE  IsInjective(walk.seen) /\ ToSet(walk.seen) = walk.throughout
    BY DEF SearchIsExact
  <2>1. walk \in Walks /\ walk.question \in Questions
    BY DEF SearchInv, WalkInv, Walks
  <2>2. PICK V, O : V = Visible(walk.question) /\ O = Order(walk.question)
    OBVIOUS
  <2>3. WalkOK(walk, held, V, O) /\ IsFiniteSet(V)
    BY <2>1, <2>2, VisibleIsFinite DEF SearchInv, WalkInv
  <2>4. Underway(walk, V, O) /\ Turned(walk) /\ Exact(walk)
    BY <2>3 DEF WalkOK, Exact
  <2> DEFINE s == walk.seen
  <2>5. /\ walk.throughout = V /\ Len(s) >= Cardinality(V)
        /\ \A i \in 1..Len(s) : s[i] \in V /\ Place(V, O, s[i]) = i - 1
    BY <2>4 DEF Underway, Turned
  <2>6. s \in Seq(Entries) /\ Len(s) \in Nat /\ DOMAIN s = 1..Len(s)
    BY <2>1 DEF Walks
  <2> HIDE DEF s
  <2>7. IsInjective(s)
    <3>1. ASSUME NEW i \in 1..Len(s), NEW j \in 1..Len(s), s[i] = s[j]
          PROVE  i = j
      <4>1. i - 1 = j - 1
        BY <2>5, <3>1
      <4> QED
        BY <2>6, <4>1
    <3> QED
      BY <2>6, <3>1 DEF IsInjective
  <2>8. s \in Injection(1..Len(s), V)
    <3>1. s \in [1..Len(s) -> V]
      BY <2>5, <2>6
    <3> QED
      BY <2>7, <3>1 DEF Injection
  <2>9. IsFiniteSet(1..Len(s)) /\ Cardinality(1..Len(s)) = Len(s)
    <3>1. PICK n \in Nat : n = Len(s)
      BY <2>6
    <3>2. IsFiniteSet(1..n) /\ Cardinality(1..n) = n
      BY FS_Interval
    <3> QED
      BY <3>1, <3>2
  <2>10. Cardinality(V) \in Nat
    BY <2>3, FS_CardinalityType
  <2>11. s \in Surjection(1..Len(s), V)
    BY <2>3, <2>5, <2>6, <2>8, <2>9, <2>10, FS_Injection
  <2>12. ToSet(s) = V
    BY <2>5, <2>6, <2>11 DEF ToSet, Surjection
  <2> QED
    BY <2>5, <2>7, <2>12 DEF s
<1> QED
  BY <1>1, <1>2, SearchInvHolds, PTL DEF RankingIsHonest

=============================================================================
