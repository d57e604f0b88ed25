----------------------- MODULE CatalogIngestion_proofs -----------------------
(***************************************************************************)
(* The catalog's promises for any number of listings, payees, messages and *)
(* transactions running at once.                                           *)
(***************************************************************************)
EXTENDS CatalogIngestion, CatalogScreen, FiniteSetTheorems, TLAPS

USE CatalogAssumption, NoneAssumption

----------------------------------------------------------------------------
(* Type correctness.                                                       *)

Open == [at : {"terms", "settlement", "read", "write"},
         msg : Messages, blind : BOOLEAN]
Choices == {"pending", "verified", "quarantined"}

LEMMA TypeInit == Init => TypeOK
<1> SUFFICES ASSUME Init PROVE TypeOK
  OBVIOUS
<1>1. offered \subseteq Sites \X Offers
  <2>1. \A u \in Sites : live[u] \subseteq Offers
    BY DEF Init
  <2> QED
    BY <2>1 DEF Init
<1> QED
  BY <1>1 DEF Init, TypeOK, Idle

(* A worker that runs holds a message; one that does not, nothing.         *)
LEMMA JobShape ==
    ASSUME TypeOK, NEW w \in Workers
    PROVE  /\ Running(w) => job[w] \in Open
           /\ ~Running(w) => job[w] = Idle
           /\ \A s \in {"terms", "settlement", "read", "write"} :
                 job[w].at = s => Running(w)
BY DEF TypeOK, Running, Idle, Open

LEMMA MessageShape ==
    ASSUME NEW m \in Messages
    PROVE  /\ m.type \in {"ingest", "upsert", "revoke"}
           /\ m.listing \in Listings /\ m.site \in Sites /\ m.http \in BOOLEAN
           /\ m.payTo \in Payees /\ m.network \in Networks /\ m.scheme \in Schemes
           /\ m.tx \in Txs /\ m.terms \in Terms
           /\ m.revision \in Nat /\ m.digest \in Nat
           /\ Key(m) \in Keys /\ Offer(m) \in Offers
BY DEF MessageType, Key, Keys, Offer, Offers

LEMMA WrittenShape ==
    ASSUME TypeOK, NEW m \in Messages
    PROVE  /\ Written(m) \in Rows
           /\ Written(m).payTo = m.payTo /\ Written(m).tx = m.tx
           /\ Written(m).site = m.site /\ Written(m).terms = m.terms
           /\ ~KeepsNames(m) => Offer(Written(m)) = Offer(m)
           /\ KeepsNames(m) => /\ Written(m).network = entry[m.listing].network
                               /\ Written(m).scheme = entry[m.listing].scheme
<1> DEFINE old == entry[m.listing]
           network == IF KeepsNames(m) THEN old.network ELSE m.network
           scheme == IF KeepsNames(m) THEN old.scheme ELSE m.scheme
           http == IF old = None THEN m.http ELSE old.http
           status == IF m.http THEN "verified"
                     ELSE IF old = None THEN "pending" ELSE old.status
           fresh == m.http \/ (old # None /\ old.fresh)
<1>1. old \in Rows \cup {None}
  BY MessageShape DEF TypeOK
<1>2. network \in Networks /\ scheme \in Schemes
  BY <1>1, MessageShape DEF Rows, KeepsNames
<1>3. http \in BOOLEAN /\ fresh \in BOOLEAN
  BY <1>1, MessageShape DEF Rows
<1>4. status \in Choices
  BY <1>1, MessageShape DEF Rows, Choices
<1>5. Written(m) = [site |-> m.site, payTo |-> m.payTo, terms |-> m.terms, tx |-> m.tx,
                    network |-> network, scheme |-> scheme, http |-> http,
                    shown |-> TRUE, status |-> status, fresh |-> fresh]
  BY DEF Written
<1> HIDE DEF network, scheme, http, status, fresh
<1>6. Written(m) \in Rows
  BY <1>2, <1>3, <1>4, <1>5, MessageShape DEF Rows, Choices
<1>7. /\ Written(m).payTo = m.payTo /\ Written(m).tx = m.tx
      /\ Written(m).site = m.site /\ Written(m).terms = m.terms
      /\ Written(m).network = network /\ Written(m).scheme = scheme
  BY <1>5
<1> QED
  BY <1>6, <1>7 DEF network, scheme, Offer

LEMMA MarkedShape ==
    ASSUME NEW r \in Rows, NEW s \in Choices
    PROVE  /\ Marked(r, s) \in Rows
           /\ Marked(r, s).payTo = r.payTo /\ Marked(r, s).tx = r.tx
           /\ Marked(r, s).site = r.site /\ Offer(Marked(r, s)) = Offer(r)
           /\ Marked(r, s).shown => r.shown
<1>1. (r.shown /\ s # "quarantined") \in BOOLEAN /\ (r.fresh \/ s = "verified") \in BOOLEAN
  OBVIOUS
<1>2. r.shown \in BOOLEAN /\ r.fresh \in BOOLEAN
  BY DEF Rows
<1>3. Marked(r, s) \in Rows
  BY <1>1 DEF Marked, Rows, Choices
<1>4. /\ Marked(r, s).payTo = r.payTo /\ Marked(r, s).tx = r.tx
      /\ Marked(r, s).site = r.site /\ Marked(r, s).terms = r.terms
      /\ Marked(r, s).network = r.network /\ Marked(r, s).scheme = r.scheme
  BY DEF Marked, Rows
<1>5. Marked(r, s).shown => r.shown
  BY <1>2 DEF Marked, Rows
<1> QED
  BY <1>3, <1>4, <1>5 DEF Offer

(* The steps of one worker.                                                *)
LEMMA TypeWork ==
    ASSUME TypeOK, NEW w \in Workers, Work(w)
    PROVE  TypeOK'
<1> USE DEF TypeOK
<1>1. ASSUME NEW m \in Messages, Ingest(w, m) PROVE TypeOK'
  BY <1>1 DEF Ingest, Start, history, Idle
<1>2. ASSUME NEW m \in Messages, BeginDelta(w, m) PROVE TypeOK'
  <2>1. FirstStage(m) \in {"settlement", "write"} /\ (row[Key(m)] = None) \in BOOLEAN
    BY DEF FirstStage
  <2> QED
    BY <1>2, <2>1 DEF BeginDelta, Start, history, Idle
<1>3. ASSUME NEW m \in Messages, IgnoreDelta(w, m) PROVE TypeOK'
  BY <1>3 DEF IgnoreDelta
<1>4. ASSUME NEW s \in {"terms", "settlement", "read", "write"}, Running(w), At(w, s)
      PROVE  TypeOK'
  <2>1. job[w] \in Open
    BY <1>4, JobShape
  <2>2. [job[w] EXCEPT !.at = s] \in Open
    BY <2>1 DEF Open
  <2> QED
    BY <1>4, <2>2 DEF At, history, Open
<1>5. CASE ConfirmTerms(w)
  BY <1>4, <1>5, JobShape DEF ConfirmTerms
<1>6. CASE ConfirmSettlement(w)
  BY <1>4, <1>6, JobShape DEF ConfirmSettlement
<1>7. CASE ReadEntry(w)
  BY <1>4, <1>7, JobShape DEF ReadEntry
<1>8. CASE Reject(w)
  BY <1>8 DEF Reject, Rollback, history
<1> HIDE DEF TypeOK
<1>9. ASSUME NEW m \in Messages, WriteEntry(m)
      PROVE  /\ entry' \in [Listings -> Rows \cup {None}]
             /\ \A l \in Listings : entry[l] # None => entry'[l] # None
             /\ writer' \in [Listings -> Messages \cup {None}]
             /\ namer' \in [Listings -> Messages \cup {None}]
             /\ backs' \subseteq Txs \X Listings
  <2>1. Written(m) \in Rows
    BY WrittenShape
  <2> QED
    BY <1>9, <2>1, MessageShape DEF WriteEntry, TypeOK
<1>10. ASSUME Running(w), RecordDelta(w),
              entry' \in [Listings -> Rows \cup {None}],
              \A l \in Listings : entry[l] # None => entry'[l] # None,
              writer' \in [Listings -> Messages \cup {None}],
              namer' \in [Listings -> Messages \cup {None}],
              backs' \subseteq Txs \X Listings
       PROVE  TypeOK'
  <2>1. job[w].msg \in Messages
    BY <1>10, JobShape DEF Open
  <2>2. Key(job[w].msg) \in Keys
    BY <2>1, MessageShape
  <2> QED
    BY <1>10, <2>1, <2>2 DEF RecordDelta, TypeOK
<1>11. CASE StoreListing(w)
  <2>1. job[w].msg \in Messages
    BY <1>11, JobShape DEF Open, StoreListing
  <2> QED
    BY <1>9, <1>11, <2>1 DEF StoreListing, TypeOK
<1>12. CASE RewriteEntry(w)
  <2>1. Running(w) /\ job[w].msg \in Messages
    BY <1>12, JobShape DEF Open, RewriteEntry
  <2> QED
    BY <1>9, <1>10, <1>12, <2>1 DEF RewriteEntry
<1>13. CASE StoreDelta(w)
  <2>1. Running(w) /\ job[w].msg \in Messages
    BY <1>13, JobShape DEF Open, StoreDelta
  <2>2. CASE WriteEntry(job[w].msg)
    BY <1>9, <1>10, <1>13, <2>1, <2>2 DEF StoreDelta
  <2>3. CASE UNCHANGED <<entry, writer, namer, backs>>
    BY <1>10, <1>13, <2>1, <2>3 DEF StoreDelta, TypeOK
  <2> QED
    BY <1>13, <2>2, <2>3 DEF StoreDelta
<1>14. CASE Revoke(w)
  <2>1. Running(w) /\ job[w].msg \in Messages
    BY <1>14, JobShape DEF Open, Revoke
  <2> DEFINE l == job[w].msg.listing
  <2>2. l \in Listings
    BY <2>1, MessageShape
  <2>3. entry[l] # None => [entry[l] EXCEPT !.shown = FALSE] \in Rows
    <3>1. entry[l] \in Rows \cup {None}
      BY <2>2 DEF TypeOK
    <3> QED
      BY <3>1 DEF Rows
  <2>4. /\ entry' \in [Listings -> Rows \cup {None}]
        /\ \A k \in Listings : entry[k] # None => entry'[k] # None
    BY <1>14, <2>2, <2>3 DEF Revoke, TypeOK
  <2> QED
    BY <1>10, <1>14, <2>1, <2>4 DEF Revoke, TypeOK
<1> QED
  BY <1>1, <1>2, <1>3, <1>5, <1>6, <1>7, <1>8, <1>11, <1>12, <1>13, <1>14 DEF Work

LEMMA TypeStep == TypeOK /\ [Next]_vars => TypeOK'
<1> SUFFICES ASSUME TypeOK, [Next]_vars PROVE TypeOK'
  OBVIOUS
<1>1. ASSUME NEW u \in Sites, NEW challenge \in Challenges, ChangeOffers(u, challenge)
      PROVE  TypeOK'
  BY <1>1 DEF ChangeOffers, TypeOK
<1>2. ASSUME NEW l \in Listings, GrowStale(l) PROVE TypeOK'
  <2>1. entry[l] \in Rows
    BY <1>2 DEF GrowStale, TypeOK
  <2>2. [entry[l] EXCEPT !.fresh = FALSE] \in Rows
    BY <2>1 DEF Rows
  <2> QED
    BY <1>2, <2>2 DEF GrowStale, history, TypeOK
<1>3. ASSUME NEW batch \in SUBSET Due, StartSweep(batch) PROVE TypeOK'
  <2>1. \A l \in batch : /\ l \in Listings /\ entry[l] # None
                         /\ entry[l] \in Rows
    BY DEF Due, TypeOK
  <2>2. \A l \in batch : /\ Selected(l).listing = l
                         /\ Selected(l) \in [listing : Listings, site : Sites, offer : Offers]
    BY <2>1 DEF Selected, Rows, Offer, Offers
  <2> QED
    BY <1>3, <2>1, <2>2 DEF StartSweep, history, TypeOK
<1>4. ASSUME NEW s \in sweep, NEW result \in Choices, Revalidate(s, result) PROVE TypeOK'
  BY <1>4 DEF Revalidate, history, TypeOK, Choices
<1>5. CASE MarkRow
  <2>1. /\ verdict.listing \in Listings /\ verdict.status \in Choices
        /\ entry[verdict.listing] \in Rows
    BY <1>5 DEF MarkRow, TypeOK, Choices
  <2>2. Marked(entry[verdict.listing], verdict.status) \in Rows
    BY <2>1, MarkedShape
  <2> QED
    BY <1>5, <2>1, <2>2 DEF MarkRow, history, TypeOK
<1>6. CASE Crash
  BY <1>6 DEF Crash, history, TypeOK
<1>7. CASE UNCHANGED vars
  BY <1>7 DEF vars, TypeOK
<1> QED
  BY <1>1, <1>2, <1>3, <1>4, <1>5, <1>6, <1>7, TypeWork DEF Next, Sweeping, Choices

(* Every variable keeps its type through every interleaving of ingestions, *)
(* deltas, sweeps and process deaths.                                      *)
THEOREM TypeCorrect == CatalogSpec => []TypeOK
BY TypeInit, TypeStep, PTL DEF CatalogSpec

----------------------------------------------------------------------------
(* What a step may do to one row of the catalog.                           *)

Kept(l) ==
    entry'[l] = entry[l] /\ writer'[l] = writer[l] /\ namer'[l] = namer[l]

Remarked(l) ==
    /\ entry[l] # None /\ entry'[l] # None
    /\ entry'[l].payTo = entry[l].payTo /\ entry'[l].tx = entry[l].tx
    /\ entry'[l].site = entry[l].site /\ Offer(entry'[l]) = Offer(entry[l])
    /\ entry'[l].shown => entry[l].shown
    /\ writer'[l] = writer[l] /\ namer'[l] = namer[l]

Rewritten(l, w) ==
    LET m == job[w].msg
    IN  /\ Running(w) /\ m.listing = l /\ m.type # "revoke"
        /\ job[w].at = "read" => m.type = "upsert"
        /\ job[w].at \in {"read", "write"}
        /\ SamePayee(m)
        /\ entry'[l] = Written(m) /\ writer'[l] = m
        /\ namer'[l] = IF KeepsNames(m) THEN namer[l] ELSE m
        /\ IF m.type = "upsert" THEN row' = [row EXCEPT ![Key(m)] = m]
           ELSE row' = row

LEMMA EntryStep ==
    ASSUME TypeOK, [Next]_vars, NEW l \in Listings
    PROVE  \/ Kept(l) \/ Remarked(l)
           \/ \E w \in Workers : Rewritten(l, w)
<1>1. ASSUME UNCHANGED <<entry, writer, namer>> PROVE Kept(l)
  BY <1>1 DEF Kept
<1>2. ASSUME NEW k \in Listings, GrowStale(k) PROVE Kept(l) \/ Remarked(l)
  <2>1. entry[k] \in Rows /\ None \notin Rows
    BY <1>2 DEF GrowStale, TypeOK
  <2>2. [entry[k] EXCEPT !.fresh = FALSE] \in Rows
    BY <2>1 DEF Rows
  <2>3. entry' = [entry EXCEPT ![k] = [entry[k] EXCEPT !.fresh = FALSE]]
        /\ writer' = writer /\ namer' = namer
    BY <1>2 DEF GrowStale, history
  <2>4. CASE l = k
    BY <2>1, <2>2, <2>3, <2>4 DEF Remarked, Rows, Offer, TypeOK
  <2>5. CASE l # k
    BY <2>3, <2>5 DEF Kept, TypeOK
  <2> QED
    BY <2>4, <2>5
<1>3. CASE MarkRow
  <2> DEFINE k == verdict.listing
  <2>1. /\ k \in Listings /\ verdict.status \in Choices /\ entry[k] \in Rows
    BY <1>3 DEF MarkRow, TypeOK, Choices
  <2>2. entry' = [entry EXCEPT ![k] = Marked(entry[k], verdict.status)]
        /\ writer' = writer /\ namer' = namer
    BY <1>3 DEF MarkRow, history
  <2> HIDE DEF k
  <2>3. CASE l = k
    BY <2>1, <2>2, <2>3, MarkedShape DEF Remarked, TypeOK
  <2>4. CASE l # k
    BY <2>2, <2>4 DEF Kept, TypeOK
  <2> QED
    BY <2>3, <2>4
<1>4. ASSUME NEW w \in Workers, WriteEntry(job[w].msg), SamePayee(job[w].msg),
             job[w].msg.type # "revoke", job[w].at \in {"read", "write"},
             job[w].at = "read" => job[w].msg.type = "upsert",
             IF job[w].msg.type = "upsert"
             THEN row' = [row EXCEPT ![Key(job[w].msg)] = job[w].msg]
             ELSE row' = row
      PROVE  Kept(l) \/ Rewritten(l, w)
  <2> DEFINE m == job[w].msg
  <2>1. Running(w) /\ m \in Messages
    BY <1>4, JobShape DEF Open
  <2>2. m.listing \in Listings
    BY <2>1, MessageShape
  <2>3. /\ entry' = [entry EXCEPT ![m.listing] = Written(m)]
        /\ writer' = [writer EXCEPT ![m.listing] = m]
        /\ namer' = IF KeepsNames(m) THEN namer ELSE [namer EXCEPT ![m.listing] = m]
    BY <1>4 DEF WriteEntry
  <2>4. CASE l = m.listing
    <3>1. /\ entry'[l] = Written(m) /\ writer'[l] = m
          /\ namer'[l] = IF KeepsNames(m) THEN namer[l] ELSE m
      BY <2>2, <2>3, <2>4 DEF TypeOK
    <3> QED
      BY <1>4, <2>1, <2>4, <3>1 DEF Rewritten
  <2>5. CASE l # m.listing
    BY <2>3, <2>5 DEF Kept, TypeOK
  <2> QED
    BY <2>4, <2>5
<1>5. ASSUME NEW w \in Workers, StoreListing(w) PROVE Kept(l) \/ Rewritten(l, w)
  BY <1>4, <1>5 DEF StoreListing
<1>6. ASSUME NEW w \in Workers, RewriteEntry(w) PROVE Kept(l) \/ Rewritten(l, w)
  BY <1>4, <1>6 DEF RewriteEntry, RecordDelta
<1>7. ASSUME NEW w \in Workers, StoreDelta(w) PROVE Kept(l) \/ Rewritten(l, w)
  BY <1>1, <1>4, <1>7 DEF StoreDelta, RecordDelta, Kept
<1>8. ASSUME NEW w \in Workers, Revoke(w) PROVE Kept(l) \/ Remarked(l)
  <2> DEFINE k == job[w].msg.listing
  <2>1. writer' = writer /\ namer' = namer
    BY <1>8 DEF Revoke
  <2>2. CASE entry' = entry
    BY <2>1, <2>2 DEF Kept
  <2>3. CASE entry[k] # None /\ entry' = [entry EXCEPT ![k].shown = FALSE]
    <3>1. k \in Listings
      BY <1>8, JobShape, MessageShape DEF Revoke, Open
    <3>2. entry[k] \in Rows
      BY <2>3, <3>1 DEF TypeOK
    <3>3. [entry[k] EXCEPT !.shown = FALSE] \in Rows
      BY <3>2 DEF Rows
    <3>4. entry' = [entry EXCEPT ![k] = [entry[k] EXCEPT !.shown = FALSE]]
      BY <2>3
    <3> HIDE DEF k
    <3>5. CASE l = k
      BY <2>1, <3>2, <3>3, <3>4, <3>5 DEF Remarked, Rows, Offer, TypeOK
    <3>6. CASE l # k
      BY <2>1, <3>4, <3>6 DEF Kept, TypeOK
    <3> QED
      BY <3>5, <3>6
  <2> QED
    BY <1>8, <2>2, <2>3 DEF Revoke
<1>9. ASSUME NEW w \in Workers, NEW m \in Messages,
             Ingest(w, m) \/ BeginDelta(w, m) \/ IgnoreDelta(w, m)
      PROVE  Kept(l)
  BY <1>1, <1>9 DEF Ingest, BeginDelta, IgnoreDelta, Start, history
<1>10. ASSUME NEW w \in Workers,
              ConfirmTerms(w) \/ ConfirmSettlement(w) \/ ReadEntry(w) \/ Reject(w)
       PROVE  Kept(l)
  BY <1>1, <1>10 DEF ConfirmTerms, ConfirmSettlement, ReadEntry, Reject, At, history
<1>11. ASSUME NEW u \in Sites, NEW challenge \in Challenges, ChangeOffers(u, challenge)
       PROVE  Kept(l)
  BY <1>1, <1>11 DEF ChangeOffers
<1>12. ASSUME \/ \E batch \in SUBSET Due \ {{}} : StartSweep(batch)
              \/ \E s \in sweep, result \in {"pending", "verified", "quarantined"} :
                    Revalidate(s, result)
              \/ Crash
       PROVE  Kept(l)
  BY <1>1, <1>12 DEF StartSweep, Revalidate, Crash, history
<1>13. CASE UNCHANGED vars
  BY <1>1, <1>13 DEF vars
<1> QED
  BY <1>2, <1>3, <1>5, <1>6, <1>7, <1>8, <1>9, <1>10, <1>11, <1>12, <1>13
     DEF Next, Work, Sweeping

(* A listing keeps its payee for ever, for any number of transactions that *)
(* race to insert it: the WHERE clause decides on the committed row.       *)
THEOREM PayeeFixed == CatalogSpec => PayeeNeverChanges
<1>1. ASSUME TypeOK, [Next]_vars, NEW l \in Listings, entry[l] # None
      PROVE  entry'[l] # None /\ entry'[l].payTo = entry[l].payTo
  <2>1. CASE Kept(l) \/ Remarked(l)
    BY <1>1, <2>1 DEF Kept, Remarked
  <2>2. ASSUME NEW w \in Workers, Rewritten(l, w)
        PROVE  entry'[l] # None /\ entry'[l].payTo = entry[l].payTo
    <3>1. job[w].msg \in Messages
      BY <1>1, <2>2, JobShape DEF Rewritten, Open
    <3>2. Written(job[w].msg) \in Rows /\ Written(job[w].msg).payTo = job[w].msg.payTo
      BY <1>1, <3>1, WrittenShape
    <3> QED
      BY <1>1, <2>2, <3>2 DEF Rewritten, SamePayee
  <2> QED
    BY <1>1, <2>1, <2>2, EntryStep
<1>2. TypeOK /\ [Next]_vars =>
        [\A l \in Listings :
            entry[l] # None => /\ entry'[l] # None
                               /\ entry'[l].payTo = entry[l].payTo]_vars
  BY <1>1
<1> QED
  BY <1>2, TypeInit, TypeStep, PTL DEF CatalogSpec, PayeeNeverChanges

----------------------------------------------------------------------------
(* What a step may do to one key of the delta state.                       *)

Hidden(k) ==
    (/\ entry'[k[3]] # None
     /\ entry'[k[3]].payTo = k[1] /\ entry'[k[3]].network = k[2])
    => ~entry'[k[3]].shown

LEMMA RowStep ==
    ASSUME TypeOK, [Next]_vars, NEW k \in Keys
    PROVE  \/ row'[k] = row[k]
           \/ row'[k] # None /\ row'[k].type = "upsert"
           \/ row'[k] # None /\ row'[k].type = "revoke" /\ Hidden(k)
<1>1. CASE row' = row
  BY <1>1
<1>2. ASSUME NEW w \in Workers, job[w].at \in {"read", "write"}, RecordDelta(w)
      PROVE  /\ job[w].msg \in Messages /\ job[w].msg # None
             /\ row'[k] = IF k = Key(job[w].msg) THEN job[w].msg ELSE row[k]
  <2>1. job[w].msg \in Messages
    BY <1>2, JobShape DEF Open
  <2> QED
    BY <1>2, <2>1 DEF RecordDelta, TypeOK
<1>3. ASSUME NEW w \in Workers, RewriteEntry(w) \/ StoreDelta(w)
      PROVE  row'[k] = row[k] \/ (row'[k] # None /\ row'[k].type = "upsert")
  BY <1>2, <1>3 DEF RewriteEntry, StoreDelta
<1>4. ASSUME NEW w \in Workers, Revoke(w)
      PROVE  \/ row'[k] = row[k]
             \/ row'[k] # None /\ row'[k].type = "revoke" /\ Hidden(k)
  <2> DEFINE m == job[w].msg
  <2>1. m \in Messages /\ m # None /\ m.type = "revoke"
    BY <1>2, <1>4 DEF Revoke
  <2>2. row'[k] = IF k = Key(m) THEN m ELSE row[k]
    BY <1>2, <1>4 DEF Revoke
  <2>3. CASE k # Key(m)
    BY <2>2, <2>3
  <2>4. CASE k = Key(m)
    <3>1. /\ k[1] = m.payTo /\ k[2] = m.network /\ k[3] = m.listing
          /\ m.listing \in Listings
      BY <2>1, <2>4, MessageShape DEF Key
    <3>2. entry[m.listing] \in Rows \cup {None}
      BY <3>1 DEF TypeOK
    <3>3. CASE /\ entry[m.listing] # None /\ entry[m.listing].payTo = m.payTo
               /\ entry[m.listing].network = m.network
      <4>1. entry'[m.listing] = [entry[m.listing] EXCEPT !.shown = FALSE]
        BY <1>4, <3>1, <3>3 DEF Revoke, TypeOK
      <4>2. ~entry'[m.listing].shown
        BY <3>2, <3>3, <4>1 DEF Rows
      <4> QED
        BY <2>1, <2>2, <2>4, <3>1, <4>2 DEF Hidden
    <3>4. CASE ~(/\ entry[m.listing] # None /\ entry[m.listing].payTo = m.payTo
                 /\ entry[m.listing].network = m.network)
      <4>1. entry' = entry
        BY <1>4, <3>4 DEF Revoke
      <4> QED
        BY <2>1, <2>2, <2>4, <3>1, <3>4, <4>1 DEF Hidden
    <3> QED
      BY <3>3, <3>4
  <2> QED
    BY <2>3, <2>4
<1>5. ASSUME NEW w \in Workers, NEW m \in Messages,
             Ingest(w, m) \/ BeginDelta(w, m) \/ IgnoreDelta(w, m)
      PROVE  row' = row
  BY <1>5 DEF Ingest, BeginDelta, IgnoreDelta, Start, history
<1>6. ASSUME NEW w \in Workers,
             \/ ConfirmTerms(w) \/ ConfirmSettlement(w) \/ ReadEntry(w)
             \/ Reject(w) \/ StoreListing(w)
      PROVE  row' = row
  BY <1>6 DEF ConfirmTerms, ConfirmSettlement, ReadEntry, Reject, StoreListing, At, history
<1>7. ASSUME Sweeping PROVE row' = row
  BY <1>7 DEF Sweeping, StartSweep, Revalidate, MarkRow, history
<1>8. ASSUME \/ \E u \in Sites, challenge \in Challenges : ChangeOffers(u, challenge)
             \/ \E l \in Listings : GrowStale(l)
      PROVE  row' = row
  BY <1>8 DEF ChangeOffers, GrowStale, history
<1>9. CASE Crash \/ UNCHANGED vars
  BY <1>1, <1>9 DEF Crash, vars, history
<1> QED
  BY <1>1, <1>3, <1>4, <1>5, <1>6, <1>7, <1>8, <1>9 DEF Next, Work

LEMMA RevokedStep ==
    TypeOK /\ RevokedStaysHidden /\ [Next]_vars => RevokedStaysHidden'
<1> SUFFICES ASSUME TypeOK, RevokedStaysHidden, [Next]_vars, NEW l \in Listings,
                    entry'[l] # None, entry'[l].shown,
                    row'[<<entry'[l].payTo, entry'[l].network, l>>] # None,
                    row'[<<entry'[l].payTo, entry'[l].network, l>>].type = "revoke"
             PROVE  writer'[l].type = "ingest"
  BY DEF RevokedStaysHidden
<1> DEFINE k == <<entry'[l].payTo, entry'[l].network, l>>
<1>1. /\ entry'[l] \in Rows /\ k \in Keys
      /\ k[1] = entry'[l].payTo /\ k[2] = entry'[l].network /\ k[3] = l
  BY TypeStep DEF TypeOK, Rows, Keys
<1>2. row'[k] = row[k]
  <2>1. ~Hidden(k)
    BY <1>1 DEF Hidden
  <2> QED
    BY <1>1, <2>1, RowStep
<1>3. CASE Kept(l) \/ Remarked(l)
  <2>1. /\ entry[l] # None /\ entry[l].shown /\ writer'[l] = writer[l]
        /\ k = <<entry[l].payTo, entry[l].network, l>>
    BY <1>3 DEF Kept, Remarked, Offer
  <2> QED
    BY <1>2, <2>1 DEF RevokedStaysHidden
<1>4. ASSUME NEW w \in Workers, Rewritten(l, w) PROVE writer'[l].type = "ingest"
  <2> DEFINE m == job[w].msg
  <2>1. m \in Messages /\ m.listing = l /\ entry'[l] = Written(m) /\ writer'[l] = m
    BY <1>4, JobShape DEF Rewritten, Open
  <2>2. m.type \in {"ingest", "upsert"}
    BY <1>4, <2>1, MessageShape DEF Rewritten
  <2>3. CASE m.type = "upsert"
    <3>1. Key(m) = k
      <4>1. ~KeepsNames(m)
        BY <2>3 DEF KeepsNames
      <4>2. entry'[l].payTo = m.payTo /\ Offer(entry'[l]) = Offer(m)
        BY <2>1, <4>1, WrittenShape
      <4> QED
        BY <2>1, <4>2 DEF Key, Offer
    <3>2. row'[k] = m
      BY <1>1, <1>4, <2>3, <3>1 DEF Rewritten, TypeOK
    <3> QED
      BY <2>3, <3>2
  <2> QED
    BY <2>1, <2>2, <2>3
<1> QED
  BY <1>3, <1>4, EntryStep

(* A revoked listing stays out of the search until a settled payment or a  *)
(* newer delta brings it back, whatever sweeps and older deltas are still  *)
(* under way when the revoke commits.                                      *)
THEOREM RevokedHidden == CatalogSpec => []RevokedStaysHidden
<1>1. Init => RevokedStaysHidden
  BY DEF Init, RevokedStaysHidden
<1> QED
  BY <1>1, TypeInit, TypeStep, RevokedStep, PTL DEF CatalogSpec

----------------------------------------------------------------------------
(* Proof of every listing.  What a transaction has confirmed follows from  *)
(* how far it has come, and stays true while it waits.                     *)

Credited(m) == CreditedTo[m.tx] = m.payTo
Asked(m) == m.http => <<m.site, Offer(m)>> \in offered

Confirmed(w) ==
    LET m == job[w].msg
    IN  /\ m.type = "revoke" => job[w].at = "write"
        /\ m.type = "ingest" =>
              /\ job[w].at \in {"settlement", "read", "write"} => Asked(m)
              /\ job[w].at \in {"read", "write"} => Credited(m)
        /\ m.type = "upsert" =>
              /\ job[w].at \in {"terms", "read", "write"} => Credited(m)
              /\ job[w].at \in {"read", "write"} => Asked(m)

(* What a row shows, and what the two messages behind it were proven of.   *)
RowProven(l) ==
    LET e == entry[l]
    IN  /\ CreditedTo[e.tx] = e.payTo
        /\ writer[l] \in Messages /\ namer[l] \in Messages
        /\ Asked(writer[l]) /\ Asked(namer[l])
        /\ writer[l].payTo = e.payTo /\ namer[l].payTo = e.payTo
        /\ e.site = writer[l].site /\ e.terms = writer[l].terms
        /\ e.network = namer[l].network /\ e.scheme = namer[l].scheme

ProofInv ==
    /\ \A l \in Listings : entry[l] # None => RowProven(l)
    /\ \A w \in Workers : Running(w) => Confirmed(w)
    /\ \A u \in Sites : {u} \X live[u] \subseteq offered

LEMMA OfferedStep ==
    ASSUME TypeOK, ProofInv, [Next]_vars
    PROVE  /\ offered \subseteq offered'
           /\ \A s \in Sites : {s} \X live'[s] \subseteq offered'
<1>1. CASE UNCHANGED <<live, offered>>
  BY <1>1 DEF ProofInv
<1>2. ASSUME NEW u \in Sites, NEW challenge \in Challenges, ChangeOffers(u, challenge)
      PROVE  /\ offered \subseteq offered'
             /\ \A s \in Sites : {s} \X live'[s] \subseteq offered'
  BY <1>2 DEF ChangeOffers, ProofInv, TypeOK
<1>3. ASSUME NEW w \in Workers, NEW m \in Messages,
             Ingest(w, m) \/ BeginDelta(w, m) \/ IgnoreDelta(w, m)
      PROVE  UNCHANGED <<live, offered>>
  BY <1>3 DEF Ingest, BeginDelta, IgnoreDelta, Start, history
<1>4. ASSUME NEW w \in Workers,
             ConfirmTerms(w) \/ ConfirmSettlement(w) \/ ReadEntry(w) \/ Reject(w)
      PROVE  UNCHANGED <<live, offered>>
  BY <1>4 DEF ConfirmTerms, ConfirmSettlement, ReadEntry, Reject, At, history
<1>5. ASSUME NEW w \in Workers,
             StoreListing(w) \/ RewriteEntry(w) \/ StoreDelta(w) \/ Revoke(w)
      PROVE  UNCHANGED <<live, offered>>
  BY <1>5 DEF StoreListing, RewriteEntry, StoreDelta, Revoke, RecordDelta
<1>6. ASSUME \/ Sweeping \/ Crash \/ UNCHANGED vars
             \/ \E l \in Listings : GrowStale(l)
      PROVE  UNCHANGED <<live, offered>>
  BY <1>6 DEF Sweeping, StartSweep, Revalidate, MarkRow, Crash, GrowStale, vars, history
<1> QED
  BY <1>1, <1>2, <1>3, <1>4, <1>5, <1>6 DEF Next, Work

LEMMA ConfirmedStep ==
    ASSUME TypeOK, ProofInv, [Next]_vars, NEW v \in Workers, Running(v)'
    PROVE  Confirmed(v)'
<1>1. ASSUME UNCHANGED job[v] PROVE Confirmed(v)'
  BY <1>1, OfferedStep DEF ProofInv, Confirmed, Asked, Credited, Running
<1>2. ASSUME NEW w \in Workers, NEW m \in Messages, Ingest(w, m) \/ BeginDelta(w, m)
      PROVE  Confirmed(v)'
  <2>1. CASE v # w
    BY <1>1, <1>2, <2>1 DEF Ingest, BeginDelta, Start, TypeOK
  <2>2. CASE v = w
    <3>1. /\ job'[v].msg = m
          /\ job'[v].at = IF m.type = "ingest" THEN "terms" ELSE FirstStage(m)
      BY <1>2, <2>2 DEF Ingest, BeginDelta, Start, TypeOK
    <3> QED
      BY <3>1, MessageShape DEF Confirmed, FirstStage
  <2> QED
    BY <2>1, <2>2
<1>3. ASSUME NEW w \in Workers, ConfirmTerms(w) PROVE Confirmed(v)'
  <2>1. CASE v # w
    BY <1>1, <1>3, <2>1 DEF ConfirmTerms, At, TypeOK
  <2>2. CASE v = w
    <3>1. job[w] \in Open /\ job[w].msg \in Messages /\ Confirmed(w)
      BY <1>3, JobShape DEF ConfirmTerms, Open, ProofInv
    <3>2. Asked(job[w].msg)
      <4>1. /\ job[w].msg.site \in Sites
            /\ job[w].msg.http => Offer(job[w].msg) \in live[job[w].msg.site]
        BY <1>3, <3>1, MessageShape DEF ConfirmTerms
      <4>2. {job[w].msg.site} \X live[job[w].msg.site] \subseteq offered
        BY <4>1 DEF ProofInv
      <4> QED
        BY <4>1, <4>2 DEF Asked
    <3>3. /\ job'[w].msg = job[w].msg
          /\ job'[w].at = IF job[w].msg.type = "ingest" THEN "settlement" ELSE "read"
          /\ offered' = offered
      BY <1>3, <3>1 DEF ConfirmTerms, At, history, TypeOK, Open
    <3> QED
      BY <1>3, <2>2, <3>1, <3>2, <3>3, MessageShape
         DEF Confirmed, Asked, Credited, ConfirmTerms
  <2> QED
    BY <2>1, <2>2
<1>4. ASSUME NEW w \in Workers, ConfirmSettlement(w) PROVE Confirmed(v)'
  <2>1. CASE v # w
    BY <1>1, <1>4, <2>1 DEF ConfirmSettlement, At, TypeOK
  <2>2. CASE v = w
    <3>1. job[w] \in Open /\ job[w].msg \in Messages /\ Confirmed(w)
      BY <1>4, JobShape DEF ConfirmSettlement, Open, ProofInv
    <3>2. /\ job'[w].msg = job[w].msg
          /\ job'[w].at = IF job[w].msg.type = "ingest" THEN "read" ELSE "terms"
          /\ offered' = offered /\ Credited(job[w].msg)
      BY <1>4, <3>1 DEF ConfirmSettlement, At, history, TypeOK, Open, Credited
    <3> QED
      BY <1>4, <2>2, <3>1, <3>2, MessageShape
         DEF Confirmed, Asked, Credited, ConfirmSettlement
  <2> QED
    BY <2>1, <2>2
<1>5. ASSUME NEW w \in Workers, ReadEntry(w) PROVE Confirmed(v)'
  <2>1. CASE v # w
    BY <1>1, <1>5, <2>1 DEF ReadEntry, At, TypeOK
  <2>2. CASE v = w
    <3>1. job[w] \in Open /\ job[w].msg \in Messages /\ Confirmed(w)
      BY <1>5, JobShape DEF ReadEntry, Open, ProofInv
    <3>2. job'[w].msg = job[w].msg /\ job'[w].at = "write" /\ offered' = offered
      BY <1>5, <3>1 DEF ReadEntry, At, history, TypeOK, Open
    <3> QED
      BY <1>5, <2>2, <3>1, <3>2 DEF Confirmed, Asked, Credited, ReadEntry
  <2> QED
    BY <2>1, <2>2
<1>6. ASSUME NEW w \in Workers, job' = [job EXCEPT ![w] = Idle]
      PROVE  Confirmed(v)'
  BY <1>1, <1>6 DEF Running, Idle, TypeOK
<1>7. ASSUME NEW w \in Workers,
             \/ Reject(w) \/ StoreListing(w)
             \/ RewriteEntry(w) \/ StoreDelta(w) \/ Revoke(w)
      PROVE  Confirmed(v)'
  BY <1>6, <1>7 DEF Reject, Rollback, StoreListing, RewriteEntry, StoreDelta, Revoke, RecordDelta
<1>8. ASSUME NEW w \in Workers, NEW m \in Messages, IgnoreDelta(w, m) PROVE Confirmed(v)'
  BY <1>1, <1>8 DEF IgnoreDelta
<1>9. ASSUME \/ \E u \in Sites, challenge \in Challenges : ChangeOffers(u, challenge)
             \/ \E l \in Listings : GrowStale(l)
      PROVE  Confirmed(v)'
  BY <1>1, <1>9 DEF ChangeOffers, GrowStale
<1>10. CASE Sweeping
  BY <1>1, <1>10 DEF Sweeping, StartSweep, Revalidate, MarkRow
<1>11. CASE Crash
  BY <1>11 DEF Crash, Running, Idle
<1>12. CASE UNCHANGED vars
  BY <1>1, <1>12 DEF vars
<1> QED
  BY <1>2, <1>3, <1>4, <1>5, <1>7, <1>8, <1>9, <1>10, <1>11, <1>12 DEF Next, Work

LEMMA ProofStep == TypeOK /\ ProofInv /\ [Next]_vars => ProofInv'
<1> SUFFICES ASSUME TypeOK, ProofInv, [Next]_vars PROVE ProofInv'
  OBVIOUS
<1>1. ASSUME NEW l \in Listings, entry'[l] # None PROVE RowProven(l)'
  <2>1. ASSUME NEW m \in Messages, Asked(m) PROVE Asked(m)'
    BY <2>1, OfferedStep DEF Asked
  <2>2. CASE Kept(l) \/ Remarked(l)
    <3>1. /\ entry[l] # None /\ entry'[l].tx = entry[l].tx
          /\ Offer(entry'[l]) = Offer(entry[l]) /\ entry'[l].site = entry[l].site
          /\ writer'[l] = writer[l] /\ namer'[l] = namer[l]
      BY <1>1, <2>2 DEF Kept, Remarked
    <3>2. /\ entry'[l].payTo = entry[l].payTo /\ entry'[l].terms = entry[l].terms
          /\ entry'[l].network = entry[l].network /\ entry'[l].scheme = entry[l].scheme
      BY <3>1 DEF Offer
    <3>3. RowProven(l)
      BY <3>1 DEF ProofInv
    <3>4. Asked(writer[l])' /\ Asked(namer[l])'
      <4>1. /\ writer[l] \in Messages /\ namer[l] \in Messages
            /\ Asked(writer[l]) /\ Asked(namer[l])
        BY <3>3 DEF RowProven
      <4> QED
        BY <3>1, <4>1, OfferedStep DEF Asked
    <3> QED
      BY <3>1, <3>2, <3>3, <3>4 DEF RowProven
  <2>3. ASSUME NEW w \in Workers, Rewritten(l, w)
        PROVE  RowProven(l)'
    <3> DEFINE m == job[w].msg
    <3>1. /\ m \in Messages /\ m.listing = l /\ SamePayee(m) /\ Confirmed(w)
          /\ entry'[l] = Written(m) /\ writer'[l] = m
          /\ namer'[l] = IF KeepsNames(m) THEN namer[l] ELSE m
      BY <2>3, JobShape DEF Rewritten, Open, ProofInv
    <3>2. Credited(m) /\ Asked(m)
      BY <2>3, <3>1, MessageShape DEF Rewritten, Confirmed
    <3> HIDE DEF m
    <3>3. /\ entry'[l].tx = m.tx /\ entry'[l].payTo = m.payTo
          /\ entry'[l].site = m.site /\ entry'[l].terms = m.terms
      BY <3>1, WrittenShape
    <3>4. Asked(writer[l])'
      BY <3>1, <3>2, OfferedStep DEF Asked
    <3>5. CASE KeepsNames(m)
      <4>1. /\ entry[l] # None /\ entry[l].payTo = m.payTo /\ RowProven(l)
        BY <3>1, <3>5 DEF KeepsNames, SamePayee, ProofInv
      <4>2. /\ entry'[l].network = entry[l].network /\ entry'[l].scheme = entry[l].scheme
            /\ namer'[l] = namer[l]
        BY <3>1, <3>5, WrittenShape
      <4>3. Asked(namer[l])'
        <5>1. namer[l] \in Messages /\ Asked(namer[l])
          BY <4>1 DEF RowProven
        <5> QED
          BY <4>2, <5>1, OfferedStep DEF Asked
      <4> QED
        BY <3>1, <3>2, <3>3, <3>4, <4>1, <4>2, <4>3 DEF RowProven, Credited
    <3>6. CASE ~KeepsNames(m)
      <4>1. namer'[l] = m /\ Offer(entry'[l]) = Offer(m)
        BY <3>1, <3>6, WrittenShape
      <4>2. entry'[l].network = m.network /\ entry'[l].scheme = m.scheme
        BY <4>1 DEF Offer
      <4>3. Asked(namer[l])'
        BY <3>1, <3>2, <4>1, OfferedStep DEF Asked
      <4> QED
        BY <3>1, <3>2, <3>3, <3>4, <4>1, <4>2, <4>3 DEF RowProven, Credited
    <3> QED
      BY <3>5, <3>6
  <2> QED
    BY <2>2, <2>3, EntryStep
<1> QED
  BY <1>1, OfferedStep, ConfirmedStep DEF ProofInv

(* No listing without a settlement that credited its payee.  Where a       *)
(* message said http, the site it named really accepted its terms, under   *)
(* its network and scheme and for this payee; a row written by one such    *)
(* message shows an offer as it was made, one refreshed by a second shows  *)
(* the terms of that and the network and scheme of the first.              *)
THEOREM ListingsProven == CatalogSpec => []ListedIsProven
<1>1. Init => ProofInv
  BY DEF Init, ProofInv, Running, Idle
<1>2. ProofInv => ListedIsProven
  <2> SUFFICES ASSUME ProofInv, NEW l \in Listings, entry[l] # None
               PROVE  LET e == entry[l]
                          last == writer[l]
                          named == namer[l]
                      IN  /\ CreditedTo[e.tx] = e.payTo
                          /\ last.http =>
                                <<e.site, [Offer(last) EXCEPT !.payTo = e.payTo,
                                                              !.terms = e.terms]>>
                                   \in offered
                          /\ named.http =>
                                <<named.site, [Offer(e) EXCEPT !.terms = named.terms]>>
                                   \in offered
                          /\ last = named /\ last.http =>
                                <<e.site, Offer(e)>> \in offered
    BY DEF ListedIsProven
  <2> DEFINE e == entry[l]
             last == writer[l]
             named == namer[l]
  <2>1. RowProven(l)
    BY DEF ProofInv
  <2>2. [Offer(last) EXCEPT !.payTo = e.payTo, !.terms = e.terms] = Offer(last)
    <3>1. Offer(last) \in Offers
      BY <2>1, MessageShape DEF RowProven
    <3>2. Offer(last).payTo = e.payTo /\ Offer(last).terms = e.terms
      BY <2>1 DEF RowProven, Offer
    <3> HIDE DEF last, e
    <3> QED
      BY <3>1, <3>2 DEF Offers
  <2>3. [Offer(e) EXCEPT !.terms = named.terms] = Offer(named)
    BY <2>1 DEF RowProven, Offer
  <2>4. last = named => Offer(e) = Offer(last)
    BY <2>1 DEF RowProven, Offer
  <2> QED
    BY <2>1, <2>2, <2>3, <2>4 DEF RowProven, Asked
<1> QED
  BY <1>1, <1>2, TypeInit, TypeStep, ProofStep, PTL DEF CatalogSpec

----------------------------------------------------------------------------
(* The order of deltas.                                                    *)

LEMMA NewerOrder ==
    /\ \A m \in Messages : ~Newer(m, m)
    /\ \A a, b, c \in Messages : Newer(a, b) /\ Newer(b, c) => Newer(a, c)
BY MessageShape DEF Newer

(* A transaction that holds the row of its key brings a newer delta than   *)
(* the row, which nobody else can write meanwhile.                         *)
HolderIsNewer ==
    \A w \in Workers :
        Running(w) /\ job[w].msg.type # "ingest" /\ ~job[w].blind =>
            /\ row[Key(job[w].msg)] # None
            /\ Newer(job[w].msg, row[Key(job[w].msg)])

OrderInv == NewestWins /\ HolderIsNewer

LEMMA RecordKeepsOrder ==
    ASSUME TypeOK, OrderInv, NEW w \in Workers, Running(w),
           job[w].msg.type # "ingest", RecordDelta(w)
    PROVE  OrderInv'
<1> DEFINE m == job[w].msg
           k == Key(m)
<1>1. m \in Messages /\ m # None /\ k \in Keys
  BY JobShape, MessageShape DEF Open
<1>2. /\ row' = [row EXCEPT ![k] = m]
      /\ accepted' = accepted \cup {m}
      /\ job' = [job EXCEPT ![w] = Idle]
      /\ overtaken \subseteq overtaken'
      /\ job[w].blind /\ row[k] # None => k \in overtaken'
  BY DEF RecordDelta
<1>3. ASSUME NEW d \in accepted', Key(d) \notin overtaken'
      PROVE  row'[Key(d)] # None /\ ~Newer(d, row'[Key(d)])
  <2>1. d \in Messages /\ Key(d) \in Keys
    BY <1>1, <1>2, <1>3, MessageShape DEF TypeOK
  <2>2. CASE Key(d) # k
    <3>1. d \in accepted /\ Key(d) \notin overtaken /\ row'[Key(d)] = row[Key(d)]
      BY <1>2, <1>3, <2>1, <2>2 DEF TypeOK
    <3> QED
      BY <3>1 DEF OrderInv, NewestWins
  <2>3. CASE d = m
    BY <1>1, <1>2, <2>3, NewerOrder DEF TypeOK
  <2>4. CASE Key(d) = k /\ d \in accepted
    <3>1. row[k] # None /\ ~Newer(d, row[k]) /\ row[k] \in Messages
      BY <1>1, <1>2, <1>3, <2>4 DEF OrderInv, NewestWins, TypeOK
    <3>2. ~job[w].blind
      BY <1>2, <1>3, <2>4, <3>1
    <3>3. Newer(m, row[k])
      BY <3>2 DEF OrderInv, HolderIsNewer
    <3>4. ~Newer(d, m)
      BY <1>1, <2>1, <3>1, <3>3, NewerOrder
    <3> QED
      BY <1>1, <1>2, <2>4, <3>4 DEF TypeOK
  <2> QED
    BY <1>2, <2>2, <2>3, <2>4
<1>4. ASSUME NEW v \in Workers, Running(v)', job'[v].msg.type # "ingest", ~job'[v].blind
      PROVE  row'[Key(job'[v].msg)] # None /\ Newer(job'[v].msg, row'[Key(job'[v].msg)])
  <2>1. v # w /\ job'[v] = job[v]
    BY <1>2, <1>4 DEF TypeOK, Running, Idle
  <2>2. Running(v)
    BY <1>4, <2>1 DEF Running
  <2>3. Key(job[v].msg) # k
    <3>1. Holders(k) \subseteq {w}
      BY DEF RecordDelta
    <3> QED
      BY <1>4, <2>1, <2>2, <3>1 DEF Holders
  <2>4. row'[Key(job[v].msg)] = row[Key(job[v].msg)]
    BY <1>2, <2>2, <2>3, JobShape, MessageShape DEF TypeOK, Open
  <2> QED
    BY <1>4, <2>1, <2>2, <2>4 DEF OrderInv, HolderIsNewer
<1> QED
  BY <1>3, <1>4 DEF OrderInv, NewestWins, HolderIsNewer

LEMMA OrderStep == TypeOK /\ OrderInv /\ [Next]_vars => OrderInv'
<1> SUFFICES ASSUME TypeOK, OrderInv, [Next]_vars PROVE OrderInv'
  OBVIOUS
<1>1. ASSUME UNCHANGED <<row, accepted, overtaken>>,
             \A v \in Workers : \/ ~Running(v)'
                                \/ /\ Running(v) /\ job'[v].msg = job[v].msg
                                   /\ job'[v].blind = job[v].blind
                                \/ job'[v].msg.type = "ingest"
      PROVE  OrderInv'
  BY <1>1 DEF OrderInv, NewestWins, HolderIsNewer, Running
<1>2. ASSUME UNCHANGED <<row, accepted, overtaken, job>> PROVE OrderInv'
  BY <1>1, <1>2 DEF Running
<1>3. ASSUME NEW w \in Workers, NEW m \in Messages, Ingest(w, m) PROVE OrderInv'
  <2>1. /\ UNCHANGED <<row, accepted, overtaken>>
        /\ job' = [job EXCEPT ![w] = [at |-> "terms", msg |-> m, blind |-> FALSE]]
        /\ m.type = "ingest"
    BY <1>3 DEF Ingest, Start, history
  <2> QED
    BY <1>1, <2>1 DEF TypeOK, Running
<1>4. ASSUME NEW w \in Workers, NEW m \in Messages, BeginDelta(w, m) PROVE OrderInv'
  <2>1. /\ UNCHANGED <<row, accepted, overtaken>>
        /\ job' = [job EXCEPT ![w] = [at |-> FirstStage(m), msg |-> m,
                                       blind |-> row[Key(m)] = None]]
        /\ ~Superseded(m)
    BY <1>4 DEF BeginDelta, Start, history
  <2>2. NewestWins'
    BY <2>1 DEF OrderInv, NewestWins
  <2>3. ASSUME NEW v \in Workers, Running(v)', job'[v].msg.type # "ingest", ~job'[v].blind
        PROVE  row'[Key(job'[v].msg)] # None /\ Newer(job'[v].msg, row'[Key(job'[v].msg)])
    <3>1. CASE v = w
      <4>1. job'[v].msg = m /\ row[Key(m)] # None
        BY <2>1, <2>3, <3>1 DEF TypeOK
      <4> QED
        BY <2>1, <4>1 DEF Superseded
    <3>2. CASE v # w
      BY <2>1, <2>3, <3>2 DEF OrderInv, HolderIsNewer, Running, TypeOK
    <3> QED
      BY <3>1, <3>2
  <2> QED
    BY <2>2, <2>3 DEF OrderInv, HolderIsNewer
<1>5. ASSUME NEW w \in Workers, NEW m \in Messages, IgnoreDelta(w, m) PROVE OrderInv'
  <2>1. /\ accepted' = accepted \cup {m} /\ UNCHANGED <<row, overtaken, job>>
        /\ row[Key(m)] # None /\ ~Newer(m, row[Key(m)])
    BY <1>5 DEF IgnoreDelta, Superseded
  <2> QED
    BY <2>1 DEF OrderInv, NewestWins, HolderIsNewer, Running
<1>6. ASSUME NEW w \in Workers, NEW s, Running(w), At(w, s) PROVE OrderInv'
  <2>1. /\ UNCHANGED <<row, accepted, overtaken>>
        /\ job' = [job EXCEPT ![w].at = s] /\ job[w] \in Open
    BY <1>6, JobShape DEF At, history
  <2>2. job'[w].msg = job[w].msg /\ job'[w].blind = job[w].blind
    BY <2>1 DEF TypeOK, Open
  <2>3. \A v \in Workers : v # w => job'[v] = job[v]
    BY <2>1 DEF TypeOK
  <2> QED
    BY <1>1, <1>6, <2>1, <2>2, <2>3 DEF Running
<1>7. ASSUME NEW w \in Workers, ConfirmTerms(w) \/ ConfirmSettlement(w) \/ ReadEntry(w)
      PROVE  OrderInv'
  BY <1>6, <1>7, JobShape DEF ConfirmTerms, ConfirmSettlement, ReadEntry
<1>8. ASSUME NEW w \in Workers, Reject(w) \/ StoreListing(w) PROVE OrderInv'
  <2>1. UNCHANGED <<row, accepted, overtaken>> /\ job' = [job EXCEPT ![w] = Idle]
    BY <1>8 DEF Reject, Rollback, StoreListing, history
  <2> QED
    BY <1>1, <2>1 DEF TypeOK, Running, Idle
<1>9. ASSUME NEW w \in Workers, RewriteEntry(w) \/ StoreDelta(w) \/ Revoke(w)
      PROVE  OrderInv'
  BY <1>9, JobShape, RecordKeepsOrder DEF RewriteEntry, StoreDelta, Revoke
<1>10. ASSUME \/ \E u \in Sites, challenge \in Challenges : ChangeOffers(u, challenge)
              \/ \E l \in Listings : GrowStale(l)
       PROVE  OrderInv'
  BY <1>2, <1>10 DEF ChangeOffers, GrowStale, history
<1>11. CASE Sweeping
  BY <1>2, <1>11 DEF Sweeping, StartSweep, Revalidate, MarkRow, history
<1>12. CASE Crash
  BY <1>1, <1>12 DEF Crash, history, Running, Idle
<1>13. CASE UNCHANGED vars
  BY <1>2, <1>13 DEF vars
<1> QED
  BY <1>3, <1>4, <1>5, <1>7, <1>8, <1>9, <1>10, <1>11, <1>12, <1>13 DEF Next, Work

(* However many deltas of one key arrive at once and in whatever order,    *)
(* the row lock makes the newest of those answered for stay, for every key *)
(* whose first row was not written by racing transactions.                 *)
THEOREM NewestStays == CatalogSpec => []NewestWins
<1>1. Init => OrderInv
  BY DEF Init, OrderInv, NewestWins, HolderIsNewer, Running, Idle
<1>2. OrderInv => NewestWins
  BY DEF OrderInv
<1> QED
  BY <1>1, <1>2, TypeInit, TypeStep, OrderStep, PTL DEF CatalogSpec

-----------------------------------------------------------------------------
(* Counting up to a bound, without a predicate for a parameter: if some    *)
(* number were never reached, the numbers that are not would all have a    *)
(* predecessor among them, which a finite set has no room for.             *)
LEMMA UpTo ==
    ASSUME NEW S, 0 \in S, NEW N \in Nat, \A n \in 0..N-1 : n \in S => n + 1 \in S
    PROVE  0..N \subseteq S
<1> DEFINE B == {n \in 0..N : ~ (0..n \subseteq S)}
           C == B \ {N}
           f == [b \in B |-> b - 1]
<1>1. SUFFICES ASSUME N \in B PROVE FALSE
  OBVIOUS
<1>2. IsFiniteSet(B) /\ IsFiniteSet(C)
  <2>1. IsFiniteSet(0..N)
    BY FS_Interval
  <2> QED
    BY <2>1, FS_Subset
<1>3. ASSUME NEW b \in B
      PROVE  b - 1 \in C
  <2>1. b \in 0..N /\ b # 0
    OBVIOUS
  <2>2. b - 1 \in 0..N-1
    BY <2>1
  <2>3. ~ (0..(b - 1) \subseteq S)
    <3> SUFFICES ASSUME 0..(b - 1) \subseteq S PROVE 0..b \subseteq S
      OBVIOUS
    <3>1. b - 1 \in S
      BY <2>2
    <3>2. (b - 1) + 1 \in S
      BY <2>2, <3>1
    <3>3. b \in S
      BY <2>1, <3>2
    <3> QED
      BY <2>1, <3>3
  <2> QED
    BY <2>2, <2>3
<1>4. f \in Injection(B, C)
  <2>1. f \in [B -> C]
    BY <1>3
  <2>2. \A a, b \in B : f[a] = f[b] => a = b
    OBVIOUS
  <2> HIDE DEF f
  <2> QED
    BY <2>1, <2>2 DEF Injection, IsInjective
<1> HIDE DEF f, B
<1>5. Cardinality(B) <= Cardinality(C)
  BY <1>2, <1>4, FS_Injection
<1>6. Cardinality(C) = Cardinality(B) - 1 /\ Cardinality(B) \in Nat
  BY <1>1, <1>2, FS_RemoveElement, FS_CardinalityType
<1> QED
  BY <1>5, <1>6

(* A recursion over 0..N has a solution.                                   *)
Solves(f, T, a, N, step) ==
    /\ f \in [0..N -> T]
    /\ f[0] = a /\ \A i \in 1..N : f[i] = step[<<i, f[i - 1]>>]

LEMMA Iterates ==
    ASSUME NEW T, NEW a \in T, NEW N \in Nat, NEW step \in [(1..N) \X T -> T]
    PROVE  \E f : Solves(f, T, a, N, step)
<1> DEFINE Is(f, n) == /\ f[0] = a
                       /\ \A i \in 1..n : f[i] = step[<<i, f[i - 1]>>]
           S == {n \in 0..N : \E f \in [0..n -> T] : Is(f, n)}
<1>1. 0 \in S
  <2> DEFINE g == [i \in 0..0 |-> a]
  <2>1. g \in [0..0 -> T] /\ g[0] = a
    OBVIOUS
  <2> HIDE DEF g
  <2>2. Is(g, 0)
    BY <2>1
  <2> QED
    BY <2>1, <2>2
<1>2. ASSUME NEW n \in 0..N-1, n \in S
      PROVE  n + 1 \in S
  <2>1. PICK f \in [0..n -> T] : Is(f, n)
    BY <1>2
  <2> DEFINE next == step[<<n + 1, f[n]>>]
             g == [i \in 0..n+1 |-> IF i = n + 1 THEN next ELSE f[i]]
  <2>2. f[n] \in T /\ next \in T
    OBVIOUS
  <2> HIDE DEF next
  <2>3. g \in [0..n+1 -> T]
    BY <2>2
  <2>4. \A i \in 0..n : g[i] = f[i]
    OBVIOUS
  <2>5. g[n + 1] = next
    OBVIOUS
  <2> HIDE DEF g
  <2>6. ASSUME NEW i \in 1..n+1
        PROVE  g[i] = step[<<i, g[i - 1]>>]
    <3>1. CASE i = n + 1
      <4>1. i - 1 = n /\ n \in 0..n
        BY <3>1
      <4> QED
        BY <2>4, <2>5, <3>1, <4>1 DEF next
    <3>2. CASE i # n + 1
      <4>1. i \in 1..n /\ i \in 0..n /\ i - 1 \in 0..n
        BY <3>2
      <4> QED
        BY <2>1, <2>4, <4>1
    <3> QED
      BY <3>1, <3>2
  <2>7. g[0] = a
    BY <2>1, <2>4
  <2>8. n + 1 \in 0..N
    OBVIOUS
  <2> QED
    BY <2>3, <2>6, <2>7, <2>8
<1> HIDE DEF S
<1>3. 0..N \subseteq S
  BY <1>1, <1>2, UpTo
<1>4. N \in S
  BY <1>3
<1> QED
  BY <1>4 DEF S, Solves

-----------------------------------------------------------------------------
(* What the checks of a submission establish.                              *)

(* The terms that are left agree in every field.                           *)
LEMMA AgreeingAgrees ==
    ASSUME NEW accepts, NEW offer, NEW term \in Agreeing(accepts, offer)
    PROVE  /\ term \in accepts
           /\ \A i \in 1..Len(Fields) : term[Fields[i]] = offer[Fields[i]]
<1> DEFINE N == Len(Fields)
           left[i \in 0..N] ==
               IF i = 0 THEN accepts
               ELSE {t \in left[i - 1] : t[Fields[i]] = offer[Fields[i]]}
<1>1. N = 5
  BY DEF Fields
<1>2. N \in Nat
  BY <1>1
<1>3. Agreeing(accepts, offer) = left[N]
  BY DEF Agreeing
<1> HIDE DEF N
<1>4. left = [i \in 0..N |->
                IF i = 0 THEN accepts
                ELSE {t \in left[i - 1] : t[Fields[i]] = offer[Fields[i]]}]
  <2> DEFINE T == SUBSET accepts
             step == [p \in (1..N) \X T |->
                         {t \in p[2] : t[Fields[p[1]]] = offer[Fields[p[1]]]}]
  <2>1. step \in [(1..N) \X T -> T]
    OBVIOUS
  <2>2. \A i \in 1..N : \A t \in T :
            step[<<i, t>>] = {u \in t : u[Fields[i]] = offer[Fields[i]]}
    OBVIOUS
  <2>3. accepts \in T
    OBVIOUS
  <2> HIDE DEF step, T
  <2>4. PICK f : Solves(f, T, accepts, N, step)
    BY <1>2, <2>1, <2>3, Iterates
  <2> USE DEF Solves
  <2>5. ASSUME NEW i \in 1..N
        PROVE  f[i] = {t \in f[i - 1] : t[Fields[i]] = offer[Fields[i]]}
    <3>1. f[i - 1] \in T
      BY <1>2, <2>4
    <3> QED
      BY <2>2, <2>4, <3>1
  <2>6. f = [i \in 0..N |->
                IF i = 0 THEN accepts
                ELSE {t \in f[i - 1] : t[Fields[i]] = offer[Fields[i]]}]
    BY <1>2, <2>4, <2>5
  <2> QED
    BY <2>6
<1> HIDE DEF left
<1> DEFINE S == {n \in 0..N : /\ left[n] \subseteq accepts
                              /\ \A t \in left[n] : \A i \in 1..n :
                                     t[Fields[i]] = offer[Fields[i]]}
<1>5. 0 \in S
  BY <1>2, <1>4
<1>6. ASSUME NEW n \in 0..N-1, n \in S
      PROVE  n + 1 \in S
  <2>1. /\ n + 1 \in 0..N /\ n + 1 # 0 /\ (n + 1) - 1 = n
        /\ \A i \in 1..n+1 : i = n + 1 \/ i \in 1..n
    BY <1>2
  <2>2. left[n + 1] = {t \in left[n] : t[Fields[n + 1]] = offer[Fields[n + 1]]}
    BY <1>4, <2>1
  <2> QED
    BY <1>6, <2>1, <2>2
<1> HIDE DEF S
<1>7. N \in S
  BY <1>2, <1>5, <1>6, UpTo
<1> QED
  BY <1>3, <1>7 DEF S, N

(* Which nodes fit in so many levels.                                      *)
LEMMA FittingStep ==
    /\ Fitting[0] = {}
    /\ \A k \in 1..DeepestSpec + 1 :
        Fitting[k] = {n \in DOMAIN Children \ External :
                         Children[n] \subseteq Fitting[k - 1]}
<1> DEFINE N == DeepestSpec + 1
           T == SUBSET DOMAIN Children
           step == [p \in (1..N) \X T |->
                       {n \in DOMAIN Children \ External : Children[n] \subseteq p[2]}]
<1>1. N \in Nat
  BY ScreenAssumption
<1>2. step \in [(1..N) \X T -> T]
  OBVIOUS
<1>3. \A i \in 1..N : \A t \in T :
          step[<<i, t>>] = {n \in DOMAIN Children \ External : Children[n] \subseteq t}
  OBVIOUS
<1>4. {} \in T
  OBVIOUS
<1> HIDE DEF step, T, N
<1>5. PICK f : Solves(f, T, {}, N, step)
  BY <1>1, <1>2, <1>4, Iterates
<1> USE DEF Solves
<1>6. ASSUME NEW i \in 1..N
      PROVE  f[i] = {n \in DOMAIN Children \ External : Children[n] \subseteq f[i - 1]}
  <2>1. f[i - 1] \in T
    BY <1>1, <1>5
  <2> QED
    BY <1>3, <1>5, <2>1
<1>7. f = [i \in 0..N |->
              IF i = 0 THEN {}
              ELSE {n \in DOMAIN Children \ External : Children[n] \subseteq f[i - 1]}]
  BY <1>1, <1>5, <1>6
<1>8. Fitting = [i \in 0..N |->
              IF i = 0 THEN {}
              ELSE {n \in DOMAIN Children \ External : Children[n] \subseteq Fitting[i - 1]}]
  BY <1>7 DEF Fitting, N
<1>9. Fitting[0] = {}
  BY <1>1, <1>8
<1>10. ASSUME NEW k \in 1..N
       PROVE  Fitting[k] = {n \in DOMAIN Children \ External :
                               Children[n] \subseteq Fitting[k - 1]}
  <2>1. k \in 0..N /\ k # 0
    BY <1>1
  <2> QED
    BY <1>8, <2>1
<1> QED
  BY <1>9, <1>10 DEF N

(* A specification that fits has nothing external below it: what is below  *)
(* a fitting node fits in one level less, and in none nothing fits.        *)
LEMMA SpecOkStaysLocal ==
    ASSUME NEW spec \in DOMAIN Children, SpecOk(spec)
    PROVE  Under(spec) \cap External = {}
<1> DEFINE N == Cardinality(DOMAIN Children)
           level[i \in 0..N] ==
               IF i = 0 THEN {spec}
               ELSE level[i - 1] \cup UNION {Children[m] : m \in level[i - 1]}
           T == SUBSET DOMAIN Children
           step == [p \in (1..N) \X T |-> p[2] \cup UNION {Children[m] : m \in p[2]}]
           fits == {n \in DOMAIN Children : \E k \in 1..DeepestSpec + 1 : n \in Fitting[k]}
<1>1. N \in Nat
  BY ScreenAssumption, FS_CardinalityType
<1>2. Under(spec) = level[N]
  BY DEF Under
<1> HIDE DEF N
<1>3. \A i \in 1..N : \A t \in T : step[<<i, t>>] = t \cup UNION {Children[m] : m \in t}
  OBVIOUS
<1>4. step \in [(1..N) \X T -> T]
  <2>1. \A t \in T : t \cup UNION {Children[m] : m \in t} \in T
    BY ScreenAssumption
  <2> QED
    BY <2>1
<1>5. {spec} \in T
  OBVIOUS
<1> HIDE DEF step, T
<1>6. PICK f : Solves(f, T, {spec}, N, step)
  BY <1>1, <1>4, <1>5, Iterates
<1> USE DEF Solves
<1>7. ASSUME NEW i \in 1..N
      PROVE  f[i] = f[i - 1] \cup UNION {Children[m] : m \in f[i - 1]}
  <2>1. f[i - 1] \in T
    BY <1>1, <1>6
  <2> QED
    BY <1>3, <1>6, <2>1
<1>8. f = [i \in 0..N |->
              IF i = 0 THEN {spec}
              ELSE f[i - 1] \cup UNION {Children[m] : m \in f[i - 1]}]
  BY <1>1, <1>6, <1>7
<1>9. level = [i \in 0..N |->
              IF i = 0 THEN {spec}
              ELSE level[i - 1] \cup UNION {Children[m] : m \in level[i - 1]}]
  BY <1>8
<1> HIDE DEF level
<1>10. ASSUME NEW m \in fits
       PROVE  m \notin External /\ Children[m] \subseteq fits
  <2>1. PICK k \in 1..DeepestSpec + 1 : m \in Fitting[k]
    OBVIOUS
  <2>2. m \in DOMAIN Children \ External /\ Children[m] \subseteq Fitting[k - 1]
    BY <2>1, FittingStep
  <2>3. k - 1 = 0 \/ k - 1 \in 1..DeepestSpec + 1
    BY ScreenAssumption
  <2>4. Children[m] \subseteq DOMAIN Children
    BY <2>2, ScreenAssumption
  <2> QED
    BY <2>2, <2>3, <2>4, FittingStep
<1>11. spec \in fits
  <2>1. DeepestSpec + 1 \in 1..DeepestSpec + 1
    BY ScreenAssumption
  <2> QED
    BY <2>1 DEF SpecOk
<1> HIDE DEF fits
<1> DEFINE S == {n \in 0..N : level[n] \subseteq fits}
<1>12. 0 \in S
  BY <1>1, <1>9, <1>11
<1>13. ASSUME NEW n \in 0..N-1, n \in S
       PROVE  n + 1 \in S
  <2>1. n + 1 \in 0..N /\ n + 1 # 0 /\ (n + 1) - 1 = n
    BY <1>1
  <2>2. level[n + 1] = level[n] \cup UNION {Children[m] : m \in level[n]}
    BY <1>9, <2>1
  <2>3. level[n] \subseteq fits
    BY <1>13
  <2>4. \A m \in level[n] : Children[m] \subseteq fits
    BY <1>10, <2>3
  <2> QED
    BY <2>1, <2>2, <2>3, <2>4
<1> HIDE DEF S
<1>14. N \in S
  <2>1. 0..N \subseteq S
    BY <1>1, <1>12, <1>13, UpTo
  <2> QED
    BY <1>1, <2>1
<1>15. level[N] \subseteq fits
  BY <1>14 DEF S
<1> QED
  BY <1>2, <1>10, <1>15

-----------------------------------------------------------------------------
(* The checks of a submission, one after another.                          *)

(* What remains of a check that was passed.                                *)
Shown(f, replies, check) ==
    /\ check = "metadata" => SpecsOk(f)
    /\ check = "challenge" => \E reply \in replies : ChallengeOk(f, reply)
    /\ check = "event" => EventOk(f)

(* What the submission under way has passed still holds of it, and held of *)
(* every one that was admitted: none of it depends on the site or the      *)
(* clock of a later moment.                                                *)
UnderWay ==
    form # Nothing =>
        /\ passed <= Len(Checks(form))
        /\ \A i \in 1..passed : Shown(form, fetched, Checks(form)[i])

AdmittedShown ==
    \A a \in admitted :
        /\ a.form \in Forms
        /\ \A i \in 1..Len(Checks(a.form)) : Shown(a.form, a.seen, Checks(a.form)[i])

ScreenInv ==
    /\ form \in Forms \cup {Nothing} /\ passed \in Nat
    /\ UnderWay
    /\ AdmittedShown

LEMMA ChecksShape ==
    ASSUME NEW f
    PROVE  /\ Len(Checks(f)) \in Nat
           /\ f.kind = "request" => Len(Checks(f)) >= 1 /\ Checks(f)[1] = "metadata"
<1> DEFINE Names == {"metadata", "delta", "target", "challenge", "transaction",
                     "effects", "event"}
<1>1. SettlementChecks \in Seq(Names) /\ LiveChecks(f) \in Seq(Names)
  <2>1. <<"transaction", "effects", "event">> \in Seq(Names)
    OBVIOUS
  <2>2. <<>> \in Seq(Names) /\ <<"target", "challenge">> \in Seq(Names)
    OBVIOUS
  <2>3. LiveChecks(f) = <<>> \/ LiveChecks(f) = <<"target", "challenge">>
    BY DEF LiveChecks
  <2> QED
    BY <2>1, <2>2, <2>3 DEF SettlementChecks
<1>2. <<"metadata">> \in Seq(Names) /\ <<"delta">> \in Seq(Names)
  OBVIOUS
<1> HIDE DEF Names
<1>3. Len(<<"metadata">>) = 1 /\ <<"metadata">>[1] = "metadata"
  OBVIOUS
<1> DEFINE first == <<"metadata">>
<1> HIDE DEF first
<1>4. /\ first \in Seq(Names) /\ Len(first) = 1 /\ first[1] = "metadata"
  BY <1>2, <1>3 DEF first
<1>5. /\ Len(first \o LiveChecks(f) \o SettlementChecks) >= 1
      /\ (first \o LiveChecks(f) \o SettlementChecks)[1] = "metadata"
  <2>1. ASSUME NEW s \in Seq(Names), NEW t \in Seq(Names), Len(s) >= 1, s[1] = "metadata"
        PROVE  /\ s \o t \in Seq(Names) /\ Len(s \o t) >= 1
               /\ (s \o t)[1] = "metadata"
    <3>1. Len(s) \in Nat /\ Len(t) \in Nat /\ Len(s \o t) = Len(s) + Len(t)
      OBVIOUS
    <3>2. 1 \in 1..Len(s)
      BY <2>1, <3>1
    <3>3. (s \o t)[1] = s[1]
      BY <3>1, <3>2
    <3> QED
      BY <2>1, <3>1, <3>3
  <2>2. Len(first) >= 1
    BY <1>4
  <2>3. /\ first \o LiveChecks(f) \in Seq(Names) /\ Len(first \o LiveChecks(f)) >= 1
        /\ (first \o LiveChecks(f))[1] = "metadata"
    BY <1>1, <1>4, <2>1, <2>2
  <2> QED
    BY <1>1, <2>1, <2>3
<1>6. Checks(f) \in Seq(Names)
  BY <1>1, <1>2 DEF Checks
<1> QED
  BY <1>5, <1>6 DEF Checks, first

LEMMA InitScreen == ScreenInit => ScreenInv
BY DEF ScreenInit, ScreenInv, UnderWay, AdmittedShown

(* One check passed.                                                       *)
LEMMA PassKeeps ==
    ASSUME ScreenInv, NEW check, Facing(check), Pass, Shown(form, fetched', check),
           fetched' = fetched \/ \E reply \in fetched' : ChallengeOk(form, reply)
    PROVE  ScreenInv'
<1> USE DEF ScreenInv
<1>1. /\ form # Nothing /\ passed < Len(Checks(form)) /\ Checks(form)[passed + 1] = check
      /\ passed' = passed + 1 /\ UNCHANGED <<form, admitted>>
  BY DEF Facing, Pass
<1>2. Len(Checks(form)) \in Nat /\ passed' <= Len(Checks(form))
  BY <1>1, ChecksShape
<1>3. ASSUME NEW i \in 1..passed + 1
      PROVE  Shown(form, fetched', Checks(form)[i])
  <2>1. CASE i = passed + 1
    BY <1>1, <2>1
  <2>2. CASE i # passed + 1
    <3>1. i \in 1..passed
      BY <2>2
    <3>2. Shown(form, fetched, Checks(form)[i])
      BY <1>1, <3>1 DEF UnderWay
    <3> QED
      BY <3>2 DEF Shown
  <2> QED
    BY <2>1, <2>2
<1>4. UnderWay'
  <2>1. \A i \in 1..passed' : Shown(form, fetched', Checks(form)[i])
    BY <1>1, <1>3
  <2> QED
    BY <1>1, <1>2, <2>1 DEF UnderWay, Shown
<1>5. AdmittedShown'
  BY <1>1 DEF AdmittedShown
<1> QED
  BY <1>1, <1>4, <1>5

LEMMA TurnDownKeeps ==
    ASSUME ScreenInv, TurnDown
    PROVE  ScreenInv'
BY DEF TurnDown, ScreenInv, UnderWay, AdmittedShown

LEMMA DecideKeeps ==
    ASSUME ScreenInv, NEW check, NEW ok, Facing(check), Decide(ok),
           ok => Shown(form, fetched, check)
    PROVE  ScreenInv'
<1>1. CASE ok
  <2>1. Pass /\ fetched' = fetched
    BY <1>1 DEF Decide
  <2>2. Shown(form, fetched', check)
    BY <1>1, <2>1
  <2> QED
    BY <2>1, <2>2, PassKeeps
<1>2. CASE ~ok
  BY <1>2, TurnDownKeeps DEF Decide
<1> QED
  BY <1>1, <1>2

LEMMA NextScreen == ScreenInv /\ [ScreenNext]_screenVars => ScreenInv'
<1> SUFFICES ASSUME ScreenInv, [ScreenNext]_screenVars PROVE ScreenInv'
  OBVIOUS
<1>1. ASSUME NEW f \in Forms, Submit(f)
      PROVE  ScreenInv'
  <2>1. form' = f /\ passed' = 0 /\ admitted' = admitted
    BY <1>1 DEF Submit
  <2>2. Len(Checks(f)) \in Nat
    BY ChecksShape
  <2> QED
    BY <2>1, <2>2 DEF ScreenInv, UnderWay, AdmittedShown
<1>2. CASE CheckMetadata
  BY <1>2, DecideKeeps DEF CheckMetadata, MetadataOk, Shown
<1>3. CASE CheckDelta
  BY <1>3, DecideKeeps DEF CheckDelta, Shown
<1>4. ASSUME NEW resolved \in Addresses, CheckTarget(resolved)
      PROVE  ScreenInv'
  BY <1>4, DecideKeeps DEF CheckTarget, Shown
<1>5. CASE CheckChallenge
  <2>1. Facing("challenge")
    BY <1>5 DEF CheckChallenge
  <2>2. CASE ChallengeOk(form, site)
    <3>1. Pass /\ fetched' = {site}
      BY <1>5, <2>2 DEF CheckChallenge
    <3>2. \E reply \in fetched' : ChallengeOk(form, reply)
      BY <2>2, <3>1
    <3>3. Shown(form, fetched', "challenge")
      BY <3>2 DEF Shown
    <3> QED
      BY <2>1, <3>1, <3>2, <3>3, PassKeeps
  <2>3. CASE ~ChallengeOk(form, site)
    BY <1>5, <2>3, TurnDownKeeps DEF CheckChallenge
  <2> QED
    BY <2>2, <2>3
<1>6. CASE CheckTransaction
  BY <1>6, DecideKeeps DEF CheckTransaction, Shown
<1>7. CASE CheckEffects
  BY <1>7, DecideKeeps DEF CheckEffects, Shown
<1>8. CASE CheckEvent
  BY <1>8, DecideKeeps DEF CheckEvent, Shown
<1>9. CASE Unreachable
  BY <1>9, TurnDownKeeps DEF Unreachable
<1>10. CASE Admit
  <2>1. /\ form # Nothing /\ passed = Len(Checks(form))
        /\ admitted' = admitted \cup {[form |-> form, seen |-> fetched]}
        /\ form' = Nothing /\ passed' = 0
    BY <1>10 DEF Admit
  <2>2. \A i \in 1..Len(Checks(form)) : Shown(form, fetched, Checks(form)[i])
    BY <2>1 DEF ScreenInv, UnderWay
  <2>3. AdmittedShown'
    <3> SUFFICES ASSUME NEW a \in admitted'
                 PROVE  /\ a.form \in Forms
                        /\ \A i \in 1..Len(Checks(a.form)) :
                               Shown(a.form, a.seen, Checks(a.form)[i])
      BY DEF AdmittedShown, Shown
    <3>1. CASE a \in admitted
      BY <3>1 DEF ScreenInv, AdmittedShown
    <3>2. CASE a = [form |-> form, seen |-> fetched]
      <4>1. a.form = form /\ a.seen = fetched
        BY <3>2
      <4> QED
        BY <2>1, <2>2, <4>1 DEF ScreenInv
    <3> QED
      BY <2>1, <3>1, <3>2
  <2> QED
    BY <2>1, <2>3 DEF ScreenInv, UnderWay
<1>11. CASE \/ PassTime \/ UNCHANGED screenVars
            \/ \E reply \in SiteAnswers : ChangeSite(reply)
  <2>1. UNCHANGED <<form, passed, fetched, admitted>>
    BY <1>11 DEF PassTime, ChangeSite, screenVars
  <2> QED
    BY <2>1 DEF ScreenInv, UnderWay, AdmittedShown, Shown
<1> QED
  BY <1>1, <1>2, <1>3, <1>4, <1>5, <1>6, <1>7, <1>8, <1>9, <1>10, <1>11 DEF ScreenNext

THEOREM ScreenInvariance == ScreenSpec => []ScreenInv
BY InitScreen, NextScreen, PTL DEF ScreenSpec

(* Whatever the site shows and the clock says by the time of the write, an *)
(* admitted submission had one challenged offer agreeing in every field,   *)
(* an event of exactly this payment where it names one, and specifications *)
(* that stay local at any depth.                                           *)
THEOREM AdmittedProven == ScreenSpec => []AdmittedIsProven
<1>1. ScreenInv => AdmittedIsProven
  <2> SUFFICES ASSUME ScreenInv PROVE AdmittedIsProven
    OBVIOUS
  <2>1. ASSUME NEW a \in admitted, NEW check, Passed(a.form, check)
        PROVE  Shown(a.form, a.seen, check)
    BY <2>1 DEF ScreenInv, AdmittedShown, Passed
  <2>2. OneOfferAgreed
    <3> SUFFICES ASSUME NEW a \in admitted, Passed(a.form, "challenge")
                 PROVE  \E reply \in a.seen : \E term \in reply.accepts :
                            \A i \in 1..Len(Fields) :
                                term[Fields[i]] = a.form.offer[Fields[i]]
      BY DEF OneOfferAgreed
    <3>1. PICK reply \in a.seen : ChallengeOk(a.form, reply)
      BY <2>1 DEF Shown
    <3>2. PICK term : term \in Agreeing(reply.accepts, a.form.offer)
      BY <3>1 DEF ChallengeOk
    <3> QED
      BY <3>2, AgreeingAgrees
  <2>3. EventIsOfThisPayment
    <3> SUFFICES ASSUME NEW a \in admitted, Passed(a.form, "event"),
                        a.form.proof # Nothing
                 PROVE  \E i \in 1..Len(Ledger[a.form.tx].events) :
                            LET e == Ledger[a.form.tx].events[i]
                            IN  /\ e.payTo = a.form.offer.payTo
                                /\ \A name \in Bound : e[name] = a.form.proof[name]
      BY DEF EventIsOfThisPayment
    <3>1. Settled(a.form)
      BY <2>1 DEF Shown, EventOk
    <3> QED
      BY <3>1 DEF Settled
  <2>4. SpecsStayLocal
    <3> SUFFICES ASSUME NEW a \in admitted, a.form.kind = "request",
                        NEW n \in a.form.specs
                 PROVE  Under(n) \cap External = {}
      BY DEF SpecsStayLocal
    <3>1. Passed(a.form, "metadata")
      <4>1. Len(Checks(a.form)) \in Nat /\ Len(Checks(a.form)) >= 1
            /\ Checks(a.form)[1] = "metadata"
        BY ChecksShape
      <4> QED
        BY <4>1 DEF Passed
    <3>2. SpecOk(n)
      BY <2>1, <3>1 DEF Shown, SpecsOk
    <3>3. n \in DOMAIN Children
      BY ScreenAssumption DEF ScreenInv, AdmittedShown
    <3> QED
      BY <3>2, <3>3, SpecOkStaysLocal
  <2> QED
    BY <2>2, <2>3, <2>4 DEF AdmittedIsProven
<1> QED
  BY <1>1, ScreenInvariance, PTL
=============================================================================
