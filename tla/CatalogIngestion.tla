--------------------------- MODULE CatalogIngestion ---------------------------
(***************************************************************************)
(* The catalog of one Bazaar: ingestion of settled listings, signed        *)
(* catalog deltas and the revalidation sweep                               *)
(* (bazaar-service/src/catalog/ingestion.ts, settlement-proof.ts,          *)
(* p2p/catalog-delta.ts and the code of server.ts that calls them).        *)
(*                                                                         *)
(* Every ingestion and every delta runs in a database transaction of its   *)
(* own that waits for the seller's site and for Horizon while other        *)
(* transactions run, at PostgreSQL's READ COMMITTED.  A transaction takes  *)
(* effect in the step that commits it: until then the others read what was *)
(* there before, and the rows it locked are the ones Holders names.        *)
(* SELECT ... FOR UPDATE of a row that does not exist locks nothing.       *)
(*                                                                         *)
(* Messages are the requests and deltas that pass the checks of their own  *)
(* content (schema, signature, lifetime, extension rules: CatalogScreen);  *)
(* the others change nothing.  Any message may be delivered at any time    *)
(* and again: the outbox of the facilitator repeats, gossip reorders and   *)
(* repeats.  A listing does not know its type or its network: each message *)
(* brings its own, and the two statements that write a row do not write    *)
(* the same columns of it.                                                 *)
(***************************************************************************)
EXTENDS Naturals, FiniteSets

CONSTANTS
    Listings,       \* the pairs (resource_url, tool_name_key)
    Sites,          \* validation URLs, where a 402 challenge may answer
    Payees,         \* payTo addresses
    Networks, Schemes,
    Terms,          \* asset and amount
    Challenges,     \* what a site may answer: the offers it accepts, {} for none
    Txs,            \* settlement transactions
    CreditedTo,     \* the payee each of them credits on Horizon
    Messages,       \* ingestion requests and catalog deltas
    Workers,        \* requests the service handles at once
    BatchSize,      \* catalogRevalidationBatchSize
    MaxDeliveries,  \* bound on messages delivered
    MaxOffers,      \* bound on changes of a live challenge
    None

MessageType ==
    [type : {"ingest", "upsert", "revoke"}, listing : Listings, site : Sites,
     http : BOOLEAN, payTo : Payees, network : Networks, scheme : Schemes,
     terms : Terms, tx : Txs, revision : Nat, digest : Nat]
Offers ==
    [payTo : Payees, network : Networks, scheme : Schemes, terms : Terms]
Rows ==
    [site : Sites, http : BOOLEAN, payTo : Payees, network : Networks,
     scheme : Schemes, terms : Terms, tx : Txs, shown : BOOLEAN,
     status : {"pending", "verified", "quarantined"}, fresh : BOOLEAN]
Keys == Payees \X Networks \X Listings

ASSUME CatalogAssumption ==
    /\ IsFiniteSet(Listings) /\ Challenges \subseteq SUBSET Offers
    /\ CreditedTo \in [Txs -> Payees]
    /\ Messages \subseteq MessageType /\ None \notin Messages
    /\ BatchSize \in Nat \ {0}
    /\ MaxDeliveries \in Nat /\ MaxOffers \in Nat

ASSUME NoneAssumption == None \notin Rows

VARIABLES
    entry,       \* catalog_resources: the row of each listing
    row,         \* catalog_delta_state: the delta recorded for each key
    live,        \* what the 402 challenge of each site offers now
    job,         \* the transaction each worker runs
    sweep,       \* rows the running revalidation has selected
    verdict,     \* what it found for the one it is about to update
    deliveries, changes,
    \* History, read by the properties only:
    accepted,    \* deltas answered "applied" or "ignored"
    overtaken,   \* keys whose first row was written over by a transaction
                 \* that had looked before there was one
    writer,      \* the message that wrote each entry last
    namer,       \* the message its network and scheme are from
    offered,     \* every offer a live challenge has made, with its site
    backs        \* pairs of a settlement and a listing it has backed

history == <<accepted, overtaken, writer, namer, offered, backs>>
vars == <<entry, row, live, job, sweep, verdict, deliveries, changes,
          accepted, overtaken, writer, namer, offered, backs>>

Idle == [at |-> "idle", msg |-> None, blind |-> FALSE]
Running(w) == job[w].at # "idle"
Key(m) == <<m.payTo, m.network, m.listing>>
Offer(m) ==
    [payTo |-> m.payTo, network |-> m.network, scheme |-> m.scheme, terms |-> m.terms]

(* compareCatalogDelta(a, b) > 0: the revision, then the digest.           *)
Newer(a, b) ==
    \/ a.revision > b.revision
    \/ a.revision = b.revision /\ a.digest > b.digest

(* Mutant of Holders: the row is read without FOR UPDATE.                  *)
HoldersNone(k) == {}

(* Transactions that read the delta row of a key FOR UPDATE and found one. *)
Holders(k) ==
    {w \in Workers : /\ Running(w)
                     /\ job[w].msg.type # "ingest"
                     /\ Key(job[w].msg) = k
                     /\ ~job[w].blind}

Init ==
    /\ entry = [l \in Listings |-> None]
    /\ row = [k \in Keys |-> None]
    /\ live \in [Sites -> Challenges]
    /\ job = [w \in Workers |-> Idle]
    /\ sweep = {} /\ verdict = None
    /\ deliveries = 0 /\ changes = 0
    /\ accepted = {} /\ overtaken = {}
    /\ writer = [l \in Listings |-> None] /\ namer = writer
    /\ offered = UNION {{u} \X live[u] : u \in Sites}
    /\ backs = {}

----------------------------------------------------------------------------
(* The world outside.                                                      *)

(* The seller changes what its 402 challenge asks for, or takes it down.   *)
ChangeOffers(u, challenge) ==
    /\ changes < MaxOffers /\ challenge # live[u]
    /\ changes' = changes + 1
    /\ live' = [live EXCEPT ![u] = challenge]
    /\ offered' = offered \cup ({u} \X challenge)
    /\ UNCHANGED <<entry, row, job, sweep, verdict, deliveries,
                   accepted, overtaken, writer, namer, backs>>

(* last_verified_at falls behind catalogRevalidationStaleMs.               *)
GrowStale(l) ==
    /\ entry[l] # None /\ entry[l].fresh
    /\ entry' = [entry EXCEPT ![l].fresh = FALSE]
    /\ UNCHANGED <<row, live, job, sweep, verdict, deliveries, changes, history>>

----------------------------------------------------------------------------
(* ingest and applyCatalogDelta: the transaction up to its write.          *)

(* Move worker w on within its transaction.                                *)
At(w, stage) ==
    /\ job' = [job EXCEPT ![w].at = stage]
    /\ UNCHANGED <<entry, row, live, sweep, verdict, deliveries, changes, history>>

Start(w, m, stage, blind) ==
    /\ ~Running(w) /\ deliveries < MaxDeliveries
    /\ deliveries' = deliveries + 1
    /\ job' = [job EXCEPT ![w] = [at |-> stage, msg |-> m, blind |-> blind]]
    /\ UNCHANGED <<entry, row, live, sweep, verdict, changes, history>>

Ingest(w, m) ==
    /\ m.type = "ingest"
    /\ Start(w, m, "terms", FALSE)

Superseded(m) == row[Key(m)] # None /\ ~Newer(m, row[Key(m)])

(* Mutant of FirstStage: the signature of the owner stands in for the      *)
(* proof of a settlement.                                                  *)
FirstStageUnproven(m) == IF m.type = "upsert" THEN "terms" ELSE "write"

(* An upsert proves its settlement first; a revoke proves nothing.         *)
FirstStage(m) == IF m.type = "upsert" THEN "settlement" ELSE "write"

(* The delta row is read FOR UPDATE, behind whoever holds it.              *)
BeginDelta(w, m) ==
    /\ m.type # "ingest" /\ Holders(Key(m)) = {}
    /\ ~Superseded(m)
    /\ Start(w, m, FirstStage(m), row[Key(m)] = None)

IgnoreDelta(w, m) ==
    /\ m.type # "ingest" /\ Holders(Key(m)) = {}
    /\ Superseded(m)
    /\ ~Running(w) /\ deliveries < MaxDeliveries
    /\ deliveries' = deliveries + 1
    /\ accepted' = accepted \cup {m}
    /\ UNCHANGED <<entry, row, live, job, sweep, verdict, changes,
                   overtaken, writer, namer, offered, backs>>

(* validateLiveTerms: if the message says that it is of an http resource,  *)
(* the site it names must accept this very offer right now.                *)
ConfirmTerms(w) ==
    /\ job[w].at = "terms"
    /\ LET m == job[w].msg
       IN  /\ m.http => Offer(m) \in live[m.site]
           /\ At(w, IF m.type = "ingest" THEN "settlement" ELSE "read")

(* verifySettlement: Horizon says the transaction credited the payee.      *)
ConfirmSettlement(w) ==
    /\ job[w].at = "settlement"
    /\ LET m == job[w].msg
       IN  /\ CreditedTo[m.tx] = m.payTo
           /\ At(w, IF m.type = "ingest" THEN "read" ELSE "terms")

(* No row of the listing names another payee.                              *)
SamePayee(m) == entry[m.listing] # None => entry[m.listing].payTo = m.payTo

(* The row of the listing is looked up.  A delta that finds one locks it   *)
(* and goes on to its write, which is RewriteEntry.                        *)
ReadEntry(w) ==
    /\ job[w].at = "read"
    /\ IF job[w].msg.type = "ingest" THEN SamePayee(job[w].msg)
       ELSE entry[job[w].msg.listing] = None
    /\ At(w, "write")

Rollback(w) == Idle

(* ROLLBACK: a check failed, Horizon or the seller could not be reached,   *)
(* the settlement is older than a day, or the database reported an error.  *)
Reject(w) ==
    /\ Running(w)
    /\ job' = [job EXCEPT ![w] = Rollback(w)]
    /\ UNCHANGED <<entry, row, live, sweep, verdict, deliveries, changes, history>>

----------------------------------------------------------------------------
(* The write and the COMMIT.                                               *)

(* The UNIQUE constraint on settlement_tx.                                 *)
Unlisted(m) ==
    \A l \in Listings \ {m.listing} : entry[l] # None => entry[l].tx # m.tx

(* ingest updates neither network nor scheme of a row that is there.       *)
KeepsNames(m) == entry[m.listing] # None /\ m.type = "ingest"

(* INSERT ... ON CONFLICT DO UPDATE of both transactions.  The type of the *)
(* row is the one it was inserted with; whether the row counts as verified *)
(* goes by the type of the message.                                        *)
Written(m) ==
    LET old == entry[m.listing]
        named == IF KeepsNames(m) THEN old ELSE m
    IN  [site |-> m.site, payTo |-> m.payTo, terms |-> m.terms, tx |-> m.tx,
         network |-> named.network, scheme |-> named.scheme,
         http |-> IF old = None THEN m.http ELSE old.http,
         shown |-> TRUE,
         status |-> IF m.http THEN "verified"
                    ELSE IF old = None THEN "pending" ELSE old.status,
         fresh |-> m.http \/ (old # None /\ old.fresh)]

WriteEntry(m) ==
    /\ Unlisted(m)
    /\ entry' = [entry EXCEPT ![m.listing] = Written(m)]
    /\ writer' = [writer EXCEPT ![m.listing] = m]
    /\ namer' = IF KeepsNames(m) THEN namer ELSE [namer EXCEPT ![m.listing] = m]
    /\ backs' = backs \cup {<<m.tx, m.listing>>}

(* ingest commits.  The WHERE clause is evaluated on the row of now.       *)
StoreListing(w) ==
    LET m == job[w].msg
    IN  /\ job[w].at = "write" /\ m.type = "ingest"
        /\ SamePayee(m)
        /\ WriteEntry(m)
        /\ job' = [job EXCEPT ![w] = Idle]
        /\ UNCHANGED <<row, live, sweep, verdict, deliveries, changes,
                       accepted, overtaken, offered>>

(* The upsert of catalog_delta_state, which has no condition, and COMMIT.  *)
RecordDelta(w) ==
    LET m == job[w].msg
    IN  /\ Holders(Key(m)) \subseteq {w}
        /\ row' = [row EXCEPT ![Key(m)] = m]
        /\ accepted' = accepted \cup {m}
        /\ overtaken' = IF job[w].blind /\ row[Key(m)] # None
                        THEN overtaken \cup {Key(m)} ELSE overtaken
        /\ job' = [job EXCEPT ![w] = Idle]
        /\ UNCHANGED <<live, sweep, verdict, deliveries, changes, offered>>

(* The entry was there and locked: read and write are one step.            *)
RewriteEntry(w) ==
    LET m == job[w].msg
    IN  /\ job[w].at = "read" /\ m.type = "upsert"
        /\ entry[m.listing] # None /\ SamePayee(m)
        /\ WriteEntry(m)
        /\ RecordDelta(w)

(* There was none.  If one of another payee has come since, the WHERE      *)
(* clause writes nothing and the delta is recorded all the same.           *)
StoreDelta(w) ==
    LET m == job[w].msg
    IN  /\ job[w].at = "write" /\ m.type = "upsert"
        /\ \/ SamePayee(m) /\ WriteEntry(m)
           \/ ~SamePayee(m) /\ UNCHANGED <<entry, writer, namer, backs>>
        /\ RecordDelta(w)

Revoke(w) ==
    LET m == job[w].msg
        listed == entry[m.listing]
    IN  /\ job[w].at = "write" /\ m.type = "revoke"
        /\ entry' = IF /\ listed # None
                       /\ listed.payTo = m.payTo /\ listed.network = m.network
                    THEN [entry EXCEPT ![m.listing].shown = FALSE] ELSE entry
        /\ RecordDelta(w)
        /\ UNCHANGED <<writer, namer, backs>>

----------------------------------------------------------------------------
(* revalidateStale, one sweep at a time (scheduleCatalogRevalidation).     *)

Due ==
    {l \in Listings :
        entry[l] # None /\ entry[l].http /\ entry[l].shown /\ ~entry[l].fresh}

Selected(l) == [listing |-> l, site |-> entry[l].site, offer |-> Offer(entry[l])]

(* SELECT ... LIMIT.  Which of the due rows come first depends on the time *)
(* of their last verification; here any may.                               *)
StartSweep(batch) ==
    /\ sweep = {} /\ verdict = None
    /\ Cardinality(batch) =
          IF Cardinality(Due) < BatchSize THEN Cardinality(Due) ELSE BatchSize
    /\ sweep' = {Selected(l) : l \in batch}
    /\ UNCHANGED <<entry, row, live, job, verdict, deliveries, changes, history>>

(* The live challenge is fetched and compared with the row as selected.    *)
Revalidate(s, answer) ==
    /\ s \in sweep /\ verdict = None
    /\ answer = "verified" => s.offer \in live[s.site]
    /\ answer = "quarantined" => s.offer \notin live[s.site]
    /\ verdict' = [listing |-> s.listing, status |-> answer]
    /\ sweep' = sweep \ {s}
    /\ UNCHANGED <<entry, row, live, job, deliveries, changes, history>>

(* Mutant of Marked: a verified row is put back into the search.           *)
MarkedShown(r, status) ==
    [r EXCEPT !.status = status, !.shown = status # "quarantined",
              !.fresh = @ \/ status = "verified"]

Marked(r, status) ==
    [r EXCEPT !.status = status, !.shown = @ /\ status # "quarantined",
              !.fresh = @ \/ status = "verified"]

(* UPDATE ... WHERE id = $1: whatever the row holds by now.                *)
MarkRow ==
    /\ verdict # None
    /\ entry' = [entry EXCEPT ![verdict.listing] = Marked(@, verdict.status)]
    /\ verdict' = None
    /\ UNCHANGED <<row, live, job, sweep, deliveries, changes, history>>

(* The process dies: open transactions roll back, the sweep is forgotten.  *)
Crash ==
    /\ \/ \E w \in Workers : Running(w)
       \/ sweep # {} \/ verdict # None
    /\ job' = [w \in Workers |-> Idle]
    /\ sweep' = {} /\ verdict' = None
    /\ UNCHANGED <<entry, row, live, deliveries, changes, history>>

----------------------------------------------------------------------------
Work(w) ==
    \/ \E m \in Messages : Ingest(w, m) \/ BeginDelta(w, m) \/ IgnoreDelta(w, m)
    \/ ConfirmTerms(w) \/ ConfirmSettlement(w) \/ ReadEntry(w) \/ Reject(w)
    \/ StoreListing(w) \/ RewriteEntry(w) \/ StoreDelta(w) \/ Revoke(w)

Sweeping ==
    \/ \E batch \in SUBSET Due \ {{}} : StartSweep(batch)
    \/ \E s \in sweep, answer \in {"pending", "verified", "quarantined"} :
          Revalidate(s, answer)
    \/ MarkRow

Next ==
    \/ \E u \in Sites, challenge \in Challenges : ChangeOffers(u, challenge)
    \/ \E l \in Listings : GrowStale(l)
    \/ \E w \in Workers : Work(w)
    \/ Sweeping
    \/ Crash

CatalogSpec == Init /\ [][Next]_vars

----------------------------------------------------------------------------
(* Every variable keeps its type: a worker without a transaction holds     *)
(* nothing of an earlier one, and what the sweep has selected exists.      *)
TypeOK ==
    /\ entry \in [Listings -> Rows \cup {None}]
    /\ row \in [Keys -> Messages \cup {None}]
    /\ live \in [Sites -> Challenges]
    /\ job \in [Workers ->
          {Idle} \cup [at : {"terms", "settlement", "read", "write"},
                       msg : Messages, blind : BOOLEAN]]
    /\ sweep \subseteq [listing : Listings, site : Sites, offer : Offers]
    /\ verdict \in [listing : Listings,
                    status : {"pending", "verified", "quarantined"}] \cup {None}
    /\ \A s \in sweep : entry[s.listing] # None
    /\ verdict # None => entry[verdict.listing] # None
    /\ deliveries \in 0..MaxDeliveries /\ changes \in 0..MaxOffers
    /\ accepted \subseteq Messages /\ overtaken \subseteq Keys
    /\ writer \in [Listings -> Messages \cup {None}]
    /\ namer \in [Listings -> Messages \cup {None}]
    /\ offered \subseteq Sites \X Offers
    /\ backs \subseteq Txs \X Listings

(* A listing never changes its payee and is never removed, whichever       *)
(* transactions insert and update it at once                               *)
(* (ingestion.ts: metadata_hijack_detected, WHERE pay_to).                 *)
PayeeNeverChanges ==
    [][\A l \in Listings :
          entry[l] # None => /\ entry'[l] # None
                             /\ entry'[l].payTo = entry[l].payTo]_vars

(* In whatever order deltas arrive, none of those the Bazaar has answered  *)
(* for is newer than the one it keeps for their key (docs/federation.md:   *)
(* greater revision wins, then digest), except for a key whose very first  *)
(* deltas raced: those lock no row, and the last to commit stays.          *)
NewestWins ==
    \A d \in accepted : Key(d) \notin overtaken =>
        row[Key(d)] # None /\ ~Newer(d, row[Key(d)])

(* While the delta kept for the payee and the network of a listing is a    *)
(* revoke, the listing is in the search only if a settled payment brought  *)
(* it back: no sweep that had selected it, no older delta, and no delta of *)
(* another network does (applyCatalogDelta, revalidateStale).              *)
RevokedStaysHidden ==
    \A l \in Listings :
        LET k == <<entry[l].payTo, entry[l].network, l>>
        IN  (/\ entry[l] # None /\ entry[l].shown
             /\ row[k] # None /\ row[k].type = "revoke")
            => writer[l].type = "ingest"

(* Whatever brought a listing in, a request or a peer's delta (docs/       *)
(* federation: a peer signature does not bypass those checks), it names a  *)
(* settlement that credited its payee.  If the message that wrote it last  *)
(* said http, its site has at some time accepted these terms, of this      *)
(* payee, with the network and the scheme of that message; if the message  *)
(* that named its network and its scheme said http, that message's site    *)
(* has accepted them, of this payee, with the terms of that message.  When *)
(* one message did both, as a delta or an insertion does, the site has     *)
(* accepted all that the row shows.                                        *)
ListedIsProven ==
    \A l \in Listings : entry[l] # None =>
        LET e == entry[l]
            last == writer[l]
            named == namer[l]
        IN  /\ CreditedTo[e.tx] = e.payTo
            /\ last.http =>
                  <<e.site, [Offer(last) EXCEPT !.payTo = e.payTo, !.terms = e.terms]>>
                     \in offered
            /\ named.http =>
                  <<named.site, [Offer(e) EXCEPT !.terms = named.terms]>> \in offered
            /\ last = named /\ last.http => <<e.site, Offer(e)>> \in offered

(* docs/rfp/security-matrix-2026-09-06.md, of live terms: all advertised   *)
(* terms are compared exactly.  So what an http listing shows, its network *)
(* and scheme with its asset and amount, was at some time one offer of its *)
(* site, at least while only messages that said http have written it.      *)
AdvertisedAsOffered ==
    \A l \in Listings :
        (entry[l] # None /\ entry[l].shown /\ writer[l].http /\ namer[l].http)
        => <<entry[l].site, Offer(entry[l])>> \in offered

(* docs/adr/adr-004-catalog-integrity.md: one settlement lists one         *)
(* resource, each settlement is spendable once.                            *)
SettlementSpentOnce ==
    \A b, c \in backs : b[1] = c[1] => b[2] = c[2]
=============================================================================
