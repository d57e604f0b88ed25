---------------------------- MODULE CatalogSearch ----------------------------
(***************************************************************************)
(* Reading the Bazaar's catalog a page at a time: BazaarSearchEngine       *)
(* (search/engine.ts), the cursors it hands out (search/cursor.ts), the    *)
(* routes GET /discovery/search and GET /discovery/resources (server.ts)   *)
(* and the two ways a client pages, by cursor and, as the SDK does, by     *)
(* offset (sdk-typescript/src/bazaar-client.ts).                           *)
(*                                                                         *)
(* One client walks through the answers to one question while rows are     *)
(* added, rewritten by a later ingestion or delta, quarantined, brought    *)
(* back and lose or regain their heartbeats.  A page is an SQL LIMIT/OFFSET*)
(* over an order recomputed at every request: nothing pins the rows the    *)
(* earlier pages were cut from.                                            *)
(*                                                                         *)
(* The fingerprint in a cursor is taken to be the question.  cursor.ts     *)
(* joins its parts as key=value with & and escapes neither, so two         *)
(* questions whose text or tags contain those signs may share one.         *)
(***************************************************************************)
EXTENDS Integers, SequencesExt

CONSTANTS
    Entries,        \* ids of catalog_resources rows
    Forms,          \* what a row says: its text, tags, extensions, network, scheme
    Embedded,       \* the forms that come with an embedding
    Searches,       \* search terms with their filters
    Listings,       \* filter sets of the unranked listing
    Matching,       \* [Searches \cup Listings -> SUBSET Forms], by text and filter
    Relevance,      \* [Searches -> [Forms -> Nat]], what a leg's rank contributes
    PoolSize,       \* CANDIDATE_POOL_SIZE
    MaxLimit,       \* the cap of clampLimit
    Asked,          \* page sizes a client asks for
    InitialRows,    \* the rows when the client starts, newest first
    InitialForm,    \* [Entries -> Forms], and what they say then
    MaxChanges,     \* bound: catalog changes explored
    Nothing

Questions == Searches \cup Listings

ASSUME SearchAssumption ==
    /\ PoolSize \in Nat \ {0} /\ MaxLimit \in Nat \ {0} /\ MaxChanges \in Nat
    /\ Asked \subseteq Int
    /\ Embedded \subseteq Forms
    /\ InitialRows \in Seq(Entries) /\ IsInjective(InitialRows)
    /\ InitialForm \in [Entries -> Forms]
    /\ Matching \in [Questions -> SUBSET Forms]
    /\ Relevance \in [Searches -> [Forms -> Nat \ {0}]]
    /\ Searches \cap Listings = {}
    /\ Nothing \notin [offset : Nat, fingerprint : Questions]

VARIABLES
    listed,     \* rows of the table, newest created_at first, soft-dropped ones too
    form,       \* what each row says
    dropped,    \* the rows with soft_dropped = true
    live,       \* row -> liveness_status of its telemetry
    changes,    \* catalog changes so far, for the bound
    held,       \* the cursors of its walk the client still has
    walk        \* the walk under way, or Nothing

searchVars == <<listed, form, dropped, live, changes, held, walk>>

catalog == <<listed, form, dropped, live, changes>>

-----------------------------------------------------------------------------
\* Pure parts

\* clampLimit and clampOffset: what the route makes of the client's numbers.
ClampLimit(n) == Min({MaxLimit, Max({1, n})})
ClampOffset(n) == Max({0, n})

\* A cursor is a position and the question that issued it; the page size it
\* also carries is read back and never used.
EncodeCursor(offset, q) == [offset |-> offset, fingerprint |-> q]

\* Mutant of CursorFits: the fingerprint is not compared.
AnyCursorFits(c, q) == c.offset >= 0

\* decodeCursor refuses what it cannot parse and what another question issued.
CursorFits(c, q) == c.offset >= 0 /\ c.fingerprint = q

Slice(s, offset, limit) == SubSeq(s, offset + 1, Min({offset + limit, Len(s)}))

\* Mutant of Page: the last row is taken for the one before it.
PageStopsShort(q, ranked, offset, limit, count, partial, left) ==
    LET rows == Slice(ranked, offset, limit)
        total == IF rows = <<>> THEN 0 ELSE count
    IN  [rows |-> rows, offset |-> offset, total |-> total,
         partial |-> partial /\ rows # <<>>,
         next |-> IF offset + Len(rows) + 1 < total
                  THEN EncodeCursor(offset + Len(rows), q) ELSE Nothing,
         left |-> left]

\* Mutant of Page: the count comes from a query of its own, so that a page
\* past the pool still has a total.
PageCountsApart(q, ranked, offset, limit, count, partial, left) ==
    LET rows == Slice(ranked, offset, limit)
    IN  [rows |-> rows, offset |-> offset, total |-> count,
         partial |-> partial /\ rows # <<>>,
         next |-> IF offset + Len(rows) < count
                  THEN EncodeCursor(offset + Len(rows), q) ELSE Nothing,
         left |-> left]

\* What one route answers: the rows, how many it says there are, the token for
\* the next page, whether it owns up to an incomplete view, and (not part of
\* the answer) the matches that were never considered.
Page(q, ranked, offset, limit, count, partial, left) ==
    LET rows == Slice(ranked, offset, limit)
        total == IF rows = <<>> THEN 0 ELSE count
    IN  [rows |-> rows,
         offset |-> offset,
         total |-> total,
         partial |-> partial /\ rows # <<>>,
         next |-> IF offset + Len(rows) < total
                  THEN EncodeCursor(offset + Len(rows), q) ELSE Nothing,
         left |-> left]

-----------------------------------------------------------------------------
\* list: every row that matches and is not dropped, newest first.

Shown(q) == {r \in ToSet(listed) \ dropped : form[r] \in Matching[q]}

Newer(r, s) == \E i, j \in DOMAIN listed : i < j /\ listed[i] = r /\ listed[j] = s

\* ORDER BY created_at DESC.
Newest(q) ==
    {s \in SetToSeqs(Shown(q)) : \A i, j \in DOMAIN s : i < j => Newer(s[i], s[j])}

List(q, offset, limit, rows) == Page(q, rows, offset, limit, Len(rows), FALSE, {})

-----------------------------------------------------------------------------
\* search: two legs of at most PoolSize candidates each, fused and ranked.

\* What a search counts and both legs draw from: an offline row is left out.
Hits(q) == {r \in Shown(q) : live[r] # "OFFLINE"}

\* The rows a leg may put forward when it draws from S. The text leg has a
\* LIMIT and no ORDER BY, the vector leg is ordered by a distance this model
\* does not compute: any rows may make the cut.
Legs(S) == {P \in SUBSET S : Cardinality(P) = Min({PoolSize, Cardinality(S)})}

\* The hits that the vector leg draws from: their embedding is not null.
Near(q) == {r \in Hits(q) : form[r] \in Embedded}

Candidates(q) == [text : Legs(Hits(q)), vector : Legs(Near(q))]

\* composite_score: each leg a row is in adds its reciprocal rank, and a row
\* whose heartbeats are late keeps 0.3 of the sum.
Score(q, text, vector, r) ==
    Relevance[q][form[r]]
        * ((IF r \in text THEN 1 ELSE 0) + (IF r \in vector THEN 1 ELSE 0))
        * (IF live[r] = "HEALTHY" THEN 10 ELSE 3)

\* ORDER BY composite_score DESC, with nothing to decide a tie.
Rankings(q, text, vector) ==
    {s \in SetToSeqs(text \cup vector) :
        \A i, j \in DOMAIN s :
            i < j => Score(q, text, vector, s[i]) >= Score(q, text, vector, s[j])}

\* A leg that is full may have left matches out, and the page says so.
Saturated(text, vector) ==
    Cardinality(text) >= PoolSize \/ Cardinality(vector) >= PoolSize

Search(q, offset, limit, text, vector, ranked) ==
    Page(q, ranked, offset, limit, Cardinality(Hits(q)),
         Saturated(text, vector), Hits(q) \ (text \cup vector))

\* Every answer the service may give to q at this moment.
Answers(q, offset, limit) ==
    IF q \in Listings THEN {List(q, offset, limit, rows) : rows \in Newest(q)}
    ELSE UNION {{Search(q, offset, limit, legs.text, legs.vector, ranked) :
                    ranked \in Rankings(q, legs.text, legs.vector)} :
                legs \in Candidates(q)}

-----------------------------------------------------------------------------
\* The walk: what the client has seen, and for the properties, which rows
\* could be shown throughout, whether anything changed since it began and
\* whether a row was lost to the question.

Visible(q) == IF q \in Listings THEN Shown(q) ELSE Hits(q)

\* The rows two of which no ranking can tell apart, when both legs are whole.
Tied(q) ==
    q \in Searches /\ \E r, s \in Hits(q) :
        r # s /\ Score(q, Hits(q), Near(q), r) = Score(q, Hits(q), Near(q), s)

\* The walk after a page: the next position comes from the cursor, or from
\* adding up, and a client that adds up stops when total says so. An empty page
\* flips a bit, so that asking for one over and over counts as a step.
Turn(w, page) ==
    [w EXCEPT !.seen = @ \o page.rows,
              !.last = page,
              !.over = page.next = Nothing,
              !.cursor = page.next,
              !.position = page.offset + Len(page.rows),
              !.empty = @ # (page.rows = <<>>)]

SearchInit ==
    /\ listed = InitialRows
    /\ form = InitialForm
    /\ dropped = {}
    /\ live = [r \in Entries |-> "HEALTHY"]
    /\ changes = 0
    /\ held = {}
    /\ walk = Nothing

\* The first page of a question: no cursor, and the offset the SDK sends is 0
\* unless told otherwise.
Begin(q, by, n) ==
    /\ walk # Nothing => walk.over
    /\ \E page \in Answers(q, 0, ClampLimit(n)) :
        /\ walk' = Turn([question |-> q, by |-> by, seen |-> <<>>, last |-> Nothing,
                         cursor |-> Nothing, position |-> 0, over |-> FALSE, empty |-> FALSE,
                         throughout |-> Visible(q), changed |-> FALSE,
                         lost |-> FALSE, tied |-> Tied(q)], page)
        /\ held' = {page.next} \ {Nothing}
    /\ UNCHANGED catalog

\* GET /discovery/search.
OpenSearch(q) ==
    /\ q \in Searches
    /\ \E n \in Asked, by \in {"cursor", "offset"} : Begin(q, by, n)

\* GET /discovery/resources.
OpenListing(q) ==
    /\ q \in Listings
    /\ \E n \in Asked, by \in {"cursor", "offset"} : Begin(q, by, n)

\* discover_resources reads the first page of a search, hands on its rows and
\* its total, and drops the cursor and the word on partial results.
Discover(q) ==
    /\ q \in Searches
    /\ walk # Nothing => walk.over
    /\ \E n \in Asked : \E page \in Answers(q, 0, ClampLimit(n)) :
        walk' = [question |-> q, by |-> "once", seen |-> page.rows,
                 last |-> [page EXCEPT !.partial = FALSE, !.next = Nothing],
                 cursor |-> Nothing, position |-> Len(page.rows), over |-> TRUE, empty |-> FALSE,
                 throughout |-> Visible(q), changed |-> FALSE, lost |-> FALSE,
                 tied |-> Tied(q)]
    /\ held' = {}
    /\ UNCHANGED catalog

\* The next page, with the cursor the last page carried. The page size is not
\* part of the fingerprint: a client may change it as it goes.
Continue ==
    /\ walk # Nothing /\ ~walk.over /\ walk.by = "cursor"
    /\ CursorFits(walk.cursor, walk.question)
    /\ \E n \in Asked :
         \E page \in Answers(walk.question, walk.cursor.offset, ClampLimit(n)) :
            /\ walk' = Turn(walk, page)
            /\ held' = held \cup ({page.next} \ {Nothing})
    /\ UNCHANGED catalog

\* The next page by adding up the rows had so far.
NextByOffset ==
    /\ walk # Nothing /\ ~walk.over /\ walk.by = "offset"
    /\ \E n \in Asked :
         \E page \in Answers(walk.question, ClampOffset(walk.position), ClampLimit(n)) :
            walk' = Turn(walk, page)
    /\ UNCHANGED <<held, catalog>>

\* BazaarClient.search and BazaarClient.list, which know no cursor.
SdkSearch == walk # Nothing /\ walk.question \in Searches /\ NextByOffset
SdkList == walk # Nothing /\ walk.question \in Listings /\ NextByOffset

\* A client that mixes its cursors up and opens a question with one it holds.
\* The route answers 400 unless the cursor belongs to that question, and then
\* the walk takes up where the cursor points: what came before was seen then.
OpenWithCursor(q) ==
    /\ walk # Nothing /\ walk.over
    /\ \E c \in held :
        /\ CursorFits(c, q)
        /\ \E n \in Asked : \E page \in Answers(q, c.offset, ClampLimit(n)) :
            /\ held' = {d \in held : d.offset <= c.offset} \cup ({page.next} \ {Nothing})
            /\ walk' = Turn([walk EXCEPT
                            !.question = q, !.by = "cursor", !.cursor = c,
                            !.seen = IF q = walk.question
                                     THEN SubSeq(@, 1, c.offset) ELSE <<>>,
                            !.throughout = IF q = walk.question THEN @ ELSE Visible(q),
                            !.changed = IF q = walk.question THEN @ ELSE FALSE,
                            !.lost = IF q = walk.question THEN @ ELSE FALSE,
                            !.tied = IF q = walk.question THEN @ ELSE Tied(q)], page)
    /\ UNCHANGED catalog

-----------------------------------------------------------------------------
\* What happens to the catalog meanwhile (CatalogIngestion and Federation say
\* when; here it just happens).

\* The walk, told that the catalog changed under it.
Noting ==
    IF walk = Nothing THEN UNCHANGED walk
    ELSE \E q \in {walk.question} :
            walk' = [walk EXCEPT !.throughout = @ \cap Visible(q)',
                                 !.changed = TRUE,
                                 !.lost = @ \/ ~(Visible(q) \subseteq Visible(q)'),
                                 !.tied = @ \/ Tied(q)']

\* A first ingestion commits. created_at is the time its transaction began, so
\* the new row may land below rows that were visible before it.
Insert(r, f) ==
    /\ r \notin ToSet(listed)
    /\ \E i \in 1..(Len(listed) + 1) : listed' = InsertAt(listed, i, r)
    /\ form' = [form EXCEPT ![r] = f]
    /\ UNCHANGED <<dropped, live>>
    /\ Noting

\* Quarantine by revalidation, or an owner's revocation, soft-drops a row.
Drop(r) ==
    /\ r \in ToSet(listed) \ dropped
    /\ dropped' = dropped \cup {r}
    /\ UNCHANGED <<listed, form, live>>
    /\ Noting

\* A later ingestion or delta of the same resource rewrites what the row says,
\* and with it which questions it answers; a row that was dropped comes back.
\* The row keeps its created_at. A settlement counts as a sign of life, an
\* owner's delta does not.
Rewrite(r, f) ==
    /\ r \in ToSet(listed)
    /\ form' = [form EXCEPT ![r] = f]
    /\ dropped' = dropped \ {r}
    /\ live' \in {live, [live EXCEPT ![r] = "HEALTHY"]}
    /\ UNCHANGED listed
    /\ Noting

\* A heartbeat, or a sweep that found none, changes a row's liveness.
Beat(r) ==
    /\ r \in ToSet(listed)
    /\ \E s \in {"HEALTHY", "DEGRADED", "OFFLINE"} \ {live[r]} :
         live' = [live EXCEPT ![r] = s]
    /\ UNCHANGED <<listed, form, dropped>>
    /\ Noting

CatalogChange ==
    /\ changes < MaxChanges
    /\ changes' = changes + 1
    /\ \E r \in Entries :
          \/ Drop(r) \/ Beat(r)
          \/ \E f \in Forms : Insert(r, f) \/ Rewrite(r, f)
    /\ UNCHANGED held

SearchNext ==
    \/ \E q \in Questions :
          OpenSearch(q) \/ OpenListing(q) \/ Discover(q) \/ OpenWithCursor(q)
    \/ Continue
    \/ SdkSearch
    \/ SdkList
    \/ CatalogChange

\* A client that has begun asks on until a page is the last.
SearchSpec ==
    /\ SearchInit /\ [][SearchNext]_searchVars
    /\ WF_searchVars(Continue) /\ WF_searchVars(SdkSearch \/ SdkList)

-----------------------------------------------------------------------------
\* Properties

\* A client that pages the listing to its end has been shown every row that was
\* in it throughout, whatever was inserted, rewritten or brought back meanwhile,
\* as long as no row left the listing: rows move down under it and may repeat,
\* they do not slip past it (engine.ts list, the LIMIT and OFFSET over
\* created_at DESC). A row leaves when it is dropped, or rewritten so that the
\* filters no longer match; then the rows behind it move up, past the client.
NothingSkipped ==
    walk # Nothing /\ walk.over /\ walk.question \in Listings /\ ~walk.lost
        => walk.throughout \subseteq ToSet(walk.seen)

\* Paged to its end in a catalog that stays as it is, a search whose candidates
\* all fit the pool and whose scores decide every pair shows each match exactly
\* once, although every page ranks the matches anew (engine.ts search).
SearchIsExact ==
    walk # Nothing /\ walk.over /\ walk.by # "once" /\ walk.question \in Searches
        /\ ~walk.changed /\ ~walk.tied
        /\ Cardinality(walk.throughout) <= PoolSize
        => IsInjective(walk.seen) /\ ToSet(walk.seen) = walk.throughout

\* No page with rows on it passes for a complete ranking when matches were left
\* out of both legs (engine.ts 309-327, "never defaulted to false blindly").
TruncationIsSaid ==
    walk # Nothing /\ walk.by # "once" /\ walk.last.rows # <<>> /\ walk.last.left # {} => walk.last.partial

\* What a client may conclude from a ranking (engine.ts search): paged to its end
\* it is exact, if the catalog stayed as it is, the pool held all matches and no
\* two scored alike; and in any case no page hides that the pool was too small.
\* Of a ranking that changes under the client, or has ties, or of the MCP
\* server's single page, it says nothing.
RankingIsHonest == SearchIsExact /\ TruncationIsSaid

\* Paging comes to an end, also when the pool runs out before the total that
\* the pages announce, and when rows come and go as the client pages.
PagesEnd ==
    (walk # Nothing /\ ~walk.over) ~> (walk # Nothing /\ walk.over)

=============================================================================
