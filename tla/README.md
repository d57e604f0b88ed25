# Verification of the Veridex Stellar facilitator

TLA+ models, TLC model checks and TLAPS proofs for the payment core of this
repository: the facilitator that settles x402 payments on Stellar, the Soroban
contract it settles metered payments through, and the services around it that
must not lose, repeat or invent a payment: the seller's gateway, the Bazaar that
lists, federates and rates paid resources, and the agent's tool that pays.

`PROJECT.json` is the machine-readable index: components, runs, mutants (one
plausible bug per property, which the property must catch), the map from each
definition to the source lines it stands for, findings, hazards and theorems.
This file explains them.

Run everything here with

    tlc -workers 2 -config <Cfg>.cfg MC<Module>.tla
    tlapm <Module>_proofs.tla

## 1. The system

    buyer --signed payment--> gateway ----> seller's API
                                 |  POST /verify, /settle
                                 v
       server.ts (facilitator): retry, lease, settle, receipt, catalog
          |            |                          |
          |      settle-scheduler.ts        catalog-outbox.ts --> Bazaar
          v
       upto-scheme.ts --> rpc-coordinator.ts --> Soroban RPC providers
                                                     |
                                        upto-settlement contract, token

       agent (MCP tool) --search, pay--> Bazaar, gateway
       Bazaar: ingestion, deltas <--gossip--> other Bazaars and announcers
               telemetry, provider quality, search

Node services: one thread, so code between two `await`s is atomic and
everything else interleaves. No database in the payment path: the scheduler, the
health flags, the in-flight map of the gateway are memory and die with the
process; the outbox and the gateway's events are files and survive it; the
ledger is the only authority.

### Inventory

**Settlement scheduler** (`facilitator-service/src/settle-scheduler.ts`).
State: `idle`, `busy`, `quarantined` signer addresses, the `waiters` array.
Operations: `setSigners`, `acquire` (three refusals, lease, or queue with a
timer), `withSigner` (quarantine on an uncertain result, release),
`processQueue`, `recoverSigner`. Called by `X402Facilitator.settle` and by the
operator endpoint. Hard: waiters with different preferences, timers racing
service, releases that free nothing because of a quarantine. Correct when no
signer is leased twice, none is lost, nobody sits beside a free signer they could
use, nobody overtakes.

**Settle path** (`server.ts` canonicalSettle, `retry.ts`, `x402-facilitator.ts`,
`stellar/upto-scheme.ts`). State: each open call, its attempt, the sequence number
it loaded, what it submitted. Operations: receive, lease, verify, load the
account, simulate and sign, send, poll, return, retry after ledger skew, answer
busy. Hard: answers lost after the network took a transaction, inclusion after
polling gave up, retries, two calls with one payment, restarts. Correct when the
answer tells the truth about the charge, a call sends at most one transaction,
and an account with a transaction in doubt is not used.

**RPC coordinator** (`rpc-coordinator.ts`). State: a health flag per provider.
Operations: forward a read (fail over), post a submission (probe, then one
provider, then reconcile over all), answer a status request. Hard: providers
that hang, lag, disagree; concurrent requests that flip the flags another one
is ordered by. Correct when nothing is posted twice, no final status is
invented, and one working provider is enough.

**upto settlement contract** (`contracts/upto-settlement/src/lib.rs`). State: a
persistent replay entry per payer and settlement id, with a TTL; the token's
balances and allowances. Operations: `settle`, `is_settled`. Hard: replays of a
signed authorization, entries that expire, two authorizations with one id,
tokens that keep a fee or ignore an allowance. Correct when an authorization is
charged at most once, in its window, at most its ceiling, exactly, and nothing
is left standing.

**Catalog outbox** (`catalog-outbox.ts`, `drainCatalogOutbox` and
`catalogSuccessfulPayment` in `server.ts`). State: one file per settled
transaction, the drain in progress. Operations: `enqueue` (write, rename),
`list`, `markAttempt`, deliver, `acknowledge`. Hard: a crash at any await,
a marker written over an acknowledged file, damaged files, a Bazaar that does
not answer. Correct when an event the seller was told is queued is delivered in
the end and does not come back.

**Gateway** (`gateway-service/src/app.ts`, `store.ts`). State: slots in use, the
in-flight settle calls by payment, the write queue, two JSONL files.
Operations: admit or refuse, look up a settlement, verify, settle once, append,
forward, record the outcome. Hard: replays that interleave, an append that
fails, half a line after a crash, a facilitator whose answer is lost. Correct
when only paid requests reach the seller, no charge goes unrecorded, and the
books agree with the ledger.

**Bazaar catalog** (`bazaar-service/src/catalog/`, `p2p/catalog-delta.ts`, the
routes and the sweep in `server.ts`). State: one row per listing, one delta per
key, in PostgreSQL. Operations: `ingest` a settled listing, `applyCatalogDelta`
(a signed upsert or revoke of its owner), `revalidateStale`. Hard: transactions
that wait for Horizon and for the seller's site while others commit, row locks
that need a row to lock, deltas in any order and repeated, a sweep that updates
what it selected minutes ago. Correct when every listing is backed by proof,
keeps its payee, stays revoked, and the newest delta wins.

**upto scheme** (`stellar/upto-scheme.ts`). State: how far a call of `settle` is,
the amount it determined. Operations: `verify` with its reads of the ledger, the
replay state and a simulation, attestation of the amount used, a second
simulation, submission, polling. Hard: every read is of another moment and
perhaps of a node that lags; the seller works between verification and charge.
Correct when what was verified can be settled for any amount up to the ceiling,
and success is told of one's own, exact charge only.

**Facilitator lifecycle and front** (`server.ts`, `startup.ts`,
`capability-descriptor.ts`, `rate-limit.ts`, `validation.ts`, `retry.ts`,
`reasons.ts`). State: the phase of `start()`, the claims it confirmed, the
limiter's windows, the counters. Operations: boot step by step, stop, crash;
limit, validate, attempt, pause, answer. Hard: skipped boot steps, windows that
end, nodes that disagree about the ledger, a branch per kind of answer. Correct
when it claims only what it confirmed, limits each client by itself, loses no
payment to skew it can outlast, and counts what it told.

**Legacy channel pool** (`channel/pool.ts`, `stellar/settler.ts`, POST
/legacy/settle). State: a state per channel, the acquisition queue, cooldown
timers. Operations: acquire, release, cool down, refill, resync, shut down.
Hard: several callers free a channel, one run of the queue serves one waiter, a
refill fails under a settlement. Correct when no channel is held twice or
leaked and no waiter sleeps beside a free one.

**Bazaar federation and telemetry** (`bazaar-service/src/p2p/`, `telemetry/`).
State: announcers' sequence counters, the replay cache and the highest sequence
per node (memory), the audit log and a telemetry row per resource (PostgreSQL).
Operations: announce, receive, record a heartbeat in a transaction, evaluate
liveness. Hard: gossip that loses, repeats and reorders, clocks that differ,
restarts on both sides. Correct when heartbeats are handled once and in order,
only old news is refused as replay, and what search shows was heard of.

**Paid call** (`mcp-server/src/index.ts`, `security.ts`, the SDK's upto client and
`x402-provider-extension.ts`, the demo server's integration). State: where a
call stands, what was signed, the seller's configuration. Operations: prepare,
sign, submit, execute, decide whether to charge, settle. Hard: the offer moves
between two phases that share no memory. Correct when a charge is within what
was signed and shown, and a provider's fault is not charged.

**Provider quality** (`bazaar-service/src/provider-quality/`, the recompute queue
in `server.ts`, `sdk-typescript/src/provider-quality.ts`, the gateway's
`provider-policy.ts`). State: observations, disagreements, the queue, signed
aggregates, the gateway's cache. Operations: record, compare, correlate,
recompute, push, serve, decide. Hard: two sources at once, loops that overlap, a
queue that is full, a crash, a cache past its evidence. Correct when nothing
accepted is lost and a hold rests on fresh evidence.

**Bazaar search** (`search/engine.ts`, `cursor.ts`, the discovery routes, the
SDK's client). State: the rows, and a client's place in a walk. Operations:
search, list, page by cursor or offset. Hard: the catalog changes between
pages, the candidate pool is cut. Correct when nothing that stayed is skipped, a
cut ranking says so, and paging ends.

## 2. Modules

| Module | Models | Built on |
|---|---|---|
| `SignerLease` | abstract: signers as exclusive, conserved resources | |
| `SettleScheduler` | the scheduler, one action per run of the event loop | implements `SignerLease` |
| `SettlePath` | POST /settle over the scheduler and a ledger, with restarts | `EXTENDS SettleScheduler` |
| `MeteredCharge` | abstract: one charge per signed authorization | |
| `UptoSettlement` | the contract, the token it calls, the ledger's clock | implements `MeteredCharge` |
| `CatalogOutbox` | the outbox and the drain | |
| `RpcCoordinator` | the coordinator, its providers and the fate of transactions | run beside `FacilitatorService` |
| `GatewayPayments` | the gateway's paid requests and its event store | |
| `CatalogIngestion` | the Bazaar's catalog tables and the transactions on them | |
| `CatalogScreen` | every check a submission passes before its transaction writes | run beside `CatalogIngestion` |
| `UptoScheme` | the facilitator's side of the upto scheme | `EXTENDS UptoSettlement` |
| `ChannelPool` | the legacy channel pool and its settler | |
| `FacilitatorService` | `start()`, what is claimed, `stop()`, crash and restart | `EXTENDS ChannelPool` |
| `FacilitatorFront` | limits, validation, attempts, answers and counters | run beside `FacilitatorService` |
| `Federation` | announcers, gossip, the P2P node, heartbeat telemetry | |
| `PaidCall` | the agent's paid call and the seller's decision to charge | |
| `ProviderQuality` | reports, disagreements, aggregates, the gateway's hold | run beside `PaidCall` |
| `CatalogSearch` | reading the catalog page by page | |
| `SettlePath_proofs` | theorems of `SettlePath` and `SettleScheduler` | TLAPS |
| `UptoSettlement_proofs` | of `UptoSettlement` and `UptoScheme` | TLAPS |
| `Facilitator_proofs` | of `ChannelPool`, `FacilitatorService`, `FacilitatorFront`, `CatalogOutbox` | TLAPS |
| `RpcCoordinator_proofs`, `GatewayPayments_proofs` | of the module so named | TLAPS |
| `CatalogIngestion_proofs` | of `CatalogIngestion` and `CatalogScreen` | TLAPS |
| `Federation_proofs` | of `Federation` and `CatalogSearch` | TLAPS |
| `ProviderQuality_proofs` | of `ProviderQuality` and `PaidCall` | TLAPS |
| `MC*` | model values and bounds for TLC | |

Operators whose comment says "Mutant of X" are the bugs that `PROJECT.json` puts in
the place of X to see a property fail; no specification uses them.

### How state and actions correspond to the code

*SettleScheduler.* Variables are the class's fields; the idle list and the
waiters array are a set and a set ordered by `ticket` (the `totalQueued` count at
push), because nothing depends on positions beyond "oldest first". A lease is a
value `lease[r]`. `Release` is the whole tail of `withSigner`: the quarantine,
`release()` and the `processQueue` it runs, as one step, since no await separates
them. `Grants` is `processQueue`'s loop as a single pass: the pool only shrinks
during the loop, so a waiter passed over cannot be served later in it.

*SettlePath.* A request of the scheduler is one attempt `<<c, n>>` of call `c`,
since `withLedgerSkewRetry` wraps the whole `settle()`. `step` is the await the
operation has reached: before verification, before `getAccount`, before
`sendTransaction`, polling. The ledger includes an account's transactions in
sequence order (`Include`) or never (`Drop`), at any time, watched or not.
`SendLost` is `sendTransaction` throwing: the fate is open and `txHash` is
unassigned, so the result carries none. `known` records whether the service
ever learnt the hash, which is what an operator can reconcile by.

*UptoSettlement.* A panic reverts, so `Settle` is one action whose guards are
the checks, in the code's order. `guard[<<p, id>>]` is the last ledger at which
the replay entry lives; letting it lapse (the network archives it instead) only
makes the model weaker. `Transfer`/`Delivered` are external: a token may keep a
fee, or leave an allowance as it was.

*UptoScheme.* `at[j]` is the await a call has reached. `Simulates(j, n)` asks
the contract's own checks (`Accepts`, the guards of `Settle`) of the amount at
hand; so the scheme and the contract cannot drift apart in the model.
`Charge` is the contract's step and remembers whose transaction it was; `Answer`
is what polling saw of it.

*CatalogOutbox.* `spool[i]` is what the file of id `i` holds. `Mark`,
`PostAnswered`, `Acknowledge` and their failures are the awaits of the drain's
loop, in order; `MayDrain` is the single-flight guard.

*RpcCoordinator.* One action per call that ends, by an answer or a failure;
`todo` and `order` are the rest of the loop and the snapshot of health flags its
providers were sorted by. `fate` is the ledger's decision about a hash, which
may come long after the post.

*GatewayPayments.* `stage[r]` is the await a request has reached; while it is a
status (`"verified"`, `"settled"`, ...) the record of that status is being
appended. `call[r]` is the entry of the in-flight map it awaits. `poisoned` is
the write queue having become a rejected promise (every later `.then` is skipped
until a restart), `torn` an event file that no longer parses.

*CatalogIngestion.* `job[w]` is an open transaction and the check it has reached;
it takes effect in the step that commits it, which is how READ COMMITTED lets
the others see it. `Holders(k)` are the transactions that hold the delta row of
a key by `SELECT ... FOR UPDATE`; a transaction that found no row is `blind` and
holds nothing. A delta that finds its listing's row locks it too, so its read and
its write are one step (`RewriteEntry`); one that finds none meets whatever has
come by the time of its upsert (`StoreDelta`). `sweep` and `verdict` are the rows
the sweep selected and the answer it is about to write by id. A site's challenge is
a set of offers (payee, network, scheme, terms), and `ChangeOffers` replaces it.
The two statements that write a row do not write the same columns: `Written` keeps
the network and the scheme of a row that `ingest` meets (`KeepsNames`), so the
history has two authors of a row, the last `writer` and the `namer` whose network
and scheme it shows.

*CatalogScreen.* `form` is the submission under way and `passed` how many of its
`Checks`, a sequence in the code's order, it has passed; between any two the
seller's `site` and the time may change. Names, tags and URLs are classes, a JSON
specification is a tree whose nodes may refer to another host.

*ChannelPool.* Everything between two awaits is one action, so `ReleaseChannel`
includes the run of `processQueue` it ends with. `armed` are the channels whose
cooldown timer runs, `timers` the due ones, `immediates` the scheduled runs of the
queue; `Cooled` is `processCooldowns`, which looks at every channel.

*FacilitatorService.* One action per await of `start()`; `Gate`, `Claims` and the
following are the run of code after the last one, up to `serve()`. `heard` is
what the network has told this process, against which the claims are compared.

*FacilitatorFront.* `windows` is the limiter's map; `Header` and `Socket` are what
a caller and an honest proxy make of X-Forwarded-For, `ClientIp` the code's
choice. A call pauses and tries again as `withLedgerSkewRetry` does; each answer
is an action of its own because each has its own counters.

*Federation.* `published` are the messages gossip may deliver at any time and
again, so loss, repetition and reordering need no action. `node = "joined"` is the
time between subscribing and setting the handler. A heartbeat's transaction counts
(`CountPings`) before it commits (`CommitHeartbeat`), and others run in between.

*PaidCall.* `Prepare` and `Submit` are the tool's two phases, which fetch the
challenge each; `ChangeOffer` may come anywhere. `Settles` is the seller's
decision, by integration.

*ProviderQuality.* A report is stored (`RecordObservation`) in a step before it is
compared (`CompareObservation`). `drain[d]` is a loop over the pending
recomputations or one request of the operator's route; reading, building and
saving an aggregate are steps of their own. A reporter's clock may be ahead, and
`Fresh` lets a report or an aggregate be dated up to `Skew` ahead, as
`verifyFreshness` does; the window is asked for twice, by the query (`Counted`) and
again when the aggregate is built (`Within`). `Refresh*` are the gateway's ways to a
decision: cached, fetched, without observations (a state of its own with an action
of its own, `InsufficientData`, which is not cached), or stale because the Bazaar is
unreachable. The Bazaar and the gateway share a clock.

*CatalogSearch.* `walk` is one client's walk through the answers to one
question. `Search` is the query as one statement: two legs, each cut to the
candidate pool, fused, ordered (ties in any order, since the code's order has no
last key), then `LIMIT` and `OFFSET`. A ranking, like the listing's `Newest`, is
an arrangement of the rows in which no two stand against the order. What a row
says is its `form`; a later ingestion or delta gives it another (`Rewrite`), and
which forms match a question, what they score and whether they have an embedding
are constants. So a row enters and leaves the answers to a question without being
inserted or dropped. The vector leg may put forward any rows that have an embedding.

## 3. Runs

| Run | Bounds | Shows |
|---|---|---|
| `scheduler` | 2 signers, 4 requests, every preference and every `setSigners` | no lost wakeup, first come first served, refinement of `SignerLease` |
| `settle_path` | 3 calls (2 with one upto payment, 1 exact), 2 signers, 1 retry, 1 restart | truthful answers, one transaction per call, signers in doubt held, every received call answered |
| `shared_sequence` | as `settle_path`, no restart | *violation*: two pending transactions share a sequence number |
| `upto_settlement` | contract: 6 authorizations, 3 tokens, 5 ledgers, amounts -1..2; facilitator: 2 calls, 13 requests, 1 lagging node | one exact charge (refinement of `MeteredCharge`), nothing standing, what is verified is settleable, success is one's own charge |
| `catalog_outbox` | 3 events, batches of 2, 1 crash, 1 damaged file, 2 drains | queued events kept and delivered |
| `gateway` | 3 requests (2 replays of one payment), 2 slots, 1 restart | paid before forwarded, charges traced, everyone answered |
| `catalog_ingestion` | transactions: 2 listings, 2 payees, 9 messages of 2 networks and 2 schemes of which any 3 are delivered, 2 transactions at once, 1 change of the live offers; screen: 26 submissions, 2 at most, 4 answers of the site, 3 ticks | proof behind each listing, revokes that last, the newest delta wins, what is admitted is proven as a whole |
| `catalog_advertised` | as `catalog_ingestion` | *violation*: a verified row whose scheme and amount were never offered together |
| `facilitator_service` | service: 2 channels, 4 settlements, 6 environments, 1 boot after another; front: 3 workloads of up to 4 calls, 2 peers, with and without a proxy, windows of 2, 1 retry, 4 ticks; rpc: 2 providers (1 may lie), 3 concurrent requests on 1 hash | channels exclusive, no stranded waiter, claims confirmed, skew outlasted, limit per client, counters balance; one post, no false final status, failover |
| `federation` | 2 announcers (1 clock too far ahead), 1 resource, 2 rounds, 1 restart, 1 settlement, 4 ticks | handled once and in order, only old news refused, uptime and liveness honest, sequences never down |
| `provider_quality` | calls: 2 calls, 4 offers, 3 sellers, 4 outcomes, 1 change; reports: 2 endpoints with a queue for 1, 4 reports, one dated 1 s ahead, a window of 0 s, an unobserved endpoint held, 2 loops, 1 failure | charges within bounds, provider faults free, nothing reported is lost, holds on fresh evidence |
| `catalog_search` | 3 rows of 2 forms, a pool of 2, 1 search and 1 listing by a filter, pages of 1, 2 changes | nothing skipped, honest rankings, paging ends |

Four runs explore two or three parts that share no state one at a time
(`upto_settlement`, `catalog_ingestion`, `facilitator_service`,
`provider_quality`): a variable or the initial state chooses which, the others
rest, and their product is never built.

**Why these bounds are enough to be interesting.** Four requests over two
signers leave up to three waiters, the least for one to be passed over between
two that are served. Two calls with one payment and a third that competes for
the same signer are the least for a replay to race a charge while another
payment waits behind its quarantine; one retry and one restart are the least for
an earlier attempt and a forgotten transaction to exist. The authorizations
include two with one settlement id and overlapping windows, the only way to
rewrite a replay entry. Three events with batches of two leave one outside the
first batch. Two providers are the least to fail over and to disagree. Two
replays and a third payment in two slots interleave at each of the gateway's
awaits and leave a request that meets the limit. Three deliveries are the least
for a listing, its refresh and a reuse, or for two racing deltas and a revoke;
two transactions are the least to race. Three settlements that pass over two
channels leave a waiter when one channel cools. The front's second workload has
two payments and a node that is one ledger behind, the least a retry can and
must outlast. One announcer's clock is ahead by more than the skew allowed, so its
heartbeats are first refused and later fresh for longer than the replay cache
remembers them. Two endpoints and a queue for one make the queue full; one crash
empties it. A window of no length closes between the query and the building of an
aggregate, as thirty days may. Three matching rows and a pool of two let a search
run past the pool; two rows on a filter let one leave it while a client is at the
other, and an answer to the listing hands out cursors that the search must refuse.
Pages of one row make the walks longest; that a client may change the page size as
it goes is left to the theorems.
TLC explores every interleaving of these, up to the names of the scheme's two calls
and of the two recompute loops (the symmetries used); the theorems below remove the
bounds for the safety properties.

Deadlock is not an error in these models (`CHECK_DEADLOCK FALSE`): calls,
events, restarts and ledgers are finite in number, so a run may end with
everything answered. That nothing ends too early is what the liveness
properties are for.

**Fairness.**
- `SettlePath`: weak fairness on each received call's own steps, which the queue
  timer, the retry delay and the bounded poll loop justify. None on the network
  (inclusion, expiry), on the operator or on clients.
- `CatalogOutbox`: the drain is started again by its timer; its own steps are
  weakly fair; marking, the Bazaar's answer and the removal are strongly fair
  per event, because each of them may fail any number of times but neither the
  disk nor the Bazaar refuses one event for ever. Crashes and damage are bounded.
- `GatewayPayments`: weak fairness on each request's steps: the upstream call
  has an `AbortSignal`, the facilitator calls end by the limits of the runtime's
  `fetch`. None on the ledger and none on admission.
- `CatalogSearch`: weak fairness on the client's own next page, since the property
  is about a client that goes on. None on catalog changes, which are bounded.

The other specifications state no fairness: their properties are safety. That a
waiter is served is stated for the scheduler and the pool as "nobody waits beside
what would serve it" (`NoServableWaiter`, `NoStrandedWaiter`), which needs none.

## 4. Disagreements found

1. **Two transactions can share a sequence number** (`shared_sequence`).
   The scheduler's comment promises they never do. When `sendTransaction` throws
   after a provider took the envelope, and no provider answers the
   reconciliation, `UptoStellarScheme.settle` fails without a hash (it is only
   assigned from the answer), the signer is not quarantined and the next
   settlement loads the same sequence number. `docs/architecture.md` line 535
   narrows quarantine to results that carry a hash, which is what the code does
   and what `UnresolvedHoldsSigner` confirms; the hash, however, can be computed
   before sending.
2. **A row can advertise an offer nobody made** (`catalog_advertised`). On conflict
   `ingest` (`ingestion.ts`, from line 231) updates asset and amount but neither
   network nor scheme; a delta updates all four. Each message is compared with the
   live challenge in full, yet a row that one scheme brought in and a settlement
   under another refreshed shows the first one's scheme with the second one's
   amount and is marked verified, although "HTTP listings must agree with the
   resource's live 402 challenge" (line 155) and the security matrix promises that
   all advertised terms are compared exactly
   (`docs/rfp/security-matrix-2026-09-06.md`, line 16). `ListedIsProven` says what
   does hold: each part of a row was offered together with the rest of the message
   it is from. Neither asks this of what a message calling itself mcp wrote: such a
   message is not compared with a challenge at all, and may rewrite an http row.

The following were met while modelling; each is a behaviour of the models that no
run singles out.

3. **A retry does not hold its lease**, although ADR-008 (line 80) says it does: the
   retry wraps the leasing call. Nothing is submitted twice
   (`OneTransactionPerCall`), but a retry queues again and may be refused as busy.
4. **Damaged outbox files starve healthy ones**: the batch is cut before files that
   do not parse are skipped, so a batch of damaged files hides every later event,
   although `docs/architecture.md` (line 531) says that replay drains
   automatically. `QueuedIsAnswered` holds with fewer damaged files than a batch.
5. **Earnings count a coalesced payment once per request**: each request that joined
   one settle call appends its own settled record, and `earningsSnapshot`
   (`app.ts`, from line 831) sums the records, against `docs/gateway.md` (line 122).
6. **A settlement can list two resources in turn**: ADR-004 says each settlement is
   spendable once, but only the row it backs remembers it, and a refresh of the
   listing overwrites that.
7. **A provider's fault can be charged**: with `ambiguousFailurePolicy` "settle" the
   SDK's hook settles every unusable outcome the caller is not at fault for, the
   provider's included, because the policy is applied before `providerAtFault` is
   looked at (`x402-provider-extension.ts`, line 132); `docs/provider-quality.md`
   (line 27) says such results skip settlement. `ProviderFaultIsNotCharged` excepts
   exactly this configuration.
8. **A transient rejection is final**: a Bazaar that rejects an event because its own
   Horizon lookup failed answers with the EXTENSION-RESPONSES header, and the
   outbox acknowledges the event.
9. **Paging by offset can drop rows** when a row before the client's place is removed,
   or rewritten by a later ingestion or delta so that the filters no longer match, and
   says nothing of it; `NothingSkipped` excepts walks in which a row left the listing
   (`lost`), and without the exception TLC finds such a walk at once. A cursor is an
   offset too. The MCP server's single page leaves out the `partialResults` flag.
10. **A delta's metadata is not screened** as a request's is: `applyCatalogDelta` never
   runs `validateExtension`, so the depth and the references of its specifications
   are unchecked (`SpecsStayLocal` is about requests).
11. **An early report may not be counted**: a report may be dated up to 30 s ahead of
   the Bazaar's clock (`crypto.ts`, line 180), but the recomputation it asks for leaves
   out what is dated after its own moment (`store.ts`, line 127), and nothing asks for
   another one later. Until the endpoint's next report no aggregate counts it.
   `NothingReportedIsLost` excepts exactly these reports (`Early`); without the
   exception TLC finds one left out in a few steps.

Met in the catalog and kept as hazards: two first deltas of a key race without a
lock, and the later commit wins over the greater revision, against
`docs/federation.md`'s deterministic order (`NewestWins` excepts exactly these
keys, `overtaken`; without the exception TLC finds the race in a few steps); the
sweep can quarantine a listing for terms a fresh ingestion has already replaced;
a delta that loses its listing to another payee is answered as applied.

Met in the gateway and kept as hazards: its write queue never heals
after one failed append; half a line in the event file makes every later paid
request a 500; a facilitator answer that is lost is answered "retryable", but a
retry fails the replay check of a payment that was charged; a replay verified
before the charge and settled after it is refused although paid. In the federation,
a heartbeat that arrives between subscribing and setting the handler is marked
as seen and never handled.

## 5. What is proved

Every safety property the passing runs check is also a theorem, for all values of
the constants that satisfy the assumptions named in the modules that declare them
(`NoneAssumption`, `PathAssumption`, `ContractAssumption`, `SchemeAssumption`,
`OutboxAssumption`, `CoordinatorAssumption`, `GatewayAssumption`,
`CatalogAssumption`, `ScreenAssumption`, `ChannelAssumption`, `ServiceAssumption`,
`FrontAssumption`, `FederationAssumption`, `PaidCallAssumption`,
`QualityAssumption`, `SearchAssumption`: typing of the constants, distinctness of
`None` and of the contract's address, finiteness where a cardinality is taken).
No theorem assumes fairness. One module of proofs may cover several components.

**SettlePath_proofs**: the scheduler. The invariant the runs check is not inductive
by itself. `IInv` adds that a lease and the state of its call agree (a call holds a
lease exactly while it is leased), and that tickets of waiters are distinct and
at most `totalQueued`, which is what makes "the waiters ahead" well defined when
`processQueue` serves the queue. A lemma about `Grants` carries the argument: a
grant function gives distinct idle signers to waiters they serve and leaves no
servable waiter. From it: `TypeCorrectness`, `LeaseExclusion`,
`PoolConservation`, `NoLostWakeup`, `FirstComeFirstServed` (an action property)
and `ImplementsExclusiveResource`, the refinement of `SignerLease` step by step.

**SettlePath_proofs**: the path. It extends the scheduler, so the scheduler's `IInv`
is lifted first: every action of the path either is a scheduler step, or leaves its
variables alone, or is the restart, after which it holds as it does initially.
`PathInv` adds what a call can have submitted, by how far it has come
(`Submitted`: only its current attempt, and only once it polls or is answered),
that a payment is charged at most once and is charged when a transaction of one
of its calls was applied (`Charged`), and that a pending transaction has a source
(`PendingHasSource`). Results: `DoubtHoldsSigner`, `SettledIsCharged`,
`RetrySubmitsOnce`, `BusyIsUnsent`.

**UptoSettlement_proofs**: the contract. `IInv` is `TypeOK /\ GuardOutlivesWindow`:
an authorization that was charged is guarded or past its window, so it cannot be
charged again, and another authorization with the same settlement id can rewrite
the entry only after it lapsed. `SettleMoves` shows that the transfers, through a
token that keeps whatever fee, add up to one exact movement once the balance
invariants pass. Results: `TypeCorrectness`, `GuardOutlives`,
`LeavesNothingStanding`, `ImplementsMeteredCharge`.

**UptoSettlement_proofs**: the scheme. `SchemeInv` carries the contract's invariant
into the composition and adds what each call has reached (`CallsAreAsRequired`)
and that charges and included calls are one to one (`IncludedIsCharged`,
`ChargeIsOfItsCall`). The guard of the contract is what keeps the second of two
calls with one authorization from taking the first one's charge for its own.
Result: `ExactCharge`. `VerifiedSettles` is an action property and needs an
argument about the contract alone: a token whose transfer leaves the contract's
balance as it was delivers everything (`AcceptedIsExact`), so a simulation of one
amount that passes shows that every amount up to the ceiling would
(`AcceptsAnyAmount`).

**Facilitator_proofs**: the pool and the lifecycle. `ChannelsAreExclusive` and
`WaitersAreServed` need four facts more: a settlement holds a channel exactly
while it works on it, the queue holds waiting requests, each once, a channel that
cools down without a timer running for it has a due one, and no settlement is
open while no process is up. `ClaimsConfirmed` needs that what was confirmed was
confirmed in this boot, step by step of `start()`.

**Facilitator_proofs**: the front. `LagIsOutlasted` rests on each attempt seeing at
least one ledger more than the one before (`SkewOK`). Its hypothesis is in the
property: the pause outlasts a ledger close, as `retry.ts` says, and no node is
further behind than the tolerance and the retries together. `LimitsAreOwn` is the
longest argument: a fixed window admits `MaxPerWindow`, so any interval of its
length meets two windows and at most `2 * MaxPerWindow - 1` admissions;
`WindowAt` ties the limiter's map to the history it has forgotten. `CountsAgree`
relates each counter to the set of calls it counts (`Balanced`): calls under way
are counted as asked and not yet as answered.

**Facilitator_proofs**: the outbox. `QueuedIsKept` is not inductive: removing a file
is harmless only because its event was answered (`AckedIsAnswered`).
`AnsweredStaysGone` needs that a marker is only written over a file that is still
there (`BatchOnDisk`), which rests on the drain being single flight
(`SingleFlight`): no second drain acknowledges what the first is delivering.

**RpcCoordinator_proofs.** `SubmittedOnce` and `UnavailableMeansUnsent` rest on a
request's stage telling whether it has posted; `FinalTrue` on what was heard from
truthful providers being the ledger's decision, which never changes;
`SteadyFound` on a steady provider staying in every loop until it is reached.

**GatewayPayments_proofs.** `MoneyInv` says that each way a request can come to
believe in a settlement (the success of the call it awaits, its stage, a settled
record) implies a charge; `TraceInv` that a payment is posted only with its
verification on disk. They give `OnlyPaidForwarded` and `ChargesTraced`;
`CallsCoalesce` and `TypeCorrect` need no more than themselves.

**CatalogIngestion_proofs**: the transactions. `EntryStep` and `RowStep` say what one
step of any transaction or sweep may do to one listing and to one key;
`PayeeFixed` (an action property) and `RevokedHidden` follow from them alone.
`ListingsProven` needs `ProofInv`: what a transaction has confirmed is told by how
far it has come, what a seller once offered stays in the record while the
transaction waits, and each part of a row goes back to one of two proven messages,
the writer its payee, site, terms and settlement, the namer its network and scheme
(`RowProven`). `NewestStays` needs `HolderIsNewer`: whoever holds a key's row
brings a newer delta than the row, and nobody else writes it, so the order of
deltas (`NewerOrder`) does the rest.

**CatalogIngestion_proofs**: the screen. `AdmittedProven` needs that what a passed
check showed still holds of the submission, whatever the site and the clock do
meanwhile (`UnderWay`). That a specification that passes refers to no other host
at any depth is an induction over its levels. The library's induction takes a
predicate for a parameter, so `UpTo` states it of a set of numbers and proves it
by the pigeonhole; `Iterates` uses it to show that the two recursions, the
screen's and the property's, have solutions.

**Federation_proofs**: the federation. `HandledInOrder` needs that the highest
sequence remembered covers everything handled since the start
(`HighestCoversHandled`); `OnlyOldNewsIsSuppressed` needs that what an announcer
has signed is ordered by sequence as by its clock, across its restarts, and below
its counter (`PublishedInOrder`). `ShownIsProven` needs `HonestInv`: the audit log
holds signed messages only, a transaction under way has counted no more than were
signed, and the times in a row are at most the allowed skew ahead of what was
heard. Results, for any announcers, clocks, bounds and orders of delivery:
`HeartbeatsInOrder`, `SuppressedIsOld`, `SequenceMonotone`, `ShownIsProven`.

**Federation_proofs**: search. A page is a stretch of one ranking: a row stands on
it at the number of visible rows before it (`Place`). No change reorders the rows
of the table (`OrderStays`), so one that takes no row out of the listing can only
raise that number. Of the rows that were there throughout, those whose place is
below the client's position have been seen (`Covers`), and each cursor the client still holds marks such a position
(`Marks`). That is `SearchInv`, and the last page ends it: `NothingIsSkipped`. In
a catalog at rest, without ties and within the pool, the place of the i-th row
seen is exactly i - 1, so no row repeats and none is missing: `RankingsAreHonest`,
with a leg that leaves a row out being full (`LegsAreFull`) for the pages that own
up to being cut.

**ProviderQuality_proofs**: the paid call. `CallInv` says what each stage of a call
has fixed: what the wallet signed it was shown, what was submitted is within the
ceiling, and neither changes while the seller works. Results: `ChargesInBounds`,
`FaultSkipsSettlement`.

**ProviderQuality_proofs**: the reports. `QualityInv` says where an observation that
no aggregate counts yet can be (`OnItsWay`: with a handler, in the queue, read by a
loop), or what lost it (`Excused`), with what a loop has read (`HasRead`) and built
(`HasBuilt`) counting every report that was not early (`KnowsAll`) and is in the
window; `EvidenceInv` that a cached aggregate was fresh when it was cached. A hold
without observations comes from `RefreshInsufficient` alone, so from a policy
configured for it. Results: `ReportsLeaveTheirTrace`, `HoldsAreRecent`.

**Stated by theorems alone.** Some properties are proved for every instance and not
repeated by a run: `LeaseExclusive`, `PoolPartitioned`, `GuardOutlivesWindow`,
`AnsweredStaysGone`, `UnavailableMeansUnsent`, `OneCallPerPayment`,
`PayeeNeverChanges`, `BusyMeansNothingSubmitted` and the type invariants.

**Only model-checked.** The liveness properties (`EveryCallAnswered`,
`QueuedIsAnswered`, the gateway's `EveryRequestAnswered`, `PagesEnd`): liveness
under fairness is out of the prover's reach. No module uses a RECURSIVE operator.

## 6. What the models leave out

- The exact scheme's internals are in a package outside this repository; its
  settlement is seen from the results `X402Facilitator.settle` handles.
- Signatures, digests and nonces are taken as unforgeable: an authorization is
  presented only if it was signed. The contract model does not rely on auth-entry
  nonces at all.
- Ledger archival of the replay entry and the network's cap on a TTL (about half
  a year) are out of `UptoSettlement`; amounts are integers, since i128 does not
  overflow on any balance a token can hold.
- HTTP framing, payload decoding, wording, metrics and logs.
- In `GatewayPayments`, header filtering, discovery metadata and the read-only
  management endpoints; the policy that holds sales is in `ProviderQuality`.
- In `CatalogIngestion`, the order in which a sweep selects: rows whose site always
  times out keep the oldest `last_verified_at` and can occupy every batch.
- In `ChannelPool`, keys, balances and sequence numbers; and a timer is taken not to
  run before `Date.now()` says its time is over, since a channel whose timer ran
  early would wait for another event to be freed.
- In `Federation`, peer lists, schemas, signatures and response times; an announcer
  signs no more messages per unit of its clock than the clock counts (`PerTick`),
  and is not restarted within such a unit.
- In `PaidCall` and `ProviderQuality`, what digests and signatures are made of, and
  payees that are contracts.
- In `CatalogSearch`, how relevance is computed, and the text of a cursor's
  fingerprint, which is taken to be the question: `cursor.ts` (lines 50-57) joins
  `key=value` parts without escaping, so that two questions whose text or tags
  contain `&` and `=` may share one and accept each other's cursors.
- Multi-instance deployments: each model has one process, as the code's
  in-memory state assumes.

### Not modelled

- **upto escrow contract** (`contracts/upto_escrow`): its README and
  `docs/architecture.md` call it obsolete and not to be deployed.
- **The older mesh** (`p2p/mesh.ts`): nothing starts it; `P2PNode` replaced it.
- **Canonical forms and cryptography**: pure conversions, hashing and signing.
- **Metrics and logging**: output only.
- **Database plumbing, embeddings, evaluation** of the Bazaar: connection settings, a
  migration script, calls of an embedding provider, an offline measurement. Its
  rate limiter is the facilitator's fixed window, which `FacilitatorFront` models.
- **Gateway configuration and command line**: a file read once; reports.
- **Client wrappers and demonstrations**: stateless; what they share with the
  agent's tool and the sellers' integrations is in `PaidCall`.
- **Drills, scripts, playground**: they exercise or show a deployment.

Of the parts marked "partly", `ChannelPool` lacks the channels' sequence numbers,
`Federation` the peer management, and `PaidCall` the discovery tool and the demo's
own tools; none of them holds state that a property here relates.
