# Web-Scrapper: a TLA+ model of the deal pipeline

The repository is a set of Python services that watch four marketplaces, score
what they find and tell people about it. The services share nothing but Redis
streams (`libs/event_bus`) and one PostgreSQL database. This directory models
the services that exist as code, model-checks them with TLC, and proves their
most important properties with TLAPS.

## 1. What the system is made of

| Component | State | Operations | Talks to |
|---|---|---|---|
| **Marketplace Connector** `services/marketplace-connector` | one process per marketplace; in memory: the counts of the poll and of all polls | poll a source, map and normalise each item, skip what is malformed, publish `LISTING_DISCOVERED` item by item | source → bus |
| **Event bus client** `libs/event_bus` | Redis: streams, group cursor, pending list. Process: the batch being worked on | `publish`, `ensure_groups`, `read`, `_parse`, `ack`, `consume` | every service |
| **Processed-event marks** `libs/event_bus/dedup.py` | table `processed_events` | `is_processed`, `mark_processed`, `process_once` | Deal Engine, Revalidation |
| **Deal Engine** `services/deal-engine` | tables `listings`, `products`, `brands`, `price_history`, `deals` | `handle_listing_discovered`, `handle_user_interested`, `score`, `resolve_brand`, `_upsert_listing` | bus → database → bus |
| **Revalidation Service** `services/revalidation-service` | in memory: the last prices of the announced deals (`DealReferences`), at most `max_deals` | `handle_deal_scored`, `handle_revalidation_requested` within a time budget | bus → live listing → bus |
| **Event Store Consumer** `services/event-store-consumer` | table `events` | `persist` | every stream → database |
| **Validation rules** `libs/validation_rules` | none | the 2 % price tolerance | Revalidation |
| **Schema** `infra/postgres` | unique keys, the `events.seq` sequence | | all of the above |
| Telegram bot, order planner, purchase agent, account-, inventory- and ML service, API gateway, dashboard | | empty files: only the contracts under `ZIP_13_ENGINEERING_CONTRACTS` describe them | |

What makes it hard:

* **Several workers per service, one entry per transaction.** Two scans of one
  listing run on two workers; under READ COMMITTED neither sees the other's
  writes. An upsert's unique key, a `SELECT ... FOR UPDATE`, an advisory lock
  keyed by a hash and the insert of a dedup mark are the only things that order
  them, each taken at a different statement.
* **Two systems, no common commit.** Deal Engine publishes `DEAL_SCORED`
  *inside* the transaction that inserts the deal and acknowledges *after* its
  commit; Revalidation publishes *before* it marks. Every gap between two of
  these steps is a place where a process can end.
* **The pending list.** A worker whose handler raises leaves its entry pending,
  and a read with `>` never returns a pending entry.
* **Duplicates.** The bus does not repeat an entry, but a publisher whose reply
  was lost may publish the same envelope again, and the copy can be on another
  worker while its original is being handled.
* **Memory next to a cursor.** The Revalidation Service's projection dies with
  its process, the group's cursor does not.
* **Pages that nobody controls.** Four marketplaces name the same amounts and
  stock signals in four ways, as numbers or as quoted texts; one field of one
  record can be malformed, too wide for its column, or such that reading it
  raises something that the poll loop does not catch.
* **Names that are nearly equal.** A brand is looked up without regard to case
  and kept unique with regard to it; the tier is looked up by the raw name, the
  row is created under the cleaned one.
* **Time.** A revalidation's budget is checked at several points, the read and
  the publish in between take time.

`PROJECT.json` lists each of these hazards at the line where it bites, with the
property that would catch it going wrong.

### What correct means, component by component

* *Event bus*: whatever was delivered is acknowledged or pending for exactly
  one worker; nothing is acknowledged before its handler returned, except
  malformed entries; the bus never repeats a handler, and what a failed worker
  had in hand is never touched again.
* *Deal Engine*: at most one open deal per listing; the mark of an entry and
  its writes commit together or not at all; an acknowledged entry is marked;
  every deal in the table was announced; a listing's row shows a recorded
  observation of that listing; a deal moves along the edges of its state
  machine only, and a terminal one at most to `EXPIRED`; copies of one event are
  applied at most once per worker; transactions never deadlock; every entry is
  handled in the end.
* *Scorer*: what a deal is measured against was claimed by its own listing or
  observed within the window; no component leaves its weighted range; of two
  prices of one listing the lower never scores worse.
* *Revalidation*: an answer is about a deal that was announced, from a live
  read made for this request inside the budget; at most one answer per entry,
  and one per replica and failure for all the copies of a request;
  nobody is let through with a price more than 2 % off the announced one;
  only the deal announced longest ago is forgotten, and only when the projection
  is full of others; without a failure no request is lost but one that is refused
  and those read behind it.
* *Connector*: whatever the marketplace and the form of its fields, a published
  price is what the page asks and a published "in stock" can be bought; a
  malformed item costs itself only; what was published before a failure stays,
  in the order of the batch; what the nine rules let through, the event's
  schema accepts.
* *Catalogue*: a sound page is catalogued in the end, although a process fails on
  the way, as long as no page of the feed ends a process by itself; a product hangs
  on a row of its own brand; a brand in several
  spellings has at most one row for each worker; a listing is scored with its
  brand's row unless its name is not spelled as it is stored; transactions that
  create brands and listings never deadlock.
* *Event Store*: every event is stored once, never changed, in stream order per
  replica, before its entry is acknowledged: the table is a log.

## 2. Modules

| Module | Models | State and code |
|---|---|---|
| `EventDelivery` | abstract: what a consumer group promises | `waiting`, `held`, `settled` |
| `ConsumerGroup` | `event_bus/consumer.py`, `publisher.py` | `length`/`cursor`/`pel`/`acked` are Redis; `mode`/`raw`/`batch` are the process: `raw` what `_read` returned, `batch` what `_parse` let through |
| `DealLifecycle` | abstract: the deals table as `STATE_TRANSITIONS.md` draws it | `status`, `overdue` |
| `DealEngine` | `handlers/event_handlers.py`, `main.py`, the repositories and `deal_writer.py`, with `dedup.py` | tables as sets and functions; `pc[w]`/`job[w]` the handler's position; `txn[w]` its uncommitted writes and the locks it holds |
| `Revalidation` | `handlers/event_handlers.py`, `main.py`, `deal_reference.py`, `revalidator.py` | `refs[w]` the ordered projection; `clock`, `started[w]` the budget; `seen[w]` the live read; `answers` the result stream |
| `RevalidationDesk` | abstract: what a user who taps is promised | `asked`/`told` the requests and the deals it knows; `answers`; `closed`/`refused` the requests that are over |
| `Scoring` | `services/scorer.py`, `price_history_repo.py` | one listing: `history` its observations by day, `open` its open deal; `deals` what was scored against what |
| `EventStore` | `handlers/event_handlers.py`, `main.py`, `event_repo.py` | `lastSeq` the sequence; `rows` the table; `writing` open inserts |
| `EventLog` | abstract: what the event store promises of the table `events` | `sent`, `last`, `log`, `confirmed` |
| `RawMapping` | `base/raw_mapping.py` | pure: how one field of a raw item is read; the result is a value, `ParseFailedError` or another exception |
| `Listing` | `connectors/*/connector.py`, `selectors.py`, `base/normalizer.py`; the schema of the event and the columns | pure: `Normalize` a raw item, `SchemaAccepts` and `Fits` a product |
| `ListingStream` | the stream between the next two | `stream` its entries; `faults` the bound on failures |
| `Connector` | `marketplace-connector/src/main.py`, `connector_interface.py` | `feed` what the source offers; `at`/`next`/`product` the process's position; `batch`/`totals` the two `BatchResult`s |
| `Catalog` | `_upsert_listing`, `resolve_brand`, the tier lookup and the repositories they use | `brands`, `rows` the tables; `phase[w]`/`job[w]`/`txn[w]` a worker and its transaction |
| `Ingestion` | the two together, and their properties | |
| `ConsumerGroupProofs`, `DealEngineProofs`, `ScoringProofs`, `RevalidationProofs`, `EventStoreProofs`, `ListingProofs`, `IngestionProofs` | theorems | |
| `MC...` | constants for TLC | |

How they compose. `ConsumerGroup` implements `EventDelivery` (checked and
proved), and the three services take `EventDelivery` as their bus
(`Bus == INSTANCE EventDelivery`): `Take` is a delivery, `Ack` is a settlement,
and an entry whose worker failed stays held, for ever. `Revalidation` and
`Catalog` read batches as `ConsumerGroup` does, because there a handler raises by
itself and takes the entries behind it along; `DealEngine` and `EventStore` take
one entry at a time (see the abstractions). `DealEngine` in turn
implements `DealLifecycle`, `EventStore` implements `EventLog`, and `Revalidation`
implements `RevalidationDesk`. `Scoring` fills in the decision that `DealEngine`
leaves nondeterministic (`WriteDeal`): there a scan is many steps and the score
a coin, here a scan is one step and the score is computed. `Ingestion` is the way
to that point: `Connector` writes the stream that `Catalog` reads, through
`ListingStream`. `Catalog` and `DealEngine` are two views of one handler. The
former has the brand, product and listing rows with their names and keys and
leaves out price history, deals, marks and acknowledgements; the latter has
those and leaves out the brand. In both an entry whose worker failed is not read
again, which is what `ConsumerGroup` shows of the bus.

One action per statement that another process can come between. In `DealEngine`
a scan runs `CheckMark`, `FindListing`, `UpdateListing` or `InsertListing`,
`Record`, `LockListing`, `WriteDeal`, `PublishDeal`, `Mark`, `Commit`, `Ack`; a
tap runs `CheckMark`, `LockDeal`, `Judge`, `Mark`, `Commit`, `Ack`. A statement
reads what is committed at that moment; its writes stay in `txn[w]` until
`Commit`; a statement that would wait for a lock is disabled. `Fail` can come
between any two of them. A worker of `Catalog` runs `Take`, `FindListing`, then
`UpdateListing` or `ResolveBrand`, `CreateBrand`, `RereadBrand`, `StoreListing`,
then `LookUpTier`, `Commit`, which turns to the next entry of the batch; `Misfit`
is the statement that a column refuses, and drops the rest of the batch. A
replica of `Revalidation` runs `Take`, `CheckMark`, then `Record`, or `Lookup`,
`Admit` (the first budget check), `Read` (any time later), `Judge` and `Recheck`
(the two late checks), `Answer`, then `Commit` and `Ack`, which turns to the next
entry of the batch; an unknown deal ends the process in `Lookup`, and its batch
with it. A
connector runs `BeginPoll`, for each item `SkipItem`, `ChokeOnItem` or
`NormalizeItem` and `Publish`, and `EndPoll`.

Definitions called `Bug...` are mutated forms: each drops a guard, a lock or an
order that the definition after it has, and stands beside it so that a reader
sees the difference. `PROJECT.json` pairs every checked property with the
mutation that breaks it.

### Abstractions

* An entry is `<<stream, position>>`; its content is a model value. A copy of an
  event is an entry whose `origin` is another entry.
* A worker of `DealEngine` or `EventStore` takes one entry at a time: an entry
  counts as delivered when its worker turns to it. What is left out is that an
  exception drops the entries behind it, which were delivered with it. In these
  two modules nothing raises but what `Fail` counts (a tap on an unknown deal is
  answered by a log line, not by an exception, and a value too wide for a column is
  `Catalog`'s), and an entry that is dropped before its handler began is an
  entry of a worker that failed at its first statement: a behaviour of the same
  model with more failures. Their safety theorems hold for every `MaxFaults`, and
  their liveness properties ask for no failure at all.
* A read of `Revalidation` or `Catalog` returns the oldest new entries, up to
  `BatchSize` of each stream. A lost reply of XREADGROUP is `ConsumerGroup`'s; to
  these modules its entries are those of a worker that failed right after `Take`.
* Of `Revalidation`'s streams the reply has the announcements before the requests,
  as `CONSUMED_EVENT_TYPES` lists them, and `consume` keeps that order.
* Whether a scan clears the scoring thresholds (in `DealEngine`) is
  nondeterministic. What a live read shows (in `Revalidation`) is any price of
  `LivePrice`, in stock or not; the verdict on it is computed. `Decimal` divides
  with 28 digits; the model multiplies out, which decides the same for prices
  that fit their columns.
* A raw item is a function from the paths that hold something to JSON values,
  and a value is its type, its form and a number or a content (`RawMapping`).
  Words keep their length and their meaning, amounts are thousandths of a rupee.
  Next to its raw fields an item carries what its page means, the amount asked,
  the amount struck out, whether it can be bought: the code never sees it, the
  properties go by it. Of Amazon's, Flipkart's, Myntra's and Nykaa's fields
  title, id, url, brand, money, currency, stock, rating and reviews are modelled.
  Amazon's connector has its own copies of the helpers; they are one definition
  here except where they differ (`AmazonReads`).
* `Catalog` takes one marketplace at a time, the feed's: listings of different
  marketplaces share no key. A brand row is its name.
* `Scoring` computes in integers: hundredths of a point, tenths of a star. The
  code computes in floats, and differs in two places only. Which way `round`
  takes an exact half depends on the float; and four components that add up to
  exactly 40.00 may sum to a float just below `min_score`. Both are left open
  (`Floats`). Prices are within the `INTEGER` columns, where a float is exact.
* `Scoring` takes scans of one listing one after the other, as the row lock of the
  `listings` update does. The one scan that holds no row lock is the loser of
  the race to insert the listing; what it may fail to see is its rival's first
  observation.
* A killed process's transaction rolls back at once. PostgreSQL notices the lost
  connection a little later; until then its locks are held as by a slow worker.
* The columns the guards do not read, logging and the metrics are left out.
* Deals move outside the engine along the edges of `STATE_TRANSITIONS.md` that
  `MCEdges` lists, by one statement each (`MoveDeal`): no code for those services
  exists, and they are assumed to leave terminal deals alone.
* Handlers raise only where `Fail` says so, and every failure counts towards
  `MaxFaults`. Three exceptions are part of a handler and happen as often as the
  code makes them, without being counted: `UnknownDealError` (`Lookup` of
  `Revalidation`), a value too wide for its column and a brand row that cannot be
  read again (`Misfit`, `RereadBrand` of `Catalog`). Each ends its process and drops
  the rest of its batch.

## 3. Runs

| Run | Bounds | States | Shows |
|---|---|---|---|
| `bus_delivery` | 2 workers; streams of 2 and 1 entries; batches of 2; 1 failure or lost reply | 61 426 | pending-list accounting, acknowledgement after handling, no repeated handler, nothing abandoned is taken up again, no failure leaves more than a batch behind, settlement without failures, refinement of `EventDelivery` |
| `bus_redelivery` | same, replies not lost | **violated** | a pending entry is not retried (finding) |
| `deal_scans` | 2 workers, 1 listing, 3 scans (copies included), 1 failure | 310 877 | one open deal, mark with work, announced deals, backed listings, no circle of waiting transactions, copies applied at most once per worker |
| `deal_live` | 2 listings sharing an advisory key, 2 scans, 1 tap, expiry, outside moves | 149 042 | refinement of `DealLifecycle`, by which a terminal deal at most expires; whoever waits for a row, a key or a mark gets it |
| `deal_terminal` | 2 scans, 2 taps | **violated** | a late tap rewrites a terminal deal (finding) |
| `revalidation` | 1 replica; 2 announcements of deals at 50 and 52, projection of 1; 2 requests (copies included), batches of 2; live prices 49, 51; budget 1, clock to 2; 1 failure | 452 452 | refinement of `RevalidationDesk` (one answer at most per entry, about a deal that was announced, by the line of 2 %); the read inside the budget however late it comes back; few answers to copies; only refusals lose requests |
| `reval_restart` | 1 deal, 1 failure | **violated** | the projection does not survive a restart (finding) |
| `event_store` | 2 replicas, streams of 3 and 1 entries, 1 failure | 206 172 | refinement of `EventLog` (stored once, never changed, before the acknowledgement); the order of one replica; that every entry is stored |
| `scoring` | 4 prices, MRP 100 or none, 2 appeals, 3 scans, 3 days, window of 1 day | 52 848 | real references, component ranges, a cheaper observation never scores worse |
| `ingestion` | 2 workers, 1 failure; every page of `MCIngestion` once, 4 feeds of several brands, 6 feeds polled 2 or 3 times; batches of 2 | 76 711 | the money and the stock of every page, the batch in the stream, brands and tiers, no circle of waiting transactions, no refused publish, and that every sound page is catalogued |
| `nykaa_stock` | a Nykaa page that says it is unavailable | **violated** | it is published as in stock (finding) |
| `first_seen` | same as `scoring` | **violated** | a first observation earns full velocity credit (finding) |

Why these bounds. Two workers give every race the code can have between two
transactions. Two scans are not enough for the advisory lock to matter: if the
listing exists, its row lock serialises them, and if it does not, the unique key
does. With three, the first creates the listing and fails to clear the thresholds,
or its deal is closed by expiry or another service, and the next two race. One
failure is placed by TLC at every statement of every worker. A stream of two entries
shows order and one batch of two; two deals are one more than the projection of
`revalidation` holds, so that a request finds its deal forgotten, is refused, and
another one was read behind it; a budget of one tick lets the clock pass it before
the read, during it and after it. Two requests are an original and its copy,
and no more than a batch: that COUNT cuts a batch short is `bus_delivery`'s and
`ingestion`'s to check, and the theorems hold for every `BatchSize`. A second
replica next to all this would be more states than a run can visit; the theorems
have any number. The prices of `scoring` are chosen at the edges of the scorer's
curves: 15 % off exactly, full and almost full discount credit, within and beyond 20
% of the lowest price, and a total of exactly 40. Three days are one more than the
window holds. The live prices of `revalidation` lie on the upper and on the lower
edge of the band around one deal, inside and outside the band of the other.
`ingestion` takes each marketplace's pages one at a time: the same offer in every
form (number, quoted, grouped, with a rupee sign, on every path the selectors name),
every way to say that it can or cannot be bought, and every field once in every odd
form (blank, too long, of the wrong type, foreign, infinite, beyond the column,
beyond a float). The amounts are a half and more than a half of a paisa off a whole
one. Pages need no company, since `normalize` reads one item; what they do to the
rest of a batch takes one page of each kind before or after a sound one. Where a
failure is to lose every entry of a page, it loses those of one batch: two here, so
that the third poll brings one more than the one failure can spoil. Three spellings
on two workers are one more than can be created at once. Copies are not a separate
case: any entry of a stream may be a copy of an earlier one. `CopiesAreBounded`
needs more of them than its bound: three scans of one event id for two workers.

Symmetry (`Workers`) is used in `deal_scans`, which checks only invariants.
Deadlock is not checked in any run: every entry may have been handled, and then
the system stands still as it should. That nothing waits for ever before that is
what the liveness properties say; `NobodyWaitsInACircle` says it of transactions
with failures too. PostgreSQL would break such a circle by failing one of them,
and the entry of that one would stay pending for ever.

Fairness. `FairSpec` of each module is `WF_vars(Work(w))` for each worker `w`: a
process that can take a step takes one, and one that ended is started again
(`restart: unless-stopped` in `docker-compose.yml`). The workers of a service
are separate processes, so one of them cannot be kept from running by another
except through a lock. Nothing is assumed about publishers, failures, the clock
or the other services. In `Ingestion` the connector is one more such process: it
polls for ever in the code, `polls` times here. The liveness properties of the
passing runs are conditional on no failure, or run with none: with failures they
are false, which is what `bus_redelivery` shows. `EveryGoodListingIsCatalogued` is
the exception. It holds with a failure, because the source offers the page again
at the next poll, under conditions on the feed that the code makes necessary:

* no record at or before the page makes the connector raise, or the page is never
  reached;
* there are more polls than `MaxFaults * BatchSize`: entries of two polls may lie in
  one batch, and a worker that fails loses the batch. With as many polls as
  failures plus one TLC finds both entries of a page lost to one failure;
* no page of the feed is too wide for a column: its handler raises at every poll,
  and what was read behind it is dropped, the sound page included, with no failure
  at all. TLC finds that too when the condition is dropped.

`OnlyRefusalsLoseRequests` counts refusals no more than the code does: the requests
it lets go are the refused one and, of the same stream and within `BatchSize`
behind it, those that the same process holds and had not begun. Without a failure
whatever else is published is acknowledged: every announcement, and every request
that waits while the process is down.

## 4. Proofs

The seven proof modules prove, for any number of workers, streams, listings and
entries, any batch size, cap and budget, any lock-key collisions, any number of
failures, any prices, claims and ratings, any feed of raw items and any brand names,
every safety property that the passing runs check; two of them,
`BatchIsTheGoodPrefix` and `StockIsReal`, under a condition on the feeds (see
`IngestionProofs`). The assumptions are the named `ASSUME`s of the modules: streams
have distinct ranks, bounds are natural numbers, scans and taps are disjoint pairs,
the other services neither move terminal deals nor delete rows, a price is at least
1 and fits its column, a rating is between 0 and 5 stars, there are finitely many
workers, a batch is a sequence of items whose fields are JSON values with no empty
words, `None` is no number, flag or text, an offer's amounts are what its page
states where its marketplace states them (`OfferAssumption`), and `Name` has the
spellings that the feeds use, cleaned ones included.

**`ConsumerGroupProofs`.** Accounting (`DeliveredIsAccountedFor`) is not
inductive: `Ack` removes an entry from `pel[w]`, and that it is one of `w`'s
entries is only known because a worker's memory holds nothing else. `Inv`
therefore joins type correctness, the accounting, `MemoryIsPending`, and the
shape of the loop: `GroupedOnceRunning` (a worker that runs has created the
group), `BatchIsValid`, `RawOnlyInParse` and `BatchOnlyInLoop` (which memory is in
use in which mode), `RawBatchApart`, `MalformedIsAdded`, `HandledIsDelivered`,
`AckIsDue` (in mode `acking` the first of the batch was handled) and
`HandledInMemory` (a handled entry that is still in somebody's batch is the one
about to be acknowledged). The last two give `HandledAtMostOnce`. `ImplementsDelivery`
maps each step to `Add`, `Deliver`, `Settle` or a stutter; that `Read` delivers the
oldest entries first comes from the cursor. `AbandonedIsNeverRetried` is the proof
behind the first finding: an entry that is pending for a worker and in nobody's
memory stays so at every step (`StaysAbandoned`), because a read takes entries
beyond the cursor only and an acknowledgement the first of a batch. It is an action
property of any state, not a counterexample in one behaviour. How much that can be
is `LossIsOneBatchEach`: of one stream a failure or a lost reply leaves at most
`BatchSize` entries behind. A failure abandons what the worker has in memory, so the
bound needs that no memory ever holds more than a batch of a stream (`MemoryFits`),
which is what `NextCursor` reads. Without a failure nothing is left behind at all
(`NothingLostWithoutFailure`), and of what is left at most one entry per failure was
already handled (`OneHandledEntryEach`): a reclaim would repeat no more handlers
than that.

**`DealEngineProofs`.** That a listing has one open deal depends on what other
transactions have *not yet* committed. `Inv` therefore says, for each worker, what
its position implies about its transaction: `JobOK` (position, job and held
entry agree), `TxnOK` (which effects it can have gathered), `DealOK` (a pending
insert of a deal holds the advisory lock of its listing, no open deal of that
listing is committed, and none will be until it ends), `RowOK` (a pending tap
holds the row, so the status it judged is still the status), and `LocksOK`: no two
workers hold the same lock, be it an advisory key or a deal's row. `EntriesOK`
ties the bus to the tables: an entry is in one place of the bus, a published
scan is about a listing and a published tap about a deal, a row of the price
history belongs to an entry that a worker has taken, and so does every product.
`Safe` is the conjunction of the safety properties. The refinement
theorem maps `Commit` to insert, expiry or interest, and everything else the engine
does to a stutter; `TerminalDealsOnlyExpire` follows from it, since `DealLifecycle`
has one action that touches a terminal deal. `NoDeadlock` needs the order in which
locks are taken: `LockOrder` says that a worker holds an advisory key only past
`LockListing`, a deal's row only past `LockDeal` and a mark's key only at its commit.
So in a set of workers that wait for each other nobody is at the mark, hence nobody
at the advisory key or a deal's row, hence everybody at a listing's, which is the
first lock of all and held by none of them. `CopiesAreAppliedRarely` counts: the
observations of an event id and the workers that may still record one
(`MayRecord`) are together at most as many as there are workers. A worker enters
the count when it finds no mark, and then nothing of the id is recorded yet.

**`ScoringProofs`.** The invariant is the conjunction of the properties; the work
is below it. Integer division is monotone and rounds into its range (`Division`,
`RoundedRange`, `RoundedMonotone`); a set of prices has a least and a greatest
element (`LeastExists`, from the well-foundedness of strict inclusion on finite
sets), so that what `stats` returns are prices that were observed (`Extremes`).
From these, each component stays in its range. That a lower price never scores
lower is not obvious because scoring a price adds it to the window it is compared
with: `WindowsAgree` shows that the two windows have the same highest price when
it exceeds the higher of the two, and the same lowest when it is below the lower,
which are the cases in which the score depends on it. `FirstSeenIsCreditedInFull` is
the fourth finding for all values: the window of a listing that was never seen
holds its own price alone, so every such deal has the whole credit, and is
measured against its own claim because nothing observed lies above it.

**`RevalidationProofs`.** A worker's answer rests on what its process was told and
read some steps before. `InOnePlace` and `JobIsHeld` say where an entry is;
`RefsAreTold` (a deal in a projection was announced and its announcement delivered)
survives because entries never come back, and `AskedIsTold` carries it to a worker
that has looked its deal up and may since have lost it. `ReadIsFresh` says what is
known of a read at each position: that it came after the budget started as soon as
it is there, and that it lies inside the budget only behind `Judge`. The read begins
after a check and ends at any later time, so before `Judge` it may be late, and
`FreshAnswers` rests on the checks behind it. `NotYetAnswered` is what makes
`AnsweredOnce` inductive: a worker before its publish holds an entry that has no
answer, the rest of its batch has none either, and `AnswersAreOut` that an answered
entry cannot be delivered again. The 2 % rule is linear arithmetic once the verdict
is recorded (`AnswersAreJudged`). `WithoutLemma` and `RememberLemma` say what the
`OrderedDict` does: the result is injective, within the cap, and has lost one deal
at most, that one the first of the queue, and only at the cap. `EvictsTheOldest`
says it of every step (`EvictsOnlyTheOldest`, in no run). `CopiesAreAnsweredRarely`
counts in two stages, since answers precede the mark: until the mark is in, there
are no more answers than workers about to mark and failures; so when it commits,
answers and workers still answering come to no more than workers and failures, and
after it nobody joins (`Counted`). `ServiceImplementsDesk` maps an answer to
`RevalidationDesk`'s and everything else the service does to a request or a batch of
deals that becomes known, a request that is given up, or a stutter. It needs three
facts more: a request that was refused stays with the process that refused it,
outside its batch, unanswered and unacknowledged (`RefusedIsOver`), no read is dated
ahead of the clock (`ReadIsPast`), and an entry that was not yet published is about
no deal (`NewHasNoDeal`). `ForgottenForGood` and `RestartForgets` are the third
finding for all values. A process that starts has not heard of any deal whose
announcements are delivered, and no step but a new announcement makes it hear of it,
because a projection grows by the entries that its own worker has in hand or in its
batch, and entries do not come back.

**`EventStoreProofs`.** `StoredOnce` needs the wait of the unique key: two inserts
of one event are never both past `Insert`, and none of them is of an event that is
stored (`WritersAreApart`); a number that was drawn is nobody else's (`SeqIsOwn`).
`ReplicaKeepsOrder` needs that it is above all that the same worker stored before
(`SeqIsLater`), and that the worker's entry is behind them in its stream
(`JobIsNewest`), which comes from the streams being delivered without gaps and
oldest first (`StreamHasNoGap`, `WaitingIsNewer`). `StoreImplementsLog` puts these
together: `Draw` gives out a number, the commit of an insert adds to the log, an
acknowledgement confirms, and the copy of an event is a stutter.

**`ListingProofs`.** What `Normalize` makes of any raw item of any marketplace: what
`validate()` returns, the schema accepts (`NormalizedIsAccepted`), and its price and
mrp are the first amounts on the paths that the connector reads, to half a paisa
(`NormalizedMoney`, `FirstPaiseIsFirst`, `PaiseAreNearest`); rounding keeps the order
of amounts (`RoundingKeepsOrder`). The rules and the schema are two texts with
different bounds. A title is measured stripped by the one and as it is by the
other, so the trim of the title is what makes them agree.

**`IngestionProofs`.** The first part is about the stream. `PublishNeverRejects`
follows from `ListingProofs` because the product in hand was normalised from the
item at `next` (`InHand`). `Faithful` says the same of every entry: it is what
`Normalize` makes of the item it names. With `OfferAssumption` this gives
`SameOfferSameMoney` (`MoneyIsTheOffers`): the assumption says where each marketplace
states an offer's amounts, apart from the paths that the connectors read, and the
theorem that they read those, in that order, and do not swap them. In the same way
`SaysInStock` says what a page says of its stock: the first of its marketplace's
places that holds a value of the kind kept there (a flag, a count, a list of sizes, a
text), and whether that is a yes. `StockIsRelayed` needs no assumption: what is
published as in stock is what the page says, silence is a no, and prose overrules
no flag. `HonestStockIsReal` is `StockIsReal` for feeds whose pages mean what they
say (`MeanIt`, which TLC evaluates on all pages of the run `ingestion`); the page of
finding 5 does not. `PollInOrder`
is the order of a poll: the entries it published are the items it accepted, once
each and in their order. Where the labels of the pages are right
(`PagesAreLabelled`: sound and wide pages are those that normalise) it is
`BatchIsTheGoodPrefix`; that they are right in the feeds of `MCIngestion` is what its
run shows. `Counted` bounds the two `BatchResult`s by what was read
and published. The second part is about transactions. No
two of them hold one listing (`Apart`), which the unique key and the row lock
bring about. `ProductHasItsBrand` needs that a worker
past `resolve_brand` has a committed row or its own (`Progress`). That a brand
splits into at most as many rows as there are workers is not inductive: nothing in
it keeps a worker from adding one more. `RaceIsBounded` adds to the committed
spellings of a brand the workers that may still add one (`MayAdd`: it found no
row when it looked, and has not finished); a worker that looks once a row is
committed never enters the race, and one that commits leaves it. `TierIsSeen` asks
what a worker found in the tables when it looked, and holds later because rows
are never deleted (`MissesAreSpared`). That nobody waits in a circle comes from the
order of the two unique keys: a worker that holds a listing's is past its brand
(`NoDeadlock`). The batch enters through `upto`: what a worker has left of it lies
between its entry and the last one delivered (`TurnFrame`, `BatchEndFacts`).

**Proved and in no run.** What follows from a refinement that a run checks is a
theorem and no property of a run: `EventsAreStoredOnce`, `AckFollowsCommit` and
`NothingStoredIsLost` beside `ImplementsLog`, `TerminalDealsOnlyExpire` beside
`ImplementsLifecycle`, `GroundedAnswers` and `OneAnswer` beside `ImplementsDesk`. Nor
are `WorkIsExclusive` and `AckFollowsMark`, which other invariants rest on;
`NothingLostWithoutFailure` and `OneHandledEntryEach`, which sharpen
`LossIsBounded`; the general forms of findings 3 and 4; `StockIsRelayed`; and
`EvictsTheOldest`, which says of every step of the projection what its cap in
`TypeOK` says of every state. `revalidation` has one replica, so the race of two for
the copies of a request is in the theorems only (`CopiesAreAnsweredRarely`,
`ServiceImplementsDesk`).

Only model-checked. Liveness is out of the prover's reach: `PublishedIsSettled`,
`PublishedIsHandled`, `OnlyRefusalsLoseRequests`, `PublishedIsStored` and
`EveryGoodListingIsCatalogued` are TLC's. That the pages of `MCIngestion` are labelled
as they normalise (`PagesAreLabelled`) and mean what they say (`MeanIt`) are
conditions of one theorem each, and hold by evaluation.

## 5. Findings

Each is a run with a counterexample; `PROJECT.json` quotes the two sides.

1. **Pending entries are never retried** (`bus_redelivery`). `consume()` lets an
   exception through, the entry stays pending, and nothing in the repository
   claims pending entries (`AbandonedForGood`, checked and proved). The comments in
   `consumer.py` and in the services' `main.py` say Redis redelivers it.
2. **A terminal deal can be rewritten** (`deal_terminal`). The expiry guard comes
   before any check for a terminal status other than `EXPIRED`; a late tap turns an
   `IGNORED` or `ORDERED` deal into `EXPIRED`. Nothing else can happen to one:
   `TerminalOnlyExpires`, proved.
3. **The projection does not survive a restart** (`reval_restart`). The group's
   cursor is past the deals it acknowledged. That no deal comes back by itself is
   proved (`RestartForgets`, `ForgottenForGood`).
4. **A first scan is its own history** (`first_seen`). The observation is recorded
   before the window is read, so a listing seen for the first time gets the full
   25 velocity points; the scorer's comment says it gets none. Every such deal does:
   `FirstSeenIsCreditedInFull`, proved.
5. **Unavailable counts as available** (`nykaa_stock`). Nykaa's stock status is
   searched for "available" anywhere, and "Currently unavailable" contains it.
   The comment above the markers thinks of "Out of stock" and "Sold out" only,
   and Amazon's selectors name this very phrase as one that must not count. On
   pages that mean what they say there is no such case (`HonestStockIsReal`).

Known divergences that have no run of their own:

* *Copies of an event can both be handled.* `process_once` ignores that
  `mark_processed` returned `False` (`dedup.py:107`), so of two workers that passed
  `is_processed` the second commits its work too. `dedup.py:3-6` says it is skipped.
  What survives is checked and proved: one mark, one open deal, and at most one
  observation per worker (`CopiesAreBounded`). In the Revalidation Service it is one
  answer per replica and failure (`CopiesGetFewAnswers`, checked and proved).
* *The budget is not the Bot's.* It starts when the handler is called
  (`revalidation-service/src/main.py:69`), not when the request was sent, as lines
  7-9 of the same file say. What it does bound is `AnswersAreFresh`.
* *One record can stall a marketplace.* A price of 10^26 rupees or more, a rating
  beyond a float, a Nykaa review count in superscript digits or a url that
  `urlparse` refuses raises something other than `ParseFailedError`; the process
  ends, is started again, and ends at the same record. `connector_interface.py:165-167`
  says "a single bad record cannot stall ingestion". `ChokeOnItem` models it.
* *A value too wide for its column* passes the rules and the schema and fails in the
  Deal Engine (`Misfit`). Its entry stays pending for ever, and so do the entries that
  were read behind it in the same batch of ten, sound listings included; the next
  poll publishes all of them again, in the same order. `EveryGoodListingIsCatalogued`
  therefore excludes feeds with such a page.
* *One request for an unknown deal costs others.* `UnknownDealError` ends the process
  between two entries of a batch; the requests behind it are never read again.
  `event_handlers.py` and `main.py` of the service count on a retry. What it does not
  cost is stated by `OnlyRefusalsLoseRequests`.
* *A brand can have two rows* that differ in case only, when two workers create it
  at once; `SplitIsBounded` says how many at most. Which of them a later lookup
  returns is the database's choice.
* *The tier is missed* for a name that is not spelled as it is stored, with two
  spaces inside, say (`TierIsSeen` states the exception).
* *Amazon drops what the others read*: `"1,499"` and `"₹1499"` are no amounts to
  its own copy of `paise` (`AmazonReads`).
* *An id with a space around it* is another listing: `required_text` does not trim.
* *A prose status* that denies stock in words nobody listed ("Not in stock",
  "None left") reads as in stock on Amazon and Flipkart too.
* *Sold-out listings are scored as deals*; the scorer never reads `in_stock`, and
  `validation_rules/revalidation.py:81` says such a deal is not one to offer.

## 6. Not modelled

* The services that exist as documents only.
* Reading a source: fixtures and envelopes, HTTP, sleeping between polls; logging,
  metrics, Docker and migrations beyond keys and widths: I/O without a decision in it.
* Category, image and attributes of a product: optional texts that no rule judges.
* What the JSON Schemas of the other events accept. An entry is well-formed or
  rejected.
* `load_scoring_config`: a fetch with a fallback to constants.
* The purge of old marks: nothing in the repository schedules it.

* An open deal that expired without a tap: nothing sweeps it, and it keeps its
  listing from ever having another (`DealEngine` has the deal, no property the sweep).

## 7. Plan

Done: every service that exists as code, from the page to the answer, and the
proofs of all its safety properties that the prover can reach.

What could follow:

1. One composition of `Catalog`, `DealEngine` and `Scoring`, in place of three views of
   one handler; the state space is what speaks against it.
2. The price history across listings of one product, once the product matcher
   exists.
3. The services that are documents only, when they are written; `MCEdges` is where
   they enter the Deal Engine.
