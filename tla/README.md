# Verification of the HawkNeticSports research platform

TLA+ specifications of the platform's coordination logic, the TLC configurations
that check them on small instances, and TLAPS proofs of the results that hold for
every instance. Paths are relative to the repository root; `K/` stands for
`src/kalshi_research_bot/`.

Contents: 1 the system, 2 the plan, 3 the modules and the code, 4 the runs,
5 fairness, 6 the proofs, 7 disagreements between code and documents, 8 what is not
modelled, 9 how to run the tools.

## 1. The system

HawkNeticSports is a research-only platform: it collects market and sports data,
stores them in PostgreSQL, makes and later settles predictions, and shows the
results on a dashboard. There is no message broker and no shared memory between
its processes. PostgreSQL is the only thing they share, so every protocol between
them is a protocol of SQL statements: an insert that may conflict, an update with a
condition, a row lock, a lease.

The processes are a web role (`K/paper_server.py`, threads per request), worker
roles that run one operation on a cadence (`K/worker_services.py` on
`K/worker_runtime.py`), among them the catalog workers (`K/source_catalog_worker.py`),
and refresh coordinators that work off a queue (`K/source_refresh_worker.py`). Every
one of them can be killed and restarted by the platform at any instant, and during
a deployment the old and the new process of a role overlap.

```
  callers, pregame planner ──enqueue──> refresh queue <──claim/finish── coordinator ─┐
                                                                                     │ calls
  cadence ──> worker runtime ──claims a bucket──> monitoring store                   │
                  │ calls                                                            v
                  ├──> catalog collectors ──batches, checkpoints──> collection ledger
                  ├──> sports research ──rows──> prediction log ──triggers──> current quotes
                  ├──> Kalshi ingestion, crypto research, retention, reporting
  dashboard  <──reads── all of these tables
```

### 1.1 Inventory: what is modelled

| Component | Source | State | Operations | What is hard | What makes it correct |
| --- | --- | --- | --- | --- | --- |
| Source refresh queue | `K/source_data_store.py` | `ops.source_refresh_requests` | enqueue under an idempotency key, claim under a lease, finish, record a failure | concurrent claims, leases that end too early, a late outcome, the last retry | one owner at a time, outcomes final, retries counted, nobody starves |
| Refresh coordinator | `K/source_refresh_worker.py` | the claimed request, in memory | claim up to `maximum_requests`, run their sources, write the outcome | dies or overruns between claim and outcome | every request is settled in the end |
| Worker runtime | `K/worker_runtime.py` | attempt counter, crash streak | one monitored run; the loop around it | lost acknowledgements, outages, broken pools, stop requests | a bucket is run once; the loop survives, backs off and stops |
| Worker monitoring | `K/monitoring.py` | `ops.worker_runs`, `ops.worker_status` | start, success, failure | two processes, stale clock readings, late outcomes | summary and ledger agree, streaks and alerts are true |
| Collection ledger | `K/collection_ledger.py` | batches, payloads, rejections, checkpoints, source health | start, store, reject, complete, fail, report | every call its own transaction; the same batch reopened by a retry | evidence before success, checkpoints only forward |
| Catalog collectors | `K/source_catalog.py`, `_store.py`, `_worker.py` | position in the listing | walk the partitions of a source | blocked pages, retries, two walkers | no page skipped, "fresh" is earned |
| Sports log and quotes | `K/sports_research.py`, `migrations/postgres/0014_sports_current_quotes.sql` | prediction log, current quotes | log snapshots, settle, the triggers | READ COMMITTED, SKIP LOCKED, triggers that read their own snapshot | no open quote lost, outcomes final, the board is the log |
| Catalog store, planner, market API | `K/source_catalog_store.py`, `K/source_data_store.py` | rows, snapshots and books by source id | upserts, pages, windows before a game | polls stored late, prices that come back | the listed book is the newest |
| Kalshi ingestion, retention | `K/kalshi_ingestion.py`, `K/retention.py` | batches, payloads, observations, tombstones | persist, load, prune | overlapping transactions, repeats, pruning meanwhile | the served snapshot is whole |
| Kalshi prediction ledger | `K/evaluation/paper_live.py` | prediction log, settlement audit | log in four transactions, settle, report | SKIP LOCKED, late feeds, corrected outcomes | the audit explains every outcome |
| Crypto research | `K/crypto_research.py` | candles, crypto log | cycle, settle, report | cycles overlap, candles arrive late | no look-ahead, logged and settled once |
| Sports cycle, closing lines | `K/sports_research.py`, `K/sports_clv.py` | log, batches, closing columns | fetch, log, settle, close, report | partial sources, retries, finals of the last days | graded consistently, nothing left behind |
| Dashboard refresh | `K/paper_server.py`, `K/slip_safety.py` | lock, cooldown, status, two payloads | refresh, gate, pages | several threads, threads that fail to start | one refresh, no stale slip |
| Sessions, preflight | `K/auth.py`, `K/paper_server.py`, `K/preflight.py` | account, sessions, cookies, settings | sign-in, gate, sign-out, judge settings | requests that cross, lost answers | a live session can post, guesses are spaced |
| Operator inbox | `K/operator_inbox.py` | messages | add, claim, complete, list | two statements per call | one agent per message |
| Database startup, pools | `K/business_store.py`, `K/db_migrations.py`, `K/database.py` | migrations, readiness cache, pool table | check or apply, open, borrow, close | processes die between migrations | ready means migrated |
| Fleet status | `K/worker_services.py`, `K/monitoring.py` | worker rows, the report's refresh row | cycles, anomalies, events | things break in any order | what is broken is named |
| Today pipeline, HTTP cache | `K/today.py`, `K/combo_safety.py`, `K/connectors/http.py` | payload, cache files | fetch, cache, build, gate, show | a moving exchange, torn and stale files | a slip is one listed combo |
| Evaluation | `K/evaluation/` | none between runs | decisions, fills, limits, returns | order of loops, missing data | agrees with an order-free definition |
| Ratings, registry | `K/sports_ratings.py`, `K/sports_market_model.py`, `K/research_registry.py`, `K/evaluation/power.py` | the report, a hash-chained file | walk forward, compare, record, review | results that come too early, recorders that die or overlap | blind forecasts, a history that verifies |

### 1.2 Inventory: what is not modelled

| Component | Source | Why |
| --- | --- | --- |
| Background agents, `agents/` | `K/bot_company.py`, `K/daemon.py`, `K/agents/` | loops and wrappers around the above that no worker service deploys |
| Research record | `K/research_record.py`, `K/review_packet.py` | renders what the registry says |
| Slip reports | `K/pipeline.py`, `K/slip_analysis.py`, `K/slip_report.py`, `K/venue_compare.py` | one payload in, one text out |
| Board rendering, statistics | `K/sports_board.py`, `K/research_modeling.py` | read only |
| Numbers | `K/math/`, `K/evaluation/backtest.py`, `calibration.py`, `model_*.py` | floating point, except the margin removal used by the ratings |
| Command line, scripts, fixtures | `K/cli.py`, `K/config.py`, `scripts/` | argument parsing and one-off maintenance |

Components that are modelled in part are listed with what is left out in section 8 and in
`PROJECT.json`.

## 2. Plan

Order: first the protocols by which processes share work (queue, worker, ledger), then
the tables several writers change, then the single-process machines and the
calculations. The modules of all three groups exist:

1. `RefreshQueue`, `WorkerRun`, `WorkerLoop`, `BatchLedger`, `CatalogCollection`, `SportsQuotes`:
   each with its own runs and proofs.
2. `PaperLedger`, `MarketSnapshots`, `CatalogStore`, `CryptoLedger`, `SportsCycle`, `OperatorInbox`,
   `ExperimentRegistry`: tables and files with several writers.
3. `Sessions`, `Preflight`, `DashboardRefresh`, `DatabaseStartup`, `FleetStatus`, `HttpCache`,
   `SlipPipeline`: machines around one process.
4. `OrderSimulation`, `ReturnDecomposition`, `BetDecision`, `RatingWalk`: calculations, against
   reference definitions.

Groups 2 to 4 share no variable with each other. `MCOperations` and `MCResearch` put
them beside each other, and split their behaviours by component, so that two runs
check all of them (section 4).

What stays with TLC, and why, is at the end of section 6.

## 3. The modules and the code

| Module | Kind | Models | Checked by | Proved in |
| --- | --- | --- | --- | --- |
| `RefreshQueue` | component | queue and coordinators | `MCRefreshQueue` | `RefreshQueueProofs` |
| `WorkerRun` | component | `run_worker_once`, monitoring store | `MCWorkerRun` | `WorkerProofs` |
| `WorkerLoop` | component | `run_worker_forever` | `MCWorkerLoop` | `WorkerProofs` |
| `BatchLedger` | abstract | what the ledger promises | through `CatalogCollection` | `CatalogProofs` |
| `CatalogCollection` | component | collectors on the ledger | `MCCatalogCollection` | `CatalogProofs` |
| `SportsQuotes` | component | prediction log, triggers, quotes | `MCSportsQuotes` | `SportsQuotesProofs` |
| `CatalogStore` | component | catalog upserts, readers, pregame planner | `MCOperations` | `OperationsProofs` |
| `MarketSnapshots` | component | Kalshi snapshots, retention | `MCOperations` | `OperationsProofs` |
| `Sessions`, `Preflight` | component | sign-in, request tokens, settings | `MCOperations` | `OperationsProofs` |
| `DashboardRefresh` | component | refresh, payload gates, quality | `MCOperations` | `OperationsProofs` |
| `OperatorInbox` | component | operator messages | `MCOperations` | `OperationsProofs` |
| `DatabaseStartup` | component | readiness, migrations, pools | `MCOperations` | `OperationsProofs` |
| `FleetStatus` | component | outcomes of cycles, status, events | `MCOperations` | `OperationsProofs` |
| `PaperLedger` | component | Kalshi prediction log, settlement, audit | `MCResearch` | `LedgerProofs` |
| `CryptoLedger` | component | candles, crypto log, reports | `MCResearch` | `LedgerProofs` |
| `SportsCycle` | component | one pass of the sports collector, closing lines | `MCResearch` | `LedgerProofs` |
| `HttpCache`, `SlipPipeline` | component | cached responses, today's slips | `MCResearch` | `ResearchProofs` |
| `OrderSimulation` | algorithm | fills and fees of paper orders | `MCResearch` | `DecisionProofs` |
| `ReturnDecomposition`, `BetDecision` | algorithm | exposure limits and returns, decisions | `MCResearch` | `DecisionProofs` |
| `RatingWalk` | algorithm | walk-forward ratings, blend, comparison | `MCRatingWalk`, `MCResearch` | `DecisionProofs` |
| `ExperimentRegistry` | component | registry file, family-wide review | `MCResearch` | `DecisionProofs` |

### 3.1 `RefreshQueue`

`row` is the table, one row per idempotency key; `worker` is what each coordinator holds
in memory; `relock` is the row that a repeated enqueue (`ON CONFLICT DO UPDATE`) has
locked, because the claim's `SKIP LOCKED` passes over it; `created` orders `created_at`.
An instant (`lease_expires_at`, `next_attempt_at`) is stored as the number of ticks left, so
that time can pass for ever in a finite model.

| Action | Code |
| --- | --- |
| `EnqueueNew`, `EnqueueAgain`, `EnqueueReturns` | `enqueue_refresh` |
| `StartCycle`, `EndCycle` | the loop of `run_refresh_cycle` |
| `Claim` | `claim_refresh`: candidates, order, lease, attempt |
| `Finish`, `RecordFailure` | `process_refresh_request` with `finish_refresh`, `record_refresh_failure` |
| `Crash`, `Tick` | the process dies; the clock |

The sources a request names are abstracted to "none failed" or "some failed". The
two outcome statements match on `request_id` only; the model keeps that.

### 3.2 `WorkerRun` and `WorkerLoop`

`runs` is `ops.worker_runs` by cadence bucket, `status` the worker's row of
`ops.worker_status`, `proc` the control state, `effects` counts how often the operation
of a bucket succeeded (an observer), `alerts` the buckets that alerted. Every
bookkeeping transaction has a normal action and a `...Raises` one, in which it was
committed or not and the caller only sees an exception. The key of the run and its
`attempted_at` are fixed at `Wake`, before the insert, as in the code.

`WorkerLoop` abstracts one `run_worker_once` to "returned" or "raised" and models the
rest of `run_worker_forever` with its real constants: backoff, the reset of the pools,
the stop event. The two are composed by hand: `Crashed` in `WorkerRun` allows every
delay that `WorkerLoop` computes.

### 3.3 `BatchLedger` and `CatalogCollection`

`CatalogCollection` has one action per transaction of `CollectionLedger`. `ReadCheckpoint`
(`checkpoint`), `OpenBatch` (`start_batch`, new or found under its idempotency key),
`Block` (`fail_batch`), `StorePayload`, `WriteRows`, `RecordRejections` (`reject`), `Complete`
(`complete_batch`, with the checkpoint in the same transaction), `ReportFresh`
(`update_source_health`). `AttemptFails`, `Die` and `Retry` are exceptions, crashes and the
retries the worker runtime makes; `NotNamed` passes over a document that the listing
did not name. Partitions are the calls a collection makes in order; their `Endpoint` says
which of the three ways of walking (cursor, offset, optional document) applies.

`BatchLedger` is the promise of the ledger without collectors: batches are opened in
order, decided once, and a checkpoint moves only with the completion of a newer
batch. `ImplementsLedger` is the refinement (status and partition of a batch, batch of a
checkpoint).

### 3.4 `SportsQuotes`

Both tables carry two versions of a row, the committed one (`old`) and the one of the
transaction that wrote it last (`new`, `by`). `Sees` is what a statement at READ COMMITTED
sees; `Free` is "need not wait". A settlement scans its candidates one at a time (`Take`,
`Skip`), because `FOR UPDATE SKIP LOCKED` locks row by row; `Skip` may pass over any row,
since closing-line capture may be holding it. `Settle` is the `UPDATE` of a row with the
trigger's `DELETE`, `Promote` the insert of the next snapshot, `Reference` the foreign key's
lock. `Insert` and `Upsert` are the insert of a snapshot and its trigger. `Commit` and
`Rollback` end a transaction; a rollback stands for a crash, a timeout and the
deadlock detector alike.

### 3.5 The modules of `MCOperations`

`CatalogStore`: a poll is fetched (`FetchCatalog`) and stored later (`StoreCatalog`), so that two
collectors may store in the other order; `csRows` are the catalog tables, `csSnapshots` and
`csBooks` what is kept only when something changed. `schedule_pregame_refreshes` plans the
requests of the windows before a game under their keys. The readers
(`list_external_markets` and its pages, `list_live_data`, `list_entities`) are operators; a page is
the set of the rows whose place in the order falls into it.

`MarketSnapshots`: `BeginSnapshot` takes the batch's id, `CommitSnapshot` makes batch, payload,
observations and rejections visible at once, `RepeatSnapshot` finds its idempotency key
used; an answer may not be heard. `prune_source_payload_bodies` replaces bodies by tombstones
and records the storage census; `load_latest_kalshi_snapshot` is what the dashboard loads.

`Sessions`: one account and one browser with several open requests. `Send` fixes the cookies
a request carries, `RequestStep` is one transaction of its handler, the cookies of an
answer are kept when it arrives. `StartServer`, `set_disabled` and `DropCsrfCookie` are what happens
around them. `Preflight` extends it: both read one environment, each with its own rules
(`ServerSettings` is what the server makes of it), for all environments of a product of
settings.

`DashboardRefresh`: `AskRefresh`, `run_refresh` and `refresh_payload` take the steps of a refresh thread
one by one (cooldown, lock, status, job, file, database, audit); the threads are
operators' requests, the start-up refresh and the automatic loop. The gates of
`slip_safety.py` and `build_quality_status` are operators over what was stored.

`OperatorInbox`: each call is its statement and, if that changed no row, a second one
(`Explain`) that sees what others did meanwhile.

`DatabaseStartup`: a thread passes the readiness lock, checks or applies (the advisory lock
is `dsMigration`; a migration's statements and its ledger row commit together), and uses
pools (look up, open, borrow, close). `OpenPool` keeps what `psycopg_pool` does when the first
opening of a pool times out: the pool is closed, the call raises, and the table goes on
naming it ("failed"), so that every later call of the process raises too. Only
`close_connection_pools` takes it out, and only processes with a worker's loop call that
(`LoopProcesses`); a web process stays without a connection until it is started again.
`WorkerLoop` has the same pool as "stuck". `Redeploy` kills a process at any step and starts it
with another tree of migrations; `DatabaseSwitch` takes the server away and brings it back.

`FleetStatus`: each operation of `worker_services.py` is an operator from what a cycle finds
(`Findings`: an exception anywhere, a source that does not answer, rows logged, rejected,
settled or closed) to its outcome. Each of the seven may raise; a cycle whose rows were all rejected
works, has no record and is not idle, and `EndCycle` then fails it as `run_worker_once` does
(`unexpected_zero_records`), for the services that expect records (`Succeeds`). `Stamps` is what a
success leaves in `data_fresh_at` and `source_fresh_at`: a crypto cycle leaves both as they were,
because `build_crypto_report` sets neither `generated_at` nor `latest_source_fetched_at` and the
update keeps the old value for NULL. `_reporting_operation` reads the database in the
steps of the code, while workers and the weather (database, volume, migrations) change
between them.

### 3.6 The modules of `MCResearch`

`PaperLedger`: `LoggerStep` are the four transactions of `log_forward_predictions`, `ImporterStep` the
reading of the official source or the file, the locking of every row it can get
(`Lockable`) and the settlement with its audit rows, `ReporterStep` the daily report and the
edge audit that count the same rows differently.

`CryptoLedger`: one exchange and symbol; a candle is named by the tick it closes at.
`crypto_cycle` takes the transactions of a cycle in order, for two cycles at a time; a
settlement may come late. A report is read statement by statement, since at READ COMMITTED
each has a snapshot of its own: `clReport` has the answers so far, and cycles log, reject and settle
between any two of them. The daily report is eleven statements, the audit adds two and the
diagnosis three; what is made of the answers are operators (`_crypto_leakage_checks`, `gate_result`,
`_crypto_segment_table`).

`SportsCycle`: one pass of the collector, each database call one action. `StartCycle` may
repeat a cycle under its key; the `Fetch...` actions choose what a page carried, a failed
request, or a malformed answer; then the ledger, `log_sports_predictions`,
`settle_sports_predictions`, `capture_sports_closing_lines` and the report. A game ends in the
world, not in the collector. `SportsQuotes` has two of these transactions in detail.

`HttpCache`: several clients on one directory. The file is opened (truncated) and filled
in two steps; a response carries the time the server made it. `SlipPipeline`: the
requests of one build at different moments of a moving exchange, the construction of
the slips by tier, the gate, and what is shown later. Its requests go through the cache
(`Answers`): a file of the last `SlipTtl` ticks answers at once and counts as fresh, although
it may be from before the build; otherwise the exchange is asked, and a failure may fall
back on a stale file. Earlier builds and other commands leave files behind (`Kept`,
`OthersFetchPage`, `OthersFetchLeg`), and files go (`FilesGo`).

`OrderSimulation`, `ReturnDecomposition`, `BetDecision`, `RatingWalk`: the inputs are chosen by the
first action, the loops of the code are steps (`Consider`, `WalkSlate`) or folds. Money and
probabilities are integers in a named unit; a rating and a fit are the set of games
they depend on, which is what look-ahead is about. `ExperimentRegistry`: recorders read the
last hash and append without a lock; a hash is the sequence of bodies it commits to; a
line is the sequence of pieces written to it, so that a recorder that dies leaves a
piece that swallows the next entry.

## 4. The runs

| Run | Question | Distinct states | Bounds, and why they are enough |
| --- | --- | --- | --- |
| `queue_timely` | Is the lease a lock, if cycles end within it? Do readers see consistent rows? | 184,520 | 2 requests, 2 coordinators, 3 attempts, lease 2 ticks: two claims at once, takeover after a crash, a retry and the last attempt all occur |
| `queue_settles` | Is every request settled in the end, with leases that may be overrun? | 82,626 | 3 attempts, lease 1 tick: one that fails, one that is lost and the last, each with a stale owner |
| `queue_owner` | Does only the owner write an outcome? (violated) | | 2 coordinators suffice |
| `worker_overlap` | Two processes of one worker; streaks and alerts of one | 306,493 | two processes for 4 ticks (an old run, the current one, the next), one for 7 (4 buckets: a streak, its end, an alert after 2) |
| `worker_retry` | Is a recorded operation never re-run? (violated) | | 1 process |
| `worker_loop` | Does the loop recover, stop and back off? | 266 | none: cadence 300, backoff 2, clamp 20 are the program's, the crash counter stops where it changes nothing |
| `catalog_overlap` | Two walkers of one listing; is "fresh" earned? | 1,764,686 | a cursored listing of 2 pages and an optional document, a worker and a coordinator, 4 batches, 2 attempts: the older batch may finish last, and a retry may meet a batch it blocked |
| `sports_quotes` | The projection under all interleavings | 1,006,566 | 2 loggers and 2 settlements of 2 runs, 3 rows, 2 timestamps: older, newer and equal snapshots |
| `sports_quotes_overlap` | Is the projection always the log? (violated) | | as above |
| `operations` | The components that serve and keep the system running | 960,130 | below |
| `research` | Ledgers, cycles, decisions, slips, reports | 719,326 | below |
| `ratings_finished` | Does a forecast's baseline use finished games only? (violated) | | 4 games of 4 teams, no team in two games at once |

In the queue runs, counters are bounded by the code itself (attempts) or by the
number of keys. Constants named `Max...` or `Horizon` whose comment says "bound" are bounds
of the models; an action that would exceed one is disabled. Because of them the
catalog, sports, operations and research systems may stop, and their configurations
turn the deadlock check off; in the queue and worker runs it is on.

The streak properties are checked for a single process on purpose: with two, a run that
finishes after a newer one was started is counted in `worker_runs` and not in the
streak, by design of `finish_failure`.

**How `operations` and `research` are split.** `focus`, chosen initially, names a component and
a part of its inputs; only that component moves. As the components share no variable,
an invariant of one holds in the composition exactly if it holds alone, and every
invariant is guarded by its component's focus. A part narrows the inputs, and where the
table says so the moments at which something from outside happens; together the parts of a
component take all its actions.

| Part | What is in it |
| --- | --- |
| snapshots | worker and dashboard, 3 payloads of two times of which the worker sees one for each time, 3 batches, retention of 1 tick (0 is refused) with one body per pass: a pass falls between two transactions, and bodies are pruned |
| catalog | two collectors and 3 polls: one market id with prices that come back and a closed one; two ids; every kind of row |
| sessions | two requests of one browser; two wrong passwords lock for 2 of 3 ticks; sessions expire, accounts are disabled; two deployments |
| preflight | every environment of the product of settings |
| dashboard | the automatic loop, start-up and one operator; 2 refreshes, the first of which can collect; threads that do not start, files and databases that fail |
| inbox | 2 agents, 2 ids, 2 bodies, 2 priorities: two claims at once, a repeated id |
| startup | 2 processes, one with a worker's loop, of 2 threads each: either trees that agree, extend or contradict each other, one redeployment and one pool, or two pools without a redeployment, so that one is replaced and the other is not |
| fleet | each service alone beside the reporter, failures up to the limit, every outcome its operation can have; the database goes and comes back, and beside the market ingestion migrations are pending, the volume fills and settlements are overdue too |
| paper | two overlapping loggers, two overlapping importers, a reporter between one of each (the second market is silent or final), or a market logged again between two imports of one importer (a later snapshot settled before the first); 2 strategies and 2 markets, 6 rows, outcomes that are final, active or closed without a result |
| crypto | one process, two that overlap, or one whose last cycle runs beside every statement of a report; no cycle before a candle has closed; candles of 2 ticks, 2 horizons, a window of 2 of 3 closed candles (2 when cycles overlap): a candle is seen twice, the open one settles, the window may have moved past a settlement time |
| orders, returns, bets | books with and without depth, every order of a small product; logs of up to 4 of 8 rows with repeats, crowded events, invalid and late rows, every limit but the repeat that the deduplication has removed; contracts at and beside each threshold |
| http | two clients of one url, or two urls with room for one file; time passes the fresh and the stale limit |
| slips | a lifetime of 1 tick, stale files up to 2. A price or status moves between any two requests, after others have fetched some of the same, in the same tick or the one before; every combination of three leg quotes with at most one combo off its usual quote; any of the requests has an old file, and fails or not |
| sports | two games of one pairing a day apart, four endings, one or two books whose prices move before the start, a slow cycle, cycles that fail or die and are retried, four configurations |
| ratings | up to 5 of 9 rows: ties, garbled scores, a row that contradicts another, slates of two games; no, clean and odd closing prices |
| registry | two recorders, 3 pieces after which nothing begins, one edit between two recordings, one death |

### What each property says

* `ExclusiveWork`, `HoldsItsClaim`, `OwnerWritesOutcome`, `TerminalIsFinal` (queue, leases cover
  the work): the lease is a lock, and settled is settled.
* `ClaimTokens`, `GivesUpLast` (queue, leases that may be overrun): attempt numbers distinguish
  owners even when leases fail; a request fails only with no attempt left.
* `OutcomeFitsStatus`: readers see consistent rows.
* `EveryRequestSettles`: liveness of the queue. `Stranded` names the one exception: a
  coordinator that dies on the last attempt leaves `running` for ever, because the claim
  requires `attempt_count < max_attempts`.
* `OneOwner`, `StatusIsNewest`, `StatusMatchesRun`, `OutcomeIsFinal`: the worker's ledger and its
  summary under overlap, stale clocks and lost acknowledgements.
* `SingleFailureStreak`, `SingleAlertsAreEarned`: with one process the streak shown is the one in
  the ledger, and an alert is raised for a real streak only.
* `RecoversWithDatabase`, `StopsWhenAsked`, `BacksOff`: the loop.
* `EvidenceFirst`, `NothingSkipped`, `FreshIsEarned`, `ImplementsLedger`: the catalog.
* `NoQuoteIsLost`, `ExactWithoutOverlap`, `OutcomeIsFinal`: the board.
* `StoredViewsAreWhole`: the served Kalshi snapshot has its body and its counts; while polls are
  stored in order the listed book is the newest one said; pages list every market once.
* `AccessIsGuarded`: a browser whose cookie-setting requests did not cross holds the current
  request token; guesses beyond the limit are spaced by the lock; disabling an account
  ends its sessions for good; every data route listed for a role is served to it; an
  environment that the preflight calls ready has somebody who can sign in, and nobody
  who can enter without.
* `OperatorsAreServed`: one refresh at a time, its lock released; after a failed live refresh
  the file's slips are hidden; no shown slip is older than allowed; failures show in the
  quality gate; detail pages are complete; one agent holds a message; lists are by urgency.
* `StartupIsSafe`: the schema is what the migration table says, whatever died; a process
  that believes it ready has all its migrations; no pool that was reset is in a table, so a
  pool of the table that cannot be opened is one whose own first opening timed out; a thread
  uses the pool of its table, or, in a worker, one it had looked up before a reset.
* `TroubleIsReported`: a status that is published names everything that had gone wrong when
  its reads began and still was, a service that failed too often among it, in whichever
  way its cycles ended.
* `LedgersAreHonest`: snapshots of a quote are numbered in order; the audit explains what a row
  says; crypto predictions use closed candles and are settled by one not before the horizon, once;
  the counts of a crypto report, read at different moments, are never behind one another, so
  that wins, losses and pushes lie between the settled rows counted before and the settled exposures
  counted after, a report whose first and last counts agree adds up, and a check of the audit
  fails only by what was committed between its two statements;
  the registry's chain verifies and its verdicts fit their intervals; a candidate pays even
  at its lower bound and a cheaper one is no worse; confidence rests on evidence and no
  outcome is among the features; a pass of the exposure limits respects every limit and
  leaves nothing out that fits; a fill stays within its capital and its price limits and a
  settlement adds up to the cent; forecasts are blind; two sides of a bet are graded against each
  other, nothing gradable is left open, closing lines are the book's own, batches add up and a
  sports report never takes back what an earlier one said.
* `DecisionsMeetReference`: the loop of the fill is the best of all fills; the decomposition accounts
  for every row once; one book cannot carry the consensus; a verdict of the ratings fits its
  interval; the correction is the textbook one.
* `SlipsAreListed`: a shown slip is one listed combo whose quotes its own build fetched, or had from
  a file written at most the lifetime of the cache before the build began; a cached response is
  marked as such and not older than its client accepts.

Each property of a passing run has a mutant: a definition with a plausible bug (a
dropped condition, an off-by-one, a swapped order) under which the same run
finds the property violated. Mutants stand before the definition they replace.

## 5. Fairness

Only `queue_settles` and `worker_loop` assume any. The modules of `MCOperations` and `MCResearch`
have safety properties only; none of them needs fairness.

`RefreshQueue`'s `FairSpec`: time passes; a statement that holds a row lock returns
(`EnqueueReturns`); the platform keeps starting coordinator cycles (`main` polls);
a coordinator ends its cycle. `Finish` or `RecordFailure` is strongly fair together, never
each alone: every source call has a client timeout, so the work ends, but it may
fail every time. `Claim` is strongly fair because a crash can end a cycle before its
claim again and again; PostgreSQL then still serves the claim in one of infinitely
many cycles. `Repeats` is FALSE in this run, since a caller that repeats a key at every
claim could keep that row locked each time.

`WorkerLoop`: weak fairness of the loop's own step. Its waits and statements time out
(`statement_timeout`, `connect_timeout`), so the thread always goes on. Nothing is assumed of
the database or of the stop signal: recovery is promised only if the database stays up.

## 6. The proofs

Every theorem is for all values of the constants under the assumption its module names
(`QueueAssumption`, `WorkerAssumption`, `LoopAssumption`, `CatalogAssumption`, `QuotesAssumption`,
`SnapshotAssumption`, `CatalogStoreAssumption`, `SessionAssumption`, `StartupAssumption`,
`DashboardAssumption`, `InboxAssumption`, `FleetAssumption`, `HttpAssumption`, `SlipAssumption`,
`DecisionAssumption`, `RegistryAssumption`, `PValuesFall`, `CryptoAssumption`, `PaperAssumption`,
`DecompositionAssumption`, `OrderAssumption`, `RatingAssumption`, `SportsCycleAssumption`), that is for any number of processes, threads,
requests, partitions, rows and for any bounds. The theorems of `OperationsProofs` are about
the specification of `MCOperations`, those of `ResearchProofs` about that of `MCResearch`.
There one component moves in each behaviour; each theorem starts from a step that says
that a step of the whole is a step of the component or leaves its variables alone. The
invariants of the research components and what their steps do to them are proved from
the components alone: `DecisionProofs` for those that decide and compute, `LedgerProofs` for
those that keep a log, and `ResearchProofs` for the cache and the slips.

The assumptions on data say what the code's own checks let through: prices between their
limits, ids that differ, limits that are positive, finite sets of what can arrive. Five are
stronger than a check. `OrderAssumption` has prices in whole cents, where the code takes any
decimal from 0 to 100. `PaperAssumption` says that a quote of a payload is the only one of
its strategy, event, market and side. `RatingAssumption` says that a settled game is in one
row per final score, and that a later game is not of an earlier season (a season is a part
of the start time). `CryptoAssumption` takes the set of horizons to be finite, as the tuple
of the code is. `SportsCycleAssumption` says what a page is once the normalisers have read
it: an entry has every field, its numbers are numbers, and a fixture that names teams has no
event id.

**Queue.** `TypeCorrect`. `QueueInv` joins the types with `ClaimTokens`, `Counted` (the attempt a
coordinator holds is one the row has counted), `GivesUpLast` and `OutcomeFitsStatus`. It is needed
because a late outcome may come from a stale owner: that owner's attempt number
is still at most the row's, so the row it rewrites keeps its retry budget. From it
`ClaimsAreNumbered`, `GivenUpLast`, `OutcomeFits`. Under the hypothesis
`LeaseCoversWork` the invariant `HoldsItsClaim` is inductive by itself, since `Tick` never lets a
lease end under a working coordinator; `LeaseHeld`, `LeaseExcludes`, `OwnerWrites`,
`TerminalStays` follow. Without that hypothesis they are false (section 7).

**Worker.** `RunInv` adds to the three properties that the operation of a bucket succeeds at
most once per attempt (`EffectsCounted`) and that the key of the status row belongs to the
instant it records (`StatusKey`). Buckets are quotients, so monotonicity of the division is
the one arithmetic lemma. `OwnerIsUnique`, `StatusFollowsNewest`, `StatusAgrees`,
`OutcomesAreFinal`, `TypeCorrect`.

`SingleInv` is for one process. `Streak` joins the two properties with what they rest on: a
newest completed run, and alerts for failed runs only. It is not inductive alone, because a
bucket that fails out of order would count without ending the streak: `Alone` adds that the
other processes never move, and that the process never claims with a reading of the clock
older than the status row's, so that the run it finishes is always the newest one. Starting
a run or losing it changes no count (`StreakKept`); each outcome adds or removes one element
of a finite set of buckets. `StreakIsCounted` and `AlertsEarned` follow.

**Worker loop.** `DelayIsBackoff` (the delay is the one the counter of crashes stands for) makes
`LoopTypeOK` inductive and gives `WaitsDouble`. Its hypothesis is that the doubling reaches the
cadence before the clamp of the exponent does, which every cadence of
`worker_services.py` satisfies.

**Catalog.** `EvidenceInv`: types, numbering (a batch beyond `opened` is absent),
`EvidenceFirst`, and per collector: it holds the batch of its run, partition and cursor
(`HoldsBatch`) and what it has passed is stored (`LeftEvidence`). With it goes the action
fact `Grows`: no step takes back a batch, a success or a piece of evidence. On top of
both, `ReachInv` (every checkpoint, every opened batch and every collector about to
open one stand behind collected pages only) gives `NoPageIsSkipped`; `FreshInv` with `Walked` (a
collector has stored all required partitions before its own) gives `FreshnessIsEarned`; `Named`
(a checkpoint names a decided batch) gives `CollectorsImplementLedger`, the refinement:
opening is `Open`, blocking is `Fail`, completing is `Complete`, every other step stutters,
and so does a decision about a batch already decided.

**Sports quotes.** `QuotesInv`: types; `RowInv` (who may have written which version of a row);
`StepInv` (what a transaction at a given step has locked and written); `PointsInv` (a quote
points at a row that exists for whoever sees the quote); `Committed`, which is
`NoQuoteIsLost`; and, for each open transaction, `OwnView`: what it will publish also covers every
open row, except a row whose trigger has not run yet and a quote between its
deletion and its promotion. `OwnView` is what makes the invariant inductive: `Commit` turns
the view into the committed state. The steps are proved once as "what the action
does" lemmas and once as isolation lemmas (`Isolated`: a step leaves alone what others
wrote). `QuotesAreKept`, `OutcomesAreFinal`, `TypeCorrect`.

`ExactInv` goes on top of `QuotesInv`: a transaction that has ended has left nothing written
(`Ended`), an open logger has left a quote as it was or pointed it at a row of its own
(`LoggerQuotes`), and, as long as no two settlements were open together (`SoleInv`), what a quote
shows is an open snapshot of its own, also in the view of the settlement that is about to
commit (`OwnPoints`, `GradedGone`). With `NoQuoteIsLost` on the other side, `ProjectionIsExact` follows.

**Startup.** `StartupInv`: types; `GateIsHeld` (the readiness lock is the thread's that is past
the gate); `OneMigrates` (what the holder of the advisory lock read is still the ledger, to
which it has added without a gap); `LedgerOnlyGrows` and `ReadyIsMigrated` (what a thread read
before it declares its process ready is still there, and its tree was compared with it);
`PoolsAreUsable` (a pool is one process's, and one about to be closed is in no table, so that
closing it takes none of a table's). A `Redeploy` at any step keeps it because a dead thread's lock
goes with its session. `BorrowersKnown` goes on top: in a process without a loop what a thread has
looked up is what the table has, and a pool in use has been opened, which no later step
turns into "new" or "failed". `StartupSafe`.

**Dashboard, inbox, fleet.** `DashboardInv`: types, `LockTells` (who holds the refresh lock, and
that a running status has a thread that will end it, unless one could not be started)
and `FileSaysFailed` (a failure the last refresh reported is in the file). `InboxInv`:
ids differ, and `ToldIsWritten`: what an agent was told is what the row says, also when its
statement changed no row and a second one had to explain why. `FleetInv`: the rows a
report is built from were read in this report, so their heartbeats are the present ones or
at least as old as the check. `OperatorsServed`, `TroublesAreReported`. `DetailPagesCover` is about
collections of up to three records, so the recursive function that follows the pages is
unrolled.

**Access.** `SessionInv`: types with `FlightFits` (a request goes through the places of its kind
and carries only tokens that exist); `JarFollows` (without overlap one request at most
sets cookies; it was sent with what the jar has, and its answer has the token of the session
the jar will then name); `GuessesCounted` (the failures of the account are the wrong guesses since
the last good one, and from the one that reached the limit on it is locked); `DisablingSignsOut`. `GuessesAreSpaced` counts over
sequences, so each new guess needs the cardinality of its streak from the one before.
`PreflightInv` says that a report is what the checks say of the environment it was made of;
that they and the server agree is then shown from the two readings of the same settings.
`AccessGuarded`.

**Catalog store.** `CatalogInv`: types, with what each collector has fetched (`CatalogShape`), and
`BooksFollow` while no poll was stored late: the books of a market follow each other in
time, the last one is no later than the row and says what the row says. The second part is
needed because an unchanged poll moves the row and keeps no book: the book that is
listed is the last one by `LatestIsLast`, not the one of the newest poll. `PagesCover` holds in
every state. The offsets a reader reaches are the multiples of the page's size below the
number of rows (`FollowedAreMultiples`), their pages do not overlap (`OnePageHasIt`), and a
market that no page had would have a greatest offset in front of it whose page ends too early.

**Snapshots.** `SnapshotsInv`: `OpenOnesApart` (open transactions have ids of their own, which no
batch has), `RowsBelong` (every observation and rejection is of a stored batch),
`BatchesAccount` (its counts add up and are the numbers of its rows) and `NewestHasBody`. The loop over
the markets is a recursive function; `LoopGathers` says what it has gathered after every
market of any payload: `Gathered` holds before the first one and each market keeps it
(`GatheredGrows`). The rule of induction is out of reach, so both this and the existence of the
function are shown by a smallest counterexample (`LeastNatural`, from the library's
well-founded naturals). A commit adds rows of its own id only, so the other batches still
account for theirs, although their transactions overlapped; a retention pass leaves out
what `NewestOf` names, which is the one batch that is newest (`NewestIs`). With the catalog's:
`StoredViewsWhole`. The invariants of all eight components together give `OperationsTyped`.

**HTTP cache, slips.** `HttpInv`: what a file says of its age is true (`HonestFile`), and a get that
is under way or answered has counted its tries (`HonestGet`, `HonestResponse`). `SlipInv`: the build
holds what the exchange listed at the time of the answer, and a fresh answer is at most `SlipTtl`
older than the build (`RunIsDated`, which rests on what the files say of their time), the payload lists nothing
else, and its summary agrees with its slips, whatever the exchange does between two of its
requests. The slip is the greatest element by score of a finite set; what is used of it is
that it is an element. `SlipsListed`.

**Decisions.** `BetInv`: the decision on the table is what the operator says of the case on the
table. `CandidatesPay` is arithmetic on the lower bound and its costs; `CheaperIsNoWorse` compares
two decisions, so the set of reasons of the one is shown to be within that of the other,
condition by condition. `NoOutcomeLeaks` is about paths: the tree's fields are reached by the
names on their way. `DecisionsPay`.

**Registry.** `RegistryTyped` (lines, pieces, recorders) and `RegistryFits`: the file is what was appended
(`FileFits`), what a recorder holds is what it read (`RecorderFits`), the chain is valid as long as
nobody edits and no two recorders overlap, and an entry that was acknowledged and is not
in the file is paid for by a death. The last is needed for `HistoryIsKept` because a torn line
swallows the next entry: the loss shows one entry later than the death. `RegistryHonest`.

**Crypto.** `CryptoInv`: every row is a prediction as it was made, settled or not, with the outcome
of its price (`LogFits`, which has one row per key and time); a cycle's payload is the candles
that had closed when it fetched them (`CycleFits`); and two cycles never hold the same row. A report
is read while the log moves, so `ReportFits` is about a prefix of its statements: they are answered in
order (`ReportOrder`); what was counted is still logged, and what was settled still is with the same
outcome, because rows are only added and settled (`ReportAnswers`, kept by every cycle's step in
`LogKeeps`); rejections only grow (`ReportRejections`); and a later answer holds what is in the
earlier ones (`ReportChain`). The last is the strengthening that makes the counts comparable: what was
settled at the second statement, or logged at the first and no longer unresolved at the third, must be
in the wins, losses or pushes, each of which is read at another moment. There is one lemma for each
statement (`RawAnswered` to `DedupedRowsAnswered`). Set inclusions become inequalities of
cardinalities (`InParts`, `Halves`, `ThreeParts`), and the segments partition the settled exposures of
whichever moment they were read at (`SegmentsAddUp`). `CryptoHonest`.

**Paper.** `PaperInv`: the ledger (`LedgerFits`, with the two properties `SnapshotsAreOrdered` and
`AuditExplains` themselves); what a logger has read of the log is current as long as loggers
do not overlap (`OneReads`, `LoggerFits`); what an importer read of a row is what the row says until
the importer writes it (`ImporterFits`), since rows are locked and importers hold disjoint
ones. `GatesAgree` then compares two ways to count the same rows. `PaperHonest`.

**Exposure limits.** `ReturnsInv`: types, what is accepted is no longer to do, and `LimitsHold`. Capital
is a fold over a set with no order, so it is first shown to be the number of cents, the
pairs of a row and a cent of its price: adding a row adds its price, a subset has no more.
Every limit is closed under subsets (`FewerRespect`); hence what was rejected once stays out as
more is accepted. Considering the earliest candidate keeps it because `Accepts` is the
difference between the two sides (`AcceptedFits`, `RejectedBreaks`). `ReturnsWithinLimits`.

**Orders.** `OrdersInv`: the case is one the validation lets through, and the execution fits it. An
order that takes starts at the best ask, so the levels must be shown to be sorted: the k-th
of them is the one with k - 1 before it, and there is exactly one such (`ListedIs`, `CheapestIs`).
The loop over the levels keeps, after every prefix of the book, that what is taken so far has
cost at least the best price and at most the ceiling for each contract, that it is within the
capital, and that taken and left make up the order (`Takes`, `LevelTaken`); `FillIs` counts up
over the recursive function. The division that finds the affordable quantity is used only
through what it may not exceed. A settlement adds its two entries to the execution and
changes nothing else (`SettledFits`). `OrdersAffordable`.

**Ratings.** `RatingsInv`: the games are those of the log, one for each event; what is left is a
sorted list of them; what the ratings have observed is strictly behind everything left; rows
are blind and sorted. A sorted list gives each element its rank; that every rank is
taken is the equivalence of injective and surjective on finite sets (`ListedIs`). A slate is
the longest prefix with one start time, so what it leaves starts strictly later (`SlateIs`).
What observing a slate adds is shown for every prefix of it by counting up (`SlateTeaches`). A
blend is fitted on other seasons before its row, which started no later because seasons
follow the times (`TrainedIsEarlier`). `RatingsBlind`.

**Sports cycle.** `SportsInv` joins what each table says of the others. `WorldFits`: a game that ended
did so by now. `SportsRowsFit`: a row was posted for a game of its market, and is open or says
what `_grade_market` says of the game's ending, which is what `GradesAgree` needs of two rows
graded in different cycles. `RunFits` is about the cycle under way, and has four parts. `RunCovers`: at
every fetch the finals hold every game of the days asked for so far that had ended when the
cycle began; it is needed at the prior days and the summaries because `CaughtUp` is promised
only at the end, and the clock may go on in between. `RunCounts`: what is about to be
finished is what was logged. `RunSettles`: after the settlement nothing that has a final is open.
`BatchesAddUp` compares a sum with the number of rows, which is not inductive while a batch
that failed or died has rows no batch accepted: `RowsClaimed` gives each batch a set of rows of
its own, apart from the rows of a run that is not finished (`Claimable`), and the sum is the
cardinality of their union. `ClosesFit`: a closing line is a price the same book posted before
the start and no earlier than the row, and it is the same on every row of the pick; appending
a row or grading one keeps it. `TotalsFit`: no report says more than the log does. The log
only grows and a graded row stays what it is, so each figure, a cardinality of rows or of
picks, is at least the one reported before: `ReportNeverTakesBack`. What loops compute (the odds
that a page yields, the rows that a batch accepts, the last price before the start) is shown
by counting up over a recursive function, one fact each (`ReadFits`, `CountsAgree`,
`ClosesFitAfter`). `SportsHonest`, and with the seven above: `LedgersHonest`. The types of all ten
components together give `ResearchTyped`.

Only model-checked:

* `EveryRequestSettles`, `RecoversWithDatabase`, `StopsWhenAsked`: liveness under fairness is beyond the
  prover.
* `DecisionsMeetReference`: fills, sums and corrections are compared with definitions that quantify
  over all fills, all partitions or all thresholds, and what the loops compute for every
  input is induction over their data; `VerdictsAreFair` multiplies sums of squares.
* `UsesFinishedGames`, which `MCRatingWalk` finds violated (section 7), and the other disagreements.

The endpoints that are walked by offset (`teams`, `markets`) are not in a run; `FreshnessIsEarned` and
the other catalog theorems cover them.

## 7. Disagreements between code and documents

* `queue_owner`: `finish_refresh` and `record_refresh_failure` match on the request only. A coordinator
  that overran its lease overwrites the claim or the outcome of its successor.
  `docs/database-schema-audit.md:25` says ownership is enforced by state-conditioned updates.
* `worker_retry`: `finish_success` is called inside the `try` of the attempt loop. If recording the
  outcome raises, the operation runs again. `docs/railway-worker-services.md:58` says
  recording the outcome runs outside that loop.
* `sports_quotes_overlap`: two settlements that overlap may leave a settled snapshot on the
  board, since the trigger of one cannot see the quote the other promotes.
  `docs/sports-data-upload.md:35` says that every writer keeps the projection current.
* `ratings_finished`: `walk_forward` moves the home-win rate when a slate has been forecast, and
  slates are told apart by start time only. A game that starts at 14:00 is compared with
  a rate that counts one that started at 13:00. `K/sports_ratings.py:375` says "over games already
  finished". The ratings themselves are safe as long as no team plays twice at once.

What the code does although no document rules it out, and the models keep:

* The stored dashboard payload is replaced by a successful refresh only. After a failed
  one a server that reads the database goes on showing its slips until they are too old;
  only the file's are hidden (`FailureHidesFile`).
* If a refresh thread cannot be started, its lock is never released; an exception that
  leaves `run_refresh` ends the automatic loop (`drFault`, `drLoop`).
* Two recorders that overlap chain to the same line, which the verification reports as
  broken; removing entries at the end of the file is not noticed (`HistoryIsKept`).
* `record_experiment` accepts any interval without zero, a wholly negative one too, and
  `record_power_audit_experiment` stores the detectable effect beside the interval of the
  observed one, from which the review then computes its p-value.
* Two loggers of one run that overlap may log the same fetch twice (`SnapshotsAreOrdered` is stated
  without overlap); a collector that stores an earlier poll last wins (`csLate`).
* A pool whose first opening timed out stays in the table. A worker's loop resets it; the web
  process has no such loop and raises on every later call until it is started again.
* The audit of the crypto ledger compares counts of different statements, so that a settlement or
  a rejection in between makes a check fail although nothing is wrong (`_crypto_leakage_checks`).
* A slip may be built from prices that were fetched before its build began, by as much as the
  lifetime of the HTTP cache (120 s by default, 900 s in `.env.example`), and they count as fresh.
* A crypto settlement takes the first candle of its payload that closes at or after the horizon.
  A cycle that comes after the window has moved past it settles by a later candle.
  `PredictionsAreHonest` therefore says "not before"; the row does not tell which candle it was.

## 8. What is abstracted or not modelled

* Worker identity is the host name in the code; the models take processes to be distinct.
* `heartbeat` of the monitoring store has no caller; the health endpoint and all logging only
  read. `FleetStatus` has the status view.
* Bodies, hashes, normalizers and column values of the catalog. A later poll that is
  written first loses its row to the earlier one; `CatalogStore` says so (`csLate`).
* Transactions: `SportsQuotes` has the statements of its transactions with their row versions.
  The other modules take a transaction as one step where its statements read and write rows
  it has locked, and as several where the code commits in between.
* The delete trigger of migration 0014: nothing in the repository deletes a log row.
* `MarketSnapshots`: market columns; which of two snapshots wins one is a listed hazard.
* `Sessions`: hashing is the identity of what is hashed; creating accounts. `Preflight`: checks of
  files and of the state of the database.
* `PaperLedger`: rendering, feature columns, edge results. `CryptoLedger`: feature export and
  the metrics of the stage 4 report.
* `SportsCycle`: the parsing of pages; a page is what it says of the games. `SlipPipeline`:
  schedules, weather and the wording of the slips. `HttpCache`: pacing and the size limit.
* `RatingWalk`: the numbers of ratings and fits; `paired_comparison` is over integer score
  differences. `ExperimentRegistry`: sample sizes over real numbers.
* Section 1.2: components without shared state, rendering, and floating point, which the
  repository's unit tests cover better than a model checker.

## 9. Running the tools

In this directory: `tlasany M.tla` parses, `tlc -workers 2 -config MCx.cfg MCx` model-checks
(the configurations are named after their module and question), `tlapm M.tla` checks the
proofs of a `...Proofs` module. `PROJECT.json` lists components, runs, mutants, the map from
definitions to lines, hazards and theorems.
