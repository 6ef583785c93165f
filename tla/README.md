# A TLA+ model of quant-marketdata-engine

quant-marketdata-engine is a Python (asyncio) service that stores OHLCV bars in PostgreSQL, serves
them through a Redis read cache, fetches them from TradingView (tvkit), and passes TFEX settlement
and underlying-price quotes through a second read cache. This directory holds TLA+ modules of its
core, the TLC configurations that check them, and proofs for TLAPS. Paths below are relative to
`src/src/quant_marketdata_engine/` unless they begin with `docs/`.

## 1. Inventory

| part | state it keeps | operations | what makes it hard |
|---|---|---|---|
| single-flight lock (`cache/single_flight.py`) | Redis `mde:lock:*` and the token of each holder | enter (SET NX EX), body, release (Lua compare-and-delete) | Redis errors on either end, crashes, cancellation, expiry under a running body |
| ingest (`ingest/service.py`, `ingest/tvkit_client.py`) | none of its own; writes bars, deletes cache entries | `ingest_ohlcv`: lock, fetch, upsert, release, sweep | every await can fail, die or be overtaken by another ingest or a read |
| bar cache (`cache/ohlcv_cache.py`) and reads (`api/routes.py` `_read`) | Redis `mde:ohlcv:*` | get, set with ttl, SCAN + DEL sweep | fills race sweeps; partial sweeps; writers that do not sweep; ttl 0 |
| connection pool (`db/postgres.py`, `api/deps.py`, `api/main.py`) | `_pool`, `_last_attempt`, `_last_db_ok` | create, ensure, close, probe | concurrent connects around a cooldown; a boot race; shutdown |
| quotes (`settlement/service.py`, `underlying_price/service.py`) | Redis `mde:settlement:*`, `mde:underlying-price:*` and their lock keys | `get`: cache, lock, re-check, fetch, store | the lock does not wait; the yielded value is dropped |
| daily ingest (`ingest/daily.py`, `ingest/cli.py`) | semaphore, pacer lock, `_next_at`, report | resolve, one task per symbol with retries, summary | permits and pacer held through sleeps; retries against left-over locks; crash and re-run |
| bar repository (`db/repositories.py`, `db/models.py`) | `market_data.ohlcv`, `corporate_actions`, `universe_membership` | upserts (one transaction per batch), queries, `list_tracked_symbols` | batches commit between the statements of a rename; `ON CONFLICT` decides who wins |
| symbol rename (`rename_symbol`) | the same three tables | three checks, three updates, one READ COMMITTED transaction | upserts commit in between, locks in other orders, a lost reply |
| index universe (`fetch_universe`, `GET /universe`) | `universe_membership` | a date, then its members | two statements without a transaction |
| daily stamps (`ingest/session_ts.py`, `ingest/tvkit_client.py`) | none; they decide the key of a bar | `canonical_ts`, mapping of fetched bars | the vendor moves its stamp; the UTC and the Bangkok date part |
| backfill (`ingest/backfill.py`, `ingest/cli.py`) | none; writes bars | one upsert per file, skipped rows and files | fails or dies between files; must keep off the vendor's keys |
| snapshot export (`snapshot/exporter.py`) | a Parquet file | one query, one write | a torn file |
| settings, logging, schemas, Redis client | configuration; a module-level client | stateless | nothing shared but constants |

How they interact. A request handler gets the pool (`get_pool_dep` -> `ensure_pool`) and the Redis
client, then reads (cache, else query and fill) or ingests. The CLI runs the same `ingest_ohlcv`, one
task per symbol under a semaphore and a pacer in the daily run. Handlers and tasks interleave at every
`await`; the processes (API, scheduled container, operators) share only PostgreSQL and Redis. Nothing
in the engine bounds a fetch in time.

What makes each part correct:

- lock: a live lease belongs to one holder, nobody deletes another's, and no lock outlives its
  call without a fault;
- ingest and reads: rows served are those asked for, a stale entry is on its way out or has a reason
  that can be named, and the ingest keeps to the lock's protocol on every path;
- pool: one pool, attempts spaced, a health report about the pool that serves, a failed boot healed;
- quotes: those that got the lock fetch once, and never put an older quote back;
- tables: a rename moves a ticker's rows together or not at all, the universe lists every security once,
  and no transaction waits for ever;
- bars: one daily bar per session and source, every bar dated by its session; what was missed or corrected
  heals; a backfill accounts for what it wrote;
- daily run: bounded, paced, always ends, settles and reports every symbol exactly once.

`PROJECT.json` lists the hazards line by line with the properties that watch each.

## 2. Modules

| module | models |
|---|---|
| `RedisLock` | the two Redis commands on lock keys, as operators on a table |
| `SingleFlight` | `single_flight` for any calls and keys: the abstract lock discipline the others refine |
| `IngestRead` | `ingest_ohlcv` and `_read` around venue, database and Redis, plus the writers that sweep nothing |
| `PoolLifecycle` | the module-level pool with lifespan, request dependency and health probe |
| `QuoteService` | `get` of either quote service |
| `BulkRefresh` | what a bulk refresh promises its caller (abstract) |
| `DailyIngest` | `run_daily_ingest`, its tasks, the pacer and the lock each try takes |
| `AtomicTables` | what the writes of the tables promise their readers: whole batches, whole moves (abstract) |
| `SymbolTables` | the three tables keyed by symbol: `rename_symbol` statement by statement, the upserts, the refresh's list, `fetch_universe` |
| `BarStore` | the rows of `ohlcv` by primary key: the ingest of a window with `canonical_ts`, the venue behind it, the backfill from the command line |
| `MC*` | constants, lists and symmetry sets for TLC |
| `*Proofs`, `IngestReadRefinement` | theorems and proofs |

`IngestRead`, `QuoteService` and `DailyIngest` instantiate `RedisLock`; `IngestRead` and `QuoteService`
instantiate `SingleFlight` as the specification they implement; `DailyIngest` instantiates `BulkRefresh` and
`SymbolTables` instantiates `AtomicTables`. `SymbolTables` and `BarStore` look at the database beneath the
others: `IngestRead` has one version for all bars of a series, `BarStore` has the single rows, and
`SymbolTables` has the transactions that write them.

Correspondence with the code:

- *One action per await.* Code between two awaits runs without interruption under asyncio, so it is one
  action. `ipc`, `rpc` and `pc` say which await a coroutine is in.
- *Calls that raise.* A Redis or SQL call that raises may have taken effect on the server before the
  connection broke. The `...OnError` and `...Fails` actions have both outcomes wherever the call writes.
- *Crashes and cancellation.* `Abandon`, `CrashIngest` and `Crash` end a coroutine at any await.
  `CancelledError` is not an `Exception`, so it passes the handlers like a crash does. The cancelled body
  may still release its lock in the `finally`; the models also have the worse case in which it does not.
- *Data.* Bars of a series are the version of the venue data they show, 0 for none: an ingest replaces a
  version by the one it fetched, an adjusted read also carries the version of the corporate actions.
  A quote is its symbol and a version.
- *Keys.* Cache and lock keys are tuples of the fields the code formats into them.
- *Tables.* A cell of `SymbolTables` is a primary key (table, key, symbol). `rows` is what is committed and
  seen by a new statement, `pend[t]` what a transaction has written and holds locked. A `SELECT` or the
  scan of an `UPDATE` is one action; each row it then updates takes two, its old version and its new key,
  because each may wait for another transaction. `executemany` is one transaction of one action per row.
- *Bars.* A row of `BarStore` is a price, a source and the session it belongs to; the session is not a
  column, the properties need it to say where a bar should be. Time is in hours UTC. A price no
  `OHLCVBarRow` accepts stands for every reason a row is refused. `1h` stands for the intraday timeframes.
- *Ranges.* A fetch asks for the last bars, by number, of the sessions between two dates, as `bars_count`,
  `start` and `end` do: a window of intraday bars cuts a session at its edge, and of the session under way
  only the bars that have begun are shown. The lock is of a range and expires, so each of the `Jobs` may have
  bars of a series in its hands, and the older ones may be stored last. The series that are ingested are
  chosen at the start (`Schedules`), to have a daily and an intraday behaviour in one run.
- *A key that goes under a SCAN.* SCAN returns every key that is there throughout, so a sweep is certain of
  those (`todo`). One that is deleted or expires meanwhile leaves `todo`, for every sweep (`Vanish`): if a read
  fills it again, SCAN may return it and need not.
- *Who writes a ticker.* An upsert of `SymbolTables` is one of the daily refresh, for a symbol of its list, or
  one whose caller names the symbol: `fetch --symbol`, `daily --symbols` and `--symbols-file`,
  `POST /admin/ingest`, the backfill.
- *Time.* Lock and entry expiry may happen at any moment, because fetches are unbounded. The pool's
  cooldown, the pacer and back-offs use ticks. A sleep may last longer than asked for.
- *History variables* (`leased`, `cause`, `gap`, `overrun`, `sinceGrant`, `failures`, `fresh`, `fetched`,
  `underLease`, `late`, `stray`) are written and never read by a guard. (`fetched` is one in `QuoteService`
  only; in `BarStore` it is what an ingest has in its hands.)
- *No Redis.* A quote service without a client always fetches and shares nothing; `QuoteService` has the
  calls with one, `SingleFlight` and `IngestRead` have the missing client or its outcome.
- Operators marked "Mutant of" are not part of any specification: each is a plausible bug of one
  definition, kept to show which property catches it.

## 3. What TLC checks

Passing runs (none takes more than about two and a half minutes on two workers):

| run | instance | states | shows |
|---|---|---|---|
| single_flight | 4 calls (1 without client), 2 keys | 30 496 | `LeaseHeld`, `ExclusiveLease`, `NeverDeletesAnother`, `HoldersRelease` |
| ingest_read | 1 ingest, 2 reads, 2 silent writes, 2 faults, ttl 300 | 1 217 981 | `ServedMatchesRequest`, and `StaleIsExplained` beside backfill, rename, corporate actions, and entries that expire under a sweep |
| ingest_sweeps | 3 ingests (1 refused), 1 read, 1 fault, ttl 0 | 136 844 | `UsesSingleFlight` (refinement), `StaleIsSwept` (liveness), `StaleIsExplained` with two sweeps |
| pool | 2 reads, 1 probe, cooldown 2, connects of any length | 1 282 | `SinglePool`, `HealthyMeansPool`, `AttemptsSpaced`, `PoolHeals` (liveness) |
| quote_service | 3 calls, 1 symbol, 2 versions, 1 fault, 1 expiry | 190 077 | `LeasedFetchOnce`, `NewerStays`, `UsesSingleFlight` (refinement) |
| daily_ingest | no task, or 3 of which two share a symbol; 2 permits, 1 retry, empty fetches, rivals, a crash and a re-run | 833 368 | `FetchesBounded`, `GrantsSpaced`, `NeverStuck`, `KeepsPromises` (refinement), `RunEnds` (liveness) |
| symbol_tables | 3 tickers, 3 histories, 2 renames, 2 upserts, of a list or not, 1 reader | 152 892 | `MovesWhole`, `UniverseListsOnce`, `DeadTickerDropsOut`, `NoEternalWait`, `CallsAreAtomic` (refinement), `TransactionsEnd` (liveness) |
| bar_store | 2 sessions of 2 hours, window of 2 bars, 2 stamps, 2 prices, 2 jobs, 1 change of the venue, 1 event, 2 backfills of 4 files in either timeframe | 356 144 | `OneBarPerSession`, `DatedBySession`, `SourcesApart`, `BackfillAccounts`, `HolesHeal` (liveness) |

Why the bounds are enough. Every race in question is between two coroutines, of which one may be aided by a
third event: an ingest with two reads, and two ingests with a read, each plus a fault or an expiry, reach
all the pairs, and a second fault adds those where an error hides behind another. Two venue versions tell
newer from older. One series and one window suffice where entries of other series are untouched by
construction (`CacheKeys` is a product and every action names one key); the two variants are always both
there, and the proofs cover any number. The pool's cooldown of 2 ticks has an inside, an end and an outside.
`MaxRuns = 2` is one crash and one re-run. `symbol_tables` starts from a history that can be moved, one
whose new ticker has bars of its own and one that collides; the batches hold the rows of either ticker in
key order, which a rename meets in any order, so that both ends of a lock cycle are there, and a table that
is checked first and filled before its `UPDATE`. In `bar_store` the scheduled job asks for the last two bars
and a session has two hours: of 1h bars the window is sometimes one session, sometimes the end of one and
the beginning of the next, and leaves bars behind that were never stored. The other job asks for the first
session, whatever the window is. The venue stamps daily bars at 02:00 or 09:00 Bangkok, on either side of
the hour where the UTC date changes. One file cannot be read, one has no valid row, and two are stored, in
order, of which one has a bad row and a good one that meets a 1h bar of the vendor when the backfill runs
with `--timeframe 1h`. Its one event is an unscheduled fetch, a failure or a kill. `MaxRenames` is a bound
too; `MaxVersion`, `MaxSilent`, `MaxChanges`, `MaxEvents`, `MaxFaults` and `MaxExpiries` are the other
bounds, all guards of environment or failure actions. Symmetry is used only in runs without liveness.
Deadlock is not checked: invocations are finite in number and the modelled program really stops when all are
done.

Fairness, and why the code justifies it:

- `StaleIsSwept`: the release and sweep calls of an ingest are answered or raise, so the coroutine
  proceeds. Deleting a key that SCAN may but need not return is not counted as progress.
- `PoolHeals`: the lifespan runs, the container's health check keeps probing, asyncpg's own timeouts end
  connects and queries, and time passes. Reads are not assumed to arrive. The property presupposes a
  database that eventually stays up in a process that keeps serving.
- `RunEnds`: asyncio schedules ready tasks and time passes; that a fetch, upsert or sweep ends is an
  assumption on tvkit and asyncpg, stated as such: no timeout of the engine bounds them.
- `TransactionsEnd`: as long as one statement of an open transaction need not wait, PostgreSQL executes
  one of those, and its deadlock check aborts a transaction of every cycle. That is one assumption about
  all of them together; no single transaction is promised a turn.
- `HolesHeal`: the scheduled refresh comes round again for the symbols it serves, and its fetches and
  upserts are answered. The venue changes finitely often, the backfill runs finitely often, and the property
  says nothing of a bar that has left the window, or of a window with a bar that fails the fetch of all of them.

### Where documentation and code disagree

Each of these runs checks one statement of a document, comment or docstring; TLC's counterexample is a
legal behaviour of the code.

| run | statement | what happens |
|---|---|---|
| ingest_stale_fill | after an ingest the next read is fresh (`cache/ohlcv_cache.py:97`) | a read that queried before the upsert fills after the sweep |
| pool_leak | a single module-level pool (`db/postgres.py:3`) | a connect longer than the cooldown is joined by a second; one pool is lost |
| quote_twice | concurrent cold requests hit TFEX once (`docs/api/settlements.md:74-75`) | a request without the lock fetches anyway |
| daily_silent | no silent success (`ingest/cli.py:142-144`) | a try skipped because of the task's own left-over lock counts as a success |

Six more disagreements are plain from the text and have no run. Adjusted reads are cached like raw ones and
`upsert_corporate_actions` sweeps nothing, while `docs/data/corporate-actions.md:4-5` says that no adjusted
bar is ever cached and stale (`StaleIsExplained` names corporate actions among its excuses). `ingested_at`
is set on every conflict, while `db/repositories.py:6-7` says a re-run does not churn it. `ORDER BY ts ASC
LIMIT` keeps the oldest bars, while `docs/api/ohlcv.md:21` has the most recent first. A rename moves what it
finds, while an upsert that commits during it can leave rows under the old ticker ("Move every row",
`db/repositories.py:274`); `MovesWhole` and `DeadTickerDropsOut` say exactly which. The same docstring has
it refuse "if any destination row already exists" (`db/repositories.py:280`); the check is for rows of the
new ticker with a key the old one has too, and `MovesWhole` has the code's check. The pacer spaces its
grants, while `ingest/cli.py:86` and `docs/operations/scheduled-ingest.md:42` speak of fetch starts: the
lock's round-trip, of any length, is in between.

The premises of the properties that hold mark other limits a reader of the documents would not expect:
`ExclusiveLease` excepts a Redis error and a lock that expired under a fetch longer than its ttl, so
`cache/single_flight.py:4-5` ("two callers cannot both trigger a TradingView fetch") holds for live leases
only; `StaleIsExplained` excepts a sweep cut short by Redis, a writer that sweeps nothing and a late fill;
`DeadTickerDropsOut` excepts an upsert under way during the rename and a caller who names the old ticker
himself; `SourcesApart` is about daily bars, whose seeds must be stamped after 07:00 Bangkok (`FileBars`;
`ingest/session_ts.py` says 02:00Z), since a seed at midnight UTC would share the vendor's key: a backfill
of intraday bars has the vendor's keys, either path overwrites the other, and the last one relabels the
source, so of those bars it says only that none is lost; `HolesHeal` waits for a window without unusable
bars, and does not judge that one such bar keeps the others from being stored; `NewerStays` is about calls
that hold their lease to the end, and a call without the lock fetches and stores all the same;
`UniverseListsOnce` is about snapshots that are loaded whole and once each (`SnapshotAssumption`):
`upsert_universe_membership` deletes nothing, so a snapshot loaded again under a ticker that was renamed
meanwhile lists both; `KeepsPromises` calls a task that found the lock taken "ok", a lock a dead run left
behind included, and also one whose fetch found no bars.

## 4. What TLAPS proves

For every value of the constants, from the named `ASSUME`s alone (which say that bounds are numbers, that
`NoToken` is not a call, and so on):

- `SingleFlightProofs`: `TypeOK`, `LeaseHeld`, `ExclusiveLease`, `NeverDeletesAnother`, `HoldersRelease`.
  `LeaseHeld` is inductive with `TypeOK`: every step of another call leaves the key of a lease alone
  (`CallKeepsOthers`), because NX does not overwrite and the Lua script compares. The next two follow from
  it. For the last, a token gets into Redis only by its own call's SET (`TokensInv`), and a call whose SET
  raised is told True. So a lock outlives its call only if the release raises or the call dies.
- `IngestReadProofs`: `TypeOK`, `ServedMatchesRequest`, `StaleIsExplained`. The first safety property needs
  that what is cached under a key answers the query of that key (`Keyed`); the second also needs that an
  ingest about to sweep will meet every entry of its series present when its SCAN began and ever since
  (`Sweeps`). The delicate steps are an upsert, which makes entries stale while the sweep that owes them is
  still to come, and a fill, which puts rows back whose sweep may be over.
- `IngestReadRefinement`: `Spec => SF!Spec`, the ingest path implements the lock protocol.
- `PoolLifecycleProofs`: `TypeOK`, `HealthyMeansPool`, `AttemptsSpaced`, and `SinglePool`. The
  invariant relates the age of `_last_attempt` to the history of attempts and to the slots that are
  connecting: while one is and no connect has outlived its cooldown (`overrun`), every other is in it.
- `QuoteServiceProofs`: `TypeOK`, `LeasedFetchOnce`, `NewerStays`, and `Spec => SF!Spec`. For the first two the
  invariant is that, with no failure and no expiry, a call that got the lock keeps it until it leaves, and
  once such a call has stored its quote, the entry stays. `NewerStays` and the refinement rest on `LInv`,
  which holds under failures too: a live lease has its token in Redis, so a second holder of the symbol
  cannot be between its fetch and its store, and what the one holder has in hand is no older than an entry
  a former holder left.
- `DailyIngestProofs`: `TypeOK`, `FetchesBounded`, `GrantsSpaced`, `NeverStuck`, and `Spec => BR!Spec`. The
  invariant counts failed tries: `failures[t] = attempt[t]` outside a back-off and one more in it or at the
  end, which is what makes the last failure the one that gives up. `NeverStuck` needs that who waits for the
  pacer is in its queue, once, and nobody else is (`QueueInv`): if no task is queued or works, the head of that
  queue is one that can go on; a task that holds a permit and waits is in the queue; and when no permit is
  held, the first task still queued takes one.
- `SymbolTablesProofs`: `TypeOK`, `MovesWhole`, `DeadTickerDropsOut`, `UniverseListsOnce`, `NoEternalWait`,
  and `Spec => AT!Spec`. Locks keep what two transactions have written apart (`LockInv`). Every cell the
  rename has written is half of a move: an old cell emptied, or a new cell that was free and gets what the
  old one holds (`HalvesInv`); a row of the old ticker in a table already scanned is moved, about to be, or
  was committed by others since the beginning (`ScanInv`). At the commit nothing is about to be moved. For
  the dead ticker, no writer has it listed, in its batch or written as long as nobody names it. For the
  universe, every snapshot is whole or empty, what a writer has still to insert and what it has inserted are
  a whole snapshot together, and its date stays empty until it commits (`UniverseInv`); a commit of the
  rename takes one ticker out and puts one in, so counts stay; and members once there stay until a reader
  that resolved their date reads them (`ReadersInv`). A wait is always for a transaction that is open and
  has written (or the lock would have ended). If none of the transactions an open one waits for can go on,
  take a smallest nonempty set of them in which each waits for a member: no member can be left out of it, so
  each is also waited for by a member, which is what `Deadlocked` asks. That `Writers` is finite is an
  assumption of the module for this reason. For the refinement to `AtomicTables`, what a writer has written
  and what it has left of its batch are one of its batches (`BatchInv`), so its commit is a `Load`; and a
  commit of the rename is a `Move` of the old cells among those it has written, by `HalvesInv`. Every other
  step changes neither the tables nor who has committed.
- `BarStoreProofs`: all but `HolesHeal`. Every row, stored or in the hands of an ingest, stands at midnight UTC
  of its session, at an intraday instant, or is a row of the symbol's file (`Good`); an upsert of good rows
  keeps that and overwrites only daily rows of its own source, since a daily seed stamp is no midnight. The
  count is the cardinality of the rows of the files the run is past.

Some theorems say why a liveness property or a counterexample is as it is:

- `IngestsAreExclusive`, `RequestsAreExclusive`: `SingleFlightProofs` is instantiated under the refinement
  mappings, so its theorems hold of ingests and of quote requests too: a live lease is held in Redis and two
  bodies of a key overlap only by an error or an expiry.
- `RunsAreBounded`: every step of a task takes at least one from its `StepsLeft`, which begins at six for each
  try, and gives no other task any. With `NeverStuck` this is all `RunEnds` needs besides fairness: while a
  run is on some task can go on, and the tasks of a run take finitely many steps.
- `NoEternalWait` is likewise the safety half of `TransactionsEnd`: there is always a transaction to execute a
  statement of, or one for PostgreSQL's deadlock check to abort.
- `RefreshHeals` is the step `HolesHeal` takes again and again. While the venue shows the same, a refresh
  has all of its window as shown in its hands until it stores it (`Covers`). The store heals the window if
  what other fetches of the series have in hand is as the venue shows it too (`Current`, which no step
  ends): an older one still in flight can undo it, and the next refresh heals it again. After that only a
  backfill of intraday bars can, because it shares their keys (`SeedsIntraday`). What is left of `HolesHeal`
  is fairness, and that the venue, the older fetches and the backfill come to rest.
- `SilentSuccessHasACause`: `SuccessMeansWritten`, which `daily_silent` refutes, does hold when every fetch that
  ends without an error brought bars, no ingest runs beside the run, no run died before it, no symbol is listed
  twice and every release reaches Redis. Each of these is a premise of the theorem, so these five are all the
  causes there are in the model. Then a lock belongs to a task at its fetch, and nobody is turned away. The run
  has no fetch without bars (`EmptyFetches`), which would refute the property by itself.

Only model-checked: the liveness properties `StaleIsSwept`, `PoolHeals`, `RunEnds`, `TransactionsEnd` and
`HolesHeal`. Their formulas need fairness and ENABLED, which are beyond the prover;
the safety facts the last three rest on are proved, as said above.

## 5. Not modelled, and why

- Settings, logging, schemas, argument parsing: no state of their own; what matters is a constant.
- Authentication and owner mode of the routes: a stateless test per request. `MayIngest` has its outcome
  for the ingest, which repeats it.
- The fields of a tvkit bar, a settfex object or a Parquet row, and the Decimal conversions: what matters of
  them is whether the row is accepted and its key, and `BarStore` has both.
- The HTTP status of an answer: among others, that a query raising on an open pool is not mapped to 503.
- The order and limit of a bar query, `ingested_at`, the row counts a rename reports.
- That an entry expires: `CacheTTL > 0` is all the code has to do for it, and Redis the rest. Nor is
  `ingest_ohlcv` of an empty range distinguished in `BarStore` from a fetch that failed: neither changes
  anything there.
- Snapshot export: one query and one write of a file; what a torn file holds is the library's affair.
- The Redis client object: created once, connects lazily; every call has its outcomes.

## 6. Plan

1. Written: the lock, ingest and reads, the pool, the quotes, the daily run, the tables and their rename,
   the rows of bars and the backfill, with their proofs.
2. Proved since: that runs are bounded and never stuck, that waits end, that calls are atomic for who reads the
   tables, that a refresh heals, and the causes of a silent success.
3. Left to prove: what `StaleIsSwept` and `PoolHeals` rest on, as was done for the other liveness properties.
4. Left to model: the refresh of `BarStore` composed with `DailyIngest` (which symbols a run that gives some up
   leaves behind, and that the next one heals them); a window of rows with order and limit, as an operator
   checked against a reference definition.
