# pxt in TLA+

This directory is a TLA+ model of pxt, a personal algorithmic trading system: a Python (FastAPI, asyncio,
SQLAlchemy) backend under `src/backend/src`, a React frontend under `src/frontend/src`, and PostgreSQL. It
models the parts whose correctness depends on *order* - which process does what first, what happens between
two statements, what a crash leaves behind - together with what a long sequence of legal steps decides: whether
the money of a backtest adds up, which bars it sees, and whether a strategy contradicts itself. TLC checks the
models on small instances; TLAPS proves the theorems listed below for every value of the constants.

Paths below are relative to `src/backend/src/` unless they start with `src/`.

## 1. The system

Three kinds of processes share one PostgreSQL database:

* **API processes** (`api/main.py`; `uvicorn --workers 2` in `src/docker/Dockerfile.backend`). They serve HTTP and web
  sockets. At start-up each asks once for an advisory lock; the one that gets it also runs the strategy
  scheduler, the signal processor job and the stale reaper.
* **Backtest workers** (`backtesting/worker.py`, service `backtest-worker` of `src/docker/docker-compose.yml`).
  They claim rows of the table `backtests` and run them.
* The **browser**, which polls, and listens on a web socket.

Inside a process everything runs on one asyncio loop: only an `await` lets another handler in. Between processes
the only synchronisation is what PostgreSQL gives the statements the code sends (READ COMMITTED, row locks of
UPDATE and of `FOR UPDATE SKIP LOCKED`, primary keys, the advisory lock).

### Inventory

| Component | State it keeps | Operations | Interacts with | What is hard | What makes it correct | Model |
|---|---|---|---|---|---|---|
| Backtest queue (`backtesting/queue.py`, `api/routers/backtests.py`) | rows of `backtests`: status, phase, heartbeat, results | enqueue, claim oldest, refresh queued, report progress, save results, fail | workers, reaper, browser | two claims at once, late writes to a row somebody else failed | one executor per job, results once, every job settles | `BacktestQueue` |
| Worker loop (`backtesting/worker.py`) | set of active asyncio tasks, capacity | poll, claim, start task, crash, restart | queue | capacity at its limit, death with running rows | capacity respected | `BacktestQueue` |
| Stale reaper (`api/backtest_stale_reaper.py`) | ids selected in this pass | select silent running rows, select silent queued rows, update both | queue | the row changes between SELECT and UPDATE | abandoned rows end, settled rows are left alone | `BacktestQueue` |
| Signals (`signals/processor.py`, `signals/notifiers/email.py`, `api/routers/signals.py`) | `trade_signals.status` | save, batch read, mail, write status, execute | runs, positions, SMTP | mail and status are two steps; execute and mail race | an executed signal has its fill, a notified one its mail | `SignalLedger` |
| Positions (`positions/service.py`, `positions/repository.py`, `api/routers/me_positions.py`) | `user_positions`, `position_fills` | record a fill, filter signals | signals | read-modify-write without a lock | position = net of fills, never more than bought | `SignalLedger` |
| Leader lock and lifespan (`core/leader_lock.py`, `api/main.py`) | the connection that owns the lock | acquire, follow, lead, stop, unlock | scheduler, reaper | crash, lost connection, restart | one leader, a leader returns | `LeaderLock` |
| Strategy scheduler (`scheduler/runner.py`, `scheduler/job_groups.py`) | in-memory jobs, running instances | register all, reload one strategy, fire, load group, save signals | subscriptions, signals, leader | reloads interleave at awaits; stale jobs | every active subscription has its job; no group twice | `StrategyScheduler` |
| Subscriptions (`api/routers/me_strategies.py`) | `user_strategies` | add, update, remove | scheduler | handled by a process without scheduler | a change reaches the jobs | `StrategyScheduler` |
| Backtest engine (`backtesting/engine.py`, `exit_policy.py`, `position_sizing.py`) | cash, positions, queued exits, trades, equity | bar loop: settle, check exits, signals, mark; final settlement | strategies, data | gaps in bars, exits queued across bars, several levels hit in one bar | books balance, losses capped, time flows | `BacktestEngine` |
| OHLC cache (`data/bars_merge.py`, `data/repository.py`, `data/collector.py`, `data/prefetch_universe.py`) | stored bars per instrument and width, LRU memory cache, monthly HA rows | coverage test, head and tail download, insert-or-ignore, evict; collector pass; prefetch | provider, backtests | a bar stored while it forms, inner gaps, what another program stores between a read and a download | a series is an ordered selection of stored rows; final means over | `FetchWindow`, `BarStore` |
| Providers (`data/providers/`, `data/sec_edgar.py`) | none | Yahoo's window arithmetic, chunks; I/O | OHLC cache | UTC date, the edge of the history | what is asked for lies in the window | `FetchWindow` for Yahoo; the others are external |
| HA cache (`strategies/ha_cache/`) | rows for month open, month anchor, week anchor | rebuild an anchor from stored bars, compute and keep the open | live runs of the band strategy | a value is computed once and kept | cached = recomputed from the whole history | `HaBand` |
| Strategies (`strategies/library/`, `strategies/chan_structure.py`) | none between calls; each recomputes from the bars | evaluate on the bars so far | engine, runs | what is seen at bar *n* must not depend on bar *n* + 1 | no repainting, no repeated signal, slots and cash respected | `HaBand`, `ChanStructure`, `TrendRules`, `SlotPortfolio`, `StrategyReplay` |
| Web socket manager (`api/websocket.py`) and the page of a backtest (`src/frontend/src/pages/Backtests.tsx`) | list of connections; what a page shows, its query and its socket | connect, disconnect, broadcast; poll, open and close a socket | reaper | the list changes while it is iterated; a broadcast breaks off | no open socket is lost from the list; a page learns of the end | `BacktestFeed` |
| Trigger clocks (`scheduler/run_schedule.py`, `scheduler/timeframe_interval.py`) | none (pure) | frequency to trigger | scheduler | - | - | not modelled: they configure APScheduler |
| Strategy run log (`core/strategy_run_logger.py`) | log rows of a run | start, append, complete, fail | runs | `fail` uses the session whose commit failed | - | not modelled: append-only |
| Metrics, benchmark, evaluator (`backtesting/metrics.py`, `benchmark.py`, `evaluator.py`, `llm/`) | none | statistics, an LLM prompt | queue | floating point | - | not modelled |
| Auth, presets, system routers | users, presets | CRUD | - | - | - | not modelled: single statements |
| Frontend, other views | React state | render what they fetch | API | - | - | not modelled |
| Migrations, scripts, docker | - | one-off | - | - | - | not modelled |

## 2. The modules

| Module | Contents |
|---|---|
| `JobLifecycle` | what a user of a backtest may rely on: enqueued, started, published once or given up |
| `BacktestQueue` | the queue table, worker loops and tasks, and the reaper; implements `JobLifecycle` |
| `SignalLedger` | signals, mails, positions and fills of one user |
| `LeaderLock` | which API process leads |
| `StrategyScheduler` | extends `LeaderLock` with subscriptions, jobs, handlers and runs, and implements it |
| `BacktestEngine` | one backtest run, bar by bar |
| `FetchWindow` | which bars a reader asks for and which Yahoo answers with: operators, no state |
| `BarStore` | extends `FetchWindow` with the table of bars, the memory cache and the three programs that fill them |
| `HaBand` | the Heikin-Ashi band strategy: its evaluation in a backtest, the live one and its cache |
| `ChanStructure` | the Chan strategy: merging, fractals, strokes, center, signal |
| `TrendRules` | the pivot SuperTrend strategy: pivots, center, bands, trend, signal |
| `SlotPortfolio` | the two slot strategies and the rounds in which the engine fills their orders |
| `StrategyReplay` | composes the four: one of them over a history, session by session |
| `BacktestFeed` | web socket manager, the reaper's broadcasts and the pages of a backtest; composes `JobLifecycle` |
| `Listing` | sets as sequences: rows in the order of a query, the places a removal leaves |
| `MC*` | model values, symmetry sets and inputs for TLC |
| `*Proofs` | theorems and proofs, each about the modules it extends |
| `CountingLemmas` | what the proofs need of least elements, sums over finite sets, and listings |

No module declares a `RECURSIVE` operator: recursion is written as a recursive function or a fold, so that every module can be
proved about.

Some modules hold operators marked "Variant" (or "a variant"). A variant is a deliberately wrong version of the definition
below it (a dropped guard, a missing reset, a swapped order) and nothing uses it; putting it in place of that
definition breaks the property named in `PROJECT.json`, which shows that the property depends on the code it
is about.

### BacktestQueue

One action is one transaction, or one statement where another process can act between two statements. `row[j]` is
the row of job `j`; its heartbeat `beat` (`progress_updated_at`) is kept as an age in ticks, counted up to the
first age that exceeds both limits, and `saved` counts how often results were inserted. A worker's claim is two
actions: `ClaimSelect` (SELECT ... FOR UPDATE SKIP LOCKED) and `ClaimCommit`. A task goes through the phases of
`_run_backtest`; at each of them it may raise, and the exception handler's own UPDATE may raise again
(`TaskFailRaises`). The reaper is three actions (`ReapRunning`, `ReapQueued`, `ReapUpdate`), because its UPDATEs
name the ids the SELECTs returned and do not repeat their conditions. `WorkerCrash` loses tasks and releases
locks; `ReaperCrash` ends the reaper between any two steps. `Tick` ages all heartbeats.

### SignalLedger

A request of the user is a handler with a program counter: check (`ExecuteSignal`, `ManualFill`), upsert of the
instrument, which holds that row's lock to the end of the transaction, read of the position (`ReadPosition`),
and `Commit`. The mailing pass of `process_pending` reads a batch, then mails and writes one signal after the
other, each status in an UPDATE by id alone. A strategy run reads the positions (`RunLoad`) and saves its
filtered signals later (`RunSave`). One user suffices: no row is shared between users.

### LeaderLock and StrategyScheduler

`LeaderLock` follows `api_background_leader` and the lifespan: a process is down, starting (it has the lock and
registers jobs), leading, stopping, or following. `DropConnection` is PostgreSQL ending the leader's session: it
frees the lock and tells nobody. `StrategyScheduler` adds the start-up's SELECT and registration
(`StartupSelect`, `StartupRegister`), the three subscription handlers as one action per awaited statement, the
reload in its three parts (remove all jobs of the strategy, SELECT, register the groups), and job runs. A "key"
stands for what `job_id_for_group` hashes. Strategies do not interact, so one is modelled.

A `run_frequency` is only checked to be five words (`scheduler/run_schedule.py:14`), so a key of `BadKeys` is one that is committed and
for which `CronTrigger.from_crontab` raises. It raises in the middle of a reload, which has removed the jobs and registers some of
the groups (`ReloadRaises`), and at *every* start-up while it is active (`StartupRaises`); `StartFails` therefore has no bound.
After an insert or an update the handler reads the row back and reloads, or not (`RefreshReloads`, `SkipReload`).
`missed[a]` is a history variable: the users whose subscriptions process `a` has had no occasion to read since another process wrote them, or
since a reload of its own raised.

### BacktestEngine

Times are positions in `all_times`, the union of the symbols' bar times; a symbol may have no bar at a time.
Each loop over symbols is one action per symbol, in any order. The strategy is any sequence of buys and sells,
up to the round limit per bar, so what holds for the model holds for every strategy, one that looks ahead
included. Money and prices are whole numbers and percentages are whole percents; a quotient that the code keeps as a float
is rounded down here. That coarsens quantities and levels, and no property depends on the remainder.

### FetchWindow and BarStore

A trading day is three ticks: two halves of the session, and the evening, when the UTC date is already the next
day. A bar is named by the tick at which it begins; what is kept of it is what it was worth when it was downloaded: final, still
forming, or "incomplete" (without a high or a low: the provider drops only the rows without an open or a close). `FetchWindow`
holds the arithmetic of windows: the caps of `intraday_limits.py`, the coverage test and the gaps of
`bars_merge.py`, the chunks and the clipping of the Yahoo provider. `BarStore` has one symbol and one width. `Save` keeps
the `Complete` rows only, as `save_bars` does, while a backtest's series takes the whole answer. A
backtest is `StartFetch` (resolve the window, read the stored slice), `Merge` (memory hit, covered, or a plan of
downloads), and for each planned download `Download` and `Store`; each of these ends at an await, so two backtests of one
worker, the collector (`SyncRead`, `SyncDownload`, `SyncStore`) and the prefetch script (`PrefetchRead`, `PrefetchCommit`)
interleave there. A download answers, answers with nothing or raises. The prefetch script ends yesterday, or with `--end` at any
day, past or future (`PrefetchStart`); the bars its HA rows are made from are `Slice`. `Crash` empties the memory cache of the
worker; `PrefetchAbort` rolls the script back. `Tick` moves the clock.

### HaBand, ChanStructure, TrendRules, SlotPortfolio, StrategyReplay

The strategies keep nothing between calls, so each is an operator on bars, and `StrategyReplay` appends one bar per session and
evaluates what `get_bars` returns, `Seen`: the last `Limit` bars (`past.tail(limit)`). Once the history is longer, this window slides with every
session, and what starts at its first bar (the SuperTrend center and trend, the Chan merges and strokes, the HA open of the first
month) starts anew. `Redraws` says that a session sees another past than the session before did; `redrawn` remembers that since the last
signal. The ATR is a constant operator `Atr(_)`, for a library computes it; TLC's is a smoothed true range.

What is not pure is the cache of the band strategy: `LiveRun` is one run of `_live_eval`
in the running session, with or without the snapshot bar, as often as one likes; it builds the month anchor from
the stored bars if it has none, computes the month open and keeps both, first for now, then for the session before; without either of them it
ends before it looks at a week.

`SlotPortfolio` follows the engine's rounds: plan, fill the first order that can be filled, plan again with the new books, `MaxRounds` times
at most. `present` are the symbols with a bar at this time: the others are neither sold nor bought, and the round goes on to the next order. With
`disableSell` no sell is filled. `refused` and `cut` are history: the names the engine was to sell and did not, and
that a bar's rounds have run out. A symbol without a bar keeps its price and its HA view, for both are
made from its own bars; its revenue may become known all the same, and make it an entry. Prices are whole numbers (in `HaBand` multiples of a power of
two, so that halves and quarters are exact), and orders are for whole shares.

### BacktestFeed

The jobs change by the steps of `JobLifecycle`, which the queue implements. `Reap` is the second half of
`_reap_once`: the rows are failed and their ids are broadcast one after the other. A broadcast is one `Send` per
position of the *live* list, because it awaits in the loop; `Accept` and `Disconnect` (the endpoint's handlers) come in between.
`EndBroadcast` removes the dead. A page asks (`Ask`) and is answered (`Answer`) in two steps, so an answer may be older
than a broadcast that arrived meanwhile; a broadcast cancels the request and asks again, as react-query does. Each new rendering closes the page's socket
and, while the job is in progress, opens another. `RequestFails`, `SocketDrops` and `ApiCrash` are the faults.

## 3. What TLC checks

| Run | Instance | What it shows |
|---|---|---|
| `queue_safety` | 2 jobs, 2 workers of capacity 1, 1 crash, limits 0 and 1 tick; symmetric | type, `OneExecutor`, `WithinCapacity`, `ResultsOnce`, `SettledForever`, `NoResurrection`; the queue implements `JobLifecycle` |
| `queue_liveness` | 2 jobs, 1 worker, 1 crash, fair | `JobsSettle`, `AbandonedIsReaped` |
| `ledger_safety` | 2 signals on one instrument, 3 requests of which 2 at a time, quantities 1 and 2, one mailing process, batch of 2 | type, `ExecutedHasFill`, `NotifiedWasMailed`, `PositionBacked`, `SettledForever` |
| `ledger_serial` | as above, one request at a time, quantity 1, batch of 1, fair | `LedgerBalances`, `EveryPendingIsMailed` |
| `sched_reloads` | 2 API processes, 2 users, a key with a trigger and one without, 2 requests, 1 fired job, 1 crash, a reload whose SELECT fails, every initial table, fair | type, `HotReload`, `StaleJobsAreHarmless`, `SchedulesReturn` |
| `sched_runs` | 3 API processes, 1 user, the same keys, 1 request, 2 fired jobs, a crash, a lost connection, a failing reload, fair | `OneRunPerGroup`, `LeaderReturns` |
| `engine` | 2 symbols, 4 times, 960 inputs: bars that stand still, rise, fall or are missing; both fill modes; windows that end with or before the data; four exit policies and none | type (cash never negative), `BooksBalance`, `TimeFlows`, `LossIsCapped`, `TargetArmsTrail`, `TrailRatchets` |
| `bars` | 3 days, the second without a session, months of 2 days; both widths; a bar that may come without a high or a low; 2 backtests of 2 windows, a memory cache of 1; a prefetch script that ends yesterday, or with `--end` on the last day, which is in the future until then; symmetric | type (the cache within its limit), `SeriesIsSound`, `FormingBarsAreAskedFor`, `RunningMonthsStayPartial` |
| `strategies` | every history of 7 (band), 9 (Chan) or 7 (SuperTrend) sessions over 3, 4 and 4 kinds of bar, seen through windows of 6, 7 and 5 bars; 3 bars of 3 symbols in 2 slots, 2 rounds a bar, any symbol without a bar at any time, sells enabled or disabled | `MonthOpenMatchesBacktest`, `SlotsSettle`, `SignalsAreEvents`, `NothingRepaints` |
| `feed` | 1 job, 2 pages of 2 sockets each, 1 fault, fair | type (no socket listed twice), `OpenIsListed`, `LossIsBounded`, `EndIsShown` |
| `ledger_rewind` | one request at a time | **violated**: `OneShot` (section 5) |
| `band_live` | as `strategies`, the band strategy alone | **violated**: `WeekCloseMatchesBacktest` |

**Why the bounds are enough to be interesting.** Two workers and two jobs are the least with which two claims
meet, one job waits while another runs, and a reaped job has a neighbour that must not be touched; one crash
leaves a running row without a task while the other worker goes on. The limits 0 and 1 keep the order "running
limit < queued limit" of the code and make both expire. Two requests in flight are the least that race; a
third follows a finished one. Batch limits of 2 and 1 make a batch full of older signals (the code's limit is 50).
Two API processes are those deployed: one leads, and the other writes subscriptions it does not tell the leader. Three leave a follower when
one has crashed and the connection of another was lost. Four bars let a position be entered at one, be
held at the next, be queued for exit at the third and settled at the fourth, with a gap at each of those places.
Three days with one holiday give a window whose first stored bar is late (head), whose last one is early (tail) or neither,
an evening at which the UTC date runs ahead, and a month that ends; two windows and a cache of one evict
each other. (The days of these heads have no session; that a head with bars joins the series rightly is left to the proof.) Seven sessions of the band strategy begin four weeks of two sessions and three months, and a live run that reads four bars (twelve in the code)
sees two weeks, as the code does; nine Chan bars hold several strokes and a center, seven SuperTrend bars up to five
pivots and flips of the trend both ways. Every window is shorter than its history, so each slides, and the pasts it shows do differ: without
the conditions on windows (`Redraws`, `redrawn`, `Limit`, `slid`) TLC finds `SignalsAreEvents` and `NothingRepaints` violated.
The two slots are fewer than the three symbols, and the three bars let a slot be
taken, freed and taken by another; two rounds (`MAX_SIGNAL_ROUNDS_PER_BAR` is 64) are fewer than the orders of a bar that
sells two names and buys one. `MinSep = 1` lets the few fractals end strokes; the theorems hold for any separation. With two pages one socket can leave the list while the other is next, which is how
a broadcast skips one; two sockets for each page are the least with which a rendering replaces one.
`CHECK_DEADLOCK FALSE` is used where the modelled activity really ends: the user's requests are used up and
every signal is generated and executed (`SignalLedger`), the backtest is over (`BacktestEngine`), the calendar or
the history ends (`BarStore`, `StrategyReplay`), or every page shows the end (`BacktestFeed`).

**Bounds that are not in the code**: `MaxCrashes`, `MaxDrops`, `MaxRuns`, `MaxReloadFailures`, `MaxInFlight`, the
sets of requests and signals, the cap of a heartbeat's age (beyond it no comparison changes), `LastDay`, `Patchy`, `PrefetchStarts`, `PrefetchEnds`,
`MaxBars`, `MaxSlotBars`, `MaxSockets`, `MaxFaults`. Failed start-ups have none.

**Fairness.** Weak fairness of the worker loop, of a task and of the reaper: they are asyncio loops that poll
for ever, and every await of a run returns or raises. Weak fairness of restarts: `restart: unless-stopped` and the
uvicorn supervisor. Strong fairness of `Tick`: time passes although the reaper's passes, during which no tick is taken,
interrupt it again and again. For mails, strong fairness that a signal's mail is accepted and its status written, whenever
this is tried again and again: without it a broken mail server keeps the code from its promise. For
handlers, weak fairness of every started request. For a page, weak fairness of asking and of the answer: react-query
keeps its timer, and the network answers unless one of the bounded faults strikes; no fairness of broadcasts, sockets or the reaper. Nothing makes a crash, a loss, a click or a job's firing happen, and
nothing makes a failure *not* happen except the strong fairness just named.

## 4. What is proved

TLAPS proves these for every value of the constants, from the named assumptions of the modules
(`QueueAssumption`, `LedgerAssumption`, `LeaderAssumption`, `SchedulerAssumption`, `EngineAssumption`, `NoneAssumption`,
`CalendarAssumption`, `LimitAssumption`, `StoreAssumption`, `FeedAssumption`, `SlotAssumption`, `HaBandAssumption`, `ChanAssumption`, `TrendAssumption`,
`ReplayAssumption`), which TLC evaluates too.

* **BacktestQueueProofs.** `TypeCorrect`. `OwnershipHolds`: neither `OneExecutor` nor `ResultsOnce` is inductive,
  because both depend on which rows a worker may still write. `Ownership` adds that a claimed row is still queued
  (`ClaimsHold`), that a row not started has no task and no results (`NotStartedIsClean`), and that the row
  of a task at work is running or failed and unpublished (`AtWorkIsUnpublished`). Most steps only fail rows nobody claims or move a task on;
  one lemma, `Frame`, covers them; the others have a lemma each. `ExecutorIsUnique` and
  `ResultsAreStoredOnce` follow. `CapacityHolds` counts: only a claim raises a worker's load, and only below
  the limit. `QueueImplementsLifecycle` maps every step to a lifecycle step or a stutter. `RowsBeat` says that every queued or
  running row carries a heartbeat, without which the reaper would pass it over for ever. `FailedRunsAreNotRepeated` and
  `SettledRowsStay` are action properties: each step is looked at for what it may do to a failed or a settled row, and
  the ownership invariant excludes the tasks, claims and doomed ids that would write it.
* **SignalLedgerProofs.** `TypeCorrect` with the strengthening that a fill about to be committed was accepted for
  the position it was computed from (hence no negative position). `ExecutedIsFilled`, `NotifiedIsMailed`, and
  `SettledStays` (an action property). `PositionIsBacked`: a position is never more than what was bought, for any number of
  concurrent requests; its invariant says the same of what each request has read, which stays true because buys are never
  taken back. The balance, position = bought - sold, is lost as soon as two requests read one position
  (section 5). `FreshLedgerBalances` says exactly when it holds: as long as every commit so far wrote what follows from the row
  it finds (`CommitsAreFresh`, a condition on steps). `SerialLedgerBalances` needs no such condition with `MaxInFlight = 1`:
  the single request's read is the current row.
* **StrategySchedulerProofs** begins with the leader lock: `LeaderTypeCorrect`, `LeaderLockIsHeld`, `LeaderIsUnique`. That one
  process leads says nothing of the lock and is not inductive; that every process at work holds the lock is.
  `SchedulerImplementsLeaderLock` hands the scheduler what is proved of the lock.
  `SchedulerTypeCorrect`, `GroupRunsOnce`, `StaleJobsSaveNothing`. `ReloadsLoseNoJob` and `HotReloadWorks`, for any number of
  API processes, reloads that fail at their SELECT or raise half-way, and start-ups that raise: every subscription that the leader has not `missed` gets its job.
  What `missed` excludes is exactly what the code has no remedy for before the next reload or restart: a row that another process wrote, and every row once a reload
  has raised. The inductive invariant `ReloadInvariant` says that handlers run only in serving processes (`HandlersServed`), that between its SELECT and its
  registrations a start-up misses only what other processes write (`StartupFresh`), and that every subscription not missed has
  its job or a handler in flight that has not yet read the subscriptions, or has read it (`NobodyForgotten`).
* **BacktestEngineProofs**, for any bars with any gaps, window, policy, fill mode and strategy. `EngineTypeCorrect`
  rests on where the loops stand (`LoopInvariant`) and on the comparison of cost and cash in `Buy`;
  `EquityTypeCorrect` adds the equity curve.
  `TrailOnlyRatchets` is an action property: an open position changes only in `CheckExit`.
  `TimeNeverReverses`, `LossesAreCapped` and `TargetOnlyArms` say what holds of every recorded trade, so the invariant
  is about what becomes a trade (`TradeInvariant`): a held position has a stop at least as tight as the policy's and a
  target that is no loss; it was entered no later than any bar that may still end it, which for fills in
  the future of the loop depends on whether the next bar lies in the window; and what is queued was entered in the
  past, in close mode. `BooksAlwaysBalance` is about sums: cash, plus what the held and queued positions cost, equals the
  starting cash plus the profits of the trades. It is an equality where no symbol can lack a bar, and an
  inequality otherwise. Each action moves one position from one sum to another (`SumTakesOut`, `SumAdds`).

* **BarStoreProofs**, for any calendar, limits, requests, `--end` and number of backtests, and whichever rows lack a price. `SeriesAreSound` is the point: the
  series a backtest computes with is put together from a read, downloads and a cache at different times. It is ordered, its complete
  bars can be read again, and a forming bar it did not ask for is one the table holds. The inductive
  invariant `IInv` has a part for each owner of bars. `StoreInv`: stored bars are complete bars of the width. `TaskInv`: a
  backtest's series is ordered and inside its window, and its bars are worth what the table or its own downloads say; its plan is a head, a tail or everything, and what is left of
  it still fits the series (a head ends before the first bar, a tail starts at the last); the rows it is about to
  store lie in the download it is at, and forming ones only where the window asked for them. `MemInv` says of a cached series what `TaskInv` says of
  a finished one. `SyncInv` and `PrefetchInv`: the collector's rows are older than the UTC date, hence not forming, and neither are the script's unless
  `--end` was named.
  Only `db` grows (`StoreStep`), so "stored" is never lost by anybody else's step. `StoreTypeCorrect` and
  the action properties `FormingBarsNeedARequest` and `RunningMonthsArePartial` follow.

* **BacktestFeedProofs**, for any jobs, pages and numbers of sockets and faults. `FeedInv`: a page is never
  ahead of the row of its job and keeps a socket for the status that is to come, sockets it has not opened are unused, the list names
  only sockets that were accepted, each once, and what a broadcast holds for dead is closed. `FeedTypeCorrect` and `OpenSocketsAreListed` follow. `LossIsAlwaysBounded` counts: a socket that leaves the
  list shifts at most one other past the iterator, or leaves the iterator one place further behind the end of the list, where
  a connection that is accepted later is missed. So `LossInv` bounds the sockets passed without a send and the places behind the
  end together; a bound of the former alone is not inductive.
* **StrategyProofs.** `SlotsAlwaysSettle`, for any universe, prices, views, growths and missing bars, any number of rounds, and sells enabled or not:
  the buys of a plan number no more than the slots that its sells leave free, and cost no more than cash
  and proceeds, because they are ranked and cut off and every allocation is rounded down. The names held exceed the slots by no more than
  those the engine was to sell and did not, and there are none such but with `disable_sell_signal` or after a bar whose rounds ran out. So a missing
  bar alone does not break the limit, although the engine passes over the sell (`backtesting/engine.py:109`) and goes on to the buys:
  a name is sold when its month HA closes below its open, which changes only with a bar of its own, at which it trades and is sold
  (`SellsTrade` is the part of the invariant that says so). `MonthOpensMatch`, for any bars, calendar
  and interleaving of sessions and live runs, as long as the lookback (`HistoryFits`, a condition on the state) and the window of
  a backtest reach the first bar: the values kept in the database are those of a backtest. That says nothing of the anchor row, which the next month's value is made from;
  `CacheIsSound` is inductive: the anchor is the HA row of a complete month and each month open is made from
  the complete month before. It needs that sessions come in the order of their months (`MonthsRise`), that a complete month is a
  prefix of the history that no later session changes (`CompleteMonthsStay`), and that the HA open of a longer history
  goes on from the shorter one (`HaOpenStep`, `MonthSteps`).
  `NothingEverRepaints`, for any bars, periods and limits, until the window slides: the trend of a bar depends on the bars up to it (`PivotsStay`, `CenterStays`,
  `TrendStays`). Pivots stay when it slides, too (`PivotsSlide`); the rest does not. For the Chan strategy the reason lies in the merges. Each merged bar is above or below the one before
  (`Stepwise`), and a bar merged in the direction of its neighbour stays on the side of the bar before that it was on
  (`MergedPair`). So a new bar is merged once at most, although the code loops (`SettleFollows`); what has
  turned stays turned (`TurnsStay`); tops and bottoms alternate, so there is nothing for `collapse_adjacent_same_fractals` to collapse
  (`NothingCollapses`); and fractals and strokes are only added at the end (`FractalsFollow`, `StrokesFollow`).
  `SignalsAlwaysAreEvents`, for histories of any length and windows of any size: the invariant `EventInv` ties what a strategy has said to what it sees. The band strategy's signal
  is that of the window so far, whose last close is where the next crossing starts (`BandSignalsAlternate`) unless the next window shows another one; after a buy the SuperTrend
  strategy sees an up trend until it sells or a window that slid shows it another past (`TrendInv`); the stroke that the Chan strategy spoke of is there until the window slides (`ChanInv`), and between two strokes
  of one direction, in whatever window shows both, there is one of the other (`StrokeBetween`, `EndsBetween`). That needs the stroke filter (`UseBi`), the theorem's only
  hypothesis, and only if the Chan strategy is run: without it the strategy speaks of fractals, and two tops may have no stroke between them.

**How sums and recursion are proved about.** The induction theorems of the library take an operator as their parameter, which no
installed prover instantiates. `CountingLemmas` does without: `LeastNumber` takes the least counterexample of a set of
numbers, `FamilyInduction` a least one among the subsets of a finite set. From these come the existence and uniqueness of the function that
a sum is defined by, and the sum of a set with one more element, with one changed value, or of two
disjoint sets. The same way `OpensExist` and `HaOpenIs` unfold the recursive function `HaOpen`, and `RankedFacts` shows that the
ranking of a finite set by a strict total order lists each element once and in order. The recursions over bars (center,
trend, the merges of one bar, merged bars, collapsed fractals, strokes) are handled together: `Step` gives the step of each by its
name, `Runs` says that a function follows it, and three lemmas say that such a function exists (`RunsExist`), depends on the first steps
only (`RunsAgree`), and keeps what each step keeps (`RunsKeep`). `FoldsRun` derives such a function from the one by which the
community modules define `FoldLeft`.

**Only model-checked**: the liveness properties `JobsSettle`, `AbandonedIsReaped`, `EveryPendingIsMailed`, `SchedulesReturn`,
`LeaderReturns` and `EndIsShown`: they need fairness and ENABLED, which are beyond this prover. Every other property of a passing
run is stated by a theorem.

## 5. Where code and documents disagree

Shown by a run:

* `ledger_rewind`. `process_pending` writes a signal's status by id alone. A signal executed after the batch was read goes back to `notified`
  (or `pending`), and a second execute is accepted and fills it again, although the user profile design promises 409.
* `band_live`. A live run of the band strategy aggregates the last twelve daily bars, two to three weeks, into its weekly HA
  close (`strategies/library/ha_month_week_band.py:134`), though `week_ha_close` says it wants the bars of the current week and a
  backtest passes only those.

Seen in the models, without a run of its own:

*Queue, ledger, scheduler, engine*

* `record_position_fill` writes a quantity computed from a row it read without a lock: of two concurrent fills one is missing
  from the position (`positions/repository.py:84`). With two requests at a time `LedgerBalances` is violated, so it is checked with one.
* Only the process with a scheduler reloads jobs (`api/routers/me_strategies.py:153`). With two uvicorn workers an update served by the
  other one is stored and reaches the jobs only with a reload or a restart. `HotReload` therefore is about subscriptions not `missed`; of all of them it is violated.
* Any five words are stored as a `run_frequency` (`api/routers/me_strategies.py:36`, `scheduler/run_schedule.py:14`), and
  `CronTrigger.from_crontab` raises on those that are no cron expression (`scheduler/runner.py:132`): in the middle of a reload, which leaves other groups of the strategy
  without jobs, and at every start-up of a process that leads, until the row is changed or removed. `LeaderReturns` and `SchedulesReturn` hold
  only while no such subscription is active (`StartBlocked`).
* `pending_close_exits.clear()` (`backtesting/engine.py:352`) also drops the exit of a symbol that has no bar at that time: the
  position is in neither cash nor trades. `BooksBalance` therefore is an equality only for symbols without gaps, and with gaps an
  inequality: money may disappear but is never invented. As an equality it is violated.
* The reaper fails rows by id, so a run that completes between its SELECT and its UPDATE becomes `failed` with its
  trades stored (`api/backtest_stale_reaper.py:91`). `SettledForever` of the queue excludes ids the reaper holds, and
  `JobLifecycle` allows a job to be given up after its results were published.
* Two concurrent executes of one signal both pass the status check (`api/routers/signals.py:145`); this also violates `OneShot`.
* After the database ends the leader's session a restarted process becomes a second leader
  (`core/leader_lock.py:22`); `OneLeaderWhileConnected` and `OneRunPerGroup` assume the connection holds.
* A reload whose SELECT fails has already removed the strategy's jobs (`scheduler/runner.py:167`).
* `remove_my_strategy` checks `is_active` on a loaded row and deletes by id (`api/routers/me_strategies.py:180`): a
  subscription activated in between is removed.
* A strategy may buy a symbol again at the bar that queued its exit, so the comment at `backtesting/engine.py:320` ("a sym in
  pending_close_exits must NOT also be in positions") does not hold; `BooksBalance` shows that this loses no money.
* The equity point of a bar with a queued exit leaves that position out (`backtesting/engine.py:415`).
* With `same_close`, an exit queued at the last bar is settled at that same bar's open, which lies before its close.
* When the window ends before the data and a symbol has a gap there, an entry may be filled after the end of the
  window, and its trade then ends before it began; `TimeFlows` excludes that window.
* An interval trigger starts its interval anew at every reload (`scheduler/runner.py:136`, `replace_existing`): edits more
  frequent than the interval postpone a run again and again.
* `_save_signals` commits per member (`scheduler/runner.py:345`): a failure leaves the later members without their signals.

*Bars*

* A daily backtest never downloads the session of its `end_date`: the provider excludes the end
  (`FetchEnd`); the prefetch script asks for one day more.
* Only the first and last stored bar decide whether a window is covered (`data/bars_merge.py:63`): an inner gap is never filled.
* `save_bars` drops the rows that lack a high or a low (`data/repository.py:31`), while the backtest that downloaded them computes
  with them (`api/routers/backtests.py:66`): a later backtest of the same window may not. `SeriesIsSound` excepts them.
* `save_bars` ignores conflicts, so a bar stored while it formed is never corrected, although the collector's docstring
  speaks of an upsert. `FormingBarsAreAskedFor` says who may store one: `end_date` is not validated, so a backtest that ends after
  today stores today's bar, and intraday windows that end today do.
* A hit in the memory cache is not compared with the table: a window that ends today keeps its first answer until the
  worker restarts.
* A prefetch with an `--end` in a later month marks the running month final (`data/ha_ohlc_compute.py:58`), and stores today's bar if it
  is still forming: `--end` is not compared with today. `RunningMonthsStayPartial` and `FormingBarsAreAskedFor` except that.
* A prefetch with an earlier `--end` rewrites a final monthly HA row to partial, and a "final" row is computed from what is stored, which
  may lack sessions. Nothing in `src/` reads these rows.

*Strategies*

* If the first live run of a month comes before the last session of the month before was collected, the month anchor is built
  without it and kept (`strategies/ha_cache/service.py:113`). The model stores each session before the next one opens.
* The values of the week anchor never reach a signal: an HA close is the mean of the bar's own prices.
* Raw fractals alternate between tops and bottoms, so collapsing neighbours of one kind changes nothing; `build_strokes` may drop the
  more extreme of two fractals; a fractal may be signalled on several bars in a row, though the docstring calls it finalized.
* A strategy sees only the last bars (`backtesting/data_context.py:37`). Once its window slides, what starts at its first bar starts anew with every session:
  the SuperTrend center and trend, the Chan merges and strokes and the HA open of the first month repaint, and a buy (or the band strategy's signal) may be repeated
  with no sell in between. With the default months of warm-up a daily backtest slides from its first session.
* With `disable_sell_signal`, or after a bar on which `MAX_SIGNAL_ROUNDS_PER_BAR` ran out, the slot strategies hold more names than `portfolio_size`, by
  which their descriptions say they are capped (`strategies/library/ha_month_day_revenue_slots.py:82`).
* Only the revenue slot strategy gets a portfolio in live runs; the cross-SMA one gets none (`scheduler/runner.py:331`) and,
  as it skips without one, never signals there.

*Feed*

* The worker is another process, whose `ws_manager` has no connections: its progress broadcasts (`api/routers/backtests.py:538`) reach
  nobody, although the page handles them and labels its source "WebSocket" and polling. Only the reaper's broadcasts arrive, and only at
  the clients of the process that leads. No signal is broadcast, although `src/README.md:12` speaks of a real-time push.
* `remove` raises `ValueError` for a socket its endpoint has removed, and a send may raise what `broadcast` does not catch: the
  remaining ids are never broadcast. The polls make up for it (`EndIsShown`).
* The keys in the effect of `BacktestDetail` are new arrays at every rendering, so the socket is closed and opened at every one. The hook
  with a reconnect (`useWebSocket`) is used by no page.
* A page that showed `failed` stops polling: if the run completes late, it goes on showing `failed` until it is loaded again. A page whose first request fails never polls.

## 6. Not modelled

Average cost, option signals and market values; HTTP authentication; the text of mails, logs and messages; statistics,
benchmark and evaluator (floating point, no state); the strategy run log (append-only); the clock arithmetic of
triggers (it configures APScheduler, which decides when a job is due); the strategies `adaptive_turtle` and `ma_crossover` (a comparison
of the last bar with a channel or two averages, no structure), and the moving-average, volume, regime and sizing options of the others, off by default;
fills of the slot strategies at the next bar's open (`next_open`; `BacktestEngine` has both fill modes, for any strategy);
weekly HA rows and SEC revenues of the prefetch; providers other than Yahoo; the other views of the frontend; migrations, scripts
and docker. The components table of `PROJECT.json` gives the reason for each part.

## 7. State of the plan

All modules that were planned are written, in the order queue, ledger, leader lock, scheduler, engine, bars, strategies, feed. What
could be added without a new component: several symbols in `BarStore` (batches share one memory cache), a scheduler that holds several
strategies (a start-up that a bad row of one ends for all), slot strategies that fill at the next open, a collector that misses the
last session of a month, a refinement of `BacktestQueue` and `BacktestFeed` into one system instead of their meeting at
`JobLifecycle`, and a clock for the triggers of the scheduler.
