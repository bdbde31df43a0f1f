------------------------------ MODULE BarStore ------------------------------
(* The bars of one symbol and one width: the ohlcv_bars table, the memory    *)
(* cache of the worker, and the three programs that fill them from Yahoo at  *)
(* the same time: backtests (_merge_cached_with_yfinance), the collector of  *)
(* the scheduler (DataCollector.sync_symbol_timeframe) and the prefetch      *)
(* script, which also computes the Heikin-Ashi rows of whole months.         *)
EXTENDS FetchWindow

CONSTANTS
    Tasks,         \* backtests the worker runs at the same time
    Requests,      \* requests: [start, end, warmup]
    MemMax,        \* _MEMORY_CACHE_MAX
    BackfillDays,  \* BACKFILL_DAYS of the collector
    PrefetchStarts,\* first days the prefetch script is asked for
    PrefetchEnds,  \* last days it is asked for with --end, past or future
    SparseBelow,   \* sparse_below
    GapDays        \* GAP_CALENDAR_DAYS_YFIN_MERGE_THRESHOLD

ASSUME StoreAssumption ==
    /\ Requests \subseteq [start : Int, end : Int, warmup : Nat]
    /\ PrefetchStarts \subseteq Int /\ PrefetchEnds \subseteq Int
    /\ MemMax \in Nat \ {0}
    /\ {BackfillDays, SparseBelow, GapDays} \subseteq Nat

VARIABLES
    kind,      \* the width of the bars
    now,       \* the clock
    db,        \* the stored bars: bar -> what it was worth when it was stored
    mem,       \* the memory cache: [win, series, worth], least recently used first
    task,      \* the fetch of each backtest
    sync,      \* the collector's pass
    prefetch,  \* the prefetch script
    ha         \* the HA rows: month -> "none", "partial" or "final"

vars == <<kind, now, db, mem, task, sync, prefetch, ha>>
backtests == <<mem, task>>
others == <<sync, prefetch, ha>>

Windows == [from : Int, last : Int]
NoFetch == [at |-> "idle", win |-> [from |-> 0, last |-> 0],
            series |-> <<>>, worth |-> <<>>, todo |-> <<>>, rows |-> <<>>]
NoSync == [at |-> "idle", from |-> 0, to |-> 0, rows |-> <<>>]
NoPrefetch == [at |-> "idle", win |-> [from |-> 0, last |-> 0], named |-> FALSE,
               force |-> FALSE, rows |-> <<>>, slice |-> {}]

Month(d) == d \div MonthDays
Months == {Month(d) : d \in 0 .. LastDay}

\* The rows save_bars keeps: those with all four prices.
Complete(rows) == {b \in DOMAIN rows : rows[b] # "incomplete"}

\* save_bars: on conflict do nothing.
Save(rows) ==
    [b \in DOMAIN db \cup Complete(rows) |-> IF b \in DOMAIN db THEN db[b] ELSE rows[b]]

\* get_bars_range
StoredIn(win) == {b \in DOMAIN db : InWindow(win, b)}

----------------------------------------------------------------------------
(* Backtests                                                               *)

\* The entry of a window, of which there is at most one, taken out.
Without(m, win) ==
    IF \E i \in DOMAIN m : m[i].win = win
    THEN RemoveAt(m, CHOOSE i \in DOMAIN m : m[i].win = win) ELSE m

PutUnbounded(m, e) ==         \* a variant: nothing is evicted
    IF e.series = <<>> THEN m ELSE Append(Without(m, e.win), e)

\* BacktestOhlcMemoryCache.put and get
Put(m, e) ==
    LET new == Append(Without(m, e.win), e)
    IN  IF e.series = <<>> THEN m
        ELSE IF Len(new) > MemMax THEN Tail(new) ELSE new

Hits(win) == {e \in ToSet(mem) : e.win = win}

\* The window is resolved and the stored bars of the batch are read.
StartFetch(t, req) ==
    /\ task[t].at \in {"idle", "done"}
    /\ Accepted(kind, req, Day(now))
    /\ LET win == Window(kind, req, Day(now))
       IN  task' = [task EXCEPT ![t] = [NoFetch EXCEPT
                       !.at = "read", !.win = win, !.series = Ascending(StoredIn(win)),
                       !.worth = Restrict(db, StoredIn(win))]]
    /\ UNCHANGED <<kind, now, db, mem, others>>

Entry(f) == [win |-> f.win, series |-> f.series, worth |-> f.worth]

\* A hit in memory wins; covered bars are used as they are; the rest is a plan.
Merge(t) ==
    LET win == task[t].win
        gaps == Gaps(kind, task[t].series, win)
    IN  /\ task[t].at = "read"
        /\ \/ \E e \in Hits(win) :
                 /\ task' = [task EXCEPT ![t].at = "done", ![t].series = e.series,
                                         ![t].worth = e.worth]
                 /\ mem' = Put(mem, e)
           \/ /\ Hits(win) = {} /\ gaps = <<>>
              /\ task' = [task EXCEPT ![t].at = "done"]
              /\ mem' = Put(mem, Entry(task[t]))
           \/ /\ Hits(win) = {} /\ gaps # <<>>
              /\ task' = [task EXCEPT ![t].at = "fetch", ![t].todo = gaps]
              /\ UNCHANGED mem
        /\ UNCHANGED <<kind, now, db, others>>

\* "start" is in the app's zone for a whole window, in UTC (as the stored bars
\* are) for a head or a tail.
Today(g) == IF g.part = "all" THEN Day(now) ELSE UtcDay(now)

\* prov.get_bars answers, answers with nothing, or raises: the backtest fails.
Download(t) ==
    LET g == Head(task[t].todo)
    IN  /\ task[t].at = "fetch"
        /\ \E rows \in Yahoo(kind, g.from, g.to, Today(g), now) \cup {<<>>} :
              \/ task' = [task EXCEPT ![t].at = "store", ![t].rows = rows]
              \/ task' = [task EXCEPT ![t] = NoFetch]
        /\ UNCHANGED <<kind, now, db, mem, others>>

\* What the bars of a series are worth once an answer has joined it.
Worth(series, before, rows) ==
    [b \in ToSet(series) |-> IF b \in DOMAIN before THEN before[b] ELSE rows[b]]

\* save_bars and commit, then the answer, rows that were not saved included,
\* joins the series; after the last answer the series is kept in memory and
\* handed to the engine.
Store(t) ==
    LET f == task[t]
        series == Joined(f.series, Head(f.todo).part, DOMAIN f.rows)
        rest == Tail(f.todo)
        g == [f EXCEPT !.series = series, !.worth = Worth(series, f.worth, f.rows),
                       !.todo = rest, !.rows = <<>>,
                       !.at = IF rest = <<>> THEN "done" ELSE "fetch"]
    IN  /\ f.at = "store"
        /\ db' = Save(f.rows)
        /\ task' = [task EXCEPT ![t] = g]
        /\ mem' = IF rest = <<>> THEN Put(mem, Entry(g)) ELSE mem
        /\ UNCHANGED <<kind, now, others>>

\* The worker dies: what it had in memory is lost, the table is not.
Crash ==
    /\ mem' = <<>>
    /\ task' = [t \in Tasks |-> NoFetch]
    /\ UNCHANGED <<kind, now, db, others>>

----------------------------------------------------------------------------
(* The collector                                                           *)

SyncReadTomorrow ==         \* a variant: today's session is asked for too
    /\ sync.at = "idle"
    /\ sync' = [NoSync EXCEPT !.at = "fetch",
                    !.from = UtcDay(now) - BackfillDays, !.to = UtcDay(now) + 1]
    /\ UNCHANGED <<kind, now, db, backtests, prefetch, ha>>

SyncRead ==
    /\ sync.at = "idle"
    /\ LET from == IF db = <<>> THEN UtcDay(now) - BackfillDays
                   ELSE Day(Max(DOMAIN db))
       IN  sync' = [NoSync EXCEPT !.at = "fetch", !.from = from, !.to = UtcDay(now)]
    /\ UNCHANGED <<kind, now, db, backtests, prefetch, ha>>

\* An empty answer and an exception both end the pass.
SyncDownload ==
    /\ sync.at = "fetch"
    /\ \E rows \in Yahoo(kind, sync.from, sync.to, UtcDay(now), now) \cup {<<>>} :
          sync' = IF rows = <<>> THEN NoSync ELSE [NoSync EXCEPT !.at = "store", !.rows = rows]
    /\ UNCHANGED <<kind, now, db, backtests, prefetch, ha>>

SyncStore ==
    /\ sync.at = "store"
    /\ sync' = NoSync
    /\ \/ db' = Save(sync.rows)
       \/ UNCHANGED db                                   \* the save raised
    /\ UNCHANGED <<kind, now, backtests, prefetch, ha>>

----------------------------------------------------------------------------
(* The prefetch script: daily bars and the HA rows of their months         *)

\* _max_calendar_gap_days_between_bars
MaxGap(bars) ==
    Max({0} \cup {Day(b) - Max({Day(c) : c \in {e \in bars : e < b}}) :
                     b \in bars \ {Min(bars)}})

NeedsYahoo(bars) == Cardinality(bars) < SparseBelow \/ MaxGap(bars) >= GapDays

\* _ensure_daily_history: the stored slice, or a download when it is sparse;
\* a failed download is an empty answer.  What a download replaces is forgotten.
PrefetchRead(start, end, named, force) ==
    LET win == [from |-> start, last |-> end]
    IN  /\ kind = "daily"
        /\ prefetch.at = "idle"
        /\ start <= end
        /\ \E rows \in IF force \/ NeedsYahoo(StoredIn(win))
                       THEN Yahoo(kind, start, end + 1, Day(now), now) \cup {<<>>} ELSE {<<>>} :
              prefetch' = [at |-> "commit", win |-> win, named |-> named,
                           force |-> force /\ rows # <<>>, rows |-> rows,
                           slice |-> IF rows = <<>> THEN StoredIn(win) ELSE {}]
        /\ UNCHANGED <<kind, now, db, backtests, sync, ha>>

\* The last day is yesterday (default_daily_end_date_yesterday) unless --end
\* names one.
PrefetchStart ==
    \E start \in PrefetchStarts, force \in BOOLEAN :
        \/ PrefetchRead(start, Day(now) - 1, FALSE, force)
        \/ \E end \in PrefetchEnds : PrefetchRead(start, end, TRUE, force)

HaRowDefault(month, asOf) == "final"     \* a variant: the column's default

\* compute_monthly_ha_rows_from_daily: final unless it is the month of as_of,
\* which is the close of the last day of the window.
HaRow(month, asOf) == IF month = Month(asOf) THEN "partial" ELSE "final"

\* The bars the HA rows are computed from: the first read when nothing was
\* downloaded, the download itself, or a second read after save_bars.
Slice ==
    IF prefetch.rows = <<>> THEN prefetch.slice
    ELSE IF prefetch.force THEN Complete(prefetch.rows)
    ELSE {b \in DOMAIN Save(prefetch.rows) : InWindow(prefetch.win, b)}

\* save_bars, the HA rows of the slice upserted, one commit for the symbol.
PrefetchCommit ==
    /\ prefetch.at = "commit"
    /\ db' = Save(prefetch.rows)
    /\ ha' = [m \in Months |-> IF \E b \in Slice : Month(Day(b)) = m
                               THEN HaRow(m, prefetch.win.last) ELSE ha[m]]
    /\ prefetch' = NoPrefetch
    /\ UNCHANGED <<kind, now, backtests, sync>>

\* The script is stopped: its transaction is rolled back.
PrefetchAbort ==
    /\ prefetch.at # "idle"
    /\ prefetch' = NoPrefetch
    /\ UNCHANGED <<kind, now, db, backtests, sync, ha>>

----------------------------------------------------------------------------
Tick ==
    /\ now + 1 \in Times
    /\ now' = now + 1
    /\ UNCHANGED <<kind, db, backtests, others>>

Init ==
    /\ kind \in Kinds
    /\ now = 0
    /\ db = <<>>
    /\ mem = <<>>
    /\ task = [t \in Tasks |-> NoFetch]
    /\ sync = NoSync
    /\ prefetch = NoPrefetch
    /\ ha = [m \in Months |-> "none"]

Next ==
    \/ \E t \in Tasks :
          \/ \E req \in Requests : StartFetch(t, req)
          \/ Merge(t)
          \/ Download(t)
          \/ Store(t)
    \/ Crash
    \/ SyncRead \/ SyncDownload \/ SyncStore
    \/ PrefetchStart \/ PrefetchCommit \/ PrefetchAbort
    \/ Tick

Spec == Init /\ [][Next]_vars

----------------------------------------------------------------------------
(* Properties                                                              *)

Rows(f, worths) ==
    /\ DOMAIN f \subseteq Bars(kind)
    /\ \A b \in DOMAIN f : f[b] \in worths

Stored(f) == Rows(f, {"final", "forming"})
Answer(f) == Rows(f, {"final", "forming", "incomplete"})

Series(e) ==
    /\ e.win \in Windows
    /\ e.series \in Seq(Bars(kind))
    /\ DOMAIN e.worth = ToSet(e.series) /\ Answer(e.worth)

\* The type of the state: what is stored, cached and in flight are bars of
\* the width the store is about, and a stored bar has all its prices.
TypeOK ==
    /\ kind \in Kinds /\ now \in Times
    /\ Stored(db)
    /\ Len(mem) <= MemMax
    /\ \A i \in DOMAIN mem : Series(mem[i])
    /\ \A t \in Tasks : /\ task[t].at \in {"idle", "read", "fetch", "store", "done"}
                        /\ Series(task[t])
                        /\ Answer(task[t].rows)
    /\ sync.at \in {"idle", "fetch", "store"} /\ Answer(sync.rows)
    /\ prefetch.at \in {"idle", "commit"} /\ Answer(prefetch.rows)
    /\ ha \in [Months -> {"none", "partial", "final"}]

\* What a backtest's download reaches: to the last session but one on daily
\* bars, to the last day on intraday bars.
Reaches(win, b) == Day(b) < win.last + (IF kind = "daily" THEN 0 ELSE 1)

\* A stored bar is never corrected (save_bars ignores conflicts), so it had
\* better be final.  A bar that is still forming is stored only for somebody
\* who asked for its day: by a backtest whose download reaches it, or by the
\* script when --end was given; never by the collector, whose window excludes
\* the UTC date, nor by the script on its own.
FormingBarsAreAskedFor ==
    [][\A b \in DOMAIN db' \ DOMAIN db :
          db'[b] = "forming" =>
              \/ \E t \in Tasks : /\ task[t].at = "store" /\ b \in DOMAIN task[t].rows
                                  /\ Reaches(task[t].win, b)
              \/ prefetch.at = "commit" /\ prefetch.named]_vars

\* A series is strictly ascending and inside its window, whatever was stored,
\* downloaded or cached in between: the head ends before the first stored bar
\* and the tail is cut to what follows the last one.
IsOrdered(e) ==
    /\ \A i, j \in DOMAIN e.series : i < j => e.series[i] < e.series[j]
    /\ \A i \in DOMAIN e.series : InWindow(e.win, e.series[i])

\* What a backtest computed with can be read again, except the rows that came
\* without a high or a low, which no later backtest will find unless somebody
\* downloads them whole.
IsKept(e) == \A b \in ToSet(e.series) : e.worth[b] # "incomplete" => b \in DOMAIN db

\* A forming bar the backtest did not ask for is one the table holds.
FormingIsStored(e) ==
    \A b \in ToSet(e.series) :
        e.worth[b] = "forming" => \/ Reaches(e.win, b)
                                  \/ b \in DOMAIN db /\ db[b] = "forming"

\* All three, for every series a backtest is given and every series in memory,
\* although it is put together from a read, downloads and a cache at
\* different times while others store bars of the same window.
SeriesIsSound ==
    \A e \in {task[t] : t \in Tasks} \cup ToSet(mem) :
        IsOrdered(e) /\ IsKept(e) /\ FormingIsStored(e)

\* The HA row of a month that is not over is marked final only by a run of the
\* script whose --end lies beyond today; a run that ends today or earlier never
\* does, at any moment of the day and whatever was stored before it.
RunningMonthsStayPartial ==
    [][\A m \in Months :
          ha'[m] = "final" /\ ha[m] # "final" =>
              \/ Month(Day(now)) > m
              \/ prefetch.win.last > Day(now)]_vars
=============================================================================
