---------------------------- MODULE FetchWindow ----------------------------
(* Which bars a reader of market data asks for, and which Yahoo answers with *)
(* (backtesting/intraday_limits.py, data/bars_merge.py, the window arithmetic *)
(* of api/routers/backtests.py and data/providers/yfinance_provider.py).     *)
(*                                                                           *)
(* A trading day is three ticks long: the first and the second half of the   *)
(* session, and the evening, when the UTC date is already the next day.  A   *)
(* bar is named by the tick at which it begins.                              *)
EXTENDS Integers, FiniteSets, Sequences, FiniteSetsExt, SequencesExt, Listing

CONSTANTS
    Sessions,     \* the days with a session; the others are weekends or holidays
    Kinds,        \* bar widths: "daily" and "intraday"
    LastDay,      \* bound: the last day of the calendar
    MonthDays,    \* days of a month
    MaxDays,      \* yfinance_max_days: the reach of Yahoo's intraday history
    BufferDays,   \* YFINANCE_SHORT_INTRADAY_USABLE_BUFFER_DAYS
    ChunkDays,    \* YFINANCE_SHORT_INTRADAY_CHUNK_DAYS
    HeadSlack,    \* _DAILY_HEAD_SLACK_DAYS
    Patchy        \* bound: the bars Yahoo may answer without a high or a low

ASSUME CalendarAssumption ==
    /\ LastDay \in Nat
    /\ Sessions \subseteq 0 .. LastDay
    /\ Kinds \subseteq {"daily", "intraday"}

ASSUME LimitAssumption ==
    /\ {MonthDays, ChunkDays} \subseteq Nat \ {0}
    /\ {MaxDays, BufferDays, HeadSlack} \subseteq Nat

Times == 0 .. 3 * LastDay + 2
Day(b) == b \div 3

\* datetime.now(timezone.utc) has the date of the next day in the evening.
UtcDay(t) == Day(t) + (IF t % 3 = 2 THEN 1 ELSE 0)

Bars(kind) ==
    {b \in Times : /\ Day(b) \in Sessions
                   /\ b % 3 \in (IF kind = "daily" THEN {0} ELSE {0, 1})}

\* A bar is still forming until the tick at which it ends.
Ends(kind, b) == IF kind = "daily" THEN 3 * Day(b) + 2 ELSE b + 1
Quality(kind, b, t) == IF t >= Ends(kind, b) THEN "final" ELSE "forming"

\* intraday_yfinance_usable_earliest_date: inset from the edge of Yahoo's reach.
Usable(today) == today - Max({1, MaxDays - BufferDays})

\* iter_yfinance_intraday_chunks: [from, to) cut into pieces of ChunkDays days.
Chunks(from, to) ==
    {<<c, Min({c + ChunkDays, to})>> :
        c \in {d \in from .. to - 1 : (d - from) % ChunkDays = 0}}

\* One yfinance.download: the bars begun by t, "end" excluded.
DownloadBars(kind, from, to, t) ==
    {b \in Bars(kind) : from <= Day(b) /\ Day(b) < to /\ b <= t}

\* The answers of YFinanceProvider.get_bars at time t, "today" in the zone of
\* "from": each bar with what it is worth.  The provider drops the rows without
\* an open or a close; one without a high or a low stays in the answer.
Yahoo(kind, from, to, today, t) ==
    LET clipped == Max({from, Usable(today)})
        answer == IF kind = "daily" THEN DownloadBars(kind, from, to, t)
                  ELSE UNION {DownloadBars(kind, c[1], c[2], t) : c \in Chunks(clipped, to)}
    IN  {[b \in answer |-> IF b \in holes THEN "incomplete" ELSE Quality(kind, b, t)] :
            holes \in SUBSET (answer \cap Patchy)}

\* A request: its first and last day and its warmup in months.
FetchStart(req, months) == req.start - months * MonthDays
SpanDays(req, months) == req.end + 1 - FetchStart(req, months)

\* cap_intraday_warmup_months: the most warmup that fits, or none.
CapWarmup(req) ==
    Max({0} \cup {w \in 0 .. req.warmup : SpanDays(req, w) <= MaxDays})

\* The checks of resolve_intraday_fetch_start_date and of _run_backtest: the
\* simulation ends at the last session on daily bars, at the midnight after the
\* last day on intraday bars.
Accepted(kind, req, today) ==
    \/ kind = "daily" /\ req.start <= req.end
    \/ /\ kind = "intraday"
       /\ req.start <= req.end + 1
       /\ Usable(today) <= req.end /\ Usable(today) <= req.start
       /\ SpanDays(req, CapWarmup(req)) <= MaxDays

\* data_start and the session the window ends with.
Window(kind, req, today) ==
    [from |-> IF kind = "daily" THEN FetchStart(req, req.warmup)
              ELSE Max({FetchStart(req, CapWarmup(req)), Usable(today)}),
     last |-> req.end]

\* What "fetch_end" excludes: midnight of the last day for daily bars, the
\* midnight after it for intraday bars.
FetchEnd(kind, win) == IF kind = "daily" THEN win.last ELSE win.last + 1

InWindow(win, b) == win.from <= Day(b) /\ Day(b) <= win.last

\* yfinance_gap_needed, for cached bars that are not empty.
NeedsHead(kind, cached, win) ==
    Day(Head(cached)) - win.from > (IF kind = "daily" THEN HeadSlack ELSE 0)
NeedsTail(cached, win) == Day(Last(cached)) < win.last

\* The downloads that complete the cached bars (_merge_cached_with_yfinance);
\* db_bars_cover_range holds when there is none.
Gaps(kind, cached, win) ==
    IF cached = <<>>
    THEN <<[part |-> "all", from |-> win.from, to |-> FetchEnd(kind, win)]>>
    ELSE (IF NeedsHead(kind, cached, win)
          THEN <<[part |-> "head", from |-> win.from, to |-> Day(Head(cached))]>> ELSE <<>>)
      \o (IF NeedsTail(cached, win)
          THEN <<[part |-> "tail", from |-> Day(Last(cached)), to |-> FetchEnd(kind, win)]>>
          ELSE <<>>)

JoinedUnfiltered(series, part, bars) ==      \* a variant: the tail is not filtered
    IF part = "head" THEN Ascending(bars) \o series ELSE series \o Ascending(bars)

\* How an answer joins the series: a tail with the bars after the last one only.
Joined(series, part, bars) ==
    CASE part = "head" -> Ascending(bars) \o series
      [] part = "tail" -> series \o Ascending({b \in bars : b > Last(series)})
      [] part = "all"  -> Ascending(bars)
=============================================================================
