------------------------------- MODULE HaBand -------------------------------
(* The Heikin-Ashi band strategy (strategies/library/ha_month_week_band.py)  *)
(* on one symbol: the evaluation a backtest makes from the whole history,    *)
(* and the live one, which keeps the month's HA open and the HA of the last  *)
(* complete month in the database (strategies/ha_cache).                     *)
(*                                                                           *)
(* A bar is a record of its day and its prices; a price is a multiple of a   *)
(* power of two that is high enough for the halves and quarters below to be  *)
(* exact.                                                                    *)
EXTENDS Integers, Sequences, FiniteSets, FiniteSetsExt, SequencesExt, Listing

CONSTANTS
    None,
    WeekLength,      \* days of a week, of which the first TradingDays have sessions
    TradingDays,
    MonthLength,     \* days of a month
    LookbackMonths,  \* ha_lookback_months
    LiveLimit,       \* bars a live run reads
    BacktestLimit,   \* bars a backtest reads at a session
    MinHistory,      \* bars a backtest needs
    BandPct, BandAbs \* band_pct (in percent) and band_abs

ASSUME HaBandAssumption ==
    /\ {WeekLength, MonthLength, LookbackMonths} \subseteq Nat \ {0}
    /\ TradingDays \in 1 .. WeekLength
    /\ {LiveLimit, BacktestLimit, MinHistory} \subseteq Nat \ {0, 1}
    /\ {BandPct, BandAbs} \subseteq Nat

VARIABLES
    bars,   \* the stored daily bars, one for each session so far
    cache,  \* month_open and month_anchor rows
    live    \* what the last live run of this session saw, or None

bandVars == <<bars, cache, live>>

----------------------------------------------------------------------------
(* Calendar and Heikin-Ashi arithmetic                                     *)

\* The day of the i-th session.
SessionDay(i) == ((i - 1) \div TradingDays) * WeekLength + ((i - 1) % TradingDays)
Today == SessionDay(Len(bars) + 1)

MonthOf(day) == day \div MonthLength
WeekOf(day) == day \div WeekLength

InMonths(bs, from, to) ==
    ElementsAt(bs, {i \in DOMAIN bs : from <= MonthOf(bs[i].day) /\ MonthOf(bs[i].day) <= to})
InWeek(bs, w) == ElementsAt(bs, {i \in DOMAIN bs : WeekOf(bs[i].day) = w})

\* aggregate_ohlc and the "first, max, min, last" of the resampling.
Aggregate(bs) ==
    [o |-> Head(bs).o, h |-> Max({b.h : b \in ToSet(bs)}),
     l |-> Min({b.l : b \in ToSet(bs)}), c |-> Last(bs).c]

HaClose(b) == (b.o + b.h + b.l + b.c) \div 4

\* Each bar opens between the open and the close of the bar before; here, of the
\* last bar.
HaOpen(first, closes) ==
    LET open[i \in 1 .. Len(closes)] ==
            IF i = 1 THEN first ELSE (open[i - 1] + closes[i - 1]) \div 2
    IN  open[Len(closes)]

\* heikin_ashi over resample_to_monthly: the last month's row.
LastMonthHa(bs) ==
    LET months == Ascending({MonthOf(b.day) : b \in ToSet(bs)})
        rows == [i \in DOMAIN months |-> Aggregate(InMonths(bs, months[i], months[i]))]
        closes == [i \in DOMAIN months |-> HaClose(rows[i])]
        n == Len(months)
    IN  [month |-> months[n], close |-> closes[n],
         open |-> HaOpen((rows[1].o + rows[1].c) \div 2, closes)]

----------------------------------------------------------------------------
(* The backtest's evaluation (ha_cache/backtest.py, _backtest_eval)        *)

MonthOpenBacktest(bs) == IF Len(bs) < 2 THEN None ELSE LastMonthHa(bs).open

\* week_ha_open_close finds the week before; HA close takes the current one.
WeekCloseBacktest(bs) ==
    LET week == WeekOf(Last(bs).day)
    IN  IF bs = <<>> \/ InWeek(bs, week - 1) = <<>> THEN None
        ELSE HaClose(Aggregate(InWeek(bs, week)))

Delta(bench) == (bench * BandPct) \div 100 + BandAbs

CrossOneBench(wPrev, benchPrev, w, bench) ==     \* a variant: one band for both
    IF wPrev <= bench + Delta(bench) /\ w > bench + Delta(bench) THEN "buy"
    ELSE IF wPrev >= bench - Delta(bench) /\ w < bench - Delta(bench) THEN "sell"
    ELSE None

\* _detect_band_cross: each close against the band of its own session.
Cross(wPrev, benchPrev, w, bench) ==
    IF wPrev <= benchPrev + Delta(benchPrev) /\ w > bench + Delta(bench) THEN "buy"
    ELSE IF wPrev >= benchPrev - Delta(benchPrev) /\ w < bench - Delta(bench) THEN "sell"
    ELSE None

BandSignal(bs) ==
    LET values == <<WeekCloseBacktest(Front(bs)), MonthOpenBacktest(Front(bs)),
                    WeekCloseBacktest(bs), MonthOpenBacktest(bs)>>
    IN  IF Len(bs) < MinHistory \/ None \in ToSet(values) THEN None
        ELSE Cross(values[1], values[2], values[3], values[4])

----------------------------------------------------------------------------
(* The live evaluation (ha_cache/service.py, _live_eval)                   *)

\* _ensure_month_anchor: the HA of a complete month from stored bars.
RebuildAnchor(m) ==
    LET daily == InMonths(bars, m - LookbackMonths, m)
    IN  IF InMonths(daily, m, m) = <<>> THEN None ELSE LastMonthHa(daily)

AnyAnchor(c, m) ==               \* a variant: whatever anchor row there is
    IF c.anchor # None THEN c.anchor ELSE RebuildAnchor(m)

\* The anchor row serves the month it is labelled with.
Anchor(c, m) ==
    IF c.anchor # None /\ c.anchor.month = m THEN c.anchor ELSE RebuildAnchor(m)

\* upsert_month_open and upsert_month_anchor: a row for each month, one anchor.
Upserted(c, m, value, anchor) ==
    [open |-> [k \in DOMAIN c.open \cup {m} |-> IF k = m THEN value ELSE c.open[k]],
     anchor |-> anchor]

\* month_ha_open: the cached row of the month, or one made from the anchor of
\* the month before, both rows upserted.
WithMonthOpen(c, m) ==
    LET prev == Anchor(c, m - 1)
    IN  IF m \in DOMAIN c.open \/ prev = None THEN c
        ELSE Upserted(c, m, (prev.open + prev.close) \div 2, prev)

\* merge_snapshot_close_into_daily: today's bar from the price of the moment.
Snapshot(price) ==
    LET open == Last(bars).c
    IN  [day |-> Today, o |-> open, h |-> Max({open, price}),
         l |-> Min({open, price}), c |-> price]

\* week_ha_close: the bars it was given, if the week before has an anchor.
\* (The anchor's values do not reach the result: an HA close is the mean of
\* the bar's own prices.)
WeekCloseLive(daily) ==
    IF InWeek(bars, WeekOf(Last(daily).day) - 1) = <<>> THEN None
    ELSE HaClose(Aggregate(daily))

\* get_bars of the live context: the last stored bars and the snapshot.
LiveBars(snap) == SubSeq(bars, Max({1, Len(bars) - LiveLimit + 1}), Len(bars)) \o snap

\* A run in today's session, with the snapshot bar (snapshot_close_at_run) or
\* without: the month open for now and, if there is one and two bars, for the
\* session before; if there is that one too, the two week closes.
LiveRun(snap) ==
    LET daily == LiveBars(snap)
        first == WithMonthOpen(cache, MonthOf(Today))
        prior == MonthOf(daily[Len(daily) - 1].day)
        second == WithMonthOpen(first, prior)
    IN  /\ bars # <<>>
        /\ IF MonthOf(Today) \notin DOMAIN first.open \/ Len(daily) < 2
           THEN cache' = first /\ live' = None
           ELSE /\ cache' = second
                /\ live' = IF prior \notin DOMAIN second.open THEN None
                           ELSE [seen |-> bars \o snap, week |-> WeekCloseLive(daily)]
        /\ UNCHANGED bars

\* The session closes and its bar is stored before the next one opens.
CloseSession(bar) ==
    /\ bars' = Append(bars, [bar EXCEPT !.day = Today])
    /\ live' = None
    /\ UNCHANGED cache

BandInit ==
    /\ bars = <<>>
    /\ cache = [open |-> <<>>, anchor |-> None]
    /\ live = None

----------------------------------------------------------------------------
(* Properties                                                              *)

\* A cached month open is the one a backtest computes for every session of
\* that month: the row is made once, on whatever day the first live run of the
\* month happens to be, from an anchor row that runs for other months have
\* overwritten in the meantime.  (As long as the history fits in the lookback and
\* in the bars a backtest reads.)
MonthOpenMatchesBacktest ==
    \A i \in 2 .. Min({Len(bars), BacktestLimit}) :
        LET m == MonthOf(bars[i].day)
        IN  m \in DOMAIN cache.open =>
                cache.open[m] = MonthOpenBacktest(SubSeq(bars, 1, i))

\* What week_ha_close's docstring says of its argument ("current-week bars")
\* and week_ha_close_backtest's of itself ("matches live incremental logic"):
\* a live run and a backtest of the same bars see the same weekly HA close.
WeekCloseMatchesBacktest ==
    live # None => live.week = WeekCloseBacktest(live.seen)
=============================================================================
