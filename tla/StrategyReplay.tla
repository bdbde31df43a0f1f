--------------------------- MODULE StrategyReplay ---------------------------
(* One strategy of the library run over a history, session by session: each  *)
(* session's bar becomes visible (backtesting/data_context.py), and the      *)
(* strategy is evaluated on the last bars up to it, as many as it asks for:  *)
(* once the history is longer, its first bar moves on with every session.    *)
(* The band strategy also runs live between sessions; the slot strategies    *)
(* trade a portfolio.                                                        *)
EXTENDS HaBand, ChanStructure, TrendRules, SlotPortfolio

CONSTANTS
    Strategies,  \* of "band", "chan", "supertrend" and "slots"
    Bars,        \* the bars a session can have, for each strategy
    MaxBars      \* bound: sessions of a history, for each strategy

ASSUME ReplayAssumption ==
    /\ \A bar \in Bars["band"] : /\ {"day", "o", "h", "l", "c"} \subseteq DOMAIN bar
                                 /\ {bar.o, bar.h, bar.l, bar.c} \subseteq Int
    /\ \A bar \in Bars["chan"] : /\ {"h", "l", "c"} \subseteq DOMAIN bar
                                 /\ {bar.h, bar.l} \subseteq Int

VARIABLES
    strategy,
    signal,      \* what the strategy said at the last session: buy, sell or hold
    emitted,     \* the last buy or sell there was, and its session
    redrawn      \* since then, a window that slid has changed what was seen before

vars == <<bandVars, slotVars, strategy, signal, emitted, redrawn>>

\* get_bars: the last bars, as many as the strategy asks for.
Limit == CASE strategy = "chan" -> BarLimit
           [] strategy = "supertrend" -> TrendLimit
           [] OTHER -> BacktestLimit
Seen(bs) == SubSeq(bs, Max({1, Len(bs) - Limit + 1}), Len(bs))

Evaluate(bs) ==
    CASE strategy = "chan" -> ChanSignal(bs)
      [] strategy = "supertrend" -> TrendSignal(bs)
      [] strategy = "band" -> IF BandSignal(bs) = None THEN "hold" ELSE BandSignal(bs)

\* What the SuperTrend or band strategy saw at the last session is not what it
\* now sees of it, because its window starts later.
Redraws ==
    LET before == Seen(bars)
        after == Seen(bars')
    IN  /\ bars # <<>>
        /\ \/ /\ strategy = "supertrend"
              /\ Trend(after)[Len(after) - 1].trend # Trend(before)[Len(before)].trend
           \/ /\ strategy = "band"
              /\ \/ WeekCloseBacktest(Front(after)) # WeekCloseBacktest(before)
                 \/ MonthOpenBacktest(Front(after)) # MonthOpenBacktest(before)

Session ==
    /\ strategy # "slots"
    /\ Len(bars) < MaxBars[strategy]
    /\ \E bar \in Bars[strategy] : CloseSession(bar)
    /\ signal' = Evaluate(Seen(bars'))
    /\ emitted' = IF signal' = "hold" THEN emitted ELSE [dir |-> signal', at |-> Len(bars')]
    /\ redrawn' = (signal' = "hold" /\ (redrawn \/ Redraws))
    /\ UNCHANGED <<slotVars, strategy>>

Live ==
    /\ strategy = "band"
    /\ LiveRun(<<>>) \/ \E bar \in Bars[strategy] : bars # <<>> /\ LiveRun(<<Snapshot(bar.c)>>)
    /\ UNCHANGED <<slotVars, strategy, signal, emitted, redrawn>>

Trade ==
    /\ strategy = "slots"
    /\ Round \/ NextBar
    /\ UNCHANGED <<bandVars, strategy, signal, emitted, redrawn>>

Init ==
    /\ BandInit /\ SlotInit
    /\ strategy \in Strategies
    /\ disableSell => strategy = "slots"
    /\ signal = "hold" /\ emitted = [dir |-> "hold", at |-> 0]
    /\ redrawn = FALSE

Next == Session \/ Live \/ Trade

Spec == Init /\ [][Next]_vars

----------------------------------------------------------------------------

\* In the chart of some bars a stroke that way ends at that merged bar.
Ends(bs, k, way) == \E s \in ToSet(ChanChart(bs)[2]) : s.to = k /\ s.dir = way

\* What a session says goes with what was said before.
SignalIsAnEvent ==
    bars' # bars /\ signal' # "hold" =>
        /\ strategy = "band" /\ ~Redraws => signal' # signal
        /\ strategy = "supertrend" /\ ~redrawn /\ ~Redraws /\ emitted.dir = "buy" =>
               signal' # "buy"
        /\ strategy = "chan" /\ signal' = emitted.dir =>
               LET now == Seen(bars')
                   then == SubSeq(now, 1, Len(now) - (Len(bars') - emitted.at))
                   way == IF signal' = "sell" THEN "up" ELSE "down"
                   other == IF signal' = "sell" THEN "down" ELSE "up"
               IN  Len(bars') <= Limit \/ Ends(now, Confirmable(then), way) =>
                       \/ Confirmable(then) = Confirmable(now)
                       \/ \E k \in Confirmable(then) + 1 .. Confirmable(now) - 1 :
                             Ends(now, k, other)

\* A signal is an event, not a state, although a window that slides may show
\* another past.  The band strategy says the same on two sessions in a row, and
\* the SuperTrend strategy buys twice with no sell in between, only if that has
\* happened.  Two sells (buys) of the Chan strategy are about the same fractal, or
\* a stroke the other way ended in between, as long as the window still shows the
\* stroke of the first one: before it slides it always does.
SignalsAreEvents == [][SignalIsAnEvent]_vars

\* What was seen before is seen again after a new bar.
PastStays ==
    bars' # bars =>
        LET before == Seen(bars)
            after == Seen(bars')
            slid == Len(before) + 1 - Len(after)
        IN  /\ strategy = "chan" /\ slid = 0 =>
                   LET old == ChanChart(before)
                       new == ChanChart(after)
                   IN  IsPrefix(old[1], new[1]) /\ IsPrefix(old[2], new[2])
            /\ strategy = "supertrend" /\ slid = 0 => IsPrefix(Trend(before), Trend(after))
            /\ strategy = "supertrend" =>
                   \A j \in 2 * PivotPeriod + 1 .. Len(after) - 1 :
                      PivotsAt(after, j) = PivotsAt(before, j + slid)

\* As long as the window does not slide, a new bar never changes what the strategy
\* saw before: fractals and strokes once formed stay (although the last merged bar
\* is still growing), and so does the trend of every earlier bar.  Pivots stay even
\* when it slides: each is known only PivotPeriod bars late.
NothingRepaints == [][PastStays]_vars
=============================================================================
