----------------------------- MODULE TrendRules -----------------------------
(* The pivot SuperTrend strategy (strategies/library/pivot_supertrend.py):   *)
(* confirmed pivots move a center line, a band of ATRs around it ratchets,   *)
(* and a close beyond the band flips the trend.  A bar is a record of h, l,  *)
(* c and whether the benchmark is above its average.  The regime and volume  *)
(* filters, off by default, and the sizing are left out.                     *)
EXTENDS Integers, Sequences, FiniteSets, FiniteSetsExt, SequencesExt

CONSTANTS
    TrendLimit,    \* limit: the bars that are looked at
    Atr(_),        \* the ATR of the last of some bars (pandas_ta computes it)
    PivotPeriod,   \* pivot_period
    AtrPeriod,     \* atr_period: the first bar that has an ATR
    AtrFactor      \* atr_factor

ASSUME TrendAssumption ==
    PivotPeriod \in Nat /\ AtrPeriod \in Nat \ {0} /\ TrendLimit \in Nat \ {0, 1}

\* min_bars
MinTrendBars == 2 * PivotPeriod + AtrPeriod + 1

\* _detect_pivots: at bar j, the bar PivotPeriod back is a pivot if no other bar
\* of the 2 * PivotPeriod + 1 up to j reaches its high (its low).
PivotsAt(bs, j) ==
    LET c == j - PivotPeriod
        window == (j - 2 * PivotPeriod .. j) \ {c}
    IN  IF j <= 2 * PivotPeriod THEN <<>>
        ELSE IF \A i \in window : bs[i].h < bs[c].h THEN <<bs[c].h>>
        ELSE IF \A i \in window : bs[i].l > bs[c].l THEN <<bs[c].l>>
        ELSE <<>>

\* The center moves a third of the way to each pivot.
Center(bs) ==
    LET center[j \in 0 .. Len(bs)] ==
            IF j = 0 THEN <<>>
            ELSE LET p == PivotsAt(bs, j)
                 IN  IF p = <<>> THEN center[j - 1]
                     ELSE IF center[j - 1] = <<>> THEN p
                     ELSE <<(center[j - 1][1] * 2 + p[1]) \div 3>>
    IN  [j \in DOMAIN bs |-> center[j]]

\* Band and trend of every bar; before the first center and the first ATR there
\* is none.
Trend(bs) ==
    LET center == Center(bs)
        atr(j) == Atr(SubSeq(bs, 1, j))
        up(j) == center[j][1] - AtrFactor * atr(j)
        dn(j) == center[j][1] + AtrFactor * atr(j)
        t[j \in 0 .. Len(bs)] ==
            IF j = 0 THEN [trend |-> 0, up |-> 0, dn |-> 0]
            ELSE IF center[j] = <<>> \/ j < AtrPeriod THEN t[j - 1]
            ELSE IF t[j - 1].trend = 0 THEN [trend |-> 1, up |-> up(j), dn |-> dn(j)]
            ELSE LET q == t[j - 1]
                     prevClose == bs[j - 1].c
                 IN  [up |-> IF prevClose > q.up THEN Max({up(j), q.up}) ELSE up(j),
                      dn |-> IF prevClose < q.dn THEN Min({dn(j), q.dn}) ELSE dn(j),
                      trend |-> IF bs[j].c > q.dn THEN 1
                                ELSE IF bs[j].c < q.up THEN -1 ELSE q.trend]
    IN  [j \in DOMAIN bs |-> t[j]]

\* A flip is a signal; the benchmark can only hold back a buy.
TrendSignal(bs) ==
    LET t == Trend(bs)
        n == Len(bs)
        flip(from, to) == t[n - 1].trend = from /\ t[n].trend = to
    IN  IF n < MinTrendBars THEN "hold"
        ELSE IF flip(-1, 1) /\ bs[n].bull THEN "buy"
        ELSE IF flip(1, -1) THEN "sell"
        ELSE "hold"
=============================================================================
