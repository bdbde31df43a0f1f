-------------------------- MODULE MCStrategyReplay --------------------------
(* Model-checking instances of StrategyReplay.                               *)
EXTENDS StrategyReplay, TLC

Flat(p) == [day |-> 0, o |-> p, h |-> p, l |-> p, c |-> p]

BandBars == {Flat(1024), Flat(2048), [Flat(1024) EXCEPT !.h = 3072, !.c = 3072]}

\* The last one includes the two before it.
ChanBars == {[day |-> 0, h |-> r[1], l |-> r[2], c |-> r[1]] :
               r \in {<<2, 1>>, <<3, 2>>, <<4, 3>>, <<5, 2>>}}

TrendBars == {[day |-> 0, h |-> r[1], l |-> r[1] - 1, c |-> r[1], bull |-> r[2]] :
                r \in ({1, 3, 4} \X {TRUE}) \cup {<<4, FALSE>>}}

\* The true range, smoothed from the first bar on; a third of it, for AtrFactor is a
\* whole number here.
MCAtr(bs) ==
    LET range(i) == IF i = 1 THEN bs[1].h - bs[1].l
                    ELSE Max({bs[i].h, bs[i - 1].c}) - Min({bs[i].l, bs[i - 1].c})
    IN  FoldLeft(LAMBDA a, i : (a + range(i)) \div 2, range(1), [i \in DOMAIN bs |-> i]) \div 3

MCBars == [s \in {"band", "chan", "supertrend"} |->
             CASE s = "band" -> BandBars [] s = "chan" -> ChanBars [] OTHER -> TrendBars]
MCMaxBars == [s \in {"band", "chan", "supertrend"} |->
                CASE s = "band" -> 7 [] s = "chan" -> 9 [] OTHER -> 7]
MCUniverse == <<"a", "b", "c">>
MCGrowths == {[s \in Symbols |-> IF s = "c" THEN 1 ELSE 0]}
=============================================================================
