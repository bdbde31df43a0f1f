---------------------------- MODULE SlotPortfolio ----------------------------
(* The two slot strategies (strategies/library/ha_month_day_revenue_slots.py *)
(* and ha_month_day_ha_cross_sma_slots.py) under the backtest engine: at     *)
(* each bar the strategy is asked for its orders, the first one that can be  *)
(* filled is filled at the bar's close, and it is asked again with the cash  *)
(* that is left, until nothing can be filled.  A bar's time is one at which  *)
(* some symbol trades: what does not is neither sold nor bought at it.  The  *)
(* two differ in how the entries of a day are found and ranked: by the       *)
(* growth of the revenue, or in the universe's order (the same growth for    *)
(* all).                                                                     *)
EXTENDS Integers, Sequences, FiniteSets, FiniteSetsExt, SequencesExt, Functions, Listing

CONSTANTS
    Universe,   \* the symbols of the run, in its order
    Cap,        \* portfolio_size
    StartCash,
    PositionPct,  \* backtest_position_pct, in percent
    MaxRounds,    \* MAX_SIGNAL_ROUNDS_PER_BAR
    Prices,     \* closes a symbol can have
    Growths,    \* what the revenues of the symbols can have grown by
    MaxSlotBars \* bound: bars of the run

ASSUME SlotAssumption ==
    /\ Universe \in Seq(ToSet(Universe))
    /\ Cap \in Nat \ {0} /\ StartCash \in Nat
    /\ Prices \subseteq Nat \ {0} /\ Prices # {}
    /\ Growths \subseteq [ToSet(Universe) -> Int]
    /\ PositionPct \in 0 .. 100 /\ MaxRounds \in Nat

VARIABLES
    disableSell, \* disable_sell_signal of the run's exit policy
    cash, qty,   \* the engine's books: shares of each symbol
    present,     \* the symbols that have a bar at this time
    mark,        \* of each symbol: its last close
    view,        \* of each symbol: its month HA closes below its open ("fall"),
                 \* above it with an entry on the bar ("enter"), or else ("hold")
    growth,      \* of each symbol's revenue
    fills,       \* fills of each symbol on this bar
    refused,     \* history: the names held that were to be sold once and were not
    cut,         \* history: a bar's rounds have run out
    slotBar

slotVars == <<disableSell, cash, qty, present, mark, view, growth, fills, refused, cut, slotBar>>

Symbols == ToSet(Universe)

\* What the month's HA and the daily one say of each symbol.
Views == [Symbols -> {"fall", "enter", "hold"}]

Value(symbols) == SumFunctionOnSet([s \in Symbols |-> qty[s] * mark[s]], symbols)
Held == {s \in Symbols : qty[s] > 0}

\* Month HA close below its open: sold.  The rest keeps its slot.
Sells == {s \in Held : view[s] = "fall"}
Kept == Held \ Sells

\* The day's entries that are not held, the highest growth first.
Ranking ==
    LET entries == {i \in DOMAIN Universe : view[Universe[i]] = "enter"
                                            /\ Universe[i] \notin Kept}
        better(i, j) == \/ growth[Universe[i]] > growth[Universe[j]]
                        \/ growth[Universe[i]] = growth[Universe[j]] /\ i < j
        order == Ranked(entries, {p \in entries \X entries : better(p[1], p[2])})
    IN  [k \in DOMAIN order |-> Universe[order[k]]]

FirstN(seq, n) == SubSeq(seq, 1, Min({n, Len(seq)}))

BuyListWholeCap ==       \* a variant: the names that are kept do not count
    FirstN(Ranking, Cap)

\* The best of them, as many as there are free slots.
BuyList == FirstN(Ranking, Max({0, Cap - Cardinality(Kept)}))

\* The proceeds of the sells if there are any, else all that is not invested,
\* in equal parts.  (An order is for whole shares here.)
CashProxy == Max({0, cash + Value(Held) - Value(Kept)})
Budget == IF Sells # {} /\ Value(Sells) > 1 THEN Value(Sells)
          ELSE IF CashProxy > 1 THEN CashProxy ELSE 0
OrderQty(s) == (Budget \div Len(BuyList)) \div mark[s]
Cost == SumFunctionOnSet([s \in Symbols |-> IF s \in ToSet(BuyList) THEN OrderQty(s) * mark[s]
                                            ELSE 0], Symbols)

----------------------------------------------------------------------------
(* The engine's round: sells come before buys, and the first order that can *)
(* be filled is; one that cannot is passed over.                            *)

\* A symbol without a bar at this time is not filled.
CanSell(s) == s \in Sells /\ s \in present /\ ~disableSell
Refusals == {s \in Sells : ~CanSell(s)}

\* buy_quantity_for_signal: the order is capped by the part of the cash one
\* buy may use.
BuyQty(s) == Min({OrderQty(s), ((cash * PositionPct) \div 100) \div mark[s]})
CanBuy(s) == s \in present /\ s \notin Held /\ BuyQty(s) > 0

FillSell(s) ==
    /\ CanSell(s)
    /\ cash' = cash + qty[s] * mark[s]
    /\ qty' = [qty EXCEPT ![s] = 0]
    /\ refused' = (refused \cup Refusals) \ {s}

FillBuy(s) ==
    /\ Sells = Refusals
    /\ \E k \in DOMAIN BuyList : /\ s = BuyList[k] /\ CanBuy(s)
                                 /\ \A j \in 1 .. k - 1 : ~CanBuy(BuyList[j])
    /\ cash' = cash - BuyQty(s) * mark[s]
    /\ qty' = [qty EXCEPT ![s] = BuyQty(s)]
    /\ refused' = refused \cup Refusals

Round ==
    /\ SumFunctionOnSet(fills, Symbols) < MaxRounds
    /\ \E s \in Symbols :
        /\ FillSell(s) \/ FillBuy(s)
        /\ fills' = [fills EXCEPT ![s] = @ + 1]
        /\ UNCHANGED <<disableSell, present, mark, view, growth, cut, slotBar>>

\* Nothing more can be filled, or the strategy is not asked again: the next bar.
NextBar ==
    /\ \/ /\ SumFunctionOnSet(fills, Symbols) >= MaxRounds
          /\ cut' = TRUE /\ UNCHANGED refused
       \/ /\ Sells = Refusals /\ \A s \in ToSet(BuyList) : ~CanBuy(s)
          /\ refused' = refused \cup Refusals /\ UNCHANGED cut
    /\ slotBar < MaxSlotBars
    /\ slotBar' = slotBar + 1
    /\ present' \in (SUBSET Symbols) \ {{}}
    /\ mark' \in [Symbols -> Prices] /\ view' \in Views
    /\ \A s \in Symbols \ present' :   \* whose revenue may become known
          mark'[s] = mark[s] /\ (view'[s] = "fall" <=> view[s] = "fall")
    /\ growth' \in Growths
    /\ fills' = [s \in Symbols |-> 0]
    /\ UNCHANGED <<disableSell, cash, qty>>

SlotInit ==
    /\ disableSell \in BOOLEAN
    /\ cash = StartCash
    /\ qty = [s \in Symbols |-> 0]
    /\ present = {}
    /\ mark = [s \in Symbols |-> Min(Prices)]
    /\ view = [s \in Symbols |-> "hold"]
    /\ growth = [s \in Symbols |-> 0]
    /\ fills = [s \in Symbols |-> 0]
    /\ refused = {}
    /\ cut = FALSE
    /\ slotBar = 0

----------------------------------------------------------------------------
\* At every round of a bar, although each fill changes the books that the next
\* round is planned from: the names held exceed the slots by no more than the
\* names that the strategy meant to sell and the engine did not; those there are
\* only with disable_sell_signal or after a bar whose rounds ran out, although
\* any symbol may not trade at any bar (the engine passes over its sell, and goes
\* on to the buys that replace it); the orders of a plan cost no more than the
\* cash and the sells bring in; and no symbol is filled twice on a bar: a name
\* that is sold is not bought back, and the recalls end.
SlotsSettle ==
    /\ refused \subseteq Held /\ Cardinality(Held \ refused) <= Cap
    /\ refused # {} => disableSell \/ cut
    /\ cash >= 0 /\ Cost <= cash + Value(Sells)
    /\ \A s \in Symbols : fills[s] <= 1
=============================================================================
