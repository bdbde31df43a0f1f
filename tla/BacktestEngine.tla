---------------------------- MODULE BacktestEngine ----------------------------
(***************************************************************************)
(* The bar loop of the backtest engine (backtesting/engine.py), with its   *)
(* position sizing and exit policy.                                        *)
(*                                                                         *)
(* A run walks over the simulated bars.  At each bar it settles the exits  *)
(* queued at the bar before, checks the exit policy of every open          *)
(* position, and then asks the strategy for signals until it has none      *)
(* that can be filled.  A strategy may ask for anything: it is a           *)
(* nondeterministic choice.  Times are the positions 1 .. N in all_times,  *)
(* the union of the symbols' bar times, so a symbol may have no bar at a   *)
(* time.  Money, prices and quantities are counted in units so small that  *)
(* the integer divisions below lose nothing that matters; percentages are  *)
(* whole.                                                                  *)
(***************************************************************************)
EXTENDS Integers, Sequences, FiniteSets, FiniteSetsExt

CONSTANTS Symbols,
          N,            \* len(all_times)
          Inputs,       \* the runs considered: data, window, policy, fill mode
          Capital,      \* initial_capital
          PositionPct,  \* position_pct, in percent
          Quantities,   \* the quantities a strategy may ask for
          SignalStops,  \* the stop prices a strategy may ask for
          MaxRounds,    \* MAX_SIGNAL_ROUNDS_PER_BAR
          None          \* no bar, level, quantity or position

Positive == Nat \ {0}

Bars == {b \in [open : Positive, high : Positive, low : Positive, close : Positive] :
            b.low <= b.open /\ b.low <= b.close /\ b.open <= b.high /\ b.close <= b.high}

\* ExitPolicy, as its validators leave it.
Policies ==
    {p \in [stopPct : Positive \cup {None}, stopAbs : Positive \cup {None},
            tpPct : Positive \cup {None}, tpAbs : Positive \cup {None},
            trailPct : Positive \cup {None}, activatePct : Positive \cup {None},
            mode : {"close", "ohlc"}, disableSell : BOOLEAN] :
        /\ p.stopPct = None \/ p.stopAbs = None
        /\ p.tpPct = None \/ p.tpAbs = None
        /\ p.activatePct # None => p.trailPct # None}

\* The last step of the loop: _simulation_bar_indices leaves out the last bar
\* of the window when fills need the next bar's open.
LastStep(in) == IF in.fill = "same_close" THEN in.last ELSE in.last - 1

ValidInputs ==
    {in \in [bars : [Symbols -> [1 .. N -> Bars \cup {None}]],
             first : 1 .. N, last : 1 .. N,
             fill : {"next_open", "same_close"}, policy : Policies \cup {None}] :
        /\ \A t \in 1 .. N : \E s \in Symbols : in.bars[s][t] # None
        /\ in.first <= LastStep(in)}

\* An open position, and the reasons of the policy to end it.
Positions ==
    [qty : Positive, entryTime : 1 .. N, entryPrice : Positive, peak : Positive,
     trailing : BOOLEAN, stop : Positive \cup {None}, target : Positive \cup {None}]

PolicyReasons == {"stop_loss", "trailing_stop", "take_profit"}

ASSUME EngineAssumption ==
    /\ IsFiniteSet(Symbols)
    /\ N \in Nat /\ N >= 2 /\ Capital \in Positive /\ MaxRounds \in Nat
    /\ PositionPct \in 0 .. 100
    /\ Quantities \subseteq Positive /\ SignalStops \subseteq Positive
    /\ None \notin Int \cup Bars \cup Policies
    /\ Inputs \subseteq ValidInputs

ASSUME NoneAssumption ==
    None \notin Positions \cup [reason : PolicyReasons, position : Positions]

VARIABLES input,    \* the arguments of run
          pc,       \* the phase of the bar loop
          step,     \* the bar being simulated
          todo,     \* the symbols a loop over positions or exits has left
          round,    \* round_i
          cash,
          held,     \* positions
          pending,  \* pending_close_exits
          closed,   \* closed_trades
          equity    \* the latest point of equity_series

vars == <<input, pc, step, todo, round, cash, held, pending, closed, equity>>

-----------------------------------------------------------------------------
(* The data a run looks at.                                                *)

Bar(s, t) == input.bars[s][t]
Times(s)  == {t \in 1 .. N : Bar(s, t) # None}

\* The close last known at t, or the last one of all if there is none.
LastClose(s, t) ==
    LET known == {u \in Times(s) : u <= t} IN
    IF known # {} THEN Bar(s, Max(known)).close ELSE Bar(s, Max(Times(s))).close

\* Where an order of this step is filled: this bar, or the next bar of the symbol.
FillTimes(s) ==
    IF input.fill = "same_close" THEN Times(s) \cap {step}
    ELSE {t \in Times(s) : t > step}

FillTime(s)  == Min(FillTimes(s))
FillPrice(s) == IF input.fill = "same_close" THEN Bar(s, FillTime(s)).close
                ELSE Bar(s, FillTime(s)).open

-----------------------------------------------------------------------------
(* position_sizing.py, and the levels an entry gets.                       *)

\* int(qty) shares at least one when the strategy names no quantity; the cap
\* on its quantity otherwise.
BuyQuantity(price, wanted) ==
    LET cap == (cash * PositionPct) \div (100 * price) IN
    IF cash * PositionPct = 0 THEN 0
    ELSE IF wanted = None THEN IF cap > 1 THEN cap ELSE 1
    ELSE IF wanted < cap THEN wanted ELSE cap

\* _compute_stop_price
PolicyStop(entry, qty) ==
    LET ep == input.policy IN
    CASE ep # None /\ ep.stopPct # None -> (entry * (100 - ep.stopPct)) \div 100
      [] ep # None /\ ep.stopPct = None /\ ep.stopAbs # None -> entry - ep.stopAbs \div qty
      [] OTHER -> None

\* _compute_tp_price
PolicyTarget(entry, qty) ==
    LET ep == input.policy IN
    CASE ep # None /\ ep.tpPct # None -> (entry * (100 + ep.tpPct)) \div 100
      [] ep # None /\ ep.tpPct = None /\ ep.tpAbs # None -> entry + ep.tpAbs \div qty
      [] OTHER -> None

\* The stops of policy and strategy that lie below the entry.
StopCandidates(entry, qty, wanted) ==
    {x \in {PolicyStop(entry, qty), wanted} \ {None} : 0 < x /\ x < entry}

\* Variant: the looser of the two stops is taken.
InitialStop_Loosest(entry, qty, wanted) ==
    LET S == StopCandidates(entry, qty, wanted) IN IF S = {} THEN None ELSE Min(S)

InitialStop(entry, qty, wanted) ==
    LET S == StopCandidates(entry, qty, wanted) IN IF S = {} THEN None ELSE Max(S)

Entered(time, price, qty, wantedStop) ==
    [qty |-> qty, entryTime |-> time, entryPrice |-> price, peak |-> price,
     trailing |-> FALSE, stop |-> InitialStop(price, qty, wantedStop),
     target |-> PolicyTarget(price, qty)]

Exited(s, p, time, price, reason) ==
    [sym |-> s, qty |-> p.qty, entryTime |-> p.entryTime, entryPrice |-> p.entryPrice,
     exitTime |-> time, exitPrice |-> price, reason |-> reason]

-----------------------------------------------------------------------------
(* The exit policy on one bar.                                             *)

\* Variant: a peak at the target is not enough.
Activates_AboveTarget(p, peak) == p.target = None \/ peak > p.target

\* The activation threshold of the trailing stop is reached.
Activates(p, peak) ==
    LET ep == input.policy IN
    CASE p.target # None -> peak >= p.target
      [] p.target = None /\ ep.activatePct # None ->
           100 * peak >= p.entryPrice * (100 + ep.activatePct)
      [] OTHER -> TRUE

\* Variant: the peak is the latest price.
Updated_LatestPrice(p, bar) ==
    LET price == IF input.policy.mode = "ohlc" THEN bar.high ELSE bar.close IN
    [p EXCEPT !.peak = price,
              !.trailing = @ \/ (input.policy.trailPct # None /\ Activates(p, price))]

\* _update_state: the peak, and the activation of the trailing stop.
Updated(p, bar) ==
    LET ep    == input.policy
        price == IF ep.mode = "ohlc" THEN bar.high ELSE bar.close
        peak  == IF price > p.peak THEN price ELSE p.peak
    IN [p EXCEPT !.peak = peak,
                 !.trailing = @ \/ (ep.trailPct # None /\ Activates(p, peak))]

TrailLevel(p) == (p.peak * (100 - input.policy.trailPct)) \div 100

\* The conditions of _check_exit.
StopHit(p, bar) ==
    p.stop # None /\ (IF input.policy.mode = "ohlc" THEN bar.low ELSE bar.close) <= p.stop
TrailHit(p, bar) ==
    /\ p.trailing /\ input.policy.trailPct # None
    /\ (IF input.policy.mode = "ohlc" THEN bar.low ELSE bar.close) <= TrailLevel(p)
TargetHit(p, bar) ==
    /\ ~p.trailing /\ p.target # None
    /\ (IF input.policy.mode = "ohlc" THEN bar.high ELSE bar.close) >= p.target

\* Variant: the trailing stop is looked at before the stop loss.
ExitReason_TrailFirst(p, bar) ==
    CASE TrailHit(p, bar) -> "trailing_stop"
      [] ~TrailHit(p, bar) /\ StopHit(p, bar) -> "stop_loss"
      [] ~TrailHit(p, bar) /\ ~StopHit(p, bar) /\ TargetHit(p, bar) -> "take_profit"
      [] OTHER -> "hold"

\* _check_exit: stop loss first, then the trailing stop, then the target.
ExitReason(p, bar) ==
    CASE StopHit(p, bar) -> "stop_loss"
      [] ~StopHit(p, bar) /\ TrailHit(p, bar) -> "trailing_stop"
      [] ~StopHit(p, bar) /\ ~TrailHit(p, bar) /\ TargetHit(p, bar) -> "take_profit"
      [] OTHER -> "hold"

\* _ohlc_fill_price
LevelPrice(p, reason) ==
    CASE reason = "stop_loss"     -> p.stop
      [] reason = "take_profit"   -> p.target
      [] reason = "trailing_stop" -> TrailLevel(p)

-----------------------------------------------------------------------------
Of(f) == {s \in Symbols : f[s] # None}

\* Position p on s ends: its proceeds are cash, its trade is recorded.
Close(s, p, time, price, reason) ==
    /\ cash' = cash + p.qty * price
    /\ closed' = Append(closed, Exited(s, p, time, price, reason))

Init ==
    /\ input \in Inputs
    /\ pc = "bar"
    /\ step = input.first
    /\ todo = {}
    /\ round = 0
    /\ cash = Capital
    /\ held = [s \in Symbols |-> None]
    /\ pending = [s \in Symbols |-> None]
    /\ closed = <<>>
    /\ equity = Capital

\* The next bar: its loop over pending_close_exits begins.
NextBar ==
    /\ pc = "bar"
    /\ step <= LastStep(input)
    /\ pc' = "settle"
    /\ todo' = Of(pending)
    /\ UNCHANGED <<input, step, round, cash, held, pending, closed, equity>>

\* Variant: an exit is settled without being taken off the list.
Settle_KeepsPending(s) ==
    /\ pc = "settle" /\ s \in todo
    /\ todo' = todo \ {s}
    /\ IF Bar(s, step) = None THEN UNCHANGED <<cash, closed>>
       ELSE Close(s, pending[s].position, step, Bar(s, step).open, pending[s].reason)
    /\ UNCHANGED <<input, pc, step, round, held, pending, equity>>

\* A queued exit is filled at the open of this bar; clear() drops it also
\* when its symbol has no bar here.
Settle(s) ==
    /\ pc = "settle" /\ s \in todo
    /\ todo' = todo \ {s}
    /\ pending' = [pending EXCEPT ![s] = None]
    /\ IF Bar(s, step) = None THEN UNCHANGED <<cash, closed>>
       ELSE Close(s, pending[s].position, step, Bar(s, step).open, pending[s].reason)
    /\ UNCHANGED <<input, pc, step, round, held, equity>>

\* Without a policy no position is checked.
Settled ==
    /\ pc = "settle" /\ todo = {}
    /\ pc' = "exits"
    /\ todo' = IF input.policy = None THEN {} ELSE Of(held)
    /\ UNCHANGED <<input, step, round, cash, held, pending, closed, equity>>

\* One position meets the exit policy: it goes on with its new peak, ends at
\* its level (ohlc), or is queued for the next open (close).
CheckExit(s) ==
    /\ pc = "exits" /\ s \in todo
    /\ todo' = todo \ {s}
    /\ IF Bar(s, step) = None THEN UNCHANGED <<cash, held, pending, closed>>
       ELSE LET p      == Updated(held[s], Bar(s, step))
                reason == ExitReason(p, Bar(s, step))
            IN CASE reason = "hold" ->
                      /\ held' = [held EXCEPT ![s] = p]
                      /\ UNCHANGED <<cash, pending, closed>>
                 [] reason # "hold" /\ input.policy.mode = "ohlc" ->
                      /\ held' = [held EXCEPT ![s] = None]
                      /\ Close(s, p, step, LevelPrice(p, reason), reason)
                      /\ UNCHANGED pending
                 [] OTHER ->
                      /\ held' = [held EXCEPT ![s] = None]
                      /\ pending' = [pending EXCEPT ![s] = [reason |-> reason, position |-> p]]
                      /\ UNCHANGED <<cash, closed>>
    /\ UNCHANGED <<input, pc, step, round, equity>>

Checked ==
    /\ pc = "exits" /\ todo = {}
    /\ pc' = "signals"
    /\ round' = 0
    /\ UNCHANGED <<input, step, todo, cash, held, pending, closed, equity>>

-----------------------------------------------------------------------------
(* _try_execute_signal, for a signal that is filled.                       *)

\* Variant: nothing is asked of the cash.
Buy_Overdraws(s, wanted, wantedStop) ==
    /\ pc = "signals" /\ round < MaxRounds
    /\ held[s] = None /\ FillTimes(s) # {}
    /\ LET qty == BuyQuantity(FillPrice(s), wanted) IN
          /\ qty > 0
          /\ cash' = cash - qty * FillPrice(s)
          /\ held' = [held EXCEPT ![s] = Entered(FillTime(s), FillPrice(s), qty, wantedStop)]
    /\ round' = round + 1
    /\ UNCHANGED <<input, pc, step, todo, pending, closed, equity>>

Buy(s, wanted, wantedStop) ==
    /\ pc = "signals" /\ round < MaxRounds
    /\ held[s] = None
    /\ FillTimes(s) # {}
    /\ LET qty  == BuyQuantity(FillPrice(s), wanted)
           cost == qty * FillPrice(s)
       IN /\ qty > 0
          /\ cost <= cash
          /\ cash' = cash - cost
          /\ held' = [held EXCEPT ![s] = Entered(FillTime(s), FillPrice(s), qty, wantedStop)]
    /\ round' = round + 1
    /\ UNCHANGED <<input, pc, step, todo, pending, closed, equity>>

\* Variant: the trade ends at the bar that decided it.
Sell_AtDecision(s) ==
    /\ pc = "signals" /\ round < MaxRounds
    /\ held[s] # None /\ FillTimes(s) # {}
    /\ input.policy # None => ~input.policy.disableSell
    /\ held' = [held EXCEPT ![s] = None]
    /\ Close(s, held[s], step, FillPrice(s), "signal")
    /\ round' = round + 1
    /\ UNCHANGED <<input, pc, step, todo, pending, equity>>

Sell(s) ==
    /\ pc = "signals" /\ round < MaxRounds
    /\ held[s] # None
    /\ FillTimes(s) # {}
    /\ input.policy # None => ~input.policy.disableSell
    /\ held' = [held EXCEPT ![s] = None]
    /\ Close(s, held[s], FillTime(s), FillPrice(s), "signal")
    /\ round' = round + 1
    /\ UNCHANGED <<input, pc, step, todo, pending, equity>>

\* Cash and the open positions at the closes known at this bar.
MarkToMarket ==
    cash + SumFunctionOnSet([s \in Of(held) |-> held[s].qty * LastClose(s, step)],
                            {s \in Of(held) : \E t \in Times(s) : t <= step})

\* The strategy has no signal (that can be filled), or has had its rounds.
EndOfBar ==
    /\ pc = "signals"
    /\ equity' = MarkToMarket
    /\ step' = step + 1
    /\ pc' = "bar"
    /\ UNCHANGED <<input, todo, round, cash, held, pending, closed>>

-----------------------------------------------------------------------------
(* After the last bar.                                                     *)

EndOfBars ==
    /\ pc = "bar"
    /\ step > LastStep(input)
    /\ pc' = "last_exits"
    /\ todo' = Of(pending)
    /\ UNCHANGED <<input, step, round, cash, held, pending, closed, equity>>

\* A queued exit is filled at the open of the last bar of the window, or at
\* the last close of all.
SettleLast(s) ==
    /\ pc = "last_exits" /\ s \in todo
    /\ todo' = todo \ {s}
    /\ pending' = [pending EXCEPT ![s] = None]
    /\ Close(s, pending[s].position, input.last,
             IF Bar(s, input.last) # None THEN Bar(s, input.last).open
             ELSE Bar(s, Max(Times(s))).close,
             pending[s].reason)
    /\ UNCHANGED <<input, pc, step, round, held, equity>>

SettledLast ==
    /\ pc = "last_exits" /\ todo = {}
    /\ pc' = "liquidate"
    /\ todo' = Of(held)
    /\ UNCHANGED <<input, step, round, cash, held, pending, closed, equity>>

\* Open positions end at the last close of the window.
Liquidate(s) ==
    /\ pc = "liquidate" /\ s \in todo
    /\ todo' = todo \ {s}
    /\ held' = [held EXCEPT ![s] = None]
    /\ Close(s, held[s], input.last, LastClose(s, input.last), "end_of_backtest")
    /\ UNCHANGED <<input, pc, step, round, pending, equity>>

Finish ==
    /\ pc = "liquidate" /\ todo = {}
    /\ pc' = "done"
    /\ equity' = cash
    /\ UNCHANGED <<input, step, todo, round, cash, held, pending, closed>>

Next ==
    \/ NextBar \/ Settled \/ Checked \/ EndOfBar
    \/ EndOfBars \/ SettledLast \/ Finish
    \/ \E s \in Symbols :
          \/ Settle(s) \/ CheckExit(s) \/ Sell(s) \/ SettleLast(s) \/ Liquidate(s)
          \/ \E wanted \in Quantities \cup {None}, stop \in SignalStops \cup {None} :
                Buy(s, wanted, stop)

Spec == Init /\ [][Next]_vars

-----------------------------------------------------------------------------
(* Properties.                                                             *)

Trades ==
    [sym : Symbols, qty : Positive, entryTime : 1 .. N, entryPrice : Positive,
     exitTime : 1 .. N, exitPrice : Nat,
     reason : PolicyReasons \cup {"signal", "end_of_backtest"}]

\* Among the rest: cash is never negative, whatever the strategy asks for.
StateTypeOK ==
    /\ input \in ValidInputs
    /\ pc \in {"bar", "settle", "exits", "signals", "last_exits", "liquidate", "done"}
    /\ step \in 1 .. N + 1
    /\ todo \subseteq Symbols
    /\ round \in 0 .. MaxRounds
    /\ cash \in Nat
    /\ held \in [Symbols -> Positions \cup {None}]
    /\ pending \in [Symbols -> [reason : PolicyReasons, position : Positions] \cup {None}]
    /\ closed \in Seq(Trades)

TypeOK == StateTypeOK /\ equity \in Nat

\* Every symbol has a bar at every time of the window.
Aligned ==
    \A s \in Symbols, t \in input.first .. input.last : Bar(s, t) # None

\* What the positions not yet closed have cost.
Cost(p) == p.qty * p.entryPrice
Stake(s) == (IF held[s] = None THEN 0 ELSE Cost(held[s]))
              + (IF pending[s] = None THEN 0 ELSE Cost(pending[s].position))
Invested == SumFunction([s \in Symbols |-> Stake(s)])

Profit(trade) == trade.qty * (trade.exitPrice - trade.entryPrice)

\* What the recorded trades explain.
Explained == Capital + SumFunction([n \in DOMAIN closed |-> Profit(closed[n])])

\* No queued exit, re-entry while an exit is queued, or settlement after the
\* last bar pays a position twice or loses it: the cash and the positions are
\* what the trades explain, and at the end the final equity is the capital and
\* the profits.  With gaps the books may fall short, because a queued exit is
\* dropped with its position when its symbol misses the next bar; they never
\* show more than there is.
BooksBalance ==
    /\ cash + Invested <= Explained
    /\ Aligned => cash + Invested = Explained

\* No trade ends before it began, though fills lie in the future of the bar
\* that ordered them and symbols miss bars.  (Data beyond the window, with a
\* gap at its end, is excluded: there an entry may be filled after the end.)
TimeFlows ==
    Aligned \/ input.last = N =>
        \A n \in DOMAIN closed : closed[n].entryTime <= closed[n].exitTime

\* With intrabar exits, no exit the policy makes is worse than its stop loss:
\* neither a wider stop of the strategy nor a trailing stop below it wins.
LossIsCapped ==
    \A n \in DOMAIN closed :
        LET trade == closed[n] IN
        trade.reason \in PolicyReasons /\ input.policy.mode = "ohlc" =>
            \A level \in StopCandidates(trade.entryPrice, trade.qty, None) :
                trade.exitPrice >= level

\* With a trailing stop and a target, the target only arms the trailing stop:
\* no position is ever closed at the target.
TargetArmsTrail ==
    \A n \in DOMAIN closed :
        closed[n].reason = "take_profit" => input.policy.trailPct = None

\* While a position is open, its peak only rises, an armed trailing stop stays
\* armed, and its stop and target do not move.
TrailRatchets ==
    [][\A s \in Symbols :
          LET p == held[s]  q == held'[s] IN
          p # None /\ q # None =>
              /\ q.peak >= p.peak
              /\ p.trailing => q.trailing
              /\ q.stop = p.stop /\ q.target = p.target]_vars
=============================================================================
