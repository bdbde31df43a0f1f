------------------------- MODULE BacktestEngineProofs -------------------------
(***************************************************************************)
(* Proofs about BacktestEngine, for any data, window, exit policy, fill    *)
(* mode and strategy: the types, the exit levels, the trades, the books.   *)
(***************************************************************************)
EXTENDS BacktestEngine, SequenceTheorems, CountingLemmas

-----------------------------------------------------------------------------
(* Least and greatest elements.                                            *)

LEMMA MinIsLeast ==
  ASSUME NEW T \in SUBSET Nat, T # {}
  PROVE  Min(T) \in T /\ \A y \in T : Min(T) <= y
BY LeastNumber DEF Min

LEMMA MaxIsGreatest ==
  ASSUME NEW n \in Nat, NEW T \in SUBSET (1 .. n), T # {}
  PROVE  Max(T) \in T /\ \A y \in T : y <= Max(T)
<1> DEFINE D == {n - t : t \in T}
<1>1. D \in SUBSET Nat
  OBVIOUS
<1>2. D # {}
  OBVIOUS
<1>3. Min(D) \in D /\ \A y \in D : Min(D) <= y
  BY <1>1, <1>2, MinIsLeast
<1>4. PICK x \in T : Min(D) = n - x
  BY <1>3
<1>5. \A y \in T : y <= x
  <2> TAKE y \in T
  <2>1. n - y \in D
    OBVIOUS
  <2>2. n - x <= n - y
    BY <1>3, <1>4, <2>1
  <2> QED
    BY <2>2
<1> QED
  BY <1>5 DEF Max

-----------------------------------------------------------------------------
(* What a run looks at.                                                    *)

LEMMA PolicyFields ==
  ASSUME StateTypeOK, input.policy # None
  PROVE  LET ep == input.policy IN
         /\ ep.stopPct \in Positive \cup {None} /\ ep.stopAbs \in Positive \cup {None}
         /\ ep.tpPct \in Positive \cup {None}   /\ ep.tpAbs \in Positive \cup {None}
         /\ ep.trailPct \in Positive \cup {None}
         /\ ep.activatePct \in Positive \cup {None}
BY DEF StateTypeOK, ValidInputs, Policies

LEMMA WindowFacts ==
  ASSUME StateTypeOK
  PROVE  /\ input.first \in 1 .. N /\ input.last \in 1 .. N
         /\ input.fill \in {"next_open", "same_close"}
         /\ LastStep(input) \in 0 .. N
         /\ input.fill = "same_close" => LastStep(input) = input.last
         /\ input.fill = "next_open" => LastStep(input) = input.last - 1
BY EngineAssumption DEF StateTypeOK, ValidInputs, LastStep

\* The prices of a bar, where there is one.
LEMMA BarPrices ==
  ASSUME StateTypeOK, NEW s \in Symbols, NEW t \in 1 .. N, Bar(s, t) # None
  PROVE  /\ Bar(s, t).open \in Positive /\ Bar(s, t).close \in Positive
         /\ Bar(s, t).high \in Positive /\ Bar(s, t).low \in Positive
<1>1. input.bars \in [Symbols -> [1 .. N -> Bars \cup {None}]]
  BY DEF StateTypeOK, ValidInputs
<1>2. Bar(s, t) \in Bars
  BY <1>1 DEF Bar
<1> QED
  BY <1>2 DEF Bars

LEMMA LastCloseFacts ==
  ASSUME StateTypeOK, NEW s \in Symbols, NEW t, Times(s) # {}
  PROVE  LastClose(s, t) \in Positive
<1> DEFINE known == {u \in Times(s) : u <= t}
<1>1. Times(s) \in SUBSET (1 .. N) /\ known \in SUBSET (1 .. N) /\ N \in Nat
  BY EngineAssumption DEF Times
<1>2. Max(Times(s)) \in Times(s)
  BY <1>1, MaxIsGreatest
<1>3. CASE known # {}
  <2>1. Max(known) \in known
    BY <1>1, <1>3, MaxIsGreatest
  <2>2. Max(known) \in 1 .. N /\ Bar(s, Max(known)) # None
    BY <2>1 DEF Times
  <2> QED
    BY <1>3, <2>2, BarPrices DEF LastClose
<1>4. CASE known = {}
  <2>1. Max(Times(s)) \in 1 .. N /\ Bar(s, Max(Times(s))) # None
    BY <1>2 DEF Times
  <2> QED
    BY <1>4, <2>1, BarPrices DEF LastClose
<1> QED
  BY <1>3, <1>4

\* An order is filled at a time of the symbol, and at no later one than need be.
LEMMA FillFacts ==
  ASSUME StateTypeOK, NEW s \in Symbols, FillTimes(s) # {}
  PROVE  /\ FillTime(s) \in 1 .. N /\ FillTime(s) \in FillTimes(s)
         /\ \A t \in FillTimes(s) : FillTime(s) <= t
         /\ FillPrice(s) \in Positive
         /\ Times(s) # {}
<1>1. FillTimes(s) \in SUBSET Times(s) /\ Times(s) \in SUBSET (1 .. N)
  BY DEF FillTimes, Times
<1>2. FillTimes(s) \in SUBSET Nat
  BY <1>1, EngineAssumption
<1>3. FillTime(s) \in FillTimes(s) /\ \A t \in FillTimes(s) : FillTime(s) <= t
  BY <1>2, MinIsLeast DEF FillTime
<1>4. FillTime(s) \in 1 .. N /\ Bar(s, FillTime(s)) # None
  BY <1>1, <1>3 DEF Times
<1> QED
  BY <1>1, <1>3, <1>4, BarPrices DEF FillPrice

-----------------------------------------------------------------------------
(* Quantities and levels.                                                  *)

LEMMA Quotient ==
  ASSUME NEW x \in Int, NEW y \in Nat \ {0}
  PROVE  x \div y \in Int
OBVIOUS

LEMMA QuotientOfNat ==
  ASSUME NEW x \in Nat, NEW y \in Nat \ {0}
  PROVE  x \div y \in Nat
OBVIOUS

LEMMA Product ==
  ASSUME NEW x \in Nat, NEW y \in Nat
  PROVE  x * y \in Nat
OBVIOUS

\* A quantity is a natural number.
LEMMA QuantityFacts ==
  ASSUME StateTypeOK, NEW price \in Positive, NEW wanted \in Quantities \cup {None}
  PROVE  BuyQuantity(price, wanted) \in Nat
<1> DEFINE money == cash * PositionPct
           unit == 100 * price
           cap == money \div unit
<1>1. money \in Nat
  BY EngineAssumption, Product DEF StateTypeOK
<1>2. unit \in Nat \ {0}
  BY DEF Positive
<1>3. cap \in Nat
  <2> HIDE DEF money, unit
  <2> QED
    BY <1>1, <1>2, QuotientOfNat
<1>4. wanted # None => wanted \in Nat
  BY EngineAssumption DEF Positive
<1> HIDE DEF cap
<1>5. BuyQuantity(price, wanted) =
        IF cash * PositionPct = 0 THEN 0
        ELSE IF wanted = None THEN IF cap > 1 THEN cap ELSE 1
        ELSE IF wanted < cap THEN wanted ELSE cap
  BY DEF BuyQuantity, cap
<1> QED
  BY <1>3, <1>4, <1>5

\* The stop of the policy is a number, its target lies at or above the entry.
LEMMA PolicyLevels ==
  ASSUME StateTypeOK, NEW entry \in Positive, NEW qty \in Positive
  PROVE  /\ PolicyStop(entry, qty) \in Int \cup {None}
         /\ PolicyTarget(entry, qty) \in Positive \cup {None}
         /\ PolicyTarget(entry, qty) # None => PolicyTarget(entry, qty) >= entry
<1> DEFINE ep == input.policy
<1>1. CASE ep = None
  BY <1>1 DEF PolicyStop, PolicyTarget
<1>2. CASE ep # None
  <2> USE PolicyFields, <1>2
  <2> DEFINE pctStop == (entry * (100 - ep.stopPct)) \div 100
             absStop == ep.stopAbs \div qty
             pctTarget == (entry * (100 + ep.tpPct)) \div 100
             absTarget == ep.tpAbs \div qty
  <2>1. ep.stopPct # None => pctStop \in Int
    <3>1. ep.stopPct # None => entry * (100 - ep.stopPct) \in Int
      BY DEF Positive
    <3> QED
      BY <3>1, Quotient
  <2>2. ep.stopAbs # None => absStop \in Int
    BY Quotient DEF Positive
  <2>3. ep.tpPct # None => pctTarget \in Int /\ pctTarget >= entry
    <3>1. SUFFICES ASSUME ep.tpPct \in Positive PROVE pctTarget \in Int /\ pctTarget >= entry
      OBVIOUS
    <3> DEFINE gain == entry * ep.tpPct
    <3>2. gain \in Nat
      BY <3>1, Product DEF Positive
    <3>3. entry * (100 + ep.tpPct) = 100 * entry + gain
      BY <3>1 DEF Positive
    <3> HIDE DEF gain
    <3>4. (100 * entry + gain) \div 100 >= entry /\ (100 * entry + gain) \div 100 \in Int
      BY <3>2 DEF Positive
    <3> QED
      BY <3>3, <3>4
  <2>4. ep.tpAbs # None => absTarget \in Nat
    BY QuotientOfNat DEF Positive
  <2>5. PolicyStop(entry, qty) =
          CASE ep.stopPct # None -> pctStop
            [] ep.stopPct = None /\ ep.stopAbs # None -> entry - absStop
            [] OTHER -> None
    BY DEF PolicyStop
  <2>6. PolicyTarget(entry, qty) =
          CASE ep.tpPct # None -> pctTarget
            [] ep.tpPct = None /\ ep.tpAbs # None -> entry + absTarget
            [] OTHER -> None
    BY DEF PolicyTarget
  <2> HIDE DEF pctStop, absStop, pctTarget, absTarget
  <2>7. PolicyStop(entry, qty) \in Int \cup {None}
    BY <2>1, <2>2, <2>5 DEF Positive
  <2>8. PolicyTarget(entry, qty) \in Positive \cup {None}
    BY <2>3, <2>4, <2>6 DEF Positive
  <2>9. PolicyTarget(entry, qty) # None => PolicyTarget(entry, qty) >= entry
    BY <2>3, <2>4, <2>6 DEF Positive
  <2> QED
    BY <2>7, <2>8, <2>9
<1> QED
  BY <1>1, <1>2

\* An entry gets the tightest of the stops below it, and never less than the
\* policy's.
LEMMA InitialStopFacts ==
  ASSUME StateTypeOK, NEW entry \in Positive, NEW qty \in Positive,
         NEW wanted \in SignalStops \cup {None}
  PROVE  /\ InitialStop(entry, qty, wanted) \in Positive \cup {None}
         /\ \A level \in StopCandidates(entry, qty, None) :
               /\ InitialStop(entry, qty, wanted) \in Positive
               /\ InitialStop(entry, qty, wanted) >= level
<1> DEFINE S == StopCandidates(entry, qty, wanted)
<1>1. entry \in Nat /\ S \in SUBSET (1 .. entry)
  <2>1. PolicyStop(entry, qty) \in Int \cup {None} /\ wanted \in Int \cup {None}
    BY PolicyLevels, EngineAssumption DEF Positive
  <2> QED
    BY <2>1 DEF StopCandidates, Positive
<1>2. S # {} => Max(S) \in S /\ \A y \in S : y <= Max(S)
  BY <1>1, MaxIsGreatest
<1>3. StopCandidates(entry, qty, None) \subseteq S
  BY DEF StopCandidates
<1>4. InitialStop(entry, qty, wanted) = IF S = {} THEN None ELSE Max(S)
  BY DEF InitialStop
<1> HIDE DEF S
<1>5. CASE S = {}
  BY <1>3, <1>4, <1>5
<1>6. CASE S # {}
  <2>0. Max(S) \in 1 .. entry
    BY <1>1, <1>2, <1>6
  <2>1. Max(S) \in Positive
    BY <1>1, <2>0 DEF Positive
  <2> QED
    BY <1>2, <1>3, <1>4, <1>6, <2>1
<1> QED
  BY <1>5, <1>6

-----------------------------------------------------------------------------
(* Types.                                                                  *)

\* Where the loops stand: the bar simulated lies in the window, a loop over
\* positions or queued exits has only such left, a policy is checked only if
\* there is one, and whoever holds a symbol knows a bar of it.
LoopInvariant ==
    /\ input.first <= step
    /\ pc \in {"settle", "exits", "signals"} => step <= LastStep(input)
    /\ pc = "exits" /\ todo # {} => input.policy # None
    /\ pc \in {"exits", "liquidate"} => \A s \in todo : held[s] # None
    /\ pc \in {"settle", "last_exits"} => \A s \in todo : pending[s] # None
    /\ \A s \in Symbols : held[s] # None \/ pending[s] # None => Times(s) # {}

Typed == StateTypeOK /\ LoopInvariant

LEMMA PositionFields ==
  ASSUME NEW p \in Positions
  PROVE  /\ p.qty \in Positive /\ p.entryTime \in 1 .. N /\ p.entryPrice \in Positive
         /\ p.peak \in Positive /\ p.trailing \in BOOLEAN
         /\ p.stop \in Positive \cup {None} /\ p.target \in Positive \cup {None}
BY DEF Positions

\* A trade is recorded and its proceeds are cash.
LEMMA CloseTypes ==
  ASSUME StateTypeOK, NEW s \in Symbols, NEW p \in Positions, NEW time \in 1 .. N,
         NEW price \in Nat, NEW reason \in PolicyReasons \cup {"signal", "end_of_backtest"},
         Close(s, p, time, price, reason)
  PROVE  cash' \in Nat /\ closed' \in Seq(Trades)
<1>1. p.qty * price \in Nat
  BY PositionFields, Product DEF Positive
<1>2. Exited(s, p, time, price, reason) \in Trades
  BY PositionFields DEF Exited, Trades
<1> QED
  BY <1>1, <1>2 DEF Close, StateTypeOK

LEMMA EnteredTypes ==
  ASSUME StateTypeOK, NEW time \in 1 .. N, NEW price \in Positive, NEW qty \in Positive,
         NEW wanted \in SignalStops \cup {None}
  PROVE  Entered(time, price, qty, wanted) \in Positions
BY InitialStopFacts, PolicyLevels DEF Entered, Positions

LEMMA UpdatedFacts ==
  ASSUME StateTypeOK, NEW p \in Positions, NEW s \in Symbols, NEW t \in 1 .. N,
         Bar(s, t) # None
  PROVE  LET q == Updated(p, Bar(s, t)) IN
         /\ q \in Positions
         /\ q.peak >= p.peak /\ (p.trailing => q.trailing)
         /\ q.stop = p.stop /\ q.target = p.target /\ q.qty = p.qty
         /\ q.entryTime = p.entryTime /\ q.entryPrice = p.entryPrice
<1> DEFINE bar == Bar(s, t)
           price == IF input.policy.mode = "ohlc" THEN bar.high ELSE bar.close
           peak == IF price > p.peak THEN price ELSE p.peak
           trailing == p.trailing \/ (input.policy.trailPct # None /\ Activates(p, peak))
<1>1. price \in Positive
  BY BarPrices
<1>2. peak \in Positive /\ peak >= p.peak
  BY <1>1, PositionFields DEF Positive
<1>3. Updated(p, bar) = [p EXCEPT !.peak = peak, !.trailing = trailing]
  BY DEF Updated
<1>4. trailing \in BOOLEAN /\ (p.trailing => trailing)
  BY Zenon
<1> HIDE DEF peak, trailing
<1> QED
  BY <1>2, <1>3, <1>4 DEF Positions

LEMMA ExitReasons ==
  ASSUME NEW p, NEW bar
  PROVE  /\ ExitReason(p, bar) \in PolicyReasons \cup {"hold"}
         /\ ExitReason(p, bar) = "stop_loss" => StopHit(p, bar)
         /\ ExitReason(p, bar) = "trailing_stop" => ~StopHit(p, bar) /\ TrailHit(p, bar)
         /\ ExitReason(p, bar) = "take_profit" => TargetHit(p, bar)
BY DEF ExitReason, PolicyReasons

\* An exit at a level has a price, and with a stop none below the stop unless
\* it is the target.
LEMMA LevelFacts ==
  ASSUME StateTypeOK, input.policy # None, input.policy.mode = "ohlc",
         NEW p \in Positions, NEW s \in Symbols, NEW t \in 1 .. N, Bar(s, t) # None,
         ExitReason(p, Bar(s, t)) # "hold"
  PROVE  LET price == LevelPrice(p, ExitReason(p, Bar(s, t))) IN
         /\ price \in Nat
         /\ p.stop # None /\ ExitReason(p, Bar(s, t)) # "take_profit" => price >= p.stop
         /\ ExitReason(p, Bar(s, t)) = "take_profit" => price = p.target /\ p.target # None
<1> DEFINE bar == Bar(s, t)
           reason == ExitReason(p, bar)
<1>1. bar.low \in Positive
  BY BarPrices
<1>2. CASE reason = "stop_loss"
  <2>1. p.stop # None /\ LevelPrice(p, reason) = p.stop
    BY <1>2, ExitReasons DEF StopHit, LevelPrice
  <2> QED
    BY <1>2, <2>1, PositionFields DEF Positive
<1>3. CASE reason = "trailing_stop"
  <2>1. input.policy.trailPct \in Positive /\ bar.low <= TrailLevel(p)
    BY <1>3, ExitReasons, PolicyFields DEF TrailHit
  <2>2. p.peak * (100 - input.policy.trailPct) \in Int
    BY <2>1, PositionFields DEF Positive
  <2>3. TrailLevel(p) \in Int
    BY <2>2, Quotient DEF TrailLevel
  <2>4. ~StopHit(p, bar) /\ LevelPrice(p, reason) = TrailLevel(p)
    BY <1>3, ExitReasons DEF LevelPrice
  <2>5. p.stop # None => p.stop \in Nat /\ ~(bar.low <= p.stop)
    BY <2>4, PositionFields DEF StopHit, Positive
  <2> QED
    BY <1>1, <1>3, <2>1, <2>3, <2>4, <2>5 DEF Positive
<1>4. CASE reason = "take_profit"
  <2>1. p.target # None /\ LevelPrice(p, reason) = p.target
    BY <1>4, ExitReasons DEF TargetHit, LevelPrice
  <2> QED
    BY <1>4, <2>1, PositionFields DEF Positive
<1> QED
  BY <1>2, <1>3, <1>4, ExitReasons DEF PolicyReasons

LEMMA CheckExitTypes ==
  ASSUME Typed, NEW s \in Symbols, CheckExit(s)
  PROVE  Typed'
<1> USE DEF Typed
<1>1. /\ pc = "exits" /\ s \in todo /\ todo' = todo \ {s}
      /\ UNCHANGED <<input, pc, step, round, equity>>
      /\ step \in 1 .. N /\ held[s] # None /\ held[s] \in Positions
      /\ input.policy # None
  <2>1. step \in 1 .. N
    BY WindowFacts, EngineAssumption DEF CheckExit, StateTypeOK, LoopInvariant
  <2> QED
    BY <2>1 DEF CheckExit, StateTypeOK, LoopInvariant
<1>2. \A r \in Symbols : Times(r)' = Times(r)
  BY <1>1 DEF Times, Bar
<1>3. CASE Bar(s, step) = None
  <2>1. UNCHANGED <<cash, held, pending, closed>>
    BY <1>3 DEF CheckExit
  <2>2. StateTypeOK'
    BY <1>1, <2>1 DEF StateTypeOK
  <2>3. LoopInvariant'
    BY <1>1, <1>2, <2>1 DEF LoopInvariant
  <2> QED
    BY <2>2, <2>3
<1>4. CASE Bar(s, step) # None
  <2> DEFINE p == Updated(held[s], Bar(s, step))
             reason == ExitReason(p, Bar(s, step))
  <2>1. p \in Positions
    BY <1>1, <1>4, UpdatedFacts
  <2>2. reason \in PolicyReasons \cup {"hold"}
    BY ExitReasons
  <2>3. CASE reason = "hold"
    <3>1. held' = [held EXCEPT ![s] = p] /\ UNCHANGED <<cash, pending, closed>>
      BY <1>4, <2>3 DEF CheckExit
    <3>2. StateTypeOK'
      BY <1>1, <2>1, <3>1 DEF StateTypeOK
    <3>3. LoopInvariant'
      BY <1>1, <1>2, <3>1 DEF LoopInvariant, StateTypeOK
    <3> QED
      BY <3>2, <3>3
  <2>4. CASE reason # "hold" /\ input.policy.mode = "ohlc"
    <3>1. /\ held' = [held EXCEPT ![s] = None] /\ UNCHANGED pending
          /\ Close(s, p, step, LevelPrice(p, reason), reason)
      BY <1>4, <2>4 DEF CheckExit
    <3>2. LevelPrice(p, reason) \in Nat
      BY <1>1, <1>4, <2>1, <2>4, LevelFacts
    <3>3. cash' \in Nat /\ closed' \in Seq(Trades)
      BY <1>1, <2>1, <2>2, <2>4, <3>1, <3>2, CloseTypes
    <3>4. StateTypeOK'
      BY <1>1, <3>1, <3>3 DEF StateTypeOK
    <3>5. LoopInvariant'
      BY <1>1, <1>2, <3>1 DEF LoopInvariant, StateTypeOK
    <3> QED
      BY <3>4, <3>5
  <2>5. CASE reason # "hold" /\ input.policy.mode # "ohlc"
    <3>1. /\ held' = [held EXCEPT ![s] = None]
          /\ pending' = [pending EXCEPT ![s] = [reason |-> reason, position |-> p]]
          /\ UNCHANGED <<cash, closed>>
      BY <1>4, <2>5 DEF CheckExit
    <3>2. StateTypeOK'
      BY <1>1, <2>1, <2>2, <2>5, <3>1 DEF StateTypeOK
    <3>3. LoopInvariant'
      BY <1>1, <1>2, <3>1 DEF LoopInvariant, StateTypeOK
    <3> QED
      BY <3>2, <3>3
  <2> QED
    BY <2>3, <2>4, <2>5
<1> QED
  BY <1>3, <1>4

LEMMA SettleTypes ==
  ASSUME Typed, NEW s \in Symbols, Settle(s) \/ SettleLast(s)
  PROVE  Typed'
<1> USE DEF Typed
<1>1. /\ pc \in {"settle", "last_exits"} /\ s \in todo /\ todo' = todo \ {s}
      /\ pending' = [pending EXCEPT ![s] = None]
      /\ UNCHANGED <<input, pc, step, round, held, equity>>
      /\ pending[s].position \in Positions /\ pending[s].reason \in PolicyReasons
      /\ Times(s) # {}
  <2>1. pending[s] # None /\ pending[s] \in [reason : PolicyReasons, position : Positions]
    BY DEF Settle, SettleLast, StateTypeOK, LoopInvariant
  <2> QED
    BY <2>1 DEF Settle, SettleLast, StateTypeOK, LoopInvariant
<1>2. cash' \in Nat /\ closed' \in Seq(Trades)
  <2>1. CASE Settle(s)
    <3>1. step \in 1 .. N
      BY <2>1, WindowFacts, EngineAssumption DEF Settle, StateTypeOK, LoopInvariant
    <3>2. CASE Bar(s, step) = None
      BY <2>1, <3>2 DEF Settle, StateTypeOK
    <3>3. CASE Bar(s, step) # None
      <4>1. Bar(s, step).open \in Nat
        BY <3>1, <3>3, BarPrices DEF Positive
      <4>2. Close(s, pending[s].position, step, Bar(s, step).open, pending[s].reason)
        BY <2>1, <3>3 DEF Settle
      <4> QED
        BY <1>1, <3>1, <4>1, <4>2, CloseTypes
    <3> QED
      BY <3>2, <3>3
  <2>2. CASE SettleLast(s)
    <3> DEFINE price == IF Bar(s, input.last) # None THEN Bar(s, input.last).open
                        ELSE Bar(s, Max(Times(s))).close
    <3>1. input.last \in 1 .. N
      BY WindowFacts
    <3>2. Times(s) \in SUBSET (1 .. N) /\ N \in Nat
      BY EngineAssumption DEF Times
    <3>3. Max(Times(s)) \in 1 .. N /\ Bar(s, Max(Times(s))) # None
      BY <1>1, <3>2, MaxIsGreatest DEF Times
    <3>4. price \in Nat
      BY <3>1, <3>3, BarPrices DEF Positive
    <3>5. Close(s, pending[s].position, input.last, price, pending[s].reason)
      BY <2>2 DEF SettleLast
    <3> HIDE DEF price
    <3> QED
      BY <1>1, <3>1, <3>4, <3>5, CloseTypes
  <2> QED
    BY <2>1, <2>2
<1>3. \A r \in Symbols : Times(r)' = Times(r)
  BY <1>1 DEF Times, Bar
<1>4. StateTypeOK'
  BY <1>1, <1>2 DEF StateTypeOK
<1>5. LoopInvariant'
  BY <1>1, <1>3 DEF LoopInvariant, StateTypeOK
<1> QED
  BY <1>4, <1>5

LEMMA SellTypes ==
  ASSUME Typed, NEW s \in Symbols, Sell(s)
  PROVE  Typed'
<1> USE DEF Typed
<1>1. /\ pc = "signals" /\ held[s] # None /\ held[s] \in Positions /\ FillTimes(s) # {}
      /\ held' = [held EXCEPT ![s] = None]
      /\ round' \in 0 .. MaxRounds
      /\ UNCHANGED <<input, pc, step, todo, pending, equity>>
      /\ Close(s, held[s], FillTime(s), FillPrice(s), "signal")
  BY EngineAssumption DEF Sell, StateTypeOK
<1>2. FillPrice(s) \in Nat /\ FillTime(s) \in 1 .. N
  BY <1>1, FillFacts DEF Positive
<1>3. cash' \in Nat /\ closed' \in Seq(Trades)
  BY <1>1, <1>2, CloseTypes
<1>4. \A r \in Symbols : Times(r)' = Times(r)
  BY <1>1 DEF Times, Bar
<1>5. StateTypeOK'
  BY <1>1, <1>3 DEF StateTypeOK
<1>6. LoopInvariant'
  BY <1>1, <1>4 DEF LoopInvariant, StateTypeOK
<1> QED
  BY <1>5, <1>6

\* The comparison with the cash is what keeps it from going below zero.
LEMMA BuyTypes ==
  ASSUME Typed, NEW s \in Symbols, NEW wanted \in Quantities \cup {None},
         NEW stop \in SignalStops \cup {None}, Buy(s, wanted, stop)
  PROVE  Typed'
<1> USE DEF Typed
<1> DEFINE price == FillPrice(s)
           qty == BuyQuantity(price, wanted)
<1>1. /\ pc = "signals" /\ FillTimes(s) # {} /\ qty > 0 /\ qty * price <= cash
      /\ cash' = cash - qty * price
      /\ held' = [held EXCEPT ![s] = Entered(FillTime(s), price, qty, stop)]
      /\ round' \in 0 .. MaxRounds
      /\ UNCHANGED <<input, pc, step, todo, pending, closed, equity>>
  BY EngineAssumption DEF Buy, StateTypeOK
<1>2. price \in Positive /\ FillTime(s) \in 1 .. N /\ Times(s) # {}
  BY <1>1, FillFacts
<1>3. qty \in Positive
  BY <1>1, <1>2, QuantityFacts DEF Positive
<1>4. Entered(FillTime(s), price, qty, stop) \in Positions
  BY <1>2, <1>3, EnteredTypes
<1>5. cash' \in Nat
  <2>1. qty * price \in Nat
    BY <1>2, <1>3, Product DEF Positive
  <2> QED
    BY <1>1, <2>1 DEF StateTypeOK
<1>6. \A r \in Symbols : Times(r)' = Times(r)
  BY <1>1 DEF Times, Bar
<1> HIDE DEF price, qty
<1>7. StateTypeOK'
  BY <1>1, <1>4, <1>5 DEF StateTypeOK
<1>8. LoopInvariant'
  BY <1>1, <1>2, <1>6 DEF LoopInvariant, StateTypeOK
<1> QED
  BY <1>7, <1>8

LEMMA LiquidateTypes ==
  ASSUME Typed, NEW s \in Symbols, Liquidate(s)
  PROVE  Typed'
<1> USE DEF Typed
<1>1. /\ pc = "liquidate" /\ s \in todo /\ todo' = todo \ {s}
      /\ held' = [held EXCEPT ![s] = None]
      /\ UNCHANGED <<input, pc, step, round, pending, equity>>
      /\ held[s] \in Positions /\ Times(s) # {}
      /\ Close(s, held[s], input.last, LastClose(s, input.last), "end_of_backtest")
  BY DEF Liquidate, StateTypeOK, LoopInvariant
<1>2. LastClose(s, input.last) \in Nat /\ input.last \in 1 .. N
  BY <1>1, WindowFacts, LastCloseFacts DEF Positive
<1>3. cash' \in Nat /\ closed' \in Seq(Trades)
  BY <1>1, <1>2, CloseTypes
<1>4. \A r \in Symbols : Times(r)' = Times(r)
  BY <1>1 DEF Times, Bar
<1>5. StateTypeOK'
  BY <1>1, <1>3 DEF StateTypeOK
<1>6. LoopInvariant'
  BY <1>1, <1>4 DEF LoopInvariant, StateTypeOK
<1> QED
  BY <1>5, <1>6

\* The steps between the loops.
LEMMA PhaseTypes ==
  ASSUME Typed,
         NextBar \/ Settled \/ Checked \/ EndOfBar \/ EndOfBars \/ SettledLast \/ Finish
  PROVE  Typed'
<1> USE DEF Typed
<1>1. UNCHANGED <<input, cash, held, pending, closed>>
  BY DEF NextBar, Settled, Checked, EndOfBar, EndOfBars, SettledLast, Finish
<1>2. \A r \in Symbols : Times(r)' = Times(r)
  BY <1>1 DEF Times, Bar
<1>3. LastStep(input)' = LastStep(input) /\ LastStep(input) \in 0 .. N
  BY <1>1, WindowFacts DEF LastStep
<1>4. StateTypeOK'
  <2>1. step' \in 1 .. N + 1
    BY <1>3, EngineAssumption
       DEF NextBar, Settled, Checked, EndOfBar, EndOfBars, SettledLast, Finish,
           StateTypeOK, LoopInvariant
  <2>2. todo' \subseteq Symbols
    BY DEF NextBar, Settled, Checked, EndOfBar, EndOfBars, SettledLast, Finish,
           StateTypeOK, Of
  <2>3. round' \in 0 .. MaxRounds
    BY EngineAssumption
       DEF NextBar, Settled, Checked, EndOfBar, EndOfBars, SettledLast, Finish, StateTypeOK
  <2>4. pc' \in {"bar", "settle", "exits", "signals", "last_exits", "liquidate", "done"}
    BY DEF NextBar, Settled, Checked, EndOfBar, EndOfBars, SettledLast, Finish
  <2> QED
    BY <1>1, <2>1, <2>2, <2>3, <2>4 DEF StateTypeOK
<1>5. LoopInvariant'
  <2>1. input.first \in Nat /\ step \in Nat
    BY WindowFacts, EngineAssumption DEF StateTypeOK
  <2>2. CASE NextBar \/ EndOfBars
    BY <1>1, <1>2, <1>3, <2>1, <2>2 DEF NextBar, EndOfBars, Of, LoopInvariant
  <2>3. CASE Settled \/ SettledLast
    BY <1>1, <1>2, <1>3, <2>1, <2>3 DEF Settled, SettledLast, Of, LoopInvariant
  <2>4. CASE Checked \/ EndOfBar \/ Finish
    BY <1>1, <1>2, <1>3, <2>1, <2>4 DEF Checked, EndOfBar, Finish, LoopInvariant
  <2> QED
    BY <2>2, <2>3, <2>4
<1> QED
  BY <1>4, <1>5

LEMMA TypedInit == Init => Typed
<1> SUFFICES ASSUME Init PROVE Typed
  OBVIOUS
<1>1. input \in ValidInputs
  BY EngineAssumption DEF Init
<1>2. input.first \in 1 .. N /\ step = input.first
  BY <1>1 DEF Init, ValidInputs
<1>3. StateTypeOK
  BY <1>1, <1>2, EngineAssumption DEF Init, StateTypeOK, Positive
<1>4. LoopInvariant
  BY <1>2, EngineAssumption DEF Init, LoopInvariant
<1> QED
  BY <1>3, <1>4 DEF Typed

LEMMA TypedStep == Typed /\ [Next]_vars => Typed'
<1> SUFFICES ASSUME Typed, [Next]_vars PROVE Typed'
  OBVIOUS
<1>1. CASE UNCHANGED vars
  BY <1>1 DEF vars, Typed, StateTypeOK, LoopInvariant, Times, Bar
<1>2. CASE NextBar \/ Settled \/ Checked \/ EndOfBar \/ EndOfBars \/ SettledLast \/ Finish
  BY <1>2, PhaseTypes
<1>3. ASSUME NEW s \in Symbols, Settle(s) \/ SettleLast(s) PROVE Typed'
  BY <1>3, SettleTypes
<1>4. ASSUME NEW s \in Symbols, CheckExit(s) PROVE Typed'
  BY <1>4, CheckExitTypes
<1>5. ASSUME NEW s \in Symbols, Sell(s) PROVE Typed'
  BY <1>5, SellTypes
<1>6. ASSUME NEW s \in Symbols, Liquidate(s) PROVE Typed'
  BY <1>6, LiquidateTypes
<1>7. ASSUME NEW s \in Symbols, NEW wanted \in Quantities \cup {None},
             NEW stop \in SignalStops \cup {None}, Buy(s, wanted, stop)
      PROVE  Typed'
  BY <1>7, BuyTypes
<1> QED
  BY <1>1, <1>2, <1>3, <1>4, <1>5, <1>6, <1>7 DEF Next

\* Every reachable state is well typed; in particular no strategy can spend
\* cash it does not have.
THEOREM EngineTypeCorrect == Spec => []StateTypeOK
<1>1. Spec => []Typed
  BY TypedInit, TypedStep, PTL DEF Spec
<1>2. Typed => StateTypeOK
  BY DEF Typed
<1> QED
  BY <1>1, <1>2, PTL

-----------------------------------------------------------------------------
(* Exit levels.                                                            *)

\* An open position changes only when it meets the exit policy.
LEMMA HeldChanges ==
  ASSUME Typed, [Next]_vars, NEW s \in Symbols, held[s] # None, held'[s] # None
  PROVE  held'[s] = held[s] \/ /\ step \in 1 .. N /\ Bar(s, step) # None
                               /\ held'[s] = Updated(held[s], Bar(s, step))
<1>1. CASE CheckExit(s)
  <2>1. step \in 1 .. N
    BY <1>1, WindowFacts, EngineAssumption DEF Typed, CheckExit, StateTypeOK, LoopInvariant
  <2> QED
    BY <1>1, <2>1 DEF Typed, CheckExit, StateTypeOK
<1>2. CASE ~CheckExit(s)
  BY <1>2 DEF Typed, StateTypeOK, Next, vars, NextBar, Settled, Checked, EndOfBar, EndOfBars,
              SettledLast, Finish, Settle, SettleLast, CheckExit, Sell, Liquidate, Buy
<1> QED
  BY <1>1, <1>2

\* The peak rises, an armed trailing stop stays armed, the levels stay.
THEOREM TrailOnlyRatchets == Spec => TrailRatchets
<1> DEFINE Ratchets ==
      \A s \in Symbols :
          LET p == held[s]  q == held'[s] IN
          p # None /\ q # None =>
              /\ q.peak >= p.peak
              /\ p.trailing => q.trailing
              /\ q.stop = p.stop /\ q.target = p.target
<1>1. Typed /\ [Next]_vars => Ratchets
  <2> SUFFICES ASSUME Typed, [Next]_vars, NEW s \in Symbols, held[s] # None, held'[s] # None
               PROVE  /\ held'[s].peak >= held[s].peak
                      /\ held[s].trailing => held'[s].trailing
                      /\ held'[s].stop = held[s].stop /\ held'[s].target = held[s].target
    BY Zenon
  <2>1. StateTypeOK /\ held[s] \in Positions
    BY DEF Typed, StateTypeOK
  <2>2. CASE held'[s] = held[s]
    BY <2>1, <2>2, PositionFields DEF Positive
  <2>3. CASE /\ step \in 1 .. N /\ Bar(s, step) # None
             /\ held'[s] = Updated(held[s], Bar(s, step))
    BY <2>1, <2>3, UpdatedFacts
  <2> QED
    BY <2>2, <2>3, HeldChanges
<1>2. Typed /\ [Next]_vars => [Ratchets]_vars
  BY <1>1
<1>3. Spec => []Typed
  BY TypedInit, TypedStep, PTL DEF Spec
<1> QED
  BY <1>2, <1>3, PTL DEF Spec, TrailRatchets

-----------------------------------------------------------------------------
(* Trades.                                                                 *)

\* An open position has a stop at least as tight as the policy's, and a target
\* that is no loss.
StoppedPositions ==
    {p \in Positions :
        /\ \A level \in StopCandidates(p.entryPrice, p.qty, None) :
              p.stop # None /\ p.stop >= level
        /\ p.target # None => p.target >= p.entryPrice}

\* What TimeFlows, LossIsCapped and TargetArmsTrail say of one trade.
SoundTrades ==
    {trade \in Trades :
        /\ Aligned \/ input.last = N => trade.entryTime <= trade.exitTime
        /\ trade.reason \in PolicyReasons /\ input.policy.mode = "ohlc" =>
              \A level \in StopCandidates(trade.entryPrice, trade.qty, None) :
                  trade.exitPrice >= level
        /\ trade.reason = "take_profit" => input.policy.trailPct = None}

\* The bars of s that may still end a position entered at time do not lie
\* before it.
EnteredBefore(s, time) ==
    /\ \A t \in Times(s) : t > step \/ (t = step /\ pc # "signals") => time <= t
    /\ input.fill = "same_close" => time <= step
    /\ Aligned \/ input.last = N => time <= input.last

\* An exit is queued only with close mode, and after the entry.
WellQueued(q) ==
    /\ q.position.entryTime <= step /\ q.position.entryTime <= input.last
    /\ input.policy.mode # "ohlc"
    /\ q.reason = "take_profit" => input.policy.trailPct = None

HeldStopped  == \A s \in Symbols : held[s] # None => held[s] \in StoppedPositions
HeldEntered  == \A s \in Symbols : held[s] # None => EnteredBefore(s, held[s].entryTime)
PendingOK    == \A s \in Symbols : pending[s] # None => WellQueued(pending[s])
ClosedSound  == closed \in Seq(SoundTrades)

TradeInvariant == HeldStopped /\ HeldEntered /\ PendingOK /\ ClosedSound

\* The arguments of the run never change, nor what is defined by them alone.
LEMMA SameRun ==
  ASSUME [Next]_vars
  PROVE  /\ input' = input
         /\ Aligned' = Aligned
         /\ \A s : Times(s)' = Times(s)
         /\ StoppedPositions' = StoppedPositions
         /\ SoundTrades' = SoundTrades
<1>1. input' = input
  BY DEF Next, vars, NextBar, Settled, Checked, EndOfBar, EndOfBars, SettledLast, Finish,
         Settle, SettleLast, CheckExit, Sell, Liquidate, Buy
<1>2. Aligned' = Aligned /\ \A s : Times(s)' = Times(s)
  BY <1>1 DEF Aligned, Times, Bar
<1>3. StoppedPositions' = StoppedPositions
  BY <1>1 DEF StoppedPositions, StopCandidates, PolicyStop
<1>4. SoundTrades' = SoundTrades
  BY <1>1, <1>2 DEF SoundTrades, StopCandidates, PolicyStop
<1> QED
  BY <1>1, <1>2, <1>3, <1>4

\* A symbol comes to be held only by a purchase.
LEMMA HeldOpens ==
  ASSUME Typed, [Next]_vars, NEW s \in Symbols, held[s] = None, held'[s] # None
  PROVE  \E wanted \in Quantities \cup {None}, stop \in SignalStops \cup {None} :
            Buy(s, wanted, stop)
<1>1. \A r \in Symbols : CheckExit(r) => held[r] # None /\ r # s /\ held'[s] = held[s]
  BY DEF Typed, StateTypeOK, LoopInvariant, CheckExit
<1>2. \A r \in Symbols : \A wanted, stop : Buy(r, wanted, stop) => r = s
  BY DEF Typed, StateTypeOK, Buy
<1>3. held' # held
  OBVIOUS
<1>4. \A r \in Symbols : ~CheckExit(r) /\ ~Sell(r) /\ ~Liquidate(r)
  BY <1>1 DEF Typed, StateTypeOK, Sell, Liquidate
<1> QED
  BY <1>2, <1>3, <1>4
     DEF Next, vars, NextBar, Settled, Checked, EndOfBar, EndOfBars, SettledLast, Finish,
         Settle, SettleLast

LEMMA HeldStoppedStep ==
  ASSUME Typed, [Next]_vars, HeldStopped
  PROVE  HeldStopped'
<1> SUFFICES ASSUME NEW s \in Symbols, held'[s] # None
             PROVE  held'[s] \in StoppedPositions
  BY SameRun DEF HeldStopped
<1>1. CASE held[s] # None
  <2>1. held[s] \in StoppedPositions /\ held[s] \in Positions /\ StateTypeOK
    BY <1>1 DEF HeldStopped, StoppedPositions, Typed
  <2>2. CASE held'[s] = held[s]
    BY <2>1, <2>2
  <2>3. CASE /\ step \in 1 .. N /\ Bar(s, step) # None
             /\ held'[s] = Updated(held[s], Bar(s, step))
    BY <2>1, <2>3, UpdatedFacts DEF StoppedPositions
  <2> QED
    BY <1>1, <2>2, <2>3, HeldChanges
<1>2. CASE held[s] = None
  <2>1. PICK wanted \in Quantities \cup {None}, stop \in SignalStops \cup {None} :
           Buy(s, wanted, stop)
    BY <1>2, HeldOpens
  <2> DEFINE price == FillPrice(s)
             qty == BuyQuantity(price, wanted)
             p == Entered(FillTime(s), price, qty, stop)
  <2>2. held'[s] = p /\ FillTimes(s) # {} /\ qty > 0 /\ StateTypeOK
    BY <2>1 DEF Buy, Typed, StateTypeOK
  <2>3. price \in Positive /\ qty \in Positive /\ FillTime(s) \in 1 .. N
    BY <2>2, FillFacts, QuantityFacts DEF Positive
  <2> HIDE DEF price, qty
  <2>4. p \in Positions
    BY <2>2, <2>3, EnteredTypes
  <2>5. \A level \in StopCandidates(price, qty, None) :
           InitialStop(price, qty, stop) \in Positive /\ InitialStop(price, qty, stop) >= level
    BY <2>2, <2>3, InitialStopFacts
  <2>6. PolicyTarget(price, qty) # None => PolicyTarget(price, qty) >= price
    BY <2>2, <2>3, PolicyLevels
  <2>7. /\ p.entryPrice = price /\ p.qty = qty /\ p.stop = InitialStop(price, qty, stop)
        /\ p.target = PolicyTarget(price, qty)
    BY DEF Entered
  <2>8. InitialStop(price, qty, stop) \in Positive => InitialStop(price, qty, stop) # None
    BY EngineAssumption DEF Positive
  <2> HIDE DEF p
  <2> QED
    BY <2>2, <2>4, <2>5, <2>6, <2>7, <2>8 DEF StoppedPositions
<1> QED
  BY <1>1, <1>2

\* Time stands still but at the end of a bar, and a phase that looks at the
\* bar itself only follows another.
LEMMA Clock ==
  ASSUME Typed, [Next]_vars
  PROVE  /\ step \in Nat /\ step' \in Nat /\ step <= step'
         /\ \A t \in Nat : t > step' \/ (t = step' /\ pc' # "signals")
                             => t > step \/ (t = step /\ pc # "signals")
<1>1. step \in Nat
  BY EngineAssumption DEF Typed, StateTypeOK
<1>2. CASE EndOfBar
  BY <1>1, <1>2 DEF EndOfBar
<1>3. CASE step' = step /\ (pc' = pc \/ pc # "signals")
  BY <1>1, <1>3
<1>4. EndOfBar \/ (step' = step /\ (pc' = pc \/ pc # "signals"))
  BY DEF Next, vars, NextBar, Settled, Checked, EndOfBars, SettledLast, Finish,
         Settle, SettleLast, CheckExit, Sell, Liquidate, Buy
<1> QED
  BY <1>2, <1>3, <1>4

LEMMA HeldEnteredStep ==
  ASSUME Typed, [Next]_vars, HeldEntered
  PROVE  HeldEntered'
<1> SUFFICES ASSUME NEW s \in Symbols, held'[s] # None
             PROVE  EnteredBefore(s, held[s].entryTime)'
  BY DEF HeldEntered
<1>0. /\ input' = input /\ Aligned' = Aligned /\ Times(s)' = Times(s) /\ Times(s) \subseteq Nat
      /\ StateTypeOK
  BY SameRun, EngineAssumption DEF Times, Typed
<1>1. CASE held[s] # None
  <2>1. held[s] \in Positions /\ EnteredBefore(s, held[s].entryTime)
    BY <1>1 DEF HeldEntered, Typed, StateTypeOK
  <2>2. held'[s].entryTime = held[s].entryTime
    BY <1>0, <1>1, <2>1, HeldChanges, UpdatedFacts
  <2>3. held[s].entryTime \in Nat
    BY <2>1, PositionFields, EngineAssumption
  <2> QED
    BY <1>0, <2>1, <2>2, <2>3, Clock DEF EnteredBefore
<1>2. CASE held[s] = None
  <2>1. PICK wanted \in Quantities \cup {None}, stop \in SignalStops \cup {None} :
           Buy(s, wanted, stop)
    BY <1>2, HeldOpens
  <2>2. /\ held'[s].entryTime = FillTime(s) /\ FillTimes(s) # {}
        /\ pc = "signals" /\ pc' = "signals" /\ step' = step
    BY <2>1 DEF Buy, Entered, Typed, StateTypeOK
  <2>3. FillTime(s) \in 1 .. N /\ FillTime(s) \in FillTimes(s)
        /\ \A t \in FillTimes(s) : FillTime(s) <= t
    BY <1>0, <2>2, FillFacts
  <2>4. /\ step \in Nat /\ input.first <= step /\ step <= LastStep(input)
        /\ input.first \in Nat /\ input.last \in 1 .. N /\ N \in Nat
    BY <1>0, <2>2, WindowFacts, EngineAssumption DEF Typed, StateTypeOK, LoopInvariant
  <2>5. CASE input.fill = "same_close"
    <3>1. FillTime(s) = step /\ step <= input.last
      BY <1>0, <2>3, <2>4, <2>5, WindowFacts DEF FillTimes
    <3> QED
      BY <1>0, <2>2, <2>4, <3>1 DEF EnteredBefore
  <2>6. CASE input.fill # "same_close"
    <3>1. FillTimes(s) = {t \in Times(s) : t > step} /\ step + 1 <= input.last
      BY <1>0, <2>4, <2>6, WindowFacts DEF FillTimes
    <3>2. CASE Aligned
      <4>1. step + 1 \in Times(s)
        BY <2>4, <3>1, <3>2 DEF Aligned, Times
      <4>2. FillTime(s) <= input.last
        BY <2>3, <2>4, <3>1, <4>1
      <4> QED
        BY <1>0, <2>2, <2>3, <2>4, <2>6, <3>1, <4>2 DEF EnteredBefore
    <3>3. CASE ~Aligned
      BY <1>0, <2>2, <2>3, <2>4, <2>6, <3>1, <3>3 DEF EnteredBefore
    <3> QED
      BY <3>2, <3>3
  <2> QED
    BY <2>5, <2>6
<1> QED
  BY <1>1, <1>2

\* What the policy check takes out of the market on a bar of s.
LEMMA ExitFacts ==
  ASSUME Typed, HeldStopped, HeldEntered, NEW s \in Symbols, CheckExit(s),
         Bar(s, step) # None
  PROVE  LET p == Updated(held[s], Bar(s, step)) IN
         /\ p \in StoppedPositions /\ p \in Positions
         /\ step \in 1 .. N /\ p.entryTime <= step /\ step <= input.last
         /\ input.policy # None
         /\ ExitReason(p, Bar(s, step)) = "take_profit" => input.policy.trailPct = None
<1> DEFINE bar == Bar(s, step)
           p == Updated(held[s], bar)
<1>1. /\ pc = "exits" /\ held[s] # None /\ held[s] \in Positions /\ input.policy # None
      /\ held[s] \in StoppedPositions /\ EnteredBefore(s, held[s].entryTime)
      /\ StateTypeOK
  BY DEF CheckExit, Typed, StateTypeOK, LoopInvariant, HeldStopped, HeldEntered
<1>2. step \in 1 .. N /\ step <= input.last /\ N \in Nat
  BY <1>1, WindowFacts, EngineAssumption DEF Typed, StateTypeOK, LoopInvariant
<1>3. /\ p \in Positions /\ p.stop = held[s].stop /\ p.target = held[s].target
      /\ p.qty = held[s].qty /\ p.entryTime = held[s].entryTime
      /\ p.entryPrice = held[s].entryPrice
  BY <1>1, <1>2, UpdatedFacts
<1>4. p \in StoppedPositions
  <2> HIDE DEF p
  <2> QED
    BY <1>1, <1>3 DEF StoppedPositions
<1>5. p.entryTime <= step
  <2>1. step \in Times(s)
    BY <1>2 DEF Times
  <2> QED
    BY <1>1, <1>3, <2>1 DEF EnteredBefore
<1>6. ASSUME ExitReason(p, bar) = "take_profit", input.policy.trailPct # None PROVE FALSE
  <2> DEFINE price == IF input.policy.mode = "ohlc" THEN bar.high ELSE bar.close
             peak == IF price > held[s].peak THEN price ELSE held[s].peak
  <2>1. ~p.trailing /\ p.target # None /\ p.target \in Nat /\ price >= p.target
    BY <1>3, <1>6, ExitReasons, PositionFields DEF TargetHit, Positive
  <2>2. price \in Nat /\ held[s].peak \in Nat
    BY <1>1, <1>2, BarPrices, PositionFields DEF Positive
  <2>3. peak >= held[s].target /\ held[s].target # None
    BY <1>3, <2>1, <2>2
  <2>4. Activates(held[s], peak)
    BY <2>3 DEF Activates
  <2>5. p = [held[s] EXCEPT !.peak = peak,
                            !.trailing = @ \/ (input.policy.trailPct # None
                                                /\ Activates(held[s], peak))]
    BY DEF Updated
  <2> HIDE DEF p, peak
  <2>6. p.trailing
    BY <1>1, <1>6, <2>4, <2>5 DEF Positions
  <2> QED
    BY <2>1, <2>6
<1> QED
  BY <1>1, <1>2, <1>3, <1>4, <1>5, <1>6

LEMMA PendingStep ==
  ASSUME Typed, [Next]_vars, HeldStopped, HeldEntered, PendingOK
  PROVE  PendingOK'
<1> SUFFICES ASSUME NEW s \in Symbols, pending'[s] # None
             PROVE  WellQueued(pending[s])'
  BY DEF PendingOK
<1>1. input' = input /\ step <= step' /\ step \in Nat /\ step' \in Nat
  BY SameRun, Clock
<1>2. CASE pending'[s] = pending[s]
  <2>1. WellQueued(pending[s]) /\ pending[s].position \in Positions
    BY <1>2 DEF PendingOK, Typed, StateTypeOK
  <2>2. pending[s].position.entryTime \in Nat
    BY <2>1, PositionFields, EngineAssumption
  <2> QED
    BY <1>1, <1>2, <2>1, <2>2 DEF WellQueued
<1>3. CASE pending'[s] # pending[s]
  <2>1. CheckExit(s)
    BY <1>3 DEF Typed, StateTypeOK, Next, vars, NextBar, Settled, Checked, EndOfBar,
       EndOfBars, SettledLast, Finish, Settle, SettleLast, CheckExit, Sell, Liquidate, Buy
  <2> DEFINE bar == Bar(s, step)
             p == Updated(held[s], bar)
             reason == ExitReason(p, bar)
  <2>2. /\ bar # None /\ pending' = [pending EXCEPT ![s] = [reason |-> reason, position |-> p]]
        /\ input.policy.mode # "ohlc" /\ step' = step
    BY <1>3, <2>1 DEF CheckExit
  <2>3. /\ p \in Positions /\ step \in 1 .. N /\ p.entryTime <= step /\ step <= input.last
        /\ reason = "take_profit" => input.policy.trailPct = None
    BY <2>1, <2>2, ExitFacts
  <2> HIDE DEF p, reason
  <2>4. pending'[s] = [reason |-> reason, position |-> p]
    BY <2>2 DEF Typed, StateTypeOK
  <2>5. p.entryTime <= input.last
    <3>1. p.entryTime \in 1 .. N /\ input.last \in 1 .. N /\ N \in Nat
      BY <2>3, PositionFields, WindowFacts, EngineAssumption DEF Typed
    <3> QED
      BY <2>3, <3>1
  <2> QED
    BY <1>1, <2>2, <2>3, <2>4, <2>5 DEF WellQueued
<1> QED
  BY <1>2, <1>3

\* A recorded trade keeps the list sound if it is sound itself.
LEMMA CloseAppends ==
  ASSUME ClosedSound, NEW s, NEW p, NEW time, NEW price, NEW reason,
         Close(s, p, time, price, reason),
         Exited(s, p, time, price, reason) \in SoundTrades
  PROVE  closed' \in Seq(SoundTrades)
<1> DEFINE trade == Exited(s, p, time, price, reason)
<1>1. closed' = Append(closed, trade) /\ trade \in SoundTrades
  BY DEF Close
<1> HIDE DEF trade
<1> QED
  BY <1>1, AppendProperties DEF ClosedSound

\* The trade of an exit for no reason of the policy has only to end after it
\* began, and one of an exit at the next open none that the policy caps.
LEMMA UncappedTrade ==
  ASSUME NEW s \in Symbols, NEW p \in Positions, NEW time \in 1 .. N, NEW price \in Nat,
         NEW reason \in PolicyReasons \cup {"signal", "end_of_backtest"},
         Aligned \/ input.last = N => p.entryTime <= time,
         reason \in PolicyReasons =>
            /\ input.policy.mode # "ohlc"
            /\ reason = "take_profit" => input.policy.trailPct = None
  PROVE  Exited(s, p, time, price, reason) \in SoundTrades
<1>1. Exited(s, p, time, price, reason) \in Trades
  BY PositionFields DEF Exited, Trades
<1>2. reason = "take_profit" => reason \in PolicyReasons
  BY DEF PolicyReasons
<1> QED
  BY <1>1, <1>2 DEF Exited, SoundTrades

LEMMA SettleSound ==
  ASSUME Typed, PendingOK, ClosedSound, NEW s \in Symbols, Settle(s) \/ SettleLast(s)
  PROVE  closed' \in Seq(SoundTrades)
<1> DEFINE q == pending[s]
<1>1. /\ q # None /\ q.position \in Positions /\ q.reason \in PolicyReasons /\ WellQueued(q)
      /\ StateTypeOK /\ Times(s) # {} /\ N \in Nat
  <2>1. q # None /\ q \in [reason : PolicyReasons, position : Positions] /\ Times(s) # {}
    BY DEF Settle, SettleLast, Typed, StateTypeOK, LoopInvariant
  <2> QED
    BY <2>1, EngineAssumption DEF PendingOK, Typed
<1>2. CASE Settle(s)
  <2>1. step \in 1 .. N
    BY <1>1, <1>2, WindowFacts DEF Settle, Typed, StateTypeOK, LoopInvariant
  <2>2. CASE Bar(s, step) = None
    BY <1>2, <2>2 DEF Settle, ClosedSound
  <2>3. CASE Bar(s, step) # None
    <3>1. Bar(s, step).open \in Nat
      BY <1>1, <2>1, <2>3, BarPrices DEF Positive
    <3>2. Close(s, q.position, step, Bar(s, step).open, q.reason)
      BY <1>2, <2>3 DEF Settle
    <3> HIDE DEF q
    <3>3. Exited(s, q.position, step, Bar(s, step).open, q.reason) \in SoundTrades
      BY <1>1, <2>1, <3>1, UncappedTrade DEF WellQueued
    <3> QED
      BY <3>2, <3>3, CloseAppends
  <2> QED
    BY <2>2, <2>3
<1>3. CASE SettleLast(s)
  <2> DEFINE price == IF Bar(s, input.last) # None THEN Bar(s, input.last).open
                      ELSE Bar(s, Max(Times(s))).close
  <2>1. input.last \in 1 .. N
    BY <1>1, WindowFacts
  <2>2. Max(Times(s)) \in 1 .. N /\ Bar(s, Max(Times(s))) # None
    <3>1. Times(s) \in SUBSET (1 .. N)
      BY DEF Times
    <3>2. Max(Times(s)) \in Times(s)
      BY <1>1, <3>1, MaxIsGreatest
    <3> QED
      BY <3>2 DEF Times
  <2>3. price \in Nat
    BY <1>1, <2>1, <2>2, BarPrices DEF Positive
  <2>4. Close(s, q.position, input.last, price, q.reason)
    BY <1>3 DEF SettleLast
  <2> HIDE DEF price, q
  <2>5. Exited(s, q.position, input.last, price, q.reason) \in SoundTrades
    BY <1>1, <2>1, <2>3, UncappedTrade DEF WellQueued
  <2> QED
    BY <2>4, <2>5, CloseAppends
<1> QED
  BY <1>2, <1>3

LEMMA CheckExitSound ==
  ASSUME Typed, HeldStopped, HeldEntered, ClosedSound, NEW s \in Symbols, CheckExit(s)
  PROVE  closed' \in Seq(SoundTrades)
<1> DEFINE bar == Bar(s, step)
           p == Updated(held[s], bar)
           reason == ExitReason(p, bar)
           price == LevelPrice(p, reason)
<1>1. CASE closed' = closed
  BY <1>1 DEF ClosedSound
<1>2. CASE closed' # closed
  <2>1. /\ bar # None /\ reason # "hold" /\ input.policy.mode = "ohlc"
        /\ Close(s, p, step, price, reason)
    BY <1>2 DEF CheckExit
  <2>2. /\ p \in StoppedPositions /\ p \in Positions /\ step \in 1 .. N /\ p.entryTime <= step
        /\ input.policy # None /\ StateTypeOK
        /\ reason = "take_profit" => input.policy.trailPct = None
    BY <2>1, ExitFacts DEF Typed
  <2>3. /\ price \in Nat
        /\ p.stop # None /\ reason # "take_profit" => price >= p.stop
        /\ reason = "take_profit" => price = p.target /\ p.target # None
    BY <2>1, <2>2, LevelFacts
  <2>4. reason \in PolicyReasons
    BY <2>1, ExitReasons
  <2> HIDE DEF p, reason, price
  <2>5. \A level \in StopCandidates(p.entryPrice, p.qty, None) : price >= level
    <3> TAKE level \in StopCandidates(p.entryPrice, p.qty, None)
    <3>1. p.entryPrice \in Positive /\ p.qty \in Positive /\ p.stop \in Positive \cup {None}
          /\ p.target \in Positive \cup {None}
      BY <2>2, PositionFields
    <3>2. level \in Int /\ level < p.entryPrice
      BY <2>2, <3>1, PolicyLevels DEF StopCandidates
    <3>3. p.stop # None /\ p.stop >= level /\ (p.target # None => p.target >= p.entryPrice)
      BY <2>2 DEF StoppedPositions
    <3> QED
      BY <2>3, <3>1, <3>2, <3>3 DEF Positive
  <2>6. Exited(s, p, step, price, reason) \in Trades
    BY <2>2, <2>3, <2>4, PositionFields DEF Exited, Trades
  <2>7. Exited(s, p, step, price, reason) \in SoundTrades
    BY <2>2, <2>5, <2>6 DEF Exited, SoundTrades
  <2> QED
    BY <2>1, <2>7, CloseAppends
<1> QED
  BY <1>1, <1>2

LEMMA SellSound ==
  ASSUME Typed, HeldEntered, ClosedSound, NEW s \in Symbols, Sell(s)
  PROVE  closed' \in Seq(SoundTrades)
<1>1. /\ pc = "signals" /\ held[s] # None /\ held[s] \in Positions /\ FillTimes(s) # {}
      /\ StateTypeOK /\ EnteredBefore(s, held[s].entryTime)
      /\ Close(s, held[s], FillTime(s), FillPrice(s), "signal")
  BY DEF Sell, Typed, StateTypeOK, HeldEntered
<1>2. /\ FillPrice(s) \in Nat /\ FillTime(s) \in 1 .. N /\ FillTime(s) \in FillTimes(s)
  BY <1>1, FillFacts DEF Positive
<1>3. held[s].entryTime <= FillTime(s)
  BY <1>1, <1>2 DEF EnteredBefore, FillTimes
<1>4. Exited(s, held[s], FillTime(s), FillPrice(s), "signal") \in SoundTrades
  BY <1>1, <1>2, <1>3, UncappedTrade DEF PolicyReasons
<1> QED
  BY <1>1, <1>4, CloseAppends

LEMMA LiquidateSound ==
  ASSUME Typed, HeldEntered, ClosedSound, NEW s \in Symbols, Liquidate(s)
  PROVE  closed' \in Seq(SoundTrades)
<1>1. /\ held[s] \in Positions /\ Times(s) # {} /\ StateTypeOK
      /\ EnteredBefore(s, held[s].entryTime)
      /\ Close(s, held[s], input.last, LastClose(s, input.last), "end_of_backtest")
  BY DEF Liquidate, Typed, StateTypeOK, LoopInvariant, HeldEntered
<1>2. LastClose(s, input.last) \in Nat /\ input.last \in 1 .. N
  BY <1>1, WindowFacts, LastCloseFacts DEF Positive
<1>3. Exited(s, held[s], input.last, LastClose(s, input.last), "end_of_backtest")
        \in SoundTrades
  BY <1>1, <1>2, UncappedTrade DEF EnteredBefore, PolicyReasons
<1> QED
  BY <1>1, <1>3, CloseAppends

LEMMA TradeInit == Init => TradeInvariant
<1> SUFFICES ASSUME Init PROVE TradeInvariant
  OBVIOUS
<1>1. HeldStopped /\ HeldEntered /\ PendingOK
  BY DEF Init, HeldStopped, HeldEntered, PendingOK
<1>2. ClosedSound
  BY EmptySeq DEF Init, ClosedSound
<1> QED
  BY <1>1, <1>2 DEF TradeInvariant

LEMMA TradeStep == Typed /\ TradeInvariant /\ [Next]_vars => TradeInvariant'
<1> SUFFICES ASSUME Typed, TradeInvariant, [Next]_vars PROVE TradeInvariant'
  OBVIOUS
<1> USE DEF TradeInvariant
<1>1. HeldStopped' /\ HeldEntered' /\ PendingOK'
  BY HeldStoppedStep, HeldEnteredStep, PendingStep
<1>2. closed' \in Seq(SoundTrades)
  <2>1. CASE closed' = closed
    BY <2>1 DEF ClosedSound
  <2>2. ASSUME NEW s \in Symbols, Settle(s) \/ SettleLast(s)
        PROVE  closed' \in Seq(SoundTrades)
    BY <2>2, SettleSound
  <2>3. ASSUME NEW s \in Symbols, CheckExit(s) PROVE closed' \in Seq(SoundTrades)
    BY <2>3, CheckExitSound
  <2>4. ASSUME NEW s \in Symbols, Sell(s) PROVE closed' \in Seq(SoundTrades)
    BY <2>4, SellSound
  <2>5. ASSUME NEW s \in Symbols, Liquidate(s) PROVE closed' \in Seq(SoundTrades)
    BY <2>5, LiquidateSound
  <2> QED
    BY <2>1, <2>2, <2>3, <2>4, <2>5
       DEF Next, vars, NextBar, Settled, Checked, EndOfBar, EndOfBars, SettledLast, Finish, Buy
<1>3. ClosedSound'
  BY <1>2, SameRun DEF ClosedSound
<1> QED
  BY <1>1, <1>3

LEMMA AllTradesSound == Spec => []ClosedSound
<1>1. Spec => [](Typed /\ TradeInvariant)
  BY TypedInit, TypedStep, TradeInit, TradeStep, PTL DEF Spec
<1>2. TradeInvariant => ClosedSound
  BY DEF TradeInvariant
<1> QED
  BY <1>1, <1>2, PTL

\* No trade ends before it began: neither an exit queued for the next bar of a
\* symbol with gaps, nor an entry filled at a bar the loop has yet to reach.
THEOREM TimeNeverReverses == Spec => []TimeFlows
<1>1. ClosedSound => TimeFlows
  BY ElementOfSeq DEF ClosedSound, SoundTrades, TimeFlows
<1> QED
  BY <1>1, AllTradesSound, PTL

\* With intrabar exits the policy's stop bounds the loss of every exit the
\* policy makes, whatever stop the strategy asked for and however far the
\* trailing stop lies below it.
THEOREM LossesAreCapped == Spec => []LossIsCapped
<1>1. ClosedSound => LossIsCapped
  BY ElementOfSeq DEF ClosedSound, SoundTrades, LossIsCapped
<1> QED
  BY <1>1, AllTradesSound, PTL

\* With a trailing stop, reaching the target arms it and closes nothing: the
\* peak that meets the target is recorded before the exits are looked at.
THEOREM TargetOnlyArms == Spec => []TargetArmsTrail
<1>1. ClosedSound => TargetArmsTrail
  BY ElementOfSeq DEF ClosedSound, SoundTrades, TargetArmsTrail
<1> QED
  BY <1>1, AllTradesSound, PTL

-----------------------------------------------------------------------------
(* Books.                                                                  *)

LEMMA DifferenceProduct ==
  ASSUME NEW q \in Nat, NEW x \in Int, NEW y \in Int
  PROVE  q * (x - y) = q * x - q * y /\ q * x \in Int /\ q * y \in Int /\ q * (x - y) \in Int
OBVIOUS

LEMMA CostIsNat ==
  ASSUME NEW p \in Positions
  PROVE  Cost(p) \in Nat
BY PositionFields, Product DEF Cost, Positive

LEMMA StakeIsNat ==
  ASSUME StateTypeOK, NEW s \in Symbols
  PROVE  Stake(s) \in Nat
<1>1. held[s] # None => Cost(held[s]) \in Nat
  BY CostIsNat DEF StateTypeOK
<1>2. pending[s] # None => Cost(pending[s].position) \in Nat
  <2>1. pending[s] # None => pending[s] \in [reason : PolicyReasons, position : Positions]
    BY DEF StateTypeOK
  <2> QED
    BY <2>1, CostIsNat
<1> QED
  BY <1>1, <1>2 DEF Stake

LEMMA StakeStaysNat ==
  ASSUME StateTypeOK', NEW s \in Symbols
  PROVE  Stake(s)' \in Nat
<1>1. held'[s] # None => Cost(held'[s]) \in Nat
  BY CostIsNat DEF StateTypeOK
<1>2. pending'[s] # None => Cost(pending'[s].position) \in Nat
  <2>1. pending'[s] # None => pending'[s] \in [reason : PolicyReasons, position : Positions]
    BY DEF StateTypeOK
  <2> QED
    BY <2>1, CostIsNat
<1> QED
  BY <1>1, <1>2 DEF Stake

\* A symbol's stake changes, and with it the sum.
LEMMA InvestedChanges ==
  ASSUME StateTypeOK, StateTypeOK', NEW s \in Symbols,
         \A r \in Symbols \ {s} : Stake(r)' = Stake(r)
  PROVE  /\ Invested \in Int
         /\ Invested' = Invested - Stake(s) + Stake(s)'
<1> DEFINE f == [r \in Symbols |-> Stake(r)]
           g == [r \in Symbols |-> Stake(r)']
<1>1. \A r \in Symbols : f[r] \in Int /\ g[r] \in Int
  <2> TAKE r \in Symbols
  <2> QED
    BY StakeIsNat, StakeStaysNat
<1>2. /\ \A r \in Symbols \ {s} : f[r] = g[r]
      /\ f[s] = Stake(s) /\ g[s] = Stake(s)' /\ DOMAIN f = Symbols /\ DOMAIN g = Symbols
  OBVIOUS
<1>3. Invested = SumFunctionOnSet(f, Symbols) /\ Invested' = SumFunctionOnSet(g, Symbols)
  BY <1>2 DEF Invested, SumFunction
<1> HIDE DEF f, g
<1>4. SumFunctionOnSet(f, Symbols) \in Int
  BY <1>1, EngineAssumption, SumIsInt
<1>5. SumFunctionOnSet(g, Symbols) = SumFunctionOnSet(f, Symbols) - f[s] + g[s]
  BY <1>1, <1>2, EngineAssumption, SumChanges
<1> QED
  BY <1>2, <1>3, <1>4, <1>5

\* A trade adds its profit to what the trades explain.
LEMMA ExplainedGrows ==
  ASSUME StateTypeOK, NEW trade \in Trades, closed' = Append(closed, trade)
  PROVE  /\ Explained \in Int
         /\ Explained' = Explained + Profit(trade)
<1> DEFINE D == DOMAIN closed
           n == Len(closed) + 1
           f == [k \in DOMAIN closed |-> Profit(closed[k])]
           g == [k \in DOMAIN closed' |-> Profit(closed'[k])]
<1>1. \A x \in Trades : Profit(x) \in Int
  BY DifferenceProduct DEF Trades, Profit, Positive
<1>2. closed \in Seq(Trades) /\ D = 1 .. Len(closed) /\ Len(closed) \in Nat
  BY DEF StateTypeOK
<1>3. DOMAIN closed' = D \cup {n} /\ n \notin D /\ closed'[n] = trade
      /\ \A k \in D : closed'[k] = closed[k] /\ closed[k] \in Trades
  BY <1>2
<1>4. IsFiniteSet(D)
  BY <1>2, FS_Interval
<1>5. /\ \A k \in D \cup {n} : g[k] \in Int
      /\ \A k \in D : f[k] \in Int /\ f[k] = g[k]
      /\ g[n] = Profit(trade)
      /\ DOMAIN f = D /\ DOMAIN g = D \cup {n}
  BY <1>1, <1>3
<1>6. /\ Explained = Capital + SumFunctionOnSet(f, D)
      /\ Explained' = Capital + SumFunctionOnSet(g, D \cup {n})
  BY <1>5 DEF Explained, SumFunction
<1> HIDE DEF f, g, D, n
<1>7. SumFunctionOnSet(f, D) \in Int /\ SumFunctionOnSet(f, D) = SumFunctionOnSet(g, D)
  BY <1>4, <1>5, SumIsInt, SumOfEqual
<1>8. SumFunctionOnSet(g, D \cup {n}) = g[n] + SumFunctionOnSet(g, D)
  BY <1>3, <1>4, <1>5, SumAdds
<1> QED
  BY <1>1, <1>5, <1>6, <1>7, <1>8, EngineAssumption DEF Positive

\* What the books lack.
Gap == Explained - (cash + Invested)

\* An exit is queued only for a symbol whose exit this bar has not settled, and
\* only until the next bar settles it.
QueueInvariant ==
    /\ pc = "settle" => Of(pending) \subseteq todo
    /\ pc = "exits" => \A s \in todo : pending[s] = None

LEMMA QueueStep ==
  ASSUME Typed, [Next]_vars, QueueInvariant
  PROVE  QueueInvariant'
<1> USE DEF QueueInvariant, Of, Typed, StateTypeOK
<1>1. CASE NextBar \/ Settled \/ Checked \/ EndOfBar \/ EndOfBars \/ SettledLast \/ Finish
  BY <1>1 DEF NextBar, Settled, Checked, EndOfBar, EndOfBars, SettledLast, Finish
<1>2. ASSUME NEW s \in Symbols, Settle(s) \/ SettleLast(s) PROVE QueueInvariant'
  BY <1>2 DEF Settle, SettleLast
<1>3. ASSUME NEW s \in Symbols, CheckExit(s) PROVE QueueInvariant'
  <2>1. pc' = "exits" /\ todo' = todo \ {s} /\ \A r \in Symbols \ {s} : pending'[r] = pending[r]
    BY <1>3 DEF CheckExit
  <2>2. pc = "exits"
    BY <1>3 DEF CheckExit
  <2> QED
    BY <2>1, <2>2
<1>4. ASSUME NEW s \in Symbols, Sell(s) \/ Liquidate(s) PROVE QueueInvariant'
  BY <1>4 DEF Sell, Liquidate
<1>5. ASSUME NEW s \in Symbols, NEW wanted, NEW stop, Buy(s, wanted, stop)
      PROVE  QueueInvariant'
  BY <1>5 DEF Buy
<1>6. CASE UNCHANGED vars
  BY <1>6 DEF vars
<1> QED
  BY <1>1, <1>2, <1>3, <1>4, <1>5, <1>6 DEF Next

\* The books after a position on s has been closed: its cost is what is gone
\* from the stakes, its proceeds what has come to the cash.
LEMMA CloseBooks ==
  ASSUME Typed, Typed', NEW s \in Symbols, NEW p \in Positions, NEW time \in 1 .. N,
         NEW price \in Nat, NEW reason \in PolicyReasons \cup {"signal", "end_of_backtest"},
         Close(s, p, time, price, reason),
         \A r \in Symbols \ {s} : Stake(r)' = Stake(r),
         Stake(s)' = Stake(s) - Cost(p)
  PROVE  Gap \in Int /\ Gap' = Gap
<1> USE DEF Typed
<1> DEFINE trade == Exited(s, p, time, price, reason)
<1>1. trade \in Trades
  BY PositionFields DEF Exited, Trades
<1>2. /\ trade.qty = p.qty /\ trade.exitPrice = price /\ trade.entryPrice = p.entryPrice
      /\ cash' = cash + p.qty * price /\ closed' = Append(closed, trade)
  BY DEF Close, Exited
<1>3. p.qty \in Nat /\ p.entryPrice \in Nat /\ cash \in Nat /\ Stake(s) \in Nat
  BY PositionFields, StakeIsNat DEF Positive, StateTypeOK
<1> HIDE DEF trade
<1>4. PICK proceeds \in Int : /\ proceeds = p.qty * price
                              /\ Profit(trade) = proceeds - Cost(p) /\ Cost(p) \in Int
  <2>1. /\ p.qty * (price - p.entryPrice) = p.qty * price - p.qty * p.entryPrice
        /\ p.qty * price \in Int /\ p.qty * p.entryPrice \in Int
    BY <1>3, DifferenceProduct
  <2>2. Profit(trade) = p.qty * (price - p.entryPrice)
    BY <1>2 DEF Profit
  <2> QED
    BY <2>1, <2>2 DEF Cost
<1>5. Explained \in Int /\ Explained' = Explained + Profit(trade)
  BY <1>1, <1>2, ExplainedGrows
<1>6. Invested \in Int /\ Invested' = Invested - Stake(s) + Stake(s)'
  BY InvestedChanges
<1>7. cash' = cash + proceeds
  BY <1>2, <1>4
<1> QED
  BY <1>3, <1>4, <1>5, <1>6, <1>7 DEF Gap

\* The books after something other than a trade: the cash and the stake on s
\* change, the trades do not.
LEMMA MoveBooks ==
  ASSUME Typed, Typed', NEW s \in Symbols, closed' = closed,
         \A r \in Symbols \ {s} : Stake(r)' = Stake(r)
  PROVE  /\ Gap \in Int
         /\ Gap' = Gap - ((cash' + Stake(s)') - (cash + Stake(s)))
         /\ {cash, cash', Stake(s), Stake(s)'} \subseteq Nat
<1> USE DEF Typed
<1>1. Invested \in Int /\ Invested' = Invested - Stake(s) + Stake(s)'
  BY InvestedChanges
<1>2. Explained \in Int /\ Explained' = Explained
  <2> DEFINE D == DOMAIN closed
             f == [k \in D |-> Profit(closed[k])]
  <2>1. \A x \in Trades : Profit(x) \in Int
    BY DifferenceProduct DEF Trades, Profit, Positive
  <2>2. closed \in Seq(Trades) /\ D = 1 .. Len(closed) /\ Len(closed) \in Nat
    BY DEF StateTypeOK
  <2>3. IsFiniteSet(D) /\ \A k \in D : f[k] \in Int
    BY <2>1, <2>2, FS_Interval
  <2>4. Explained = Capital + SumFunctionOnSet(f, D)
    BY DEF Explained, SumFunction
  <2> HIDE DEF f, D
  <2>5. SumFunctionOnSet(f, D) \in Int
    BY <2>3, SumIsInt
  <2> QED
    BY <2>4, <2>5, EngineAssumption DEF Explained, Positive
<1>3. Stake(s) \in Nat /\ cash \in Nat
  BY StakeIsNat DEF StateTypeOK
<1>4. Stake(s)' \in Nat /\ cash' \in Nat
  BY StakeStaysNat DEF StateTypeOK
<1> QED
  BY <1>1, <1>2, <1>3, <1>4 DEF Gap

\* What each step does to the gap: nothing, or it drops a queued exit of a
\* symbol that has no bar.
LEMMA GapSteps ==
  ASSUME Typed, QueueInvariant, [Next]_vars, Typed'
  PROVE  /\ Gap \in Int /\ Gap' \in Int
         /\ Gap' >= Gap
         /\ Aligned => Gap' = Gap
<1> DEFINE Kept == Gap \in Int /\ Gap' \in Int /\ Gap' >= Gap /\ (Aligned => Gap' = Gap)
<1> USE DEF Typed
<1>0. \A p \in Positions : Cost(p) \in Nat
  BY CostIsNat
<1>1. CASE UNCHANGED <<cash, held, pending, closed>>
  <2>1. \A s \in Symbols : Stake(s)' = Stake(s)
    BY <1>1 DEF Stake
  <2>2. PICK s \in Symbols : TRUE
    BY WindowFacts, EngineAssumption DEF StateTypeOK, ValidInputs
  <2> QED
    BY <1>1, <2>1, <2>2, MoveBooks
<1>2. ASSUME NEW s \in Symbols, Settle(s) \/ SettleLast(s) PROVE Kept
  <2> DEFINE p == pending[s].position
  <2>1. /\ pending[s] # None /\ p \in Positions /\ pending[s].reason \in PolicyReasons
        /\ pending' = [pending EXCEPT ![s] = None] /\ held' = held /\ Times(s) # {}
    <3>1. pending[s] # None /\ pending[s] \in [reason : PolicyReasons, position : Positions]
      BY <1>2 DEF Settle, SettleLast, StateTypeOK, LoopInvariant
    <3> QED
      BY <1>2, <3>1 DEF Settle, SettleLast, LoopInvariant
  <2>2. \A r \in Symbols \ {s} : Stake(r)' = Stake(r)
    BY <2>1 DEF Stake, StateTypeOK
  <2>3. Stake(s)' = Stake(s) - Cost(p)
    <3>1. held[s] # None => Cost(held[s]) \in Nat
      BY <1>0 DEF StateTypeOK
    <3> QED
      BY <1>0, <2>1, <3>1 DEF Stake, StateTypeOK
  <2>4. CASE \E time \in 1 .. N, price \in Nat : Close(s, p, time, price, pending[s].reason)
    <3>1. PICK time \in 1 .. N, price \in Nat : Close(s, p, time, price, pending[s].reason)
      BY <2>4
    <3>2. Gap \in Int /\ Gap' = Gap
      <4>1. pending[s].reason \in PolicyReasons \cup {"signal", "end_of_backtest"}
        BY <2>1
      <4> HIDE DEF p
      <4> QED
        BY <2>1, <2>2, <2>3, <3>1, <4>1, CloseBooks
    <3> QED
      BY <3>2
  <2>5. CASE Settle(s) /\ Bar(s, step) = None
    <3>1. UNCHANGED <<cash, closed>> /\ step \in input.first .. input.last
      BY <2>5, WindowFacts, EngineAssumption DEF Settle, StateTypeOK, LoopInvariant
    <3>2. ~Aligned
      BY <2>5, <3>1 DEF Aligned
    <3>3. Cost(p) \in Nat
      BY <1>0, <2>1
    <3> HIDE DEF p
    <3> QED
      BY <2>2, <2>3, <3>1, <3>2, <3>3, MoveBooks
  <2>6. CASE Settle(s) /\ Bar(s, step) # None
    <3>1. step \in 1 .. N
      BY <2>6, WindowFacts, EngineAssumption DEF Settle, StateTypeOK, LoopInvariant
    <3>2. Bar(s, step).open \in Nat
      BY <2>6, <3>1, BarPrices DEF Positive
    <3>3. Close(s, p, step, Bar(s, step).open, pending[s].reason)
      BY <2>6 DEF Settle
    <3> QED
      BY <2>4, <3>1, <3>2, <3>3
  <2>7. CASE SettleLast(s)
    <3> DEFINE price == IF Bar(s, input.last) # None THEN Bar(s, input.last).open
                        ELSE Bar(s, Max(Times(s))).close
    <3>1. input.last \in 1 .. N
      BY WindowFacts
    <3>2. Times(s) \in SUBSET (1 .. N) /\ N \in Nat
      BY EngineAssumption DEF Times
    <3>3. Max(Times(s)) \in 1 .. N /\ Bar(s, Max(Times(s))) # None
      BY <2>1, <3>2, MaxIsGreatest DEF Times
    <3>4. price \in Nat
      BY <3>1, <3>3, BarPrices DEF Positive
    <3>5. Close(s, p, input.last, price, pending[s].reason)
      BY <2>7 DEF SettleLast
    <3> HIDE DEF price, p
    <3> QED
      BY <2>4, <3>1, <3>4, <3>5
  <2> QED
    BY <1>2, <2>5, <2>6, <2>7
<1>3. ASSUME NEW s \in Symbols, CheckExit(s) PROVE Kept
  <2> DEFINE p == Updated(held[s], Bar(s, step))
             reason == ExitReason(p, Bar(s, step))
  <2>1. /\ held[s] # None /\ held[s] \in Positions /\ step \in 1 .. N /\ input.policy # None
        /\ pending[s] = None
    BY <1>3, WindowFacts, EngineAssumption
       DEF CheckExit, StateTypeOK, LoopInvariant, QueueInvariant
  <2>2. CASE Bar(s, step) = None
    BY <1>1, <1>3, <2>2 DEF CheckExit
  <2>3. CASE Bar(s, step) # None
    <3>1. p \in Positions /\ Cost(p) = Cost(held[s])
      BY <2>1, <2>3, UpdatedFacts DEF Cost
    <3>2. reason \in PolicyReasons \cup {"hold"}
      BY ExitReasons
    <3>3. Stake(s) = Cost(p) /\ Cost(p) \in Nat
      BY <1>0, <2>1, <3>1 DEF Stake
    <3>4. CASE reason = "hold"
      <4>1. held' = [held EXCEPT ![s] = p] /\ UNCHANGED <<cash, pending, closed>>
        BY <1>3, <2>3, <3>4 DEF CheckExit
      <4>2. p # None
        BY <3>1, NoneAssumption
      <4> HIDE DEF p
      <4>3. Stake(s)' = Stake(s) /\ \A r \in Symbols \ {s} : Stake(r)' = Stake(r)
        BY <2>1, <3>3, <4>1, <4>2 DEF Stake, StateTypeOK
      <4> QED
        BY <4>1, <4>3, MoveBooks
    <3>5. CASE reason # "hold" /\ input.policy.mode = "ohlc"
      <4>1. /\ held' = [held EXCEPT ![s] = None] /\ UNCHANGED pending
            /\ Close(s, p, step, LevelPrice(p, reason), reason)
        BY <1>3, <2>3, <3>5 DEF CheckExit
      <4>2. LevelPrice(p, reason) \in Nat
        BY <2>1, <2>3, <3>1, <3>5, LevelFacts
      <4> HIDE DEF p, reason
      <4>3. Stake(s)' = Stake(s) - Cost(p) /\ \A r \in Symbols \ {s} : Stake(r)' = Stake(r)
        BY <2>1, <3>3, <4>1 DEF Stake, StateTypeOK
      <4>4. Gap \in Int /\ Gap' = Gap
        BY <2>1, <3>1, <3>2, <3>5, <4>1, <4>2, <4>3, CloseBooks
      <4> QED
        BY <4>4
    <3>6. CASE reason # "hold" /\ input.policy.mode # "ohlc"
      <4>1. /\ held' = [held EXCEPT ![s] = None]
            /\ pending' = [pending EXCEPT ![s] = [reason |-> reason, position |-> p]]
            /\ UNCHANGED <<cash, closed>>
        BY <1>3, <2>3, <3>6 DEF CheckExit
      <4>2. pending'[s] # None /\ pending'[s].position = p /\ held'[s] = None
        <5>1. [reason |-> reason, position |-> p] # None
          <6>1. reason \in PolicyReasons
            BY <3>2, <3>6
          <6> HIDE DEF p, reason
          <6> QED
            BY <6>1, <3>1, NoneAssumption
        <5> QED
          BY <4>1, <5>1 DEF StateTypeOK
      <4> HIDE DEF p, reason
      <4>3. Stake(s)' = Stake(s) /\ \A r \in Symbols \ {s} : Stake(r)' = Stake(r)
        BY <3>3, <4>1, <4>2 DEF Stake, StateTypeOK
      <4> QED
        BY <4>1, <4>3, MoveBooks
    <3> QED
      BY <3>4, <3>5, <3>6
  <2> QED
    BY <2>2, <2>3
<1>4. ASSUME NEW s \in Symbols, Sell(s) \/ Liquidate(s) PROVE Kept
  <2>1. /\ held[s] # None /\ held[s] \in Positions /\ held' = [held EXCEPT ![s] = None]
        /\ pending' = pending
        /\ \E time \in 1 .. N, price \in Nat :
             \E reason \in {"signal", "end_of_backtest"} : Close(s, held[s], time, price, reason)
    <3>1. CASE Sell(s)
      <4>1. FillTime(s) \in 1 .. N /\ FillPrice(s) \in Nat
        BY <3>1, FillFacts DEF Sell, Positive
      <4> QED
        BY <3>1, <4>1 DEF Sell, StateTypeOK
    <3>2. CASE Liquidate(s)
      <4>1. held[s] # None /\ held[s] \in Positions /\ Times(s) # {}
        BY <3>2 DEF Liquidate, StateTypeOK, LoopInvariant
      <4>2. input.last \in 1 .. N /\ LastClose(s, input.last) \in Nat
        BY <4>1, WindowFacts, LastCloseFacts DEF Positive
      <4> QED
        BY <3>2, <4>1, <4>2 DEF Liquidate
    <3> QED
      BY <1>4, <3>1, <3>2
  <2>2. PICK time \in 1 .. N, price \in Nat, reason \in {"signal", "end_of_backtest"} :
           Close(s, held[s], time, price, reason)
    BY <2>1
  <2>3. \A r \in Symbols \ {s} : Stake(r)' = Stake(r)
    BY <2>1 DEF Stake, StateTypeOK
  <2>4. Stake(s)' = Stake(s) - Cost(held[s])
    <3>1. Cost(held[s]) \in Nat
      BY <1>0, <2>1
    <3>2. pending[s] # None => Cost(pending[s].position) \in Nat
      <4>1. pending[s] # None => pending[s] \in [reason : PolicyReasons, position : Positions]
        BY DEF StateTypeOK
      <4> QED
        BY <1>0, <4>1
    <3> QED
      BY <2>1, <3>1, <3>2 DEF Stake, StateTypeOK
  <2>5. Gap \in Int /\ Gap' = Gap
    BY <2>1, <2>2, <2>3, <2>4, CloseBooks
  <2> QED
    BY <2>5
<1>5. ASSUME NEW s \in Symbols, NEW wanted \in Quantities \cup {None},
             NEW stop \in SignalStops \cup {None}, Buy(s, wanted, stop)
      PROVE  Kept
  <2> DEFINE price == FillPrice(s)
             qty == BuyQuantity(price, wanted)
             p == Entered(FillTime(s), price, qty, stop)
  <2>1. /\ held[s] = None /\ FillTimes(s) # {} /\ qty > 0
        /\ cash' = cash - qty * price /\ held' = [held EXCEPT ![s] = p]
        /\ UNCHANGED <<pending, closed>>
    BY <1>5 DEF Buy
  <2>2. price \in Positive /\ FillTime(s) \in 1 .. N
    BY <2>1, FillFacts
  <2>3. qty \in Positive
    BY <2>1, <2>2, QuantityFacts DEF Positive
  <2>4. Cost(p) = qty * price /\ qty * price \in Nat
    <3>1. p.qty = qty /\ p.entryPrice = price
      BY DEF Entered
    <3> HIDE DEF p, qty, price
    <3> QED
      BY <3>1, <2>2, <2>3, Product DEF Cost, Positive
  <2>5. p # None
    <3>1. p \in Positions
      BY <2>2, <2>3, EnteredTypes
    <3> QED
      BY <3>1, NoneAssumption
  <2> HIDE DEF p, price, qty
  <2>6. \A r \in Symbols \ {s} : Stake(r)' = Stake(r)
    BY <2>1 DEF Stake, StateTypeOK
  <2>7. Stake(s)' = Stake(s) + qty * price
    <3>1. pending[s] # None => Cost(pending[s].position) \in Nat
      <4>1. pending[s] # None => pending[s] \in [reason : PolicyReasons, position : Positions]
        BY DEF StateTypeOK
      <4> QED
        BY <1>0, <4>1
    <3> QED
      BY <2>1, <2>4, <2>5, <3>1 DEF Stake, StateTypeOK
  <2> QED
    BY <2>1, <2>4, <2>6, <2>7, MoveBooks
<1>6. CASE UNCHANGED vars
  BY <1>1, <1>6 DEF vars
<1>7. CASE NextBar \/ Settled \/ Checked \/ EndOfBar \/ EndOfBars \/ SettledLast \/ Finish
  BY <1>1, <1>7 DEF NextBar, Settled, Checked, EndOfBar, EndOfBars, SettledLast, Finish
<1> QED
  BY <1>2, <1>3, <1>4, <1>5, <1>6, <1>7 DEF Next

\* The books when nothing has happened yet.
LEMMA BooksInit == Init => QueueInvariant /\ Gap = 0
<1> SUFFICES ASSUME Init PROVE QueueInvariant /\ Gap = 0
  OBVIOUS
<1>1. QueueInvariant
  BY DEF Init, QueueInvariant
<1>2. Invested = 0
  <2> DEFINE f == [s \in Symbols |-> Stake(s)]
  <2>1. \A s \in Symbols : f[s] = 0
    BY DEF Init, Stake
  <2>2. Invested = SumFunctionOnSet(f, Symbols)
    BY DEF Invested, SumFunction
  <2> HIDE DEF f
  <2> QED
    BY <2>1, <2>2, SumOfZeros, EngineAssumption
<1>3. Explained = Capital + 0
  <2>1. DOMAIN closed = {}
    BY DEF Init
  <2> QED
    BY <2>1, SumOfNothing DEF Explained, SumFunction
<1> QED
  BY <1>1, <1>2, <1>3, EngineAssumption DEF Init, Gap, Positive

\* The books balance: neither a queued exit, nor a purchase while one is
\* queued, nor the settlement after the last bar pays a position twice or
\* loses it; what a gap in the data loses, it only loses.
THEOREM BooksAlwaysBalance == Spec => []BooksBalance
<1> DEFINE Inv == QueueInvariant /\ Gap \in Int /\ Gap >= 0 /\ (Aligned => Gap = 0)
<1>1. Init => Inv
  BY BooksInit
<1>2. Typed /\ Inv /\ [Next]_vars /\ Typed' => Inv'
  BY QueueStep, GapSteps, SameRun
<1>3. Spec => [](Typed /\ Inv)
  BY <1>1, <1>2, TypedInit, TypedStep, PTL DEF Spec
<1>4. Typed /\ Inv => BooksBalance
  <2> SUFFICES ASSUME Typed, Gap \in Int, Gap >= 0, Aligned => Gap = 0 PROVE BooksBalance
    OBVIOUS
  <2>1. Explained \in Int /\ Invested \in Int /\ cash \in Int
    <3> DEFINE f == [s \in Symbols |-> Stake(s)]
               g == [n \in DOMAIN closed |-> Profit(closed[n])]
               D == DOMAIN closed
    <3>1. \A s \in Symbols : f[s] \in Int
      BY StakeIsNat DEF Typed
    <3>2. D = 1 .. Len(closed) /\ Len(closed) \in Nat /\ \A n \in D : closed[n] \in Trades
      BY DEF Typed, StateTypeOK
    <3>3. \A n \in D : g[n] \in Int
      BY <3>2, DifferenceProduct DEF Trades, Profit, Positive
    <3>4. IsFiniteSet(D)
      BY <3>2, FS_Interval
    <3>5. Invested = SumFunctionOnSet(f, Symbols) /\ Explained = Capital + SumFunctionOnSet(g, D)
      BY DEF Invested, Explained, SumFunction
    <3> HIDE DEF f, g, D
    <3> QED
      BY <3>1, <3>3, <3>4, <3>5, SumIsInt, EngineAssumption DEF Typed, StateTypeOK, Positive
  <2> QED
    BY <2>1 DEF Gap, BooksBalance
<1> QED
  BY <1>3, <1>4, PTL

-----------------------------------------------------------------------------
(* Equity.                                                                 *)

\* The positions are worth a natural number at the closes known so far.
LEMMA MarketValueIsNat ==
  ASSUME Typed
  PROVE  MarkToMarket \in Nat
<1> USE DEF Typed
<1> DEFINE f == [s \in Of(held) |-> held[s].qty * LastClose(s, step)]
           S == {s \in Of(held) : \E t \in Times(s) : t <= step}
<1>1. \A s \in S : f[s] \in Nat
  <2> TAKE s \in S
  <2>1. s \in Symbols /\ held[s] \in Positions /\ Times(s) # {} /\ f[s] = held[s].qty * LastClose(s, step)
    BY DEF Of, StateTypeOK
  <2>2. LastClose(s, step) \in Nat /\ held[s].qty \in Nat
    BY <2>1, LastCloseFacts, PositionFields DEF Positive
  <2> QED
    BY <2>1, <2>2, Product
<1>2. IsFiniteSet(S)
  BY EngineAssumption, FS_Subset DEF Of
<1>3. MarkToMarket = cash + SumFunctionOnSet(f, S)
  BY DEF MarkToMarket
<1> HIDE DEF f, S
<1>4. SumFunctionOnSet(f, S) \in Nat
  BY <1>1, <1>2, SumIsNat
<1> QED
  BY <1>3, <1>4 DEF StateTypeOK

\* Every variable keeps its type, the equity curve included: it never goes
\* below zero.
THEOREM EquityTypeCorrect == Spec => []TypeOK
<1> DEFINE Solvent == equity \in Nat
<1>1. Init => Solvent
  BY EngineAssumption DEF Init, Positive
<1>2. Typed /\ Solvent /\ [Next]_vars => Solvent'
  <2> SUFFICES ASSUME Typed, equity \in Nat, [Next]_vars PROVE equity' \in Nat
    OBVIOUS
  <2>1. CASE EndOfBar
    BY <2>1, MarketValueIsNat DEF EndOfBar
  <2>2. CASE Finish
    BY <2>2 DEF Finish, Typed, StateTypeOK
  <2>3. CASE ~EndOfBar /\ ~Finish
    BY <2>3 DEF Next, vars, NextBar, Settled, Checked, EndOfBars, SettledLast, Settle,
                SettleLast, CheckExit, Sell, Liquidate, Buy
  <2> QED
    BY <2>1, <2>2, <2>3
<1>3. Spec => [](Typed /\ Solvent)
  <2> HIDE DEF Solvent
  <2> QED
    BY <1>1, <1>2, TypedInit, TypedStep, PTL DEF Spec
<1>4. Typed /\ Solvent => TypeOK
  BY DEF Typed, TypeOK
<1> QED
  BY <1>3, <1>4, PTL
=============================================================================
