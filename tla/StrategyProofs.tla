--------------------------- MODULE StrategyProofs ---------------------------
(* Theorems about the strategies, for any histories, universes and prices.   *)
EXTENDS StrategyReplay, CountingLemmas, SequenceTheorems

----------------------------------------------------------------------------
(* Whole numbers                                                           *)

\* Division rounds down.
LEMMA Quotient ==
    ASSUME NEW x \in Nat, NEW k \in Nat \ {0}
    PROVE  x \div k \in Nat /\ (x \div k) * k <= x
OBVIOUS

\* The least and the greatest of two numbers.
LEMMA MinOfTwo ==
    ASSUME NEW x \in Int, NEW y \in Int
    PROVE  /\ Min({x, y}) \in {x, y} /\ Min({x, y}) <= x /\ Min({x, y}) <= y
           /\ Max({x, y}) \in {x, y} /\ Max({x, y}) >= x /\ Max({x, y}) >= y
<1>1. \E z \in {x, y} : \A w \in {x, y} : z <= w
  OBVIOUS
<1>2. \E z \in {x, y} : \A w \in {x, y} : z >= w
  OBVIOUS
<1> QED
  BY <1>1, <1>2 DEF Min, Max

\* A number that is not below zero after all.
LEMMA MaxWithZero ==
    ASSUME NEW z \in Int
    PROVE  /\ Max({0, z}) \in {0, z} /\ Max({0, z}) >= 0 /\ Max({0, z}) >= z
<1>1. \E y \in {0, z} : \A w \in {0, z} : y >= w
  OBVIOUS
<1> QED
  BY <1>1 DEF Max

\* Products of naturals are naturals.
LEMMA Product ==
    ASSUME NEW x \in Nat, NEW y \in Nat
    PROVE  x * y \in Nat
OBVIOUS

\* and grow with their factors.
LEMMA ProductMonotone ==
    ASSUME NEW x \in Nat, NEW y \in Nat, NEW k \in Nat, x <= y
    PROVE  x * k <= y * k
OBVIOUS

\* A part of at most a hundred percent.
LEMMA Percent ==
    ASSUME NEW x \in Nat, NEW p \in 0 .. 100
    PROVE  (x * p) \div 100 \in Nat /\ (x * p) \div 100 <= x
<1>1. x * p \in Nat /\ x * p <= x * 100
  OBVIOUS
<1> QED
  BY <1>1

----------------------------------------------------------------------------
(* The plans of the slot strategies                                        *)

SlotTypes ==
    /\ cash \in Nat /\ qty \in [Symbols -> Nat] /\ mark \in [Symbols -> Nat \ {0}]
    /\ view \in Views /\ growth \in [Symbols -> Int] /\ fills \in [Symbols -> Nat]

\* The universe and its parts are finite.
LEMMA SymbolsAreFinite ==
    /\ IsFiniteSet(Symbols)
    /\ \A S \in SUBSET Symbols : IsFiniteSet(S) /\ Cardinality(S) \in Nat
BY SlotAssumption, ToSetIsFinite, FS_Subset, FS_CardinalityType DEF Symbols

\* The ranking lists entries that are not kept.
LEMMA RankingFacts ==
    ASSUME SlotTypes
    PROVE  /\ Ranking \in Seq(Symbols)
           /\ \A k \in DOMAIN Ranking : view[Ranking[k]] = "enter" /\ Ranking[k] \notin Kept
<1> DEFINE entries == {i \in DOMAIN Universe : view[Universe[i]] = "enter"
                                               /\ Universe[i] \notin Kept}
           better(i, j) == \/ growth[Universe[i]] > growth[Universe[j]]
                           \/ growth[Universe[i]] = growth[Universe[j]] /\ i < j
           R == {p \in entries \X entries : better(p[1], p[2])}
           order == Ranked(entries, R)
<1>1. /\ DOMAIN Universe = 1 .. Len(Universe) /\ Len(Universe) \in Nat
      /\ \A i \in DOMAIN Universe : Universe[i] \in Symbols
  BY SlotAssumption DEF Symbols
<1>2. /\ entries \subseteq DOMAIN Universe
      /\ \A i \in entries : /\ i \in Nat /\ growth[Universe[i]] \in Int /\ Universe[i] \in Symbols
                            /\ view[Universe[i]] = "enter" /\ Universe[i] \notin Kept
  BY <1>1 DEF SlotTypes
<1>3. IsFiniteSet(entries)
  <2>1. IsFiniteSet(1 .. Len(Universe))
    BY <1>1, FS_Interval
  <2> QED BY <1>1, <1>2, <2>1, FS_Subset
<1>4. \A i, j \in entries : <<i, j>> \in R <=> better(i, j)
  OBVIOUS
<1>5. Ranking = [k \in DOMAIN order |-> Universe[order[k]]]
  BY DEF Ranking
<1> HIDE DEF entries, R
<1>6. /\ \A a \in entries : <<a, a>> \notin R
      /\ \A a, b, c \in entries : <<a, b>> \in R /\ <<b, c>> \in R => <<a, c>> \in R
      /\ \A a, b \in entries : a = b \/ <<a, b>> \in R \/ <<b, a>> \in R
  BY <1>2, <1>4
<1>7. order \in Seq(entries) /\ ToSet(order) = entries
  BY <1>3, <1>6, RankedFacts
<1> HIDE DEF order
<1>8. /\ DOMAIN order = 1 .. Len(order) /\ Len(order) \in Nat
      /\ \A k \in DOMAIN order : order[k] \in entries
  BY <1>7
<1> QED
  BY <1>2, <1>5, <1>8

\* So does the list of buys, which is no longer than there are free slots.
LEMMA BuyListFacts ==
    ASSUME SlotTypes
    PROVE  /\ BuyList \in Seq(Symbols) /\ Len(BuyList) \in Nat
           /\ BuyList # <<>> => Len(BuyList) + Cardinality(Kept) <= Cap
           /\ \A s \in ToSet(BuyList) : s \in Symbols /\ view[s] = "enter" /\ s \notin Kept
<1>1. Cardinality(Kept) \in Nat /\ Cap \in Nat
  BY SymbolsAreFinite, SlotAssumption DEF Kept, Held
<1>2. PICK free \in Nat : /\ free = Max({0, Cap - Cardinality(Kept)})
                          /\ free = 0 \/ free = Cap - Cardinality(Kept)
  <2> DEFINE z == Cap - Cardinality(Kept)
  <2>1. z \in Int
    BY <1>1
  <2> HIDE DEF z
  <2>2. Max({0, z}) \in {0, z} /\ Max({0, z}) >= 0
    BY <2>1, MaxWithZero
  <2>3. Max({0, z}) \in Nat
    BY <2>1, <2>2
  <2> QED BY <2>2, <2>3 DEF z
<1>4. Ranking \in Seq(Symbols) /\ Len(Ranking) \in Nat
  BY RankingFacts
<1>5. PICK n \in Nat : /\ n = Min({free, Len(Ranking)})
                       /\ n <= free /\ n <= Len(Ranking)
  <2> DEFINE z == Len(Ranking)
  <2>1. z \in Nat /\ free \in Int /\ z \in Int
    BY <1>4
  <2> HIDE DEF z
  <2>2. /\ Min({free, z}) \in {free, z} /\ Min({free, z}) <= free
        /\ Min({free, z}) <= z
    BY <2>1, MinOfTwo
  <2>3. Min({free, z}) \in Nat
    BY <2>1, <2>2
  <2> QED BY <2>2, <2>3 DEF z
<1>6. BuyList = SubSeq(Ranking, 1, n)
  BY <1>2, <1>5 DEF BuyList, FirstN
<1>7. /\ BuyList \in Seq(Symbols) /\ Len(BuyList) = n /\ DOMAIN BuyList = 1 .. n
      /\ \A k \in 1 .. n : BuyList[k] = Ranking[k] /\ k \in DOMAIN Ranking
  <2> DEFINE r == Ranking
  <2>1. r \in Seq(Symbols) /\ n \in Nat /\ n <= Len(r)
    BY <1>4, <1>5
  <2>2. BuyList = SubSeq(r, 1, n)
    BY <1>6
  <2> HIDE DEF r
  <2>3. /\ BuyList \in Seq(Symbols) /\ Len(BuyList) = n /\ DOMAIN BuyList = 1 .. n
        /\ \A k \in 1 .. n : BuyList[k] = r[k] /\ k \in DOMAIN r
    BY <2>1, <2>2
  <2> QED BY <2>3 DEF r
<1>8. BuyList # <<>> => n > 0
  BY <1>7
<1>9. \A k \in 1 .. n : view[BuyList[k]] = "enter" /\ BuyList[k] \notin Kept /\ BuyList[k] \in Symbols
  BY <1>7, RankingFacts
<1>10. BuyList # <<>> => n + Cardinality(Kept) <= Cap
  BY <1>1, <1>2, <1>5, <1>8
<1>11. \A s \in ToSet(BuyList) : \E k \in 1 .. n : s = BuyList[k]
  BY <1>7 DEF ToSet
<1> QED
  BY <1>7, <1>9, <1>10, <1>11

\* The value of some holdings is a sum.
LEMMA ValueFacts ==
    ASSUME SlotTypes
    PROVE  /\ \A S \in SUBSET Symbols : Value(S) \in Nat
           /\ Value(Held) = Value(Kept) + Value(Sells)
           /\ Budget \in Nat /\ Budget <= cash + Value(Sells)
<1> DEFINE worth == [s \in Symbols |-> qty[s] * mark[s]]
<1>1. worth \in [Symbols -> Nat]
  BY Product DEF SlotTypes
<1>2. \A S \in SUBSET Symbols : Value(S) = SumFunctionOnSet(worth, S)
  BY DEF Value
<1> HIDE DEF worth
<1>3. \A S \in SUBSET Symbols : Value(S) \in Nat
  BY <1>1, <1>2, SymbolsAreFinite, SumIsNat
<1>4. /\ Held = Kept \cup Sells /\ Kept \cap Sells = {}
      /\ {Held, Kept, Sells} \subseteq SUBSET Symbols
  BY DEF Held, Kept, Sells
<1>5. Value(Held) = Value(Kept) + Value(Sells)
  BY <1>1, <1>2, <1>4, SymbolsAreFinite, SumOfUnion
<1>6. Value(Sells) \in Nat /\ Value(Kept) \in Nat /\ Value(Held) \in Nat /\ cash \in Nat
  BY <1>3, <1>4 DEF SlotTypes
<1>7. CashProxy = cash + Value(Sells)
  <2> DEFINE z == cash + Value(Held) - Value(Kept)
  <2>1. z \in Int /\ z = cash + Value(Sells) /\ z >= 0
    BY <1>5, <1>6
  <2>2. CashProxy = Max({0, z})
    BY DEF CashProxy
  <2> HIDE DEF z
  <2>3. Max({0, z}) \in {0, z} /\ Max({0, z}) >= z
    BY <2>1, MaxWithZero
  <2> QED BY <2>1, <2>2, <2>3
<1>8. Budget \in Nat /\ Budget <= cash + Value(Sells)
  BY <1>6, <1>7 DEF Budget
<1> QED
  BY <1>3, <1>5, <1>8
----------------------------------------------------------------------------

\* An order is within its part of the budget, and a purchase within the cash.
LEMMA OrderFacts ==
    ASSUME SlotTypes, NEW s \in ToSet(BuyList)
    PROVE  /\ s \in Symbols /\ Len(BuyList) \in Nat \ {0}
           /\ OrderQty(s) \in Nat /\ OrderQty(s) * mark[s] \in Nat
           /\ OrderQty(s) * mark[s] <= Budget \div Len(BuyList)
           /\ BuyQty(s) \in Nat /\ BuyQty(s) * mark[s] \in Nat
           /\ BuyQty(s) * mark[s] <= cash
<1>1. s \in Symbols /\ BuyList \in Seq(Symbols)
  BY BuyListFacts
<1>2. Len(BuyList) \in Nat \ {0}
  BY <1>1 DEF ToSet
<1>3. mark[s] \in Nat \ {0} /\ cash \in Nat /\ Budget \in Nat
  BY <1>1, ValueFacts DEF SlotTypes
<1>4. PICK share \in Nat : share = Budget \div Len(BuyList)
  BY <1>2, <1>3, Quotient
<1>5. PICK m \in Nat \ {0} : m = mark[s]
  BY <1>3
<1>6. OrderQty(s) = share \div m
  BY <1>4, <1>5 DEF OrderQty
<1>7. OrderQty(s) \in Nat /\ OrderQty(s) * m <= share
  BY <1>6, Quotient
<1>8. PICK part \in Nat : part = (cash * PositionPct) \div 100 /\ part <= cash
  BY <1>3, SlotAssumption, Percent
<1>9. PICK q \in Nat : q = part \div m /\ q * m <= part
  BY Quotient
<1>10. BuyQty(s) = Min({OrderQty(s), q})
  BY <1>5, <1>8, <1>9 DEF BuyQty
<1>11. BuyQty(s) \in Nat /\ BuyQty(s) <= q
  <2>1. \A o \in Nat : Min({o, q}) \in Nat /\ Min({o, q}) <= q
    BY MinOfTwo
  <2> QED BY <1>7, <1>10, <2>1
<1>12. BuyQty(s) * m <= q * m /\ BuyQty(s) * m \in Nat /\ q * m \in Nat /\ OrderQty(s) * m \in Nat
  BY <1>7, <1>11, ProductMonotone, Product
<1>13. BuyQty(s) * m <= cash
  BY <1>3, <1>8, <1>9, <1>12
<1> QED
  BY <1>1, <1>2, <1>4, <1>5, <1>7, <1>11, <1>12, <1>13

\* A plan costs no more than there is and the sells bring in.
LEMMA PlanIsAffordable ==
    ASSUME SlotTypes
    PROVE  Cost <= cash + Value(Sells)
<1> DEFINE price == [s \in Symbols |-> IF s \in ToSet(BuyList) THEN OrderQty(s) * mark[s] ELSE 0]
           listed == ToSet(BuyList)
           rest == Symbols \ listed
<1>1. Budget \in Nat /\ Budget <= cash + Value(Sells) /\ cash + Value(Sells) \in Nat
  BY ValueFacts DEF SlotTypes, Sells, Held
<1>2. /\ BuyList \in Seq(Symbols) /\ Len(BuyList) \in Nat
      /\ listed \in SUBSET Symbols /\ rest \in SUBSET Symbols
      /\ listed \cup rest = Symbols /\ listed \cap rest = {}
  BY BuyListFacts
<1>3. /\ IsFiniteSet(listed) /\ IsFiniteSet(rest)
      /\ Cardinality(listed) \in Nat /\ Cardinality(listed) <= Len(BuyList)
  BY <1>2, SymbolsAreFinite, ToSetIsFinite
<1>4. /\ \A s \in listed : price[s] = OrderQty(s) * mark[s]
      /\ \A s \in rest : price[s] = 0
  BY <1>2
<1>5. Cost = SumFunctionOnSet(price, Symbols)
  BY DEF Cost
<1> HIDE DEF price, listed, rest
<1>6. \A s \in listed : price[s] \in Nat /\ price[s] <= Budget \div Len(BuyList)
  BY <1>4, OrderFacts DEF listed
<1>7. /\ SumFunctionOnSet(price, Symbols)
            = SumFunctionOnSet(price, listed) + SumFunctionOnSet(price, rest)
      /\ SumFunctionOnSet(price, rest) = 0
      /\ SumFunctionOnSet(price, listed) \in Nat
  <2>1. \A s \in listed \cup rest : price[s] \in Int
    BY <1>4, <1>6
  <2>2. SumFunctionOnSet(price, listed \cup rest)
            = SumFunctionOnSet(price, listed) + SumFunctionOnSet(price, rest)
    BY <1>2, <1>3, <2>1, SumOfUnion
  <2>3. SumFunctionOnSet(price, rest) = 0
    BY <1>3, <1>4, SumOfZeros
  <2>4. SumFunctionOnSet(price, listed) \in Nat
    BY <1>3, <1>6, SumIsNat
  <2> QED BY <1>2, <2>2, <2>3, <2>4
<1>8. SumFunctionOnSet(price, listed) <= Budget
  <2>1. CASE Len(BuyList) = 0
    <3>1. listed = {}
      BY <1>2, <2>1 DEF listed, ToSet
    <3> QED BY <1>1, <3>1, SumOfNothing
  <2>2. CASE Len(BuyList) # 0
    <3>1. PICK n \in Nat \ {0} : n = Len(BuyList)
      BY <1>2, <2>2
    <3>2. PICK share \in Nat : share = Budget \div n /\ share * n <= Budget
      BY <1>1, Quotient
    <3>3. \A s \in listed : price[s] \in Int /\ price[s] <= share
      BY <1>6, <3>1, <3>2
    <3>4. SumFunctionOnSet(price, listed) <= Cardinality(listed) * share
      BY <1>3, <3>3, SumIsBounded
    <3>5. /\ Cardinality(listed) * share <= n * share /\ n * share = share * n
          /\ Cardinality(listed) * share \in Nat /\ n * share \in Nat
      BY <1>3, <3>1, ProductMonotone, Product
    <3> QED BY <1>1, <1>7, <3>2, <3>4, <3>5
  <2> QED BY <2>1, <2>2
<1> QED
  BY <1>1, <1>5, <1>7, <1>8
----------------------------------------------------------------------------

----------------------------------------------------------------------------
(* The slots settle                                                        *)

\* What was filled on this bar was sold, and cannot enter; or it entered, and
\* cannot be sold.
FillsFit ==
    \A s \in Symbols :
        \/ fills[s] = 0
        \/ fills[s] = 1 /\ view[s] = "fall" /\ qty[s] = 0
        \/ fills[s] = 1 /\ view[s] = "enter" /\ qty[s] > 0

\* What is held beyond the slots is what the engine did not sell.
SlotsFit == refused \subseteq Held /\ Cardinality(Held \ refused) <= Cap

\* What is to be sold trades: it would have been sold at its last bar.
SellsTrade == disableSell \/ cut \/ (refused = {} /\ Sells \subseteq present)

SlotInv == SlotTypes /\ FillsFit /\ SlotsFit /\ SellsTrade

\* An account starts without holdings.
LEMMA SlotInitially == SlotInit => SlotInv
<1> SUFFICES ASSUME SlotInit PROVE SlotInv
  OBVIOUS
<1>1. Min(Prices) \in Nat \ {0}
  <2>1. PICK n \in Prices : \A m \in Prices : n <= m
    BY SlotAssumption, LeastNumber
  <2> QED BY <2>1, SlotAssumption DEF Min
<1>2. SlotTypes
  BY <1>1, SlotAssumption DEF SlotInit, SlotTypes, Views
<1>3. FillsFit
  BY DEF SlotInit, FillsFit
<1>4. Held = {} /\ refused = {} /\ Held \ refused = {} /\ Sells = {}
  BY DEF SlotInit, Held, Sells
<1>5. SlotsFit
  <2>1. Cardinality(Held \ refused) = 0
    BY <1>4, FS_EmptySet
  <2> QED BY <1>4, <2>1, SlotAssumption DEF SlotsFit
<1>6. SellsTrade
  BY <1>4 DEF SellsTrade
<1> QED
  BY <1>2, <1>3, <1>5, <1>6 DEF SlotInv

\* A sell: the symbol's month falls, so it cannot come back on this bar.
LEMMA SellKeeps ==
    ASSUME SlotInv, NEW s \in Symbols, FillSell(s), fills' = [fills EXCEPT ![s] = @ + 1],
           UNCHANGED <<disableSell, present, mark, view, growth, cut>>
    PROVE  SlotInv'
<1>1. /\ cash \in Nat /\ qty \in [Symbols -> Nat] /\ mark \in [Symbols -> Nat \ {0}]
      /\ fills \in [Symbols -> Nat] /\ view \in Views /\ growth \in [Symbols -> Int]
  BY DEF SlotInv, SlotTypes
<1>2. /\ qty[s] > 0 /\ view[s] = "fall"
      /\ cash' = cash + qty[s] * mark[s] /\ qty' = [qty EXCEPT ![s] = 0]
      /\ refused' = (refused \cup Refusals) \ {s}
  BY DEF FillSell, CanSell, Sells, Held
<1>3. qty[s] * mark[s] \in Nat
  BY <1>1, Product
<1>4. SlotTypes'
  <2>1. cash' \in Nat
    BY <1>1, <1>2, <1>3
  <2>2. qty' \in [Symbols -> Nat] /\ fills' \in [Symbols -> Nat]
    BY <1>1, <1>2
  <2> QED BY <1>1, <2>1, <2>2 DEF SlotTypes
<1>5. fills[s] = 0
  BY <1>1, <1>2 DEF SlotInv, FillsFit
<1>6. FillsFit'
  BY <1>1, <1>2, <1>5 DEF SlotInv, FillsFit
<1>7. SlotsFit'
  <2>1. Held' = Held \ {s} /\ Refusals \subseteq Held /\ refused \subseteq Held
    BY <1>1, <1>2 DEF Held, Refusals, Sells, SlotInv, SlotsFit
  <2>2. Held' \ refused' \in SUBSET (Held \ refused) /\ refused' \subseteq Held'
    BY <1>2, <2>1
  <2>3. Held \ refused \in SUBSET Symbols
    BY DEF Held
  <2>4. IsFiniteSet(Held \ refused) /\ Cardinality(Held \ refused) \in Nat
    BY <2>3, SymbolsAreFinite
  <2>5. /\ Cardinality(Held' \ refused') <= Cardinality(Held \ refused)
        /\ Cardinality(Held' \ refused') \in Nat
    BY <2>2, <2>4, FS_Subset, FS_CardinalityType
  <2>6. Cardinality(Held \ refused) <= Cap
    BY DEF SlotInv, SlotsFit
  <2>7. Cardinality(Held' \ refused') <= Cap
    BY <2>4, <2>5, <2>6, SlotAssumption
  <2> QED BY <2>2, <2>7 DEF SlotsFit
<1>8. SellsTrade'
  <2> SUFFICES ASSUME ~disableSell, ~cut PROVE refused' = {} /\ Sells' \subseteq present'
    BY DEF SellsTrade
  <2>1. refused = {} /\ Sells \subseteq present
    BY DEF SlotInv, SellsTrade
  <2>2. Refusals = {}
    BY <2>1 DEF Refusals, CanSell
  <2>3. Sells' \subseteq Sells
    BY <1>1, <1>2 DEF Sells, Held
  <2> QED BY <1>2, <2>1, <2>2, <2>3
<1> QED
  BY <1>4, <1>6, <1>7, <1>8 DEF SlotInv

\* A purchase: the symbol is new and takes a slot that was free, but for the
\* sells of the plan that were refused.
LEMMA BuyKeeps ==
    ASSUME SlotInv, NEW s \in Symbols, FillBuy(s), fills' = [fills EXCEPT ![s] = @ + 1],
           UNCHANGED <<disableSell, present, mark, view, growth, cut>>
    PROVE  SlotInv'
<1>0. SlotTypes
  BY DEF SlotInv
<1>1. /\ cash \in Nat /\ qty \in [Symbols -> Nat] /\ mark \in [Symbols -> Nat \ {0}]
      /\ fills \in [Symbols -> Nat] /\ view \in Views /\ growth \in [Symbols -> Int]
  BY <1>0 DEF SlotTypes
<1>2. /\ Sells = Refusals /\ refused' = refused \cup Refusals /\ s \in ToSet(BuyList) /\ s \notin Held /\ BuyQty(s) > 0
      /\ cash' = cash - BuyQty(s) * mark[s] /\ qty' = [qty EXCEPT ![s] = BuyQty(s)]
  BY DEF FillBuy, CanBuy, ToSet
<1>3. /\ BuyQty(s) \in Nat /\ BuyQty(s) * mark[s] \in Nat /\ BuyQty(s) * mark[s] <= cash
  BY <1>0, <1>2, OrderFacts
<1>4. SlotTypes'
  <2>1. cash' \in Nat
    BY <1>1, <1>2, <1>3
  <2>2. qty' \in [Symbols -> Nat] /\ fills' \in [Symbols -> Nat]
    BY <1>1, <1>2, <1>3
  <2> QED BY <1>1, <2>1, <2>2 DEF SlotTypes
<1>5. view[s] = "enter" /\ BuyList # <<>> /\ (BuyList # <<>> => Len(BuyList) + Cardinality(Kept) <= Cap)
  BY <1>0, <1>2, BuyListFacts DEF ToSet
<1>6. qty[s] = 0
  BY <1>1, <1>2 DEF Held
<1>7. fills[s] = 0
  <2>1. \/ fills[s] = 0
        \/ fills[s] = 1 /\ view[s] = "fall" /\ qty[s] = 0
        \/ fills[s] = 1 /\ view[s] = "enter" /\ qty[s] > 0
    BY DEF SlotInv, FillsFit
  <2>2. ~(qty[s] > 0) /\ view[s] = "enter"
    BY <1>5, <1>6
  <2> QED BY <2>1, <2>2
<1>8. qty'[s] > 0 /\ fills'[s] = 1 /\ \A t \in Symbols : t # s => qty'[t] = qty[t] /\ fills'[t] = fills[t]
  BY <1>1, <1>2, <1>3, <1>7
<1>9. FillsFit'
  BY <1>5, <1>8 DEF SlotInv, FillsFit
<1>10. SlotsFit'
  <2>1. Held' = Held \cup {s} /\ Held \in SUBSET Symbols
    BY <1>8 DEF Held
  <2>2. Kept = Held \ Refusals /\ Refusals \subseteq Held /\ Kept \in SUBSET Symbols
    BY <1>2, <2>1 DEF Kept, Refusals, Sells
  <2>3. Held' \ refused' \in SUBSET (Kept \cup {s}) /\ refused' \subseteq Held'
    BY <1>2, <2>1, <2>2 DEF SlotInv, SlotsFit
  <2>4. IsFiniteSet(Kept) /\ Cardinality(Kept) \in Nat /\ s \notin Kept
    BY <1>2, <2>2, SymbolsAreFinite
  <2>5. IsFiniteSet(Kept \cup {s}) /\ Cardinality(Kept \cup {s}) = Cardinality(Kept) + 1
    BY <2>4, FS_AddElement
  <2>6. Cardinality(Held' \ refused') <= Cardinality(Kept \cup {s}) /\ Cardinality(Held' \ refused') \in Nat
    BY <2>3, <2>5, FS_Subset, FS_CardinalityType
  <2>7. Len(BuyList) \in Nat /\ Len(BuyList) # 0
    BY <1>0, <1>5, BuyListFacts
  <2>8. Cardinality(Held' \ refused') <= Cap
    BY <1>5, <2>4, <2>5, <2>6, <2>7, SlotAssumption
  <2> QED BY <2>3, <2>8 DEF SlotsFit
<1>11. SellsTrade'
  <2> SUFFICES ASSUME ~disableSell, ~cut PROVE refused' = {} /\ Sells' \subseteq present'
    BY DEF SellsTrade
  <2>1. refused = {} /\ Sells \subseteq present
    BY DEF SlotInv, SellsTrade
  <2>2. Refusals = {}
    BY <2>1 DEF Refusals, CanSell
  <2>3. Sells' \subseteq Sells
    BY <1>1, <1>5, <1>8 DEF Sells, Held
  <2> QED BY <1>2, <2>1, <2>2, <2>3
<1> QED
  BY <1>4, <1>9, <1>10, <1>11 DEF SlotInv

\* Every step keeps them.
LEMMA SlotInductive ==
    ASSUME SlotInv, [Next]_vars
    PROVE  SlotInv'
<1>1. CASE UNCHANGED slotVars
  BY <1>1 DEF slotVars, SlotInv, SlotTypes, FillsFit, SlotsFit, Held, SellsTrade, Sells
<1>2. CASE Round
  BY <1>2, SellKeeps, BuyKeeps DEF Round
<1>3. CASE NextBar
  <2>1. /\ UNCHANGED <<cash, qty>> /\ fills' = [s \in Symbols |-> 0]
        /\ mark' \in [Symbols -> Nat \ {0}] /\ view' \in Views /\ growth' \in [Symbols -> Int]
    BY <1>3, SlotAssumption DEF NextBar, Symbols
  <2>2. SlotTypes'
    BY <2>1 DEF SlotInv, SlotTypes
  <2>3. Held' = Held
    BY <2>1 DEF Held
  <2>4. refused' = refused \/ refused' = refused \cup Refusals
    BY <1>3 DEF NextBar
  <2>5. Refusals \subseteq Held /\ refused \subseteq Held
    BY DEF Refusals, Sells, SlotInv, SlotsFit
  <2>6. SlotsFit'
    <3>1. Held' \ refused' \in SUBSET (Held \ refused) /\ refused' \subseteq Held'
      BY <2>3, <2>4, <2>5
    <3>2. IsFiniteSet(Held \ refused) /\ Cardinality(Held \ refused) \in Nat
      BY SymbolsAreFinite DEF Held
    <3>3. /\ Cardinality(Held' \ refused') <= Cardinality(Held \ refused)
          /\ Cardinality(Held' \ refused') \in Nat
      BY <3>1, <3>2, FS_Subset, FS_CardinalityType
    <3>4. Cardinality(Held \ refused) <= Cap
      BY DEF SlotInv, SlotsFit
    <3>5. Cardinality(Held' \ refused') <= Cap
      BY <3>2, <3>3, <3>4, SlotAssumption
    <3> QED BY <3>1, <3>5 DEF SlotsFit
  <2>7. SellsTrade'
    <3> SUFFICES ASSUME ~disableSell, ~cut'
                 PROVE  refused' = {} /\ Sells' \subseteq present'
      BY <1>3 DEF SellsTrade, NextBar
    <3>1. /\ ~cut /\ Sells = Refusals /\ refused' = refused \cup Refusals
      BY <1>3 DEF NextBar
    <3>2. refused = {} /\ Sells \subseteq present
      BY <3>1 DEF SlotInv, SellsTrade
    <3>3. Sells = {}
      BY <3>1, <3>2 DEF Refusals, CanSell
    <3>4. \A s \in Symbols \ present' : view'[s] = "fall" <=> view[s] = "fall"
      BY <1>3 DEF NextBar
    <3>5. ASSUME NEW s \in Sells' PROVE s \in present'
      <4>1. s \in Held /\ s \in Symbols /\ view'[s] = "fall"
        BY <2>3 DEF Sells, Held
      <4> QED BY <3>3, <3>4, <4>1 DEF Sells
    <3> QED BY <3>1, <3>2, <3>3, <3>5
  <2> QED BY <2>1, <2>2, <2>6, <2>7 DEF SlotInv, FillsFit
<1> QED
  BY <1>1, <1>2, <1>3 DEF Next, vars, Session, Live, Trade

\* The slot strategies hold no more names than there are slots, but for those
\* whose sell was refused under disable_sell_signal or by rounds that ran out, plan nothing they cannot pay, and fill no symbol
\* twice on a bar, for any universe, prices, gaps and views
\* (HaMonthDayRevenueSlotsStrategy.generate_signals, BacktestEngine.run).
THEOREM SlotsAlwaysSettle == Spec => []SlotsSettle
<1>1. Init => SlotInv
  BY SlotInitially DEF Init
<1>2. SlotInv /\ [Next]_vars => SlotInv'
  BY SlotInductive
<1>3. SlotInv => SlotsSettle
  <2> SUFFICES ASSUME SlotInv PROVE SlotsSettle
    OBVIOUS
  <2>1. /\ refused \subseteq Held /\ Cardinality(Held \ refused) <= Cap
        /\ refused # {} => disableSell \/ cut
    BY DEF SlotInv, SlotsFit, SellsTrade
  <2>2. cash >= 0 /\ Cost <= cash + Value(Sells)
    BY PlanIsAffordable DEF SlotInv, SlotTypes
  <2>3. \A s \in Symbols : fills[s] <= 1
    BY DEF SlotInv, FillsFit
  <2> QED BY <2>1, <2>2, <2>3 DEF SlotsSettle
<1> QED
  BY <1>1, <1>2, <1>3, PTL DEF Spec

----------------------------------------------------------------------------
(* The calendar                                                            *)

\* A number is its quotient and its remainder.
LEMMA Division ==
    ASSUME NEW x \in Nat, NEW k \in Nat \ {0}
    PROVE  \E q \in Nat, r \in 0 .. k - 1 : q = x \div k /\ r = x % k /\ x = k * q + r
<1>1. x \div k \in Nat /\ x % k \in 0 .. k - 1
  OBVIOUS
<1>2. x % k = x - k * (x \div k)
  OBVIOUS
<1>3. PICK q \in Nat, r \in 0 .. k - 1 : q = x \div k /\ r = x % k
  BY <1>1
<1>4. r = x - k * q
  BY <1>2, <1>3
<1>5. k * q \in Int /\ r \in Int
  OBVIOUS
<1>6. x = k * q + r
  <2> DEFINE P == k * q
  <2>1. P \in Int /\ r = x - P
    BY <1>4, <1>5
  <2> HIDE DEF P
  <2>2. x = P + r
    BY <1>5, <2>1
  <2> QED BY <2>2 DEF P
<1> QED
  BY <1>3, <1>6

\* A factor that is greater by one adds at least the other.
LEMMA ProductStep ==
    ASSUME NEW p \in Nat, NEW q \in Nat, p < q, NEW k \in Nat
    PROVE  k * p + k <= k * q /\ k * p \in Nat
<1>1. \A a, b, c \in Nat : a <= b => c * a <= c * b
  OBVIOUS
<1>2. k * (p + 1) <= k * q
  BY <1>1
<1>3. k * (p + 1) = k * p + k
  OBVIOUS
<1> QED
  BY <1>2, <1>3

\* The order of numbers is first that of their quotients.
LEMMA QuotientOrder ==
    ASSUME NEW k \in Nat, NEW p \in Nat, NEW q \in Nat,
           NEW r \in 0 .. k - 1, NEW s \in 0 .. k - 1, k * p + r <= k * q + s
    PROVE  p <= q
<1> DEFINE P == k * p
           Q == k * q
<1>1. P \in Nat /\ Q \in Nat /\ P + r <= Q + s
  OBVIOUS
<1>2. q < p => Q + k <= P
  BY ProductStep
<1> HIDE DEF P, Q
<1> QED
  BY <1>1, <1>2

\* The quotient of a greater number is no smaller.
LEMMA QuotientRises ==
    ASSUME NEW x \in Nat, NEW y \in Nat, x <= y, NEW k \in Nat \ {0}
    PROVE  x \div k <= y \div k
<1>1. PICK p \in Nat, r \in 0 .. k - 1 : p = x \div k /\ r = x % k /\ x = k * p + r
  BY Division
<1>2. PICK q \in Nat, s \in 0 .. k - 1 : q = y \div k /\ s = y % k /\ y = k * q + s
  BY Division
<1>3. p <= q
  <2>1. k * p + r <= k * q + s
    BY <1>1, <1>2
  <2> QED BY <2>1, QuotientOrder
<1> QED
  BY <1>1, <1>2, <1>3

\* Sessions come in the order of their days.
LEMMA SessionsRise ==
    ASSUME NEW i \in Nat \ {0}, NEW j \in Nat \ {0}, i <= j
    PROVE  SessionDay(i) \in Nat /\ SessionDay(i) <= SessionDay(j)
<1> DEFINE x == i - 1
           y == j - 1
<1>1. /\ x \in Nat /\ y \in Nat /\ x <= y
      /\ TradingDays \in Nat \ {0} /\ WeekLength \in Nat /\ TradingDays <= WeekLength
  BY HaBandAssumption
<1>2. /\ SessionDay(i) = (x \div TradingDays) * WeekLength + (x % TradingDays)
      /\ SessionDay(j) = (y \div TradingDays) * WeekLength + (y % TradingDays)
  BY DEF SessionDay
<1> HIDE DEF x, y
<1>31. PICK p \in Nat, r \in 0 .. TradingDays - 1 :
          p = x \div TradingDays /\ r = x % TradingDays /\ x = TradingDays * p + r
  BY <1>1, Division
<1>32. PICK q \in Nat, s \in 0 .. TradingDays - 1 :
          q = y \div TradingDays /\ s = y % TradingDays /\ y = TradingDays * q + s
  BY <1>1, Division
<1>3. p <= q
  BY <1>1, <1>31, <1>32, QuotientRises
<1>33. SessionDay(i) = p * WeekLength + r /\ SessionDay(j) = q * WeekLength + s
  BY <1>2, <1>31, <1>32
<1>34. SessionDay(i) = WeekLength * p + r /\ SessionDay(j) = WeekLength * q + s
  BY <1>1, <1>33
<1>4. WeekLength * p \in Nat /\ WeekLength * q \in Nat
  BY <1>1
<1>5. CASE p = q
  <2>1. r <= s
    <3>1. TradingDays * p \in Nat
      BY <1>1
    <3>2. TradingDays * p + r <= TradingDays * p + s
      BY <1>1, <1>31, <1>32, <1>5
    <3> QED BY <1>1, <3>1, <3>2
  <2> QED BY <1>1, <1>34, <1>4, <1>5, <2>1
<1>6. CASE p < q
  <2>1. WeekLength * p + WeekLength <= WeekLength * q
    BY <1>1, <1>6, ProductStep
  <2> QED BY <1>1, <1>34, <1>4, <2>1
<1> QED
  BY <1>3, <1>5, <1>6

\* The month of the i-th session.
SessionMonth(i) == MonthOf(SessionDay(i))

\* Sessions come in the order of their months.
LEMMA MonthsRise ==
    ASSUME NEW i \in Nat \ {0}, NEW j \in Nat \ {0}, i <= j
    PROVE  SessionMonth(i) \in Nat /\ SessionMonth(i) <= SessionMonth(j)
<1>1. MonthLength \in Nat \ {0}
  BY HaBandAssumption
<1>2. SessionDay(i) \in Nat /\ SessionDay(j) \in Nat /\ SessionDay(i) <= SessionDay(j)
  BY SessionsRise
<1> QED
  BY <1>1, <1>2, QuotientRises, Division DEF SessionMonth, MonthOf

(* The HA open                                                             *)

\* What HaOpen computes by recursion.
Opens(first, closes, n, open) ==
    /\ open = [i \in 1 .. n |-> open[i]]
    /\ \A i \in 1 .. n :
          open[i] = IF i = 1 THEN first ELSE (open[i - 1] + closes[i - 1]) \div 2

\* There is such a function, up to any length.
LEMMA OpensExist ==
    ASSUME NEW first, NEW closes, NEW n \in Nat
    PROVE  \E open : Opens(first, closes, n, open)
<1> DEFINE Open == {m \in Nat : ~ \E open : Opens(first, closes, m, open)}
<1>1. SUFFICES ASSUME Open # {} PROVE FALSE
  OBVIOUS
<1>2. PICK m \in Open : \A k \in Open : m <= k
  <2>1. Open \in SUBSET Nat
    OBVIOUS
  <2> HIDE DEF Open
  <2> QED BY <1>1, <2>1, LeastNumber
<1>3. m # 0
  <2>1. Opens(first, closes, 0, [i \in 1 .. 0 |-> first])
    BY DEF Opens
  <2> QED BY <1>2, <2>1
<1>4. m \in Nat /\ m - 1 \in Nat /\ m - 1 \notin Open
  <2>1. m \in Nat
    BY <1>2
  <2> HIDE DEF Open
  <2> QED BY <1>2, <1>3, <2>1
<1>5. PICK open : Opens(first, closes, m - 1, open)
  BY <1>4
<1> DEFINE next == [i \in 1 .. m |->
                        IF i < m THEN open[i]
                        ELSE IF i = 1 THEN first ELSE (open[i - 1] + closes[i - 1]) \div 2]
<1>6. ASSUME NEW i \in 1 .. m
      PROVE  next[i] = IF i = 1 THEN first ELSE (next[i - 1] + closes[i - 1]) \div 2
  <2>1. i # 1 => i - 1 \in 1 .. m /\ next[i - 1] = open[i - 1]
    BY <1>4
  <2>2. i < m => i \in 1 .. m - 1
    BY <1>4
  <2>3. i < m => open[i] = IF i = 1 THEN first ELSE (open[i - 1] + closes[i - 1]) \div 2
    BY <1>5, <2>2 DEF Opens
  <2>4. next[i] = IF i < m THEN open[i]
                  ELSE IF i = 1 THEN first ELSE (open[i - 1] + closes[i - 1]) \div 2
    OBVIOUS
  <2> HIDE DEF next
  <2> QED BY <2>1, <2>3, <2>4
<1>7. Opens(first, closes, m, next)
  <2>1. next = [i \in 1 .. m |-> next[i]]
    OBVIOUS
  <2> HIDE DEF next
  <2> QED BY <1>6, <2>1 DEF Opens
<1> QED
  BY <1>2, <1>7

Same(f, g, n) == \A i \in 1 .. n : f[i] = g[i]

\* The first values depend on the first closes only.
LEMMA OpensAgree ==
    ASSUME NEW first, NEW closes, NEW longer, NEW n \in Nat, NEW m \in Nat, n <= m,
           Same(longer, closes, n - 1),
           NEW a, Opens(first, closes, n, a), NEW b, Opens(first, longer, m, b)
    PROVE  Same(a, b, n)
<1> DEFINE Wrong == {i \in 1 .. n : a[i] # b[i]}
<1>1. SUFFICES ASSUME Wrong # {} PROVE FALSE
  BY DEF Same
<1>2. PICK i \in Wrong : \A k \in Wrong : i <= k
  <2>1. Wrong \in SUBSET Nat
    OBVIOUS
  <2> HIDE DEF Wrong
  <2> QED BY <1>1, <2>1, LeastNumber
<1>3. i \in 1 .. n /\ a[i] # b[i]
  BY <1>2
<1>4. i # 1 => i - 1 \in 1 .. n - 1 /\ i - 1 \in 1 .. n /\ i - 1 \notin Wrong
  <2>1. i # 1 => i - 1 \in 1 .. n - 1 /\ i - 1 \in 1 .. n /\ ~(i <= i - 1)
    BY <1>3
  <2> HIDE DEF Wrong
  <2> QED BY <1>2, <2>1
<1>5. i # 1 => a[i - 1] = b[i - 1] /\ longer[i - 1] = closes[i - 1]
  BY <1>4 DEF Same
<1>6. /\ a[i] = IF i = 1 THEN first ELSE (a[i - 1] + closes[i - 1]) \div 2
      /\ b[i] = IF i = 1 THEN first ELSE (b[i - 1] + longer[i - 1]) \div 2
  <2>1. i \in 1 .. m
    BY <1>3
  <2> QED BY <1>3, <2>1 DEF Opens
<1> HIDE DEF Wrong
<1> QED
  BY <1>3, <1>5, <1>6

\* HaOpen is one of them.
LEMMA HaOpenIs ==
    ASSUME NEW first, NEW closes, NEW n \in Nat, Len(closes) = n
    PROVE  \E open : Opens(first, closes, n, open) /\ HaOpen(first, closes) = open[n]
<1> DEFINE Solves(f) == f = [i \in 1 .. n |->
                IF i = 1 THEN first ELSE (f[i - 1] + closes[i - 1]) \div 2]
           open == CHOOSE f : Solves(f)
<1>1. \E f : Solves(f)
  <2>1. PICK f : Opens(first, closes, n, f)
    BY OpensExist
  <2>2. Solves(f)
    BY <2>1 DEF Opens
  <2> QED BY <2>2
<1>2. Solves(open)
  <2> HIDE DEF Solves
  <2> QED BY <1>1
<1>3. Opens(first, closes, n, open)
  <2>1. open = [i \in 1 .. n |->
                IF i = 1 THEN first ELSE (open[i - 1] + closes[i - 1]) \div 2]
    BY <1>2
  <2> HIDE DEF open
  <2> QED BY <2>1 DEF Opens
<1>4. HaOpen(first, closes) = open[n]
  BY DEF HaOpen
<1> HIDE DEF open
<1> QED
  BY <1>3, <1>4

\* One more bar opens between the open and the close of the bar before.
LEMMA HaOpenStep ==
    ASSUME NEW first, NEW closes, NEW longer, NEW n \in Nat \ {0},
           Len(closes) = n, Len(longer) = n + 1, \A i \in 1 .. n : longer[i] = closes[i]
    PROVE  HaOpen(first, longer) = (HaOpen(first, closes) + closes[n]) \div 2
<1>1. PICK a : Opens(first, closes, n, a) /\ HaOpen(first, closes) = a[n]
  BY HaOpenIs
<1>2. PICK b : Opens(first, longer, n + 1, b) /\ HaOpen(first, longer) = b[n + 1]
  BY HaOpenIs
<1>3. a[n] = b[n]
  <2>1. PICK m \in Nat : m = n + 1
    OBVIOUS
  <2>2. n \in Nat /\ n <= m /\ n \in 1 .. n /\ Same(longer, closes, n - 1)
    BY <2>1 DEF Same
  <2>3. Opens(first, closes, n, a) /\ Opens(first, longer, m, b)
    BY <1>1, <1>2, <2>1
  <2>4. Same(a, b, n)
    BY <2>2, <2>3, OpensAgree
  <2> QED BY <2>2, <2>4 DEF Same
<1>4. b[n + 1] = (b[n] + longer[n]) \div 2
  <2>1. n + 1 \in 1 .. n + 1 /\ n + 1 # 1 /\ (n + 1) - 1 = n
    OBVIOUS
  <2> QED BY <1>2, <2>1 DEF Opens
<1>5. longer[n] = closes[n]
  OBVIOUS
<1> QED
  BY <1>1, <1>2, <1>3, <1>4, <1>5

----------------------------------------------------------------------------
(* Months of a history                                                     *)

\* A function on an interval is a sequence.
LEMMA LengthOf ==
    ASSUME NEW f, NEW n \in Nat, f = [i \in 1 .. n |-> f[i]]
    PROVE  Len(f) = n /\ DOMAIN f = 1 .. n
<1> DEFINE S == {f[i] : i \in 1 .. n}
<1>1. f \in [1 .. n -> S]
  OBVIOUS
<1> HIDE DEF S
<1>2. f \in Seq(S) /\ DOMAIN f = 1 .. n
  BY <1>1
<1> QED
  BY <1>2

\* The bars that the history of the band strategy is made of.
DayBars == {[bar EXCEPT !.day = d] : bar \in Bars["band"], d \in Nat}

Dated(bs) ==
    /\ bs \in Seq(DayBars)
    /\ \A i \in DOMAIN bs : bs[i].day = SessionDay(i)

MonthSet(bs) == {MonthOf(b.day) : b \in ToSet(bs)}
Months(bs) == Ascending(MonthSet(bs))
MonthRow(bs, m) == Aggregate(InMonths(bs, m, m))
MonthCloses(bs) == [k \in DOMAIN Months(bs) |-> HaClose(MonthRow(bs, Months(bs)[k]))]
Seed(row) == (row.o + row.c) \div 2

\* The months of a history are those of its sessions.
LEMMA DatedFacts ==
    ASSUME NEW bs, Dated(bs)
    PROVE  /\ Len(bs) \in Nat /\ DOMAIN bs = 1 .. Len(bs)
           /\ \A i \in 1 .. Len(bs) : MonthOf(bs[i].day) = SessionMonth(i)
           /\ MonthSet(bs) = {SessionMonth(i) : i \in 1 .. Len(bs)}
           /\ MonthSet(bs) \in SUBSET Int /\ IsFiniteSet(MonthSet(bs))
<1>1. Len(bs) \in Nat /\ DOMAIN bs = 1 .. Len(bs)
  BY DEF Dated
<1>2. \A i \in 1 .. Len(bs) : MonthOf(bs[i].day) = SessionMonth(i)
  BY <1>1 DEF Dated, SessionMonth
<1>3. MonthSet(bs) = {SessionMonth(i) : i \in 1 .. Len(bs)}
  <2>1. ASSUME NEW x \in MonthSet(bs) PROVE x \in {SessionMonth(i) : i \in 1 .. Len(bs)}
    <3>1. PICK b \in ToSet(bs) : x = MonthOf(b.day)
      BY DEF MonthSet
    <3>2. PICK i \in 1 .. Len(bs) : b = bs[i]
      BY <1>1 DEF ToSet
    <3> QED BY <1>2, <3>1, <3>2
  <2>2. ASSUME NEW i \in 1 .. Len(bs) PROVE SessionMonth(i) \in MonthSet(bs)
    <3>1. bs[i] \in ToSet(bs)
      BY <1>1 DEF ToSet
    <3> QED BY <1>2, <3>1 DEF MonthSet
  <2> QED BY <2>1, <2>2
<1>4. ASSUME NEW x \in MonthSet(bs) PROVE x \in Int
  <2>1. PICK i \in 1 .. Len(bs) : x = SessionMonth(i)
    BY <1>3
  <2>2. i \in Nat \ {0} /\ i <= i
    BY <1>1
  <2> QED BY <2>1, <2>2, MonthsRise
<1>5. IsFiniteSet(MonthSet(bs))
  <2> DEFINE f == [i \in 1 .. Len(bs) |-> SessionMonth(i)]
  <2>1. IsFiniteSet(1 .. Len(bs))
    BY <1>1, FS_Interval
  <2>2. f \in Surjection(1 .. Len(bs), MonthSet(bs))
    BY <1>3 DEF Surjection
  <2> QED BY <2>1, <2>2, FS_Surjection
<1> QED
  BY <1>1, <1>2, <1>3, <1>4, <1>5

\* The months of some bars are numbers.
LEMMA MonthSetFacts ==
    ASSUME NEW bs \in Seq(DayBars)
    PROVE  MonthSet(bs) \in SUBSET Int /\ IsFiniteSet(MonthSet(bs))
<1>1. \A b \in ToSet(bs) : MonthOf(b.day) \in Int
  <2> SUFFICES ASSUME NEW b \in ToSet(bs) PROVE MonthOf(b.day) \in Int
    OBVIOUS
  <2>1. b \in DayBars
    BY DEF ToSet
  <2>2. PICK bar \in Bars["band"], d \in Nat : b = [bar EXCEPT !.day = d]
    BY <2>1 DEF DayBars
  <2>3. b.day = d
    BY <2>2, ReplayAssumption
  <2>4. MonthLength \in Nat \ {0}
    BY HaBandAssumption
  <2>5. d \div MonthLength \in Nat
    BY <2>4, Quotient
  <2> QED BY <2>3, <2>5 DEF MonthOf
<1>2. IsFiniteSet(ToSet(bs))
  BY ToSetIsFinite
<1> DEFINE f == [b \in ToSet(bs) |-> MonthOf(b.day)]
<1>3. f \in Surjection(ToSet(bs), MonthSet(bs))
  BY DEF Surjection, MonthSet
<1>4. IsFiniteSet(MonthSet(bs))
  <2> HIDE DEF f
  <2> QED BY <1>2, <1>3, FS_Surjection
<1> QED
  BY <1>1, <1>4 DEF MonthSet

\* They are listed in their order.
LEMMA MonthsFacts ==
    ASSUME NEW bs \in Seq(DayBars), Len(bs) # 0
    PROVE  \E n \in Nat \ {0} :
              /\ Len(Months(bs)) = n /\ DOMAIN Months(bs) = 1 .. n
              /\ \A k \in 1 .. n : Months(bs)[k] \in MonthSet(bs)
              /\ \A x \in MonthSet(bs) : \E k \in 1 .. n : Months(bs)[k] = x
              /\ Ordered(Months(bs))
<1> DEFINE s == Months(bs)
           S == MonthSet(bs)
<1>1. S \in SUBSET Int /\ IsFiniteSet(S) /\ MonthOf(bs[1].day) \in S
  <2>1. 1 \in DOMAIN bs
    OBVIOUS
  <2>2. bs[1] \in ToSet(bs)
    BY <2>1 DEF ToSet
  <2> QED BY <2>2, MonthSetFacts DEF MonthSet
<1>2. s \in Seq(S) /\ Ordered(s) /\ ToSet(s) = S
  <2> HIDE DEF S
  <2>1. Ascending(S) \in Seq(S) /\ Ordered(Ascending(S)) /\ ToSet(Ascending(S)) = S
    BY <1>1, AscendingFacts
  <2> QED BY <2>1 DEF Months, S
<1> HIDE DEF s, S
<1>3. Len(s) \in Nat /\ DOMAIN s = 1 .. Len(s) /\ \A k \in 1 .. Len(s) : s[k] \in S
  BY <1>2
<1>4. \A x \in S : \E k \in 1 .. Len(s) : s[k] = x
  BY <1>2, <1>3 DEF ToSet
<1>5. Len(s) # 0
  <2>1. PICK k \in 1 .. Len(s) : s[k] = MonthOf(bs[1].day)
    BY <1>1, <1>4
  <2> QED BY <1>3, <2>1
<1> QED
  BY <1>2, <1>3, <1>4, <1>5 DEF s, S

\* The row of the last month.
LEMMA LastMonthHaIs ==
    ASSUME NEW bs, NEW n \in Nat \ {0}, Len(Months(bs)) = n, DOMAIN Months(bs) = 1 .. n
    PROVE  LastMonthHa(bs) =
              [month |-> Months(bs)[n], close |-> MonthCloses(bs)[n],
               open |-> HaOpen(Seed(MonthRow(bs, Months(bs)[1])), MonthCloses(bs))]
<1> DEFINE rows == [i \in DOMAIN Months(bs) |-> Aggregate(InMonths(bs, Months(bs)[i], Months(bs)[i]))]
           closes == [i \in DOMAIN Months(bs) |-> HaClose(rows[i])]
<1>1. LastMonthHa(bs) =
         [month |-> Months(bs)[Len(Months(bs))], close |-> closes[Len(Months(bs))],
          open |-> HaOpen((rows[1].o + rows[1].c) \div 2, closes)]
  BY DEF LastMonthHa, Months, MonthSet
<1>2. \A i \in 1 .. n : rows[i] = MonthRow(bs, Months(bs)[i])
  BY DEF MonthRow
<1> HIDE DEF rows
<1>3. closes = MonthCloses(bs)
  BY <1>2 DEF MonthCloses
<1>4. rows[1] = MonthRow(bs, Months(bs)[1])
  BY <1>2
<1> HIDE DEF closes
<1> QED
  BY <1>1, <1>3, <1>4 DEF Seed

\* The last row is that of the last bar's month.
LEMMA LastMonthIs ==
    ASSUME NEW bs, Dated(bs), Len(bs) # 0
    PROVE  LastMonthHa(bs).month = SessionMonth(Len(bs))
<1>1. PICK n \in Nat \ {0} :
         /\ Len(Months(bs)) = n /\ DOMAIN Months(bs) = 1 .. n
         /\ \A k \in 1 .. n : Months(bs)[k] \in MonthSet(bs)
         /\ \A x \in MonthSet(bs) : \E k \in 1 .. n : Months(bs)[k] = x
         /\ Ordered(Months(bs))
  BY MonthsFacts DEF Dated
<1>2. LastMonthHa(bs).month = Months(bs)[n]
  BY <1>1, LastMonthHaIs
<1>3. /\ Len(bs) \in Nat \ {0} /\ MonthSet(bs) = {SessionMonth(i) : i \in 1 .. Len(bs)}
      /\ MonthSet(bs) \in SUBSET Int
  BY DatedFacts
<1>4. SessionMonth(Len(bs)) \in MonthSet(bs)
  BY <1>3
<1>5. PICK k \in 1 .. n : Months(bs)[k] = SessionMonth(Len(bs))
  BY <1>1, <1>4
<1>6. PICK i \in 1 .. Len(bs) : Months(bs)[n] = SessionMonth(i)
  BY <1>1, <1>3
<1>7. Months(bs)[n] <= SessionMonth(Len(bs))
  <2>1. i \in Nat \ {0} /\ i <= Len(bs)
    BY <1>3
  <2> QED BY <1>3, <1>6, <2>1, MonthsRise
<1>8. k = n \/ Months(bs)[k] < Months(bs)[n]
  BY <1>1 DEF Ordered
<1>9. Months(bs)[n] \in Int /\ SessionMonth(Len(bs)) \in Int
  BY <1>3, <1>4, <1>6
<1> QED
  BY <1>2, <1>5, <1>7, <1>8, <1>9

\* Two histories that agree on the bars of a month agree on its row.
LEMMA SameRow ==
    ASSUME NEW a, NEW p, Dated(a), Dated(p), Len(p) <= Len(a),
           \A i \in 1 .. Len(p) : a[i] = p[i],
           NEW x \in Int, \A i \in 1 .. Len(a) : SessionMonth(i) = x => i <= Len(p)
    PROVE  MonthRow(a, x) = MonthRow(p, x)
<1> DEFINE Z == {i \in DOMAIN a : x <= MonthOf(a[i].day) /\ MonthOf(a[i].day) <= x}
           Y == {i \in DOMAIN p : x <= MonthOf(p[i].day) /\ MonthOf(p[i].day) <= x}
<1>1. /\ Len(a) \in Nat /\ DOMAIN a = 1 .. Len(a)
      /\ Len(p) \in Nat /\ DOMAIN p = 1 .. Len(p)
      /\ \A i \in 1 .. Len(a) : MonthOf(a[i].day) = SessionMonth(i)
      /\ \A i \in 1 .. Len(p) : MonthOf(p[i].day) = SessionMonth(i)
  BY DatedFacts
<1>2. \A i \in 1 .. Len(a) : SessionMonth(i) \in Int
  BY <1>1, MonthsRise
<1>3. Z = {i \in 1 .. Len(a) : SessionMonth(i) = x}
  BY <1>1, <1>2
<1>4. Y = {i \in 1 .. Len(p) : SessionMonth(i) = x}
  BY <1>1, <1>2
<1> HIDE DEF Z, Y
<1>5. Z = Y /\ Z \in SUBSET (1 .. Len(p)) /\ Z \in SUBSET Int /\ IsFiniteSet(Z)
  <2>1. Z = Y /\ Z \in SUBSET (1 .. Len(p))
    BY <1>1, <1>3, <1>4
  <2>2. IsFiniteSet(1 .. Len(p))
    BY <1>1, FS_Interval
  <2>3. IsFiniteSet(Z)
    BY <2>1, <2>2, FS_Subset
  <2>4. 1 .. Len(p) \subseteq Int
    OBVIOUS
  <2> QED BY <2>1, <2>3, <2>4
<1> DEFINE at == Ascending(Z)
<1>6. \A k \in DOMAIN at : at[k] \in 1 .. Len(p)
  <2>1. at \in Seq(Z)
    BY <1>5, AscendingFacts
  <2> HIDE DEF at
  <2>2. \A k \in DOMAIN at : at[k] \in Z
    BY <2>1
  <2> QED BY <1>5, <2>2
<1> HIDE DEF at
<1>7. InMonths(a, x, x) = [k \in DOMAIN at |-> a[at[k]]]
  BY DEF InMonths, ElementsAt, at, Z
<1>8. InMonths(p, x, x) = [k \in DOMAIN at |-> p[at[k]]]
  BY <1>5 DEF InMonths, ElementsAt, at, Y
<1>9. InMonths(a, x, x) = InMonths(p, x, x)
  BY <1>6, <1>7, <1>8
<1> QED
  BY <1>9 DEF MonthRow

\* A month opens between the open and the close of the month before, for every
\* one of its sessions.
LEMMA MonthSteps ==
    ASSUME NEW a, NEW p, Dated(a), Dated(p), Len(p) # 0, Len(p) < Len(a),
           \A i \in 1 .. Len(p) : a[i] = p[i],
           NEW m \in Int, SessionMonth(Len(p)) < m,
           \A i \in Len(p) + 1 .. Len(a) : SessionMonth(i) = m
    PROVE  LastMonthHa(a).open = (LastMonthHa(p).open + LastMonthHa(p).close) \div 2
<1>1. /\ Len(a) \in Nat \ {0} /\ Len(p) \in Nat \ {0}
      /\ MonthSet(a) = {SessionMonth(i) : i \in 1 .. Len(a)}
      /\ MonthSet(p) = {SessionMonth(i) : i \in 1 .. Len(p)}
      /\ MonthSet(p) \in SUBSET Int /\ IsFiniteSet(MonthSet(p))
  BY DatedFacts
<1>2. \A i \in 1 .. Len(p) : SessionMonth(i) < m /\ SessionMonth(i) \in Int
  <2> SUFFICES ASSUME NEW i \in 1 .. Len(p) PROVE SessionMonth(i) < m /\ SessionMonth(i) \in Int
    OBVIOUS
  <2>1. i \in Nat \ {0} /\ i <= Len(p)
    BY <1>1
  <2>2. SessionMonth(i) \in Nat /\ SessionMonth(i) <= SessionMonth(Len(p)) /\ SessionMonth(Len(p)) \in Nat
    BY <1>1, <2>1, MonthsRise
  <2> QED BY <2>2
<1>3. MonthSet(a) = MonthSet(p) \cup {m}
  <2>1. 1 .. Len(a) = (1 .. Len(p)) \cup (Len(p) + 1 .. Len(a)) /\ Len(a) \in Len(p) + 1 .. Len(a)
    BY <1>1
  <2> QED BY <1>1, <2>1
<1>4. \A x \in MonthSet(p) : x < m
  BY <1>1, <1>2
<1>5. PICK n \in Nat \ {0} :
         /\ Len(Months(p)) = n /\ DOMAIN Months(p) = 1 .. n
         /\ \A k \in 1 .. n : Months(p)[k] \in MonthSet(p)
  BY MonthsFacts DEF Dated
<1>6. Months(a) = [k \in 1 .. n + 1 |-> IF k = n + 1 THEN m ELSE Months(p)[k]]
  <2> DEFINE S == MonthSet(p)
  <2>1. S \in SUBSET Int /\ IsFiniteSet(S) /\ \A x \in S : x < m
    BY <1>1, <1>4
  <2>2. Months(a) = Ascending(S \cup {m}) /\ Months(p) = Ascending(S)
    BY <1>3 DEF Months
  <2> HIDE DEF S
  <2>3. Ascending(S \cup {m}) = [k \in 1 .. Len(Ascending(S)) + 1 |->
           IF k = Len(Ascending(S)) + 1 THEN m ELSE Ascending(S)[k]]
    BY <2>1, AscendingAdds
  <2> QED BY <1>5, <2>2, <2>3
<1>7. /\ DOMAIN Months(a) = 1 .. n + 1 /\ Len(Months(a)) = n + 1 /\ n + 1 \in Nat \ {0}
      /\ \A k \in 1 .. n : Months(a)[k] = Months(p)[k]
  <2>1. /\ DOMAIN Months(a) = 1 .. n + 1 /\ n + 1 \in Nat
        /\ Months(a) = [k \in 1 .. n + 1 |-> Months(a)[k]]
    BY <1>6
  <2>2. \A k \in 1 .. n : k \in 1 .. n + 1 /\ k # n + 1
    OBVIOUS
  <2>3. \A k \in 1 .. n : Months(a)[k] = Months(p)[k]
    BY <1>6, <2>2
  <2>4. PICK l \in Nat \ {0} : l = n + 1
    OBVIOUS
  <2>5. Months(a) = [k \in 1 .. l |-> Months(a)[k]]
    BY <2>1, <2>4
  <2>6. Len(Months(a)) = l
    BY <2>5, LengthOf
  <2> QED BY <2>1, <2>3, <2>4, <2>6
<1>8. \A k \in 1 .. n : MonthRow(a, Months(p)[k]) = MonthRow(p, Months(p)[k])
  <2> SUFFICES ASSUME NEW k \in 1 .. n PROVE MonthRow(a, Months(p)[k]) = MonthRow(p, Months(p)[k])
    OBVIOUS
  <2> DEFINE x == Months(p)[k]
  <2>1. x \in Int /\ x < m
    BY <1>1, <1>4, <1>5
  <2>2. \A i \in 1 .. Len(a) : SessionMonth(i) = x => i <= Len(p)
    BY <1>1, <2>1
  <2> HIDE DEF x
  <2>3. Len(p) <= Len(a)
    BY <1>1
  <2>4. MonthRow(a, x) = MonthRow(p, x)
    BY <2>1, <2>2, <2>3, SameRow
  <2> QED BY <2>4 DEF x
<1> DEFINE f == Seed(MonthRow(p, Months(p)[1]))
           cs == MonthCloses(p)
           longer == MonthCloses(a)
<1>9. /\ Len(cs) = n /\ Len(longer) = n + 1
      /\ \A k \in 1 .. n : longer[k] = cs[k]
  <2>1. cs = [k \in 1 .. n |-> HaClose(MonthRow(p, Months(p)[k]))]
    BY <1>5 DEF MonthCloses
  <2>2. longer = [k \in 1 .. n + 1 |-> HaClose(MonthRow(a, Months(a)[k]))]
    BY <1>7 DEF MonthCloses
  <2> HIDE DEF cs, longer
  <2>3. cs = [k \in 1 .. n |-> cs[k]] /\ longer = [k \in 1 .. n + 1 |-> longer[k]]
    BY <2>1, <2>2
  <2>4. Len(cs) = n /\ Len(longer) = n + 1
    BY <2>3, LengthOf
  <2>5. ASSUME NEW k \in 1 .. n PROVE longer[k] = cs[k]
    <3>1. k \in 1 .. n + 1
      OBVIOUS
    <3>2. longer[k] = HaClose(MonthRow(a, Months(p)[k]))
      BY <1>7, <2>2, <3>1
    <3> QED BY <1>8, <2>1, <3>2
  <2> QED BY <2>4, <2>5
<1>10. LastMonthHa(p).open = HaOpen(f, cs) /\ LastMonthHa(p).close = cs[n]
  BY <1>5, LastMonthHaIs
<1>11. LastMonthHa(a).open = HaOpen(f, longer)
  <2>1. LastMonthHa(a).open = HaOpen(Seed(MonthRow(a, Months(a)[1])), longer)
    BY <1>7, LastMonthHaIs
  <2>2. MonthRow(a, Months(a)[1]) = MonthRow(p, Months(p)[1])
    <3>1. 1 \in 1 .. n
      OBVIOUS
    <3> QED BY <1>7, <1>8, <3>1
  <2> QED BY <2>1, <2>2
<1> HIDE DEF f, cs, longer
<1>12. HaOpen(f, longer) = (HaOpen(f, cs) + cs[n]) \div 2
  BY <1>9, HaOpenStep
<1> QED
  BY <1>10, <1>11, <1>12

----------------------------------------------------------------------------
(* What the cache holds                                                    *)

\* The bars up to the end of a month.
UpToMonth(bs, m) == ElementsAt(bs, {i \in DOMAIN bs : MonthOf(bs[i].day) <= m})

\* The first bars of a history are one.
LEMMA PrefixIsDated ==
    ASSUME NEW bs, Dated(bs), NEW j \in Nat, j <= Len(bs),
           NEW p, p = [k \in 1 .. j |-> bs[k]]
    PROVE  Dated(p) /\ Len(p) = j /\ \A i \in 1 .. j : p[i] = bs[i]
<1>1. /\ Len(bs) \in Nat /\ DOMAIN bs = 1 .. Len(bs)
      /\ \A i \in 1 .. Len(bs) : bs[i] \in DayBars /\ bs[i].day = SessionDay(i)
  BY DEF Dated
<1>2. \A i \in 1 .. j : i \in 1 .. Len(bs) /\ p[i] = bs[i]
  BY <1>1
<1>3. Len(p) = j /\ DOMAIN p = 1 .. j /\ p \in Seq(DayBars)
  <2>1. p \in [1 .. j -> DayBars]
    BY <1>1, <1>2
  <2> QED BY <2>1
<1> QED
  BY <1>1, <1>2, <1>3 DEF Dated

\* The bars up to the end of a month are the first ones.
LEMMA UpToMonthFacts ==
    ASSUME NEW bs, Dated(bs), NEW m \in Int
    PROVE  \E j \in Nat :
              /\ j <= Len(bs) /\ UpToMonth(bs, m) = [k \in 1 .. j |-> bs[k]]
              /\ \A i \in 1 .. Len(bs) : SessionMonth(i) <= m <=> i <= j
<1> DEFINE Z == {i \in DOMAIN bs : MonthOf(bs[i].day) <= m}
           Cuts == {j \in Nat : j <= Len(bs) /\ \A i \in 1 .. Len(bs) : i > j => SessionMonth(i) > m}
<1>1. /\ Len(bs) \in Nat /\ DOMAIN bs = 1 .. Len(bs)
      /\ \A i \in 1 .. Len(bs) : MonthOf(bs[i].day) = SessionMonth(i)
  BY DatedFacts
<1>2. Cuts \in SUBSET Nat /\ Cuts # {}
  <2>1. Len(bs) \in Cuts
    BY <1>1
  <2> QED BY <2>1
<1>3. PICK j \in Cuts : \A k \in Cuts : j <= k
  <2> HIDE DEF Cuts
  <2> QED BY <1>2, LeastNumber
<1>4. j \in Nat /\ j <= Len(bs) /\ \A i \in 1 .. Len(bs) : i > j => SessionMonth(i) > m
  BY <1>3
<1>5. \A i \in 1 .. Len(bs) : SessionMonth(i) \in Nat
  <2> SUFFICES ASSUME NEW i \in 1 .. Len(bs) PROVE SessionMonth(i) \in Nat
    OBVIOUS
  <2>1. i \in Nat \ {0} /\ i <= i
    BY <1>1
  <2> QED BY <2>1, MonthsRise
<1>6. j # 0 => SessionMonth(j) <= m
  <2>1. SUFFICES ASSUME j # 0, ~(SessionMonth(j) <= m) PROVE FALSE
    OBVIOUS
  <2>2. SessionMonth(j) > m
    BY <1>1, <1>4, <1>5, <2>1
  <2>3. j - 1 \in Nat /\ j - 1 <= Len(bs)
    BY <1>1, <1>4, <2>1
  <2>4. \A i \in 1 .. Len(bs) : i > j - 1 => SessionMonth(i) > m
    <3>1. \A i \in 1 .. Len(bs) : i > j - 1 => i = j \/ i > j
      BY <1>1, <1>4
    <3> QED BY <1>4, <2>2, <3>1
  <2>5. j - 1 \in Cuts /\ ~(j <= j - 1)
    BY <1>4, <2>3, <2>4
  <2> HIDE DEF Cuts
  <2> QED BY <1>3, <2>5
<1>7. ASSUME NEW i \in 1 .. Len(bs) PROVE SessionMonth(i) <= m <=> i <= j
  <2>1. ASSUME i <= j PROVE SessionMonth(i) <= m
    <3>1. i \in Nat \ {0} /\ j \in Nat \ {0} /\ j \in 1 .. Len(bs)
      BY <1>1, <1>4, <2>1
    <3>2. SessionMonth(i) <= SessionMonth(j)
      BY <2>1, <3>1, MonthsRise
    <3>3. SessionMonth(i) \in Nat /\ SessionMonth(j) \in Nat /\ SessionMonth(j) <= m
      BY <1>5, <1>6, <3>1
    <3> QED BY <3>2, <3>3
  <2>2. ASSUME ~(i <= j) PROVE ~(SessionMonth(i) <= m)
    <3>1. i > j
      BY <1>1, <1>4, <2>2
    <3>2. SessionMonth(i) > m /\ SessionMonth(i) \in Nat
      BY <1>4, <1>5, <3>1
    <3> QED BY <3>2
  <2> QED BY <2>1, <2>2
<1>8. Z = 1 .. j
  <2>1. \A i \in 1 .. Len(bs) : i \in Z <=> i <= j
    BY <1>1, <1>7
  <2>2. Z \subseteq 1 .. Len(bs) /\ 1 .. j \subseteq 1 .. Len(bs) /\ \A i \in 1 .. j : i <= j
    BY <1>1, <1>4
  <2>3. \A i \in 1 .. Len(bs) : i <= j => i \in 1 .. j
    BY <1>1, <1>4
  <2> HIDE DEF Z
  <2> QED BY <2>1, <2>2, <2>3
<1>9. UpToMonth(bs, m) = [k \in 1 .. j |-> bs[k]]
  BY <1>4, <1>8, ElementsAtPrefix DEF UpToMonth
<1> QED
  BY <1>4, <1>7, <1>9

NextOpen(ha) == (ha.open + ha.close) \div 2

\* The row of a month that has bars and is over before "today".
IsOver(bs, today, m) == m \in Int /\ m < today /\ \E i \in 1 .. Len(bs) : SessionMonth(i) = m

OpensAreSound(bs, today, c) ==
    \A m \in DOMAIN c.open :
        /\ m \in Int /\ IsOver(bs, today, m - 1)
        /\ c.open[m] = NextOpen(LastMonthHa(UpToMonth(bs, m - 1)))

AnchorIsSound(bs, today, c) ==
    c.anchor # None =>
        /\ IsOver(bs, today, c.anchor.month)
        /\ c.anchor = LastMonthHa(UpToMonth(bs, c.anchor.month))

CacheIsSound(bs, today, c) == OpensAreSound(bs, today, c) /\ AnchorIsSound(bs, today, c)

ThisMonth == MonthOf(Today)

\* The current month comes after, or is, those of the stored bars.
LEMMA ThisMonthIs ==
    ASSUME Dated(bars)
    PROVE  /\ ThisMonth = SessionMonth(Len(bars) + 1) /\ ThisMonth \in Nat
           /\ \A i \in 1 .. Len(bars) : SessionMonth(i) \in Nat /\ SessionMonth(i) <= ThisMonth
<1>1. Len(bars) \in Nat
  BY DEF Dated
<1>2. PICK n \in Nat \ {0} : n = Len(bars) + 1
  BY <1>1
<1>3. ThisMonth = SessionMonth(n) /\ n <= n
  BY <1>2 DEF ThisMonth, Today, SessionMonth
<1>4. \A i \in 1 .. Len(bars) : i \in Nat \ {0} /\ i <= n
  BY <1>1, <1>2
<1> QED
  BY <1>2, <1>3, <1>4, MonthsRise

\* An anchor that is rebuilt is the row of its month, if the lookback reaches the
\* first bar.
LEMMA RebuildIsSound ==
    ASSUME Dated(bars), NEW m \in Int, m <= LookbackMonths, m < ThisMonth,
           RebuildAnchor(m) # None
    PROVE  /\ IsOver(bars, ThisMonth, m)
           /\ RebuildAnchor(m) = LastMonthHa(UpToMonth(bars, m))
           /\ LastMonthHa(UpToMonth(bars, m)).month = m
<1> DEFINE daily == InMonths(bars, m - LookbackMonths, m)
           p == UpToMonth(bars, m)
<1>1. /\ Len(bars) \in Nat /\ DOMAIN bars = 1 .. Len(bars)
      /\ \A i \in 1 .. Len(bars) : MonthOf(bars[i].day) = SessionMonth(i)
  BY DatedFacts
<1>2. \A i \in 1 .. Len(bars) : SessionMonth(i) \in Nat
  BY ThisMonthIs
<1>3. daily = p
  <2>1. \A i \in DOMAIN bars : m - LookbackMonths <= MonthOf(bars[i].day)
    BY <1>1, <1>2, HaBandAssumption
  <2>2. {i \in DOMAIN bars : m - LookbackMonths <= MonthOf(bars[i].day) /\ MonthOf(bars[i].day) <= m}
           = {i \in DOMAIN bars : MonthOf(bars[i].day) <= m}
    BY <2>1
  <2> QED BY <2>2 DEF InMonths, UpToMonth
<1> HIDE DEF p, daily
<1>4. RebuildAnchor(m) = LastMonthHa(p) /\ InMonths(p, m, m) # <<>>
  BY <1>3 DEF RebuildAnchor, daily
<1>5. PICK j \in Nat :
         /\ j <= Len(bars) /\ p = [k \in 1 .. j |-> bars[k]]
         /\ \A i \in 1 .. Len(bars) : SessionMonth(i) <= m <=> i <= j
  BY UpToMonthFacts DEF p
<1>6. Dated(p) /\ Len(p) = j
  BY <1>5, PrefixIsDated
<1>7. PICK i \in 1 .. j : SessionMonth(i) = m
  <2> DEFINE Z == {i \in DOMAIN p : m <= MonthOf(p[i].day) /\ MonthOf(p[i].day) <= m}
  <2>1. Z # {}
    <3>1. SUFFICES ASSUME Z = {} PROVE InMonths(p, m, m) = <<>>
      BY <1>4
    <3>2. InMonths(p, m, m) = ElementsAt(p, {})
      BY <3>1 DEF InMonths
    <3>3. {} = 1 .. 0
      OBVIOUS
    <3>4. ElementsAt(p, 1 .. 0) = [k \in 1 .. 0 |-> p[k]]
      BY ElementsAtPrefix
    <3>5. [k \in 1 .. 0 |-> p[k]] = <<>>
      OBVIOUS
    <3> HIDE DEF Z
    <3> QED BY <3>2, <3>3, <3>4, <3>5
  <2>2. PICK i \in DOMAIN p : m <= MonthOf(p[i].day) /\ MonthOf(p[i].day) <= m
    BY <2>1
  <2>3. i \in 1 .. j /\ MonthOf(p[i].day) = SessionMonth(i)
    BY <1>6, <2>2, DatedFacts
  <2>4. i \in 1 .. Len(bars)
    BY <1>1, <1>5, <2>3
  <2> QED BY <1>2, <2>2, <2>3, <2>4
<1>8. IsOver(bars, ThisMonth, m) /\ j # 0
  BY <1>1, <1>5, <1>7 DEF IsOver
<1>9. SessionMonth(j) = m
  <2>1. i \in Nat \ {0} /\ j \in Nat \ {0} /\ i <= j /\ j \in 1 .. Len(bars)
    BY <1>1, <1>5, <1>7
  <2>2. SessionMonth(i) <= SessionMonth(j) /\ SessionMonth(j) <= m /\ SessionMonth(j) \in Nat
    BY <1>2, <1>5, <2>1, MonthsRise
  <2> QED BY <1>7, <2>2
<1>10. LastMonthHa(p).month = m
  BY <1>6, <1>8, <1>9, LastMonthIs
<1> QED
  BY <1>4, <1>8, <1>10 DEF p

\* A run that asks for a month's open keeps the cache sound.
LEMMA WithMonthOpenIsSound ==
    ASSUME Dated(bars), NEW c, CacheIsSound(bars, ThisMonth, c),
           NEW m \in Int, m <= ThisMonth, m <= LookbackMonths + 1
    PROVE  CacheIsSound(bars, ThisMonth, WithMonthOpen(c, m))
<1> DEFINE prev == Anchor(c, m - 1)
           ha == LastMonthHa(UpToMonth(bars, m - 1))
           value == (prev.open + prev.close) \div 2
<1>1. CASE m \in DOMAIN c.open \/ prev = None
  BY <1>1 DEF WithMonthOpen
<1>2. CASE m \notin DOMAIN c.open /\ prev # None
  <2>1. IsOver(bars, ThisMonth, m - 1) /\ prev = ha /\ ha.month = m - 1
    <3>1. CASE c.anchor # None /\ c.anchor.month = m - 1
      <4>1. prev = c.anchor
        BY <3>1 DEF Anchor
      <4> QED BY <3>1, <4>1 DEF CacheIsSound, AnchorIsSound
    <3>2. CASE ~(c.anchor # None /\ c.anchor.month = m - 1)
      <4>1. prev = RebuildAnchor(m - 1)
        BY <3>2 DEF Anchor
      <4>2. m - 1 \in Int /\ m - 1 <= LookbackMonths /\ m - 1 < ThisMonth
        BY ThisMonthIs, HaBandAssumption
      <4> QED BY <1>2, <4>1, <4>2, RebuildIsSound
    <3> QED BY <3>1, <3>2
  <2>2. WithMonthOpen(c, m) = Upserted(c, m, value, prev)
    BY <1>2 DEF WithMonthOpen
  <2> DEFINE d == Upserted(c, m, value, prev)
  <2>3. /\ DOMAIN d.open = DOMAIN c.open \cup {m} /\ d.anchor = prev /\ d.open[m] = value
        /\ \A k \in DOMAIN c.open : k # m => d.open[k] = c.open[k]
    BY DEF Upserted
  <2>4. value = NextOpen(ha)
    BY <2>1 DEF NextOpen
  <2> HIDE DEF d, value, prev, ha
  <2>5. OpensAreSound(bars, ThisMonth, d)
    <3> SUFFICES ASSUME NEW k \in DOMAIN d.open
                 PROVE  /\ k \in Int /\ IsOver(bars, ThisMonth, k - 1)
                        /\ d.open[k] = NextOpen(LastMonthHa(UpToMonth(bars, k - 1)))
      BY DEF OpensAreSound
    <3>1. CASE k = m
      BY <2>1, <2>3, <2>4, <3>1 DEF ha
    <3>2. CASE k # m
      BY <2>3, <3>2 DEF CacheIsSound, OpensAreSound
    <3> QED BY <3>1, <3>2
  <2>6. AnchorIsSound(bars, ThisMonth, d)
    BY <2>1, <2>3 DEF AnchorIsSound, ha
  <2> QED BY <2>2, <2>5, <2>6 DEF CacheIsSound, d
<1> QED
  BY <1>1, <1>2

----------------------------------------------------------------------------
(* The cache is sound as long as the lookback reaches the first bar        *)

HistoryFits == ThisMonth <= LookbackMonths + 1

BandInv ==
    IF strategy = "band"
    THEN Dated(bars) /\ (HistoryFits => CacheIsSound(bars, ThisMonth, cache))
    ELSE DOMAIN cache.open = {}

\* The next session's bar is dated.
LEMMA NewBarIsDated ==
    ASSUME Dated(bars), NEW bar \in Bars["band"],
           NEW next, next = Append(bars, [bar EXCEPT !.day = Today])
    PROVE  /\ Dated(next) /\ Len(next) = Len(bars) + 1
           /\ \A i \in 1 .. Len(bars) : next[i] = bars[i]
<1> DEFINE new == [bar EXCEPT !.day = Today]
           n == Len(bars)
<1>1. n \in Nat /\ DOMAIN bars = 1 .. n /\ bars \in Seq(DayBars)
  BY DEF Dated
<1>2. Today = SessionDay(n + 1) /\ Today \in Nat
  <2>1. PICK k \in Nat \ {0} : k = n + 1
    BY <1>1
  <2>2. SessionDay(k) \in Nat
    <3>1. k <= k
      BY <2>1
    <3> QED BY <3>1, SessionsRise
  <2> QED BY <2>1, <2>2 DEF Today
<1>3. new \in DayBars /\ new.day = Today
  BY <1>2, ReplayAssumption DEF DayBars
<1> HIDE DEF new
<1>4. /\ next \in Seq(DayBars) /\ Len(next) = n + 1 /\ DOMAIN next = 1 .. n + 1
      /\ next[n + 1] = new /\ \A i \in 1 .. n : next[i] = bars[i]
  <2>1. next = Append(bars, new)
    BY DEF new
  <2> QED BY <1>1, <1>3, <2>1
<1>5. Dated(next)
  <2>1. ASSUME NEW i \in 1 .. n + 1 PROVE next[i].day = SessionDay(i)
    <3>1. CASE i = n + 1
      BY <1>2, <1>3, <1>4, <3>1
    <3>2. CASE i # n + 1
      <4>1. i \in 1 .. n
        BY <1>1, <3>2
      <4> QED BY <1>1, <1>4, <4>1 DEF Dated
    <3> QED BY <3>1, <3>2
  <2> QED BY <1>4, <2>1 DEF Dated
<1> QED
  BY <1>4, <1>5

\* The bars up to the end of a month that is over stay what they are.
LEMMA CompleteMonthsStay ==
    ASSUME Dated(bars), NEW next, Dated(next), Len(next) = Len(bars) + 1,
           \A i \in 1 .. Len(bars) : next[i] = bars[i], NEW m \in Int, m < ThisMonth
    PROVE  UpToMonth(next, m) = UpToMonth(bars, m)
<1> DEFINE n == Len(bars)
<1>1. n \in Nat /\ ThisMonth \in Nat
  BY ThisMonthIs DEF Dated
<1>2. PICK j \in Nat :
         /\ j <= n /\ UpToMonth(bars, m) = [k \in 1 .. j |-> bars[k]]
         /\ \A i \in 1 .. n : SessionMonth(i) <= m <=> i <= j
  BY UpToMonthFacts
<1>3. PICK l \in Nat :
         /\ l <= n + 1 /\ UpToMonth(next, m) = [k \in 1 .. l |-> next[k]]
         /\ \A i \in 1 .. n + 1 : SessionMonth(i) <= m <=> i <= l
  <2>1. PICK l \in Nat :
           /\ l <= Len(next) /\ UpToMonth(next, m) = [k \in 1 .. l |-> next[k]]
           /\ \A i \in 1 .. Len(next) : SessionMonth(i) <= m <=> i <= l
    BY UpToMonthFacts
  <2> HIDE DEF n
  <2> QED BY <2>1 DEF n
<1>4. SessionMonth(n + 1) = ThisMonth
  BY ThisMonthIs
<1>5. l <= n
  <2>1. ~(n + 1 <= l)
    BY <1>1, <1>3, <1>4
  <2> QED BY <1>1, <2>1
<1>6. l = j
  <2>1. \A i \in 1 .. n : i <= l <=> i <= j
    BY <1>1, <1>2, <1>3
  <2>2. l # 0 => l \in 1 .. n
    BY <1>1, <1>5
  <2>3. j # 0 => j \in 1 .. n
    BY <1>1, <1>2
  <2> QED BY <2>1, <2>2, <2>3
<1>7. \A k \in 1 .. j : next[k] = bars[k]
  BY <1>1, <1>2
<1> QED
  BY <1>2, <1>3, <1>6, <1>7

\* It changes no complete month.
LEMMA NewBarKeepsCache ==
    ASSUME Dated(bars), CacheIsSound(bars, ThisMonth, cache), NEW bar \in Bars["band"],
           NEW next, next = Append(bars, [bar EXCEPT !.day = Today]),
           NEW today \in Int, ThisMonth <= today
    PROVE  CacheIsSound(next, today, cache)
<1> DEFINE n == Len(bars)
<1>1. n \in Nat /\ DOMAIN bars = 1 .. n
  BY DEF Dated
<1>4. Len(next) = n + 1 /\ \A i \in 1 .. n : next[i] = bars[i]
  BY NewBarIsDated
<1>5. Dated(next)
  BY NewBarIsDated
<1>6. ASSUME NEW m, IsOver(bars, ThisMonth, m)
      PROVE  IsOver(next, today, m) /\ UpToMonth(next, m) = UpToMonth(bars, m)
  <2>1. m \in Int /\ m < ThisMonth /\ ThisMonth \in Nat
    BY <1>6, ThisMonthIs DEF IsOver
  <2>2. IsOver(next, today, m)
    <3>1. PICK i \in 1 .. n : SessionMonth(i) = m
      BY <1>6 DEF IsOver
    <3>2. i \in 1 .. n + 1
      BY <1>1
    <3> QED BY <1>4, <2>1, <3>1, <3>2 DEF IsOver
  <2>3. UpToMonth(next, m) = UpToMonth(bars, m)
    <3>1. m \in Int /\ m < ThisMonth
      BY <2>1
    <3> QED BY <1>4, <1>5, <3>1, CompleteMonthsStay
  <2> QED BY <2>2, <2>3
<1>7. OpensAreSound(next, today, cache)
  BY <1>6 DEF CacheIsSound, OpensAreSound
<1>8. AnchorIsSound(next, today, cache)
  BY <1>6 DEF CacheIsSound, AnchorIsSound
<1> QED
  BY <1>7, <1>8 DEF CacheIsSound

\* A session that closes keeps the cache sound.
LEMMA SessionKeepsCache ==
    ASSUME BandInv, Session
    PROVE  BandInv'
<1>1. CASE strategy = "band"
  <2>1. PICK bar \in Bars["band"] : CloseSession(bar)
    BY <1>1 DEF Session
  <2>2. /\ Dated(bars) /\ (HistoryFits => CacheIsSound(bars, ThisMonth, cache))
        /\ strategy' = "band" /\ cache' = cache
        /\ bars' = Append(bars, [bar EXCEPT !.day = Today])
    BY <1>1, <2>1 DEF BandInv, Session, CloseSession
  <2>3. PICK next : next = Append(bars, [bar EXCEPT !.day = Today])
    OBVIOUS
  <2>4. Dated(next) /\ Len(next) = Len(bars) + 1
    BY <2>2, <2>3, NewBarIsDated
  <2>5. MonthOf(SessionDay(Len(next) + 1)) \in Int /\ ThisMonth <= MonthOf(SessionDay(Len(next) + 1))
    <3>1. Len(bars) \in Nat
      BY <2>2 DEF Dated
    <3>2. PICK n \in Nat \ {0}, k \in Nat \ {0} : n = Len(bars) + 1 /\ k = Len(next) + 1 /\ n <= k
      BY <2>4, <3>1
    <3>3. SessionMonth(n) <= SessionMonth(k) /\ k <= k
      BY <3>2, MonthsRise
    <3>4. SessionMonth(k) \in Nat
      BY <3>3, MonthsRise
    <3>5. ThisMonth = SessionMonth(n)
      BY <2>2, <3>2, ThisMonthIs
    <3> QED BY <3>2, <3>3, <3>4, <3>5 DEF SessionMonth
  <2>6. CacheIsSound(bars, ThisMonth, cache)
           => CacheIsSound(next, MonthOf(SessionDay(Len(next) + 1)), cache)
    BY <2>2, <2>3, <2>5, NewBarKeepsCache
  <2>7. bars' = next
    BY <2>2, <2>3
  <2>8. ThisMonth' = MonthOf(SessionDay(Len(next) + 1))
    BY <2>7 DEF ThisMonth, Today
  <2>9. HistoryFits' => HistoryFits
    <3>1. ThisMonth \in Int /\ LookbackMonths \in Int
      BY <2>2, ThisMonthIs, HaBandAssumption
    <3>2. HistoryFits' <=> ThisMonth' <= LookbackMonths + 1
      BY DEF HistoryFits
    <3>3. ThisMonth' \in Int /\ ThisMonth <= ThisMonth'
      BY <2>5, <2>8
    <3> HIDE DEF ThisMonth
    <3> QED BY <3>1, <3>2, <3>3 DEF HistoryFits
  <2> QED BY <2>2, <2>4, <2>6, <2>7, <2>8, <2>9 DEF BandInv
<1>2. CASE strategy # "band"
  BY <1>2 DEF BandInv, Session, CloseSession
<1> QED
  BY <1>1, <1>2

\* The last bar but one that a live run reads is a stored one.
LEMMA LiveBarIsStored ==
    ASSUME Dated(bars), bars # <<>>, NEW B, NEW snap \in Seq(B), Len(snap) \in {0, 1},
           ~(Len(LiveBars(snap)) < 2)
    PROVE  \E i \in 1 .. Len(bars) : LiveBars(snap)[Len(LiveBars(snap)) - 1] = bars[i]
<1> DEFINE n == Len(bars)
           z == n - LiveLimit + 1
           f == Max({1, z})
           last == SubSeq(bars, f, n)
<1>1. /\ n \in Nat \ {0} /\ bars \in Seq(DayBars) /\ LiveLimit \in Nat \ {0, 1}
  BY HaBandAssumption DEF Dated
<1>2. f \in 1 .. n
  <2>1. z \in Int /\ z < n
    BY <1>1
  <2> HIDE DEF z, n
  <2>2. Max({1, z}) \in {1, z} /\ Max({1, z}) >= 1
    <3>1. \E y \in {1, z} : \A w \in {1, z} : y >= w
      BY <2>1
    <3> QED BY <2>1, <3>1 DEF Max
  <2> QED BY <1>1, <2>1, <2>2
<1> HIDE DEF f
<1>3. /\ last \in Seq(DayBars) /\ Len(last) = n - f + 1
      /\ \A k \in 1 .. n - f + 1 : last[k] = bars[f + k - 1]
  BY <1>1, <1>2
<1>4. LiveBars(snap) = last \o snap
  BY DEF LiveBars, f
<1> HIDE DEF last, n
<1>5. \A k \in 1 .. Len(last) : LiveBars(snap)[k] = last[k]
  <2>1. last \in Seq(DayBars \cup B) /\ snap \in Seq(DayBars \cup B)
    BY <1>3
  <2> QED BY <1>4, <2>1
<1>6. Len(LiveBars(snap)) = Len(last) + Len(snap)
  <2>1. last \in Seq(DayBars \cup B) /\ snap \in Seq(DayBars \cup B)
    BY <1>3
  <2> QED BY <1>4, <2>1
<1>7. Len(LiveBars(snap)) - 1 \in 1 .. Len(last)
  <2> DEFINE all == Len(LiveBars(snap))
             old == Len(last)
             new == Len(snap)
  <2>1. old \in Nat /\ new \in {0, 1} /\ all = old + new /\ ~(all < 2)
    BY <1>3, <1>6
  <2> HIDE DEF all, old, new
  <2>2. all - 1 \in 1 .. old
    BY <2>1
  <2> QED BY <2>2 DEF all, old
<1>8. PICK k \in 1 .. n - f + 1 : LiveBars(snap)[Len(LiveBars(snap)) - 1] = bars[f + k - 1]
  BY <1>3, <1>5, <1>7
<1>9. f + k - 1 \in 1 .. n
  BY <1>1, <1>2
<1> QED
  BY <1>8, <1>9 DEF n

\* So does a live run.
LEMMA LiveKeepsCache ==
    ASSUME BandInv, Live
    PROVE  BandInv'
<1>1. /\ strategy = "band" /\ strategy' = "band" /\ Dated(bars)
      /\ HistoryFits => CacheIsSound(bars, ThisMonth, cache)
  BY DEF Live, BandInv
<1>2. PICK snap : LiveRun(snap) /\ \E B : snap \in Seq(B) /\ Len(snap) \in {0, 1}
  <2>1. CASE LiveRun(<<>>)
    <3>1. <<>> \in Seq({1}) /\ Len(<<>>) = 0
      OBVIOUS
    <3> QED BY <2>1, <3>1
  <2>2. CASE \E bar \in Bars[strategy] : bars # <<>> /\ LiveRun(<<Snapshot(bar.c)>>)
    <3>1. PICK x : LiveRun(<<x>>)
      BY <2>2
    <3>2. <<x>> \in Seq({x}) /\ Len(<<x>>) = 1
      OBVIOUS
    <3> QED BY <3>1, <3>2
  <2> QED BY <2>1, <2>2 DEF Live
<1>3. PICK B : snap \in Seq(B) /\ Len(snap) \in {0, 1}
  BY <1>2
<1> DEFINE first == WithMonthOpen(cache, ThisMonth)
           m == MonthOf(LiveBars(snap)[Len(LiveBars(snap)) - 1].day)
<1>4. /\ bars # <<>> /\ bars' = bars
      /\ \/ cache' = first
         \/ cache' = WithMonthOpen(first, m) /\ ~(Len(LiveBars(snap)) < 2)
  BY <1>2 DEF LiveRun, ThisMonth
<1>5. ThisMonth \in Nat
  BY <1>1, ThisMonthIs
<1>6. HistoryFits => CacheIsSound(bars, ThisMonth, first)
  <2>1. ThisMonth \in Int /\ ThisMonth <= ThisMonth
    BY <1>5
  <2> QED BY <1>1, <1>5, <2>1, WithMonthOpenIsSound DEF HistoryFits
<1>7. HistoryFits /\ ~(Len(LiveBars(snap)) < 2)
         => m \in Int /\ m <= ThisMonth /\ m <= LookbackMonths + 1
  <2>1. SUFFICES ASSUME HistoryFits, ~(Len(LiveBars(snap)) < 2)
                 PROVE  m \in Int /\ m <= ThisMonth /\ m <= LookbackMonths + 1
    OBVIOUS
  <2>2. PICK i \in 1 .. Len(bars) : LiveBars(snap)[Len(LiveBars(snap)) - 1] = bars[i]
    BY <1>1, <1>3, <1>4, <2>1, LiveBarIsStored
  <2>3. m = SessionMonth(i)
    BY <1>1, <2>2, DatedFacts
  <2>4. m \in Nat /\ m <= ThisMonth
    BY <1>1, <2>3, ThisMonthIs
  <2> HIDE DEF m
  <2>5. LookbackMonths \in Nat /\ ThisMonth <= LookbackMonths + 1
    BY <2>1, HaBandAssumption DEF HistoryFits
  <2> QED BY <1>5, <2>4, <2>5
<1> HIDE DEF first, m
<1>8. HistoryFits => CacheIsSound(bars, ThisMonth, cache')
  <2>1. CASE cache' = first
    BY <1>6, <2>1
  <2>2. CASE cache' = WithMonthOpen(first, m) /\ ~(Len(LiveBars(snap)) < 2)
    BY <1>1, <1>6, <1>7, <2>2, WithMonthOpenIsSound
  <2> QED BY <1>4, <2>1, <2>2
<1>9. ThisMonth' = ThisMonth
  BY <1>4 DEF ThisMonth, Today
<1>10. HistoryFits' <=> HistoryFits
  BY <1>9 DEF HistoryFits
<1> QED
  BY <1>1, <1>4, <1>8, <1>9, <1>10 DEF BandInv

\* It holds at first and every step keeps it.
LEMMA BandInvHolds ==
    (Init => BandInv) /\ (BandInv /\ [Next]_vars => BandInv')
<1>1. ASSUME Init PROVE BandInv
  <2>1. bars = <<>> /\ cache = [open |-> <<>>, anchor |-> None]
    BY <1>1 DEF Init, BandInit
  <2>2. Dated(bars)
    BY <2>1 DEF Dated
  <2>3. DOMAIN cache.open = {}
    BY <2>1
  <2>4. CacheIsSound(bars, ThisMonth, cache)
    BY <2>1, <2>3 DEF CacheIsSound, OpensAreSound, AnchorIsSound
  <2> QED BY <2>2, <2>3, <2>4 DEF BandInv
<1>2. ASSUME BandInv, [Next]_vars PROVE BandInv'
  <2>1. CASE Session
    BY <1>2, <2>1, SessionKeepsCache
  <2>2. CASE Live
    BY <1>2, <2>2, LiveKeepsCache
  <2>3. CASE Trade \/ UNCHANGED vars
    <3>1. bars' = bars /\ cache' = cache /\ strategy' = strategy
      BY <2>3 DEF Trade, vars, bandVars
    <3>2. ThisMonth' = ThisMonth
      BY <3>1 DEF ThisMonth, Today
    <3>3. HistoryFits' <=> HistoryFits
      BY <3>2 DEF HistoryFits
    <3> QED BY <1>2, <3>1, <3>2, <3>3 DEF BandInv
  <2> QED BY <1>2, <2>1, <2>2, <2>3 DEF Next
<1> QED
  BY <1>1, <1>2

\* A row that comes from the complete month before is the backtest's.
LEMMA BandInvMatches ==
    BandInv /\ HistoryFits => MonthOpenMatchesBacktest
<1> SUFFICES ASSUME BandInv, HistoryFits, NEW i \in 2 .. Len(bars), MonthOf(bars[i].day) \in DOMAIN cache.open
             PROVE  cache.open[MonthOf(bars[i].day)] = MonthOpenBacktest(SubSeq(bars, 1, i))
  <2>1. ASSUME BandInv PROVE \A i \in 2 .. Min({Len(bars), BacktestLimit}) : i \in 2 .. Len(bars)
    <3>1. PICK x \in Int : x = Len(bars)
      BY <2>1 DEF BandInv, Dated
    <3>2. PICK y \in Int : y = BacktestLimit
      BY HaBandAssumption
    <3>3. PICK z \in Int : z = Min({x, y}) /\ z <= x
      BY MinOfTwo
    <3> QED BY <3>1, <3>2, <3>3
  <2> QED BY <2>1 DEF MonthOpenMatchesBacktest
<1>1. Dated(bars) /\ CacheIsSound(bars, ThisMonth, cache)
  BY DEF BandInv
<1>2. /\ Len(bars) \in Nat /\ i \in 1 .. Len(bars) /\ i \in Nat \ {0} /\ i <= Len(bars) /\ i >= 2
      /\ MonthOf(bars[i].day) = SessionMonth(i)
  BY <1>1, DatedFacts
<1> DEFINE m == SessionMonth(i)
           a == SubSeq(bars, 1, i)
           p == UpToMonth(bars, m - 1)
<1>3. /\ m \in Int /\ IsOver(bars, ThisMonth, m - 1)
      /\ cache.open[m] = NextOpen(LastMonthHa(p))
  BY <1>1, <1>2 DEF CacheIsSound, OpensAreSound
<1>4. a = [k \in 1 .. i |-> bars[k]]
  BY <1>1, <1>2 DEF Dated
<1>5. Dated(a) /\ Len(a) = i /\ \A k \in 1 .. i : a[k] = bars[k]
  <2> HIDE DEF a
  <2> QED BY <1>1, <1>2, <1>4, PrefixIsDated
<1> HIDE DEF a, p, m
<1>6. PICK j \in Nat :
         /\ j <= Len(bars) /\ p = [k \in 1 .. j |-> bars[k]]
         /\ \A k \in 1 .. Len(bars) : SessionMonth(k) <= m - 1 <=> k <= j
  <2>1. PICK before \in Int : before = m - 1
    BY <1>3
  <2>2. p = UpToMonth(bars, before)
    BY <2>1 DEF p
  <2>3. \E j \in Nat :
           /\ j <= Len(bars) /\ UpToMonth(bars, before) = [k \in 1 .. j |-> bars[k]]
           /\ \A k \in 1 .. Len(bars) : SessionMonth(k) <= before <=> k <= j
    BY <1>1, UpToMonthFacts
  <2> QED BY <2>1, <2>2, <2>3
<1>7. Dated(p) /\ Len(p) = j /\ \A k \in 1 .. j : p[k] = bars[k]
  BY <1>1, <1>6, PrefixIsDated
<1>8. j < i /\ j # 0
  <2>1. ~(i <= j)
    BY <1>2, <1>3, <1>6 DEF m
  <2>2. PICK k \in 1 .. Len(bars) : SessionMonth(k) = m - 1
    BY <1>3 DEF IsOver
  <2>3. k <= j
    BY <1>3, <1>6, <2>2
  <2> QED BY <1>2, <2>1, <2>3
<1>9. SessionMonth(j) < m
  <2>1. j \in 1 .. Len(bars) /\ j <= j
    BY <1>2, <1>6, <1>8
  <2>2. SessionMonth(j) <= m - 1 /\ SessionMonth(j) \in Nat
    BY <1>1, <1>6, <2>1, ThisMonthIs
  <2> QED BY <1>3, <2>2
<1>10. \A k \in j + 1 .. i : SessionMonth(k) = m
  <2> SUFFICES ASSUME NEW k \in j + 1 .. i PROVE SessionMonth(k) = m
    OBVIOUS
  <2>1. k \in 1 .. Len(bars) /\ k \in Nat \ {0} /\ k <= i /\ ~(k <= j)
    BY <1>2, <1>6, <1>8
  <2>2. ~(SessionMonth(k) <= m - 1) /\ SessionMonth(k) <= m /\ SessionMonth(k) \in Nat
    BY <1>2, <1>6, <2>1, MonthsRise DEF m
  <2> QED BY <1>3, <2>2
<1>11. LastMonthHa(a).open = (LastMonthHa(p).open + LastMonthHa(p).close) \div 2
  <2>1. \A k \in 1 .. Len(p) : a[k] = p[k]
    BY <1>2, <1>5, <1>7, <1>8
  <2>2. Len(p) # 0 /\ Len(p) < Len(a) /\ SessionMonth(Len(p)) < m
        /\ \A k \in Len(p) + 1 .. Len(a) : SessionMonth(k) = m
    BY <1>5, <1>7, <1>8, <1>9, <1>10
  <2> QED BY <1>3, <1>5, <1>7, <2>1, <2>2, MonthSteps
<1>12. MonthOpenBacktest(a) = LastMonthHa(a).open
  BY <1>2, <1>5 DEF MonthOpenBacktest
<1> QED
  BY <1>2, <1>3, <1>11, <1>12 DEF NextOpen, m, a

\* As long as the lookback reaches the first bar, each month open that the live
\* runs have stored is the one a backtest computes for every session of that
\* month, however the anchor row has been overwritten in between (month_ha_open,
\* _ensure_month_anchor, month_ha_open_backtest).
THEOREM MonthOpensMatch ==
    Spec => [](HistoryFits => MonthOpenMatchesBacktest)
<1>1. Init => BandInv
  BY BandInvHolds
<1>2. BandInv /\ [Next]_vars => BandInv'
  BY BandInvHolds
<1>3. BandInv => (HistoryFits => MonthOpenMatchesBacktest)
  BY BandInvMatches
<1> QED
  BY <1>1, <1>2, <1>3, PTL DEF Spec

----------------------------------------------------------------------------
(* Recursions over a history: the center line and the trend, the merges of  *)
(* a bar, the merged bars, the collapsed fractals and the strokes.          *)

\* One step of the center and one of the trend, from the value before.
CenterStep(bs, j, v) ==
    LET p == PivotsAt(bs, j)
    IN  IF p = <<>> THEN v ELSE IF v = <<>> THEN p ELSE <<(v[1] * 2 + p[1]) \div 3>>

\* (_supertrend)
TrendStep(bs, center, j, q) ==
    LET up == center[j][1] - AtrFactor * Atr(SubSeq(bs, 1, j))
        dn == center[j][1] + AtrFactor * Atr(SubSeq(bs, 1, j))
        prevClose == bs[j - 1].c
    IN  IF center[j] = <<>> \/ j < AtrPeriod THEN q
        ELSE IF q.trend = 0 THEN [trend |-> 1, up |-> up, dn |-> dn]
        ELSE [up |-> IF prevClose > q.up THEN Max({up, q.up}) ELSE up,
              dn |-> IF prevClose < q.dn THEN Min({dn, q.dn}) ELSE dn,
              trend |-> IF bs[j].c > q.dn THEN 1
                        ELSE IF bs[j].c < q.up THEN -1 ELSE q.trend]

\* The j-th step of a recursion, of what it is about and from the value before.
Step(what, of, j, v) ==
    IF what = "center" THEN CenterStep(of, j, v)
    ELSE IF what = "trend" THEN TrendStep(of, Center(of), j, v)
    ELSE IF what = "grown" THEN MergePair(SubSeq(of, 1, Len(of) - j), of[Len(of) - j + 1], v)
    ELSE IF what = "merged" THEN Settle(v, of[j])
    ELSE IF what = "collapsed" THEN KeepExtreme(of[1], v, of[2][j])
    ELSE AddFractal(v, of[j])

\* The values of a recursion up to the n-th.
Runs(what, of, base, n, f) ==
    /\ f = [j \in 0 .. n |-> f[j]]
    /\ \A j \in 0 .. n : f[j] = IF j = 0 THEN base ELSE Step(what, of, j, f[j - 1])

\* There are such values, up to any length.
LEMMA RunsExist ==
    ASSUME NEW what, NEW of, NEW base, NEW n \in Nat
    PROVE  \E f : Runs(what, of, base, n, f)
<1> DEFINE Open == {m \in Nat : ~ \E f : Runs(what, of, base, m, f)}
<1>1. SUFFICES ASSUME Open # {} PROVE FALSE
  OBVIOUS
<1>2. PICK m \in Open : \A k \in Open : m <= k
  <2>1. Open \in SUBSET Nat
    OBVIOUS
  <2> HIDE DEF Open
  <2> QED BY <1>1, <2>1, LeastNumber
<1>3. m # 0
  <2>1. Runs(what, of, base, 0, [j \in 0 .. 0 |-> base])
    BY DEF Runs
  <2> QED BY <1>2, <2>1
<1>4. m \in Nat /\ m - 1 \in Nat /\ m - 1 \notin Open
  <2>1. m \in Nat
    BY <1>2
  <2> HIDE DEF Open
  <2> QED BY <1>2, <1>3, <2>1
<1>5. PICK f : Runs(what, of, base, m - 1, f)
  BY <1>4
<1> DEFINE next == [j \in 0 .. m |-> IF j < m THEN f[j] ELSE Step(what, of, j, f[j - 1])]
<1>6. ASSUME NEW j \in 0 .. m
      PROVE  next[j] = IF j = 0 THEN base ELSE Step(what, of, j, next[j - 1])
  <2>1. j # 0 => j - 1 \in 0 .. m /\ j - 1 < m /\ next[j - 1] = f[j - 1]
    BY <1>4
  <2>2. j < m => j \in 0 .. m - 1
    BY <1>4
  <2>3. j < m => f[j] = IF j = 0 THEN base ELSE Step(what, of, j, f[j - 1])
    BY <1>5, <2>2 DEF Runs
  <2>4. next[j] = IF j < m THEN f[j] ELSE Step(what, of, j, f[j - 1])
    OBVIOUS
  <2>5. j < m \/ j # 0
    BY <1>3, <1>4
  <2> HIDE DEF next
  <2> QED BY <2>1, <2>3, <2>4, <2>5
<1>7. Runs(what, of, base, m, next)
  <2>1. next = [j \in 0 .. m |-> next[j]]
    OBVIOUS
  <2> HIDE DEF next
  <2> QED BY <1>6, <2>1 DEF Runs
<1> QED
  BY <1>2, <1>7

\* Two recursions whose first n steps are the same.
SameSteps(what, of, more, n, f) ==
    \A j \in 1 .. n : Step(what, more, j, f[j - 1]) = Step(what, of, j, f[j - 1])

\* The first values depend on the first steps only.
LEMMA RunsAgree ==
    ASSUME NEW what, NEW of, NEW more, NEW base, NEW n \in Nat, NEW m \in Nat, n <= m,
           NEW f, Runs(what, of, base, n, f), NEW g, Runs(what, more, base, m, g),
           SameSteps(what, of, more, n, f)
    PROVE  \A j \in 0 .. n : g[j] = f[j]
<1> DEFINE Wrong == {j \in 0 .. n : g[j] # f[j]}
<1>1. SUFFICES ASSUME Wrong # {} PROVE FALSE
  OBVIOUS
<1>2. PICK j \in Wrong : \A k \in Wrong : j <= k
  <2>1. Wrong \in SUBSET Nat
    OBVIOUS
  <2> HIDE DEF Wrong
  <2> QED BY <1>1, <2>1, LeastNumber
<1>3. j \in 0 .. n /\ g[j] # f[j]
  BY <1>2
<1>4. j # 0 => j - 1 \in 0 .. n /\ j - 1 \notin Wrong
  <2>1. j # 0 => j - 1 \in 0 .. n /\ ~(j <= j - 1)
    BY <1>3
  <2> HIDE DEF Wrong
  <2> QED BY <1>2, <2>1
<1>5. j # 0 => g[j - 1] = f[j - 1]
  BY <1>4
<1>6. /\ f[j] = IF j = 0 THEN base ELSE Step(what, of, j, f[j - 1])
      /\ g[j] = IF j = 0 THEN base ELSE Step(what, more, j, g[j - 1])
  <2>1. j \in 0 .. m
    BY <1>3
  <2> QED BY <1>3, <2>1 DEF Runs
<1>7. j # 0 => j \in 1 .. n
  BY <1>3
<1> HIDE DEF Wrong
<1> QED
  BY <1>3, <1>5, <1>6, <1>7 DEF SameSteps

\* A property of places and values that every step keeps.
Keeps(what, of, n, Good) ==
    \A j \in 1 .. n : \A v : <<j - 1, v>> \in Good => <<j, Step(what, of, j, v)>> \in Good

\* If the first value has it, all have.
LEMMA RunsKeep ==
    ASSUME NEW what, NEW of, NEW base, NEW n \in Nat, NEW f, Runs(what, of, base, n, f),
           NEW Good, <<0, base>> \in Good,
           Keeps(what, of, n, Good)
    PROVE  \A j \in 0 .. n : <<j, f[j]>> \in Good
<1> DEFINE Wrong == {j \in 0 .. n : <<j, f[j]>> \notin Good}
<1>1. SUFFICES ASSUME Wrong # {} PROVE FALSE
  OBVIOUS
<1>2. PICK j \in Wrong : \A k \in Wrong : j <= k
  <2>1. Wrong \in SUBSET Nat
    OBVIOUS
  <2> HIDE DEF Wrong
  <2> QED BY <1>1, <2>1, LeastNumber
<1>3. j \in 0 .. n /\ <<j, f[j]>> \notin Good
  BY <1>2
<1>4. j # 0 => j \in 1 .. n /\ j - 1 \in 0 .. n /\ j - 1 \notin Wrong
  <2>1. j # 0 => j - 1 \in 0 .. n /\ ~(j <= j - 1) /\ j \in 1 .. n
    BY <1>3
  <2> HIDE DEF Wrong
  <2> QED BY <1>2, <2>1
<1>5. f[j] = IF j = 0 THEN base ELSE Step(what, of, j, f[j - 1])
  BY <1>3 DEF Runs
<1>6. j # 0 => <<j - 1, f[j - 1]>> \in Good
  BY <1>4
<1> HIDE DEF Wrong
<1> QED
  BY <1>3, <1>4, <1>5, <1>6 DEF Keeps

\* What FoldLeft computes: a value for every set of places.
Folds(what, of, base, n, g) ==
    g = [s \in SUBSET (1 .. n) |->
            IF s = {} THEN base ELSE Step(what, of, Max(s), g[s \ {Max(s)}])]

\* The greatest of the first n places.
LEMMA GreatestIs ==
    ASSUME NEW n \in Nat, NEW s \in SUBSET (1 .. n), n \in s
    PROVE  Max(s) = n
<1>1. \A y \in s : n >= y /\ y \in Int
  OBVIOUS
<1>2. Max(s) \in s /\ \A y \in s : Max(s) >= y
  BY <1>1 DEF Max
<1>3. Max(s) >= n /\ n >= Max(s) /\ Max(s) \in Int
  BY <1>1, <1>2
<1> QED
  BY <1>3

\* There are such values.
LEMMA FoldsExist ==
    ASSUME NEW what, NEW of, NEW base, NEW n \in Nat
    PROVE  \E g : Folds(what, of, base, n, g)
<1> DEFINE Open == {m \in Nat : ~ \E g : Folds(what, of, base, m, g)}
<1>1. SUFFICES ASSUME Open # {} PROVE FALSE
  OBVIOUS
<1>2. PICK m \in Open : \A k \in Open : m <= k
  <2>1. Open \in SUBSET Nat
    OBVIOUS
  <2> HIDE DEF Open
  <2> QED BY <1>1, <2>1, LeastNumber
<1>3. m # 0
  <2>1. \A s \in SUBSET (1 .. 0) : s = {}
    OBVIOUS
  <2>2. Folds(what, of, base, 0, [s \in SUBSET (1 .. 0) |-> base])
    BY <2>1 DEF Folds
  <2> QED BY <1>2, <2>2
<1>4. m \in Nat /\ m - 1 \in Nat /\ m - 1 \notin Open
  <2>1. m \in Nat
    BY <1>2
  <2> HIDE DEF Open
  <2> QED BY <1>2, <1>3, <2>1
<1>5. PICK g : Folds(what, of, base, m - 1, g)
  BY <1>4
<1> DEFINE next == [s \in SUBSET (1 .. m) |->
                      IF m \in s THEN Step(what, of, m, g[s \ {m}]) ELSE g[s]]
           Folded(h, s) == IF s = {} THEN base ELSE Step(what, of, Max(s), h[s \ {Max(s)}])
<1>6. ASSUME NEW s \in SUBSET (1 .. m) PROVE next[s] = Folded(next, s)
  <2>1. CASE m \in s
    <3>1. Max(s) = m
      BY <1>4, <2>1, GreatestIs
    <3>2. s \ {m} \in SUBSET (1 .. m) /\ m \notin s \ {m}
      OBVIOUS
    <3>3. next[s \ {m}] = g[s \ {m}] /\ next[s] = Step(what, of, m, g[s \ {m}])
      BY <2>1, <3>2
    <3> HIDE DEF next
    <3> QED BY <2>1, <3>1, <3>3
  <2>2. CASE m \notin s
    <3> DEFINE rest == s \ {Max(s)}
    <3>1. s \in SUBSET (1 .. m - 1)
      BY <1>4, <2>2
    <3>2. rest \in SUBSET (1 .. m) /\ m \notin rest
      BY <2>2
    <3> HIDE DEF rest
    <3>3. next[s] = g[s] /\ next[rest] = g[rest]
      BY <2>2, <3>2
    <3>4. g[s] = Folded(g, s)
      BY <1>5, <3>1 DEF Folds
    <3> HIDE DEF next
    <3> QED BY <3>3, <3>4 DEF rest
  <2> QED BY <2>1, <2>2
<1>7. Folds(what, of, base, m, next)
  <2>1. next = [s \in SUBSET (1 .. m) |-> next[s]]
    OBVIOUS
  <2> HIDE DEF next
  <2>2. next = [s \in SUBSET (1 .. m) |-> Folded(next, s)]
    BY <1>6, <2>1
  <2> QED BY <2>2 DEF Folds
<1> QED
  BY <1>2, <1>7

\* The values for the first places are those of a recursion.
LEMMA FoldsRun ==
    ASSUME NEW what, NEW of, NEW base, NEW n \in Nat, NEW g, Folds(what, of, base, n, g)
    PROVE  \E f : Runs(what, of, base, n, f) /\ f[n] = g[1 .. n]
<1> DEFINE f == [j \in 0 .. n |-> g[1 .. j]]
<1>1. ASSUME NEW j \in 0 .. n
      PROVE  f[j] = IF j = 0 THEN base ELSE Step(what, of, j, f[j - 1])
  <2>1. f[j] = g[1 .. j] /\ 1 .. j \in SUBSET (1 .. n)
    OBVIOUS
  <2>2. CASE j = 0
    <3>1. 1 .. j = {}
      BY <2>2
    <3> QED BY <2>1, <2>2, <3>1 DEF Folds
  <2>3. CASE j # 0
    <3>1. j \in Nat /\ j \in 1 .. j /\ j - 1 \in 0 .. n /\ (1 .. j) \ {j} = 1 .. j - 1
      BY <2>3
    <3>2. Max(1 .. j) = j
      BY <3>1, GreatestIs
    <3>3. f[j - 1] = g[1 .. j - 1]
      BY <3>1
    <3>4. g[1 .. j] = Step(what, of, j, g[(1 .. j) \ {j}])
      <4> DEFINE s == 1 .. j
      <4>1. s \in SUBSET (1 .. n) /\ s # {} /\ Max(s) = j
        BY <2>1, <3>1, <3>2
      <4> HIDE DEF s
      <4>2. g[s] = Step(what, of, Max(s), g[s \ {Max(s)}])
        BY <4>1 DEF Folds
      <4> QED BY <4>1, <4>2 DEF s
    <3> HIDE DEF f
    <3> QED BY <2>1, <2>3, <3>1, <3>3, <3>4
  <2> QED BY <2>2, <2>3
<1>2. Runs(what, of, base, n, f)
  <2>1. f = [j \in 0 .. n |-> f[j]]
    OBVIOUS
  <2> HIDE DEF f
  <2> QED BY <1>1, <2>1 DEF Runs
<1>3. f[n] = g[1 .. n]
  OBVIOUS
<1> QED
  BY <1>2, <1>3

\* Center computes such values.
LEMMA CenterIs ==
    ASSUME NEW bs, NEW n \in Nat, Len(bs) = n, DOMAIN bs = 1 .. n
    PROVE  \E f : Runs("center", bs, <<>>, n, f) /\ Center(bs) = [j \in 1 .. n |-> f[j]]
<1> DEFINE Solves(f) == f = [j \in 0 .. n |->
                IF j = 0 THEN <<>>
                ELSE LET p == PivotsAt(bs, j)
                     IN  IF p = <<>> THEN f[j - 1]
                         ELSE IF f[j - 1] = <<>> THEN p
                         ELSE <<(f[j - 1][1] * 2 + p[1]) \div 3>>]
           center == CHOOSE f : Solves(f)
<1>0. \A j, v : Step("center", bs, j, v) = CenterStep(bs, j, v)
  BY DEF Step
<1>1. \E f : Solves(f)
  <2>1. PICK f : Runs("center", bs, <<>>, n, f)
    BY RunsExist
  <2>2. Solves(f)
    BY <1>0, <2>1 DEF Runs, CenterStep
  <2> QED BY <2>2
<1>2. Solves(center)
  <2> HIDE DEF Solves
  <2> QED BY <1>1
<1>3. Runs("center", bs, <<>>, n, center)
  <2>1. center = [j \in 0 .. n |->
                IF j = 0 THEN <<>> ELSE CenterStep(bs, j, center[j - 1])]
    BY <1>2 DEF CenterStep
  <2> HIDE DEF center
  <2> QED BY <1>0, <2>1 DEF Runs
<1>4. Center(bs) = [j \in 1 .. n |-> center[j]]
  BY DEF Center
<1> HIDE DEF center
<1> QED
  BY <1>3, <1>4

\* Before the first bar.
NoTrend == [trend |-> 0, up |-> 0, dn |-> 0]

\* So does Trend.
LEMMA TrendIs ==
    ASSUME NEW bs, NEW n \in Nat, Len(bs) = n, DOMAIN bs = 1 .. n
    PROVE  \E t : Runs("trend", bs, NoTrend, n, t) /\ Trend(bs) = [j \in 1 .. n |-> t[j]]
<1> DEFINE center == Center(bs)
           up(j) == center[j][1] - AtrFactor * Atr(SubSeq(bs, 1, j))
           dn(j) == center[j][1] + AtrFactor * Atr(SubSeq(bs, 1, j))
           Solves(t) == t = [j \in 0 .. n |->
            IF j = 0 THEN [trend |-> 0, up |-> 0, dn |-> 0]
            ELSE IF center[j] = <<>> \/ j < AtrPeriod THEN t[j - 1]
            ELSE IF t[j - 1].trend = 0 THEN [trend |-> 1, up |-> up(j), dn |-> dn(j)]
            ELSE LET q == t[j - 1]
                     prevClose == bs[j - 1].c
                 IN  [up |-> IF prevClose > q.up THEN Max({up(j), q.up}) ELSE up(j),
                      dn |-> IF prevClose < q.dn THEN Min({dn(j), q.dn}) ELSE dn(j),
                      trend |-> IF bs[j].c > q.dn THEN 1
                                ELSE IF bs[j].c < q.up THEN -1 ELSE q.trend]]
           t == CHOOSE t : Solves(t)
<1>0. \A j, v : Step("trend", bs, j, v) = TrendStep(bs, center, j, v)
  BY DEF Step
<1>1. \E f : Solves(f)
  <2>1. PICK f : Runs("trend", bs, NoTrend, n, f)
    BY RunsExist
  <2> HIDE DEF center
  <2>2. Solves(f)
    BY <1>0, <2>1 DEF Runs, TrendStep, NoTrend
  <2> QED BY <2>2
<1>2. Solves(t)
  <2> HIDE DEF Solves
  <2> QED BY <1>1
<1>3. Runs("trend", bs, NoTrend, n, t)
  <2>1. t = [j \in 0 .. n |->
                IF j = 0 THEN NoTrend ELSE TrendStep(bs, center, j, t[j - 1])]
    BY <1>2 DEF TrendStep, NoTrend
  <2> HIDE DEF t, center
  <2> QED BY <1>0, <2>1 DEF Runs
<1>4. Trend(bs) = [j \in 1 .. n |-> t[j]]
  BY DEF Trend
<1> HIDE DEF t
<1> QED
  BY <1>3, <1>4

\* The ranges that are merged.
Ranges(bs) == [i \in DOMAIN bs |-> [h |-> bs[i].h, l |-> bs[i].l, c |-> bs[i].c]]

\* MergeInclusions computes such values.
LEMMA MergedIs ==
    ASSUME NEW bs, NEW n \in Nat, DOMAIN bs = 1 .. n
    PROVE  \E f : Runs("merged", Ranges(bs), <<>>, n, f) /\ MergeInclusions(bs) = f[n]
<1> DEFINE r == Ranges(bs)
           Solves(g) == g = [s \in SUBSET (1 .. n) |->
                IF s = {} THEN <<>> ELSE Settle(g[s \ {Max(s)}], r[Max(s)])]
           g == CHOOSE g : Solves(g)
<1>0. \A j, v : Step("merged", r, j, v) = Settle(v, r[j])
  BY DEF Step
<1>1. \A h : Solves(h) <=> Folds("merged", r, <<>>, n, h)
  <2> HIDE DEF r
  <2> QED BY <1>0 DEF Folds
<1>2. Solves(g)
  <2>1. \E h : Solves(h)
    BY <1>1, FoldsExist
  <2> HIDE DEF Solves
  <2> QED BY <2>1
<1>3. MergeInclusions(bs) = g[1 .. n]
  <2>1. DOMAIN r = 1 .. n
    BY DEF Ranges
  <2>2. MergeInclusions(bs) = FoldLeft(Settle, <<>>, r)
    BY DEF MergeInclusions, Ranges
  <2> HIDE DEF r
  <2> QED BY <2>1, <2>2 DEF FoldLeft, MapThenFoldSet
<1>4. Folds("merged", r, <<>>, n, g)
  BY <1>1, <1>2
<1> HIDE DEF g, r
<1>5. PICK f : Runs("merged", r, <<>>, n, f) /\ f[n] = g[1 .. n]
  BY <1>4, FoldsRun
<1> QED
  BY <1>3, <1>5 DEF r

\* So does Collapse,
LEMMA CollapseIs ==
    ASSUME NEW m, NEW raw, NEW n \in Nat, DOMAIN raw = 1 .. n
    PROVE  \E f : Runs("collapsed", <<m, raw>>, <<>>, n, f) /\ Collapse(m, raw) = f[n]
<1> DEFINE Solves(g) == g = [s \in SUBSET (1 .. n) |->
                IF s = {} THEN <<>> ELSE KeepExtreme(m, g[s \ {Max(s)}], raw[Max(s)])]
           g == CHOOSE g : Solves(g)
<1>0. \A j, v : Step("collapsed", <<m, raw>>, j, v) = KeepExtreme(m, v, raw[j])
  BY DEF Step
<1>1. \A h : Solves(h) <=> Folds("collapsed", <<m, raw>>, <<>>, n, h)
  BY <1>0 DEF Folds
<1>2. Solves(g)
  <2>1. \E h : Solves(h)
    BY <1>1, FoldsExist
  <2> HIDE DEF Solves
  <2> QED BY <2>1
<1>3. Collapse(m, raw) = g[1 .. n]
  BY DEF Collapse, FoldLeft, MapThenFoldSet
<1>4. Folds("collapsed", <<m, raw>>, <<>>, n, g)
  BY <1>1, <1>2
<1> HIDE DEF g
<1>5. PICK f : Runs("collapsed", <<m, raw>>, <<>>, n, f) /\ f[n] = g[1 .. n]
  BY <1>4, FoldsRun
<1> QED
  BY <1>3, <1>5

\* Before the first fractal.
NoStroke == [prev |-> <<>>, out |-> <<>>]

\* and so does Strokes.
LEMMA StrokesAre ==
    ASSUME NEW fractals, NEW n \in Nat, DOMAIN fractals = 1 .. n
    PROVE  \E f : Runs("strokes", fractals, NoStroke, n, f) /\ Strokes(fractals) = f[n].out
<1> DEFINE Solves(g) == g = [s \in SUBSET (1 .. n) |->
                IF s = {} THEN NoStroke ELSE AddFractal(g[s \ {Max(s)}], fractals[Max(s)])]
           g == CHOOSE g : Solves(g)
<1>0. \A j, v : Step("strokes", fractals, j, v) = AddFractal(v, fractals[j])
  BY DEF Step
<1>1. \A h : Solves(h) <=> Folds("strokes", fractals, NoStroke, n, h)
  BY <1>0 DEF Folds
<1>2. Solves(g)
  <2>1. \E h : Solves(h)
    BY <1>1, FoldsExist
  <2> HIDE DEF Solves
  <2> QED BY <2>1
<1>3. Strokes(fractals) = g[1 .. n].out
  BY DEF Strokes, FoldLeft, MapThenFoldSet, NoStroke
<1>4. Folds("strokes", fractals, NoStroke, n, g)
  BY <1>1, <1>2
<1> HIDE DEF g
<1>5. PICK f : Runs("strokes", fractals, NoStroke, n, f) /\ f[n] = g[1 .. n]
  BY <1>4, FoldsRun
<1> QED
  BY <1>3, <1>5

\* Bars that are the first of more bars.
Extends(longer, bs, n) ==
    /\ Len(bs) = n /\ DOMAIN bs = 1 .. n /\ Len(longer) = n + 1 /\ DOMAIN longer = 1 .. n + 1
    /\ \A i \in 1 .. n : longer[i] = bs[i]

\* Bars that are, as far as they go, the later ones of other bars.
Shifted(after, bs, n, d) == \A i \in 1 .. n : after[i] = bs[i + d]

\* Pivots are looked for in the past only, wherever the window starts.
LEMMA PivotsSlide ==
    ASSUME NEW bs, NEW after, NEW n \in Nat, NEW d \in Nat, Shifted(after, bs, n, d),
           NEW j \in 1 .. n, ~(j <= 2 * PivotPeriod)
    PROVE  PivotsAt(after, j) = PivotsAt(bs, j + d)
<1> DEFINE c == j - PivotPeriod
           w == (j - 2 * PivotPeriod .. j) \ {c}
           e == j + d
           v == (e - 2 * PivotPeriod .. e) \ {e - PivotPeriod}
<1>1. PivotPeriod \in Nat /\ j \in Nat
  BY TrendAssumption
<1>2. c \in 1 .. n /\ (\A i \in w : i \in 1 .. n) /\ c + d = e - PivotPeriod
  BY <1>1
<1>3. (\A i \in w : i + d \in v) /\ \A k \in v : \E i \in w : k = i + d
  <2>1. \A i \in w : i + d \in v
    BY <1>1
  <2>2. ASSUME NEW k \in v PROVE \E i \in w : k = i + d
    <3>1. k - d \in w /\ k = (k - d) + d
      BY <1>1
    <3> QED BY <3>1
  <2> QED BY <2>1, <2>2
<1>4. PivotsAt(after, j) =
        IF \A i \in w : after[i].h < after[c].h THEN <<after[c].h>>
        ELSE IF \A i \in w : after[i].l > after[c].l THEN <<after[c].l>>
        ELSE <<>>
  BY DEF PivotsAt
<1>5. PivotsAt(bs, e) =
        IF \A k \in v : bs[k].h < bs[c + d].h THEN <<bs[c + d].h>>
        ELSE IF \A k \in v : bs[k].l > bs[c + d].l THEN <<bs[c + d].l>>
        ELSE <<>>
  <2>1. ~(e <= 2 * PivotPeriod)
    BY <1>1
  <2> QED BY <1>2, <2>1 DEF PivotsAt
<1>6. after[c] = bs[c + d] /\ \A i \in w : after[i] = bs[i + d]
  BY <1>2 DEF Shifted
<1> HIDE DEF c, w, v, e
<1>7. /\ (\A i \in w : after[i].h < after[c].h) <=> (\A k \in v : bs[k].h < bs[c + d].h)
      /\ (\A i \in w : after[i].l > after[c].l) <=> (\A k \in v : bs[k].l > bs[c + d].l)
  BY <1>3, <1>6
<1> QED
  BY <1>4, <1>5, <1>6, <1>7 DEF e

LEMMA PivotsStay ==
    ASSUME NEW bs, NEW longer, NEW n \in Nat, Extends(longer, bs, n), NEW j \in 1 .. n
    PROVE  PivotsAt(longer, j) = PivotsAt(bs, j)
<1>1. CASE j <= 2 * PivotPeriod
  BY <1>1 DEF PivotsAt
<1>2. CASE ~(j <= 2 * PivotPeriod)
  <2>1. PICK d \in Nat : d = 0 /\ j + d = j /\ \A i \in 1 .. n : i + d = i
    OBVIOUS
  <2>2. Shifted(longer, bs, n, d)
    BY <2>1 DEF Extends, Shifted
  <2>3. PivotsAt(longer, j) = PivotsAt(bs, j + d)
    BY <1>2, <2>2, PivotsSlide
  <2> QED BY <2>1, <2>3
<1> QED
  BY <1>1, <1>2

\* The center of a bar does not move.
LEMMA CenterStays ==
    ASSUME NEW bs, NEW longer, NEW n \in Nat, Extends(longer, bs, n)
    PROVE  \A j \in 1 .. n : Center(longer)[j] = Center(bs)[j]
<1>1. PICK f : Runs("center", bs, <<>>, n, f) /\ Center(bs) = [j \in 1 .. n |-> f[j]]
  BY CenterIs DEF Extends
<1>2. PICK m \in Nat : m = n + 1
  OBVIOUS
<1>3. PICK g : Runs("center", longer, <<>>, m, g) /\ Center(longer) = [j \in 1 .. m |-> g[j]]
  BY <1>2, CenterIs DEF Extends
<1>4. \A j \in 1 .. n : \A v : Step("center", longer, j, v) = Step("center", bs, j, v)
  BY PivotsStay DEF Step, CenterStep
<1>5. \A j \in 0 .. n : g[j] = f[j]
  <2>1. n <= m
    BY <1>2
  <2>2. SameSteps("center", bs, longer, n, f)
    BY <1>4 DEF SameSteps
  <2> QED BY <1>1, <1>3, <2>1, <2>2, RunsAgree
<1>6. \A j \in 1 .. n : j \in 0 .. n /\ j \in 1 .. m
  BY <1>2
<1> QED
  BY <1>1, <1>3, <1>5, <1>6

\* Nor does its trend change.
LEMMA TrendStays ==
    ASSUME NEW C, NEW bs \in Seq(C), NEW longer \in Seq(C), NEW n \in Nat, Extends(longer, bs, n)
    PROVE  \A j \in 1 .. n : Trend(longer)[j] = Trend(bs)[j]
<1>1. PICK f : Runs("trend", bs, NoTrend, n, f) /\ Trend(bs) = [j \in 1 .. n |-> f[j]]
  BY TrendIs DEF Extends
<1>2. PICK m \in Nat : m = n + 1
  OBVIOUS
<1>3. PICK g : Runs("trend", longer, NoTrend, m, g) /\ Trend(longer) = [j \in 1 .. m |-> g[j]]
  BY <1>2, TrendIs DEF Extends
<1>4. ASSUME NEW j \in 1 .. n, NEW v, j = 1 => v = NoTrend
      PROVE  Step("trend", longer, j, v) = Step("trend", bs, j, v)
  <2>1. /\ Center(longer)[j] = Center(bs)[j] /\ longer[j] = bs[j]
        /\ Atr(SubSeq(longer, 1, j)) = Atr(SubSeq(bs, 1, j))
    <3>1. SubSeq(longer, 1, j) = SubSeq(bs, 1, j)
      <4>1. j \in Nat \ {0} /\ j <= Len(bs) /\ j <= Len(longer)
        BY DEF Extends
      <4>2. /\ SubSeq(longer, 1, j) = [i \in 1 .. j |-> longer[i]]
            /\ SubSeq(bs, 1, j) = [i \in 1 .. j |-> bs[i]]
        BY <4>1
      <4>3. \A i \in 1 .. j : longer[i] = bs[i]
        BY <4>1 DEF Extends
      <4> QED BY <4>2, <4>3
    <3> QED BY <3>1, CenterStays DEF Extends
  <2>2. CASE j = 1
    <3>1. v.trend = 0
      BY <1>4, <2>2 DEF NoTrend
    <3> QED BY <2>1, <3>1 DEF Step, TrendStep
  <2>3. CASE j # 1
    <3>1. j - 1 \in 1 .. n
      BY <2>3
    <3>2. longer[j - 1] = bs[j - 1]
      BY <3>1 DEF Extends
    <3> QED BY <2>1, <3>2 DEF Step, TrendStep
  <2> QED BY <2>2, <2>3
<1>5. \A j \in 0 .. n : g[j] = f[j]
  <2>1. n <= m
    BY <1>2
  <2>2. f[0] = NoTrend
    <3>1. 0 \in 0 .. n
      OBVIOUS
    <3> QED BY <1>1, <3>1 DEF Runs
  <2>3. SameSteps("trend", bs, longer, n, f)
    BY <1>4, <2>2 DEF SameSteps
  <2> QED BY <1>1, <1>3, <2>1, <2>3, RunsAgree
<1>6. \A j \in 1 .. n : j \in 0 .. n /\ j \in 1 .. m
  BY <1>2
<1> QED
  BY <1>1, <1>3, <1>5, <1>6

\* The trends of n bars, and that a trend goes on, up or down.
LEMMA TrendFacts ==
    ASSUME NEW bs, NEW longer, NEW n \in Nat, Extends(longer, bs, n)
    PROVE  /\ Trend(bs) = [j \in 1 .. n |-> Trend(bs)[j]]
           /\ Trend(longer) = [j \in 1 .. n + 1 |-> Trend(longer)[j]]
           /\ Trend(longer)[n + 1].trend \in {Trend(longer)[n].trend, 1, -1} \/ n = 0
<1>1. PICK f : Runs("trend", bs, NoTrend, n, f) /\ Trend(bs) = [j \in 1 .. n |-> f[j]]
  BY TrendIs DEF Extends
<1>2. PICK m \in Nat : m = n + 1
  OBVIOUS
<1>3. PICK g : Runs("trend", longer, NoTrend, m, g) /\ Trend(longer) = [j \in 1 .. m |-> g[j]]
  BY <1>2, TrendIs DEF Extends
<1>4. g[m] = TrendStep(longer, Center(longer), m, g[n])
  <2>1. m \in 0 .. m /\ m # 0 /\ m - 1 = n
    BY <1>2
  <2> QED BY <1>3, <2>1 DEF Runs, Step
<1>5. g[m].trend \in {g[n].trend, 1, -1}
  BY <1>4 DEF TrendStep
<1>6. n # 0 => n \in 1 .. m /\ m \in 1 .. m
  BY <1>2
<1> QED
  BY <1>1, <1>2, <1>3, <1>5, <1>6

----------------------------------------------------------------------------
(* Merged bars: each one is above or below the one before it               *)

\* What a merged bar can be.
Closes == {bar.c : bar \in Bars["chan"]}
Tips == [h : Int, l : Int, c : Closes]

\* The second bar is above the first; and bars that each go up or down.
Rises(a, b) == a.h < b.h /\ a.l < b.l
Stepwise(m) ==
    /\ m \in Seq(Tips)
    /\ \A i \in 1 .. Len(m) - 1 : Rises(m[i], m[i + 1]) \/ Rises(m[i + 1], m[i])

\* A bar that does not include its neighbour, nor the other way round, is above
\* or below it.
LEMMA OutsideIs ==
    ASSUME NEW a \in Tips, NEW b \in Tips
    PROVE  /\ ~Includes(a, b) <=> Rises(a, b) \/ Rises(b, a)
           /\ ~(Rises(a, b) /\ Rises(b, a))
<1>1. a.h \in Int /\ a.l \in Int /\ b.h \in Int /\ b.l \in Int
  BY DEF Tips
<1> QED
  BY <1>1 DEF Includes, Rises

\* Two bars merged are as far from the bar before as the first of them, on the
\* same side.
LEMMA MergedPair ==
    ASSUME NEW before, NEW a \in Tips, NEW b \in Tips
    PROVE  LET g == MergePair(before, a, b)
           IN  /\ g \in Tips
               /\ \A p \in Tips : before # <<>> /\ Last(before) = p =>
                    /\ Rises(p, a) => Rises(p, g)
                    /\ Rises(a, p) => Rises(g, p)
<1>1. /\ a.h \in Int /\ a.l \in Int /\ b.h \in Int /\ b.l \in Int
      /\ b.c \in Closes
  BY DEF Tips
<1> DEFINE g == MergePair(before, a, b)
           high == Max({a.h, b.h})
           tall == Max({a.l, b.l})
           low == Min({a.h, b.h})
           deep == Min({a.l, b.l})
<1>2. /\ high \in Int /\ high >= a.h /\ tall \in Int /\ tall >= a.l
      /\ low \in Int /\ low <= a.h /\ deep \in Int /\ deep <= a.l
  BY <1>1, MinOfTwo
<1>3. g = IF Upward(before, a, b) THEN [h |-> high, l |-> tall, c |-> b.c]
                                  ELSE [h |-> low, l |-> deep, c |-> b.c]
  BY DEF MergePair
<1> HIDE DEF high, tall, low, deep, g
<1>4. g \in Tips
  BY <1>1, <1>2, <1>3 DEF Tips
<1>5. ASSUME NEW p \in Tips, before # <<>>, Last(before) = p
      PROVE  (Rises(p, a) => Rises(p, g)) /\ (Rises(a, p) => Rises(g, p))
  <2>1. p.h \in Int /\ p.l \in Int
    BY DEF Tips
  <2>2. Upward(before, a, b) <=> \/ a.h > p.h
                                 \/ a.h = p.h /\ a.l > p.l
                                 \/ a.h = p.h /\ a.l = p.l /\ a.c >= p.c
    BY <1>5 DEF Upward
  <2>3. ASSUME Rises(p, a) PROVE Rises(p, g)
    <3>1. a.h > p.h
      BY <1>1, <2>1, <2>3 DEF Rises
    <3>2. g.h = high /\ g.l = tall
      BY <1>3, <2>2, <3>1
    <3> QED BY <1>1, <1>2, <2>1, <2>3, <3>2 DEF Rises
  <2>4. ASSUME Rises(a, p) PROVE Rises(g, p)
    <3>1. ~(a.h > p.h) /\ a.h # p.h
      BY <1>1, <2>1, <2>4 DEF Rises
    <3>2. g.h = low /\ g.l = deep
      BY <1>3, <2>2, <3>1
    <3> QED BY <1>1, <1>2, <2>1, <2>4, <3>2 DEF Rises
  <2> QED BY <2>3, <2>4
<1> QED
  BY <1>4, <1>5 DEF g

\* A history that goes on: with one more merged bar, or with the last one grown
\* on the same side of the one before it.
Follows(next, m) ==
    \/ Len(next) = Len(m) + 1 /\ \A i \in 1 .. Len(m) : next[i] = m[i]
    \/ /\ Len(m) # 0 /\ Len(next) = Len(m)
       /\ \A i \in 1 .. Len(m) - 1 : next[i] = m[i]
       /\ \A i \in 1 .. Len(m) - 1 : /\ Rises(m[i], m[i + 1]) => Rises(next[i], next[i + 1])
                                     /\ Rises(m[i + 1], m[i]) => Rises(next[i + 1], next[i])

\* How often a bar is merged, if f[k] is what k merges make of it.
Including(m, n, f, k) == k < n /\ Includes(m[n - k], f[k])
Merges(m, n, f) ==
    CHOOSE k \in 0 .. n : ~Including(m, n, f, k) /\ \A j \in 0 .. k - 1 : Including(m, n, f, j)

\* What Settle computes.
LEMMA SettleIs ==
    ASSUME NEW m, NEW b, NEW n \in Nat, Len(m) = n
    PROVE  \E f : /\ Runs("grown", m, b, n, f)
                  /\ Settle(m, b) = Append(SubSeq(m, 1, n - Merges(m, n, f)), f[Merges(m, n, f)])
<1> DEFINE Solves(f) == f = [k \in 0 .. n |->
                IF k = 0 THEN b
                ELSE MergePair(SubSeq(m, 1, n - k), m[n - k + 1], f[k - 1])]
           grown == CHOOSE f : Solves(f)
<1>0. \A j, v : Step("grown", m, j, v) = MergePair(SubSeq(m, 1, n - j), m[n - j + 1], v)
  BY DEF Step
<1>1. \E f : Solves(f)
  <2>1. PICK f : Runs("grown", m, b, n, f)
    BY RunsExist
  <2>2. Solves(f)
    BY <1>0, <2>1 DEF Runs
  <2> QED BY <2>2
<1>2. Solves(grown)
  <2> HIDE DEF Solves
  <2> QED BY <1>1
<1>3. Runs("grown", m, b, n, grown)
  <2>1. grown = [k \in 0 .. n |->
                IF k = 0 THEN b
                ELSE MergePair(SubSeq(m, 1, n - k), m[n - k + 1], grown[k - 1])]
    BY <1>2
  <2> HIDE DEF grown
  <2>2. grown = [k \in 0 .. n |-> IF k = 0 THEN b ELSE Step("grown", m, k, grown[k - 1])]
    <3>1. \A k \in 0 .. n : Step("grown", m, k, grown[k - 1])
                            = MergePair(SubSeq(m, 1, n - k), m[n - k + 1], grown[k - 1])
      BY Zenon DEF Step
    <3> QED BY <2>1, <3>1, Zenon
  <2> QED BY <2>2 DEF Runs
<1>4. Settle(m, b) = Append(SubSeq(m, 1, n - Merges(m, n, grown)), grown[Merges(m, n, grown)])
  BY DEF Settle, Merges, Including
<1> HIDE DEF grown
<1> QED
  BY <1>3, <1>4

\* The parts of a sequence without its last elements.
LEMMA Part ==
    ASSUME NEW S, NEW s \in Seq(S), NEW k \in Nat, k <= Len(s), NEW x \in S
    PROVE  LET t == Append(SubSeq(s, 1, k), x)
           IN  /\ t \in Seq(S) /\ Len(t) = k + 1 /\ t[k + 1] = x
               /\ \A i \in 1 .. k : t[i] = s[i]
               /\ k # 0 => SubSeq(s, 1, k) # <<>> /\ Last(SubSeq(s, 1, k)) = s[k]
<1> DEFINE p == SubSeq(s, 1, k)
           t == Append(p, x)
<1>1. p \in Seq(S) /\ Len(p) = k /\ \A i \in 1 .. k : p[i] = s[i]
  OBVIOUS
<1> HIDE DEF p
<1>2. t \in Seq(S) /\ Len(t) = k + 1 /\ t[k + 1] = x /\ \A i \in 1 .. k : t[i] = p[i]
  BY <1>1
<1>3. k # 0 => p # <<>> /\ Last(p) = s[k]
  BY <1>1 DEF Last
<1> HIDE DEF t
<1>4. \A i \in 1 .. k : t[i] = s[i]
  BY <1>1, <1>2
<1> QED
  BY <1>2, <1>3, <1>4 DEF p, t

\* A new bar is put after the merged bars, or merged with the last one: as it
\* then is on the same side of the bar before, no further merge follows.
LEMMA SettleFollows ==
    ASSUME NEW m, Stepwise(m), NEW b \in Tips
    PROVE  Stepwise(Settle(m, b)) /\ Follows(Settle(m, b), m)
<1>1. PICK n \in Nat : n = Len(m)
  BY DEF Stepwise
<1>2. m \in Seq(Tips) /\ \A i \in 1 .. n : m[i] \in Tips
  BY <1>1 DEF Stepwise
<1>3. PICK f : /\ Runs("grown", m, b, n, f)
               /\ Settle(m, b) = Append(SubSeq(m, 1, n - Merges(m, n, f)), f[Merges(m, n, f)])
  BY <1>1, SettleIs
<1> DEFINE includes(k) == Including(m, n, f, k)
           times == Merges(m, n, f)
           next == Settle(m, b)
<1>4. next = Append(SubSeq(m, 1, n - times), f[times])
  BY <1>3
<1>5. f[0] = b
  <2>1. 0 \in 0 .. n
    OBVIOUS
  <2> QED BY <1>3, <2>1 DEF Runs
<1>6. ASSUME NEW k \in 0 .. n, ~includes(k), \A j \in 0 .. k - 1 : includes(j)
      PROVE  times = k
  <2>1. times \in 0 .. n /\ ~includes(times) /\ \A j \in 0 .. times - 1 : includes(j)
    BY <1>6 DEF Merges
  <2> HIDE DEF times, includes
  <2>2. ~(k < times) /\ ~(times < k)
    <3>1. k < times => k \in 0 .. times - 1
      BY <2>1
    <3>2. times < k => times \in 0 .. k - 1
      BY <2>1
    <3> QED BY <1>6, <2>1, <3>1, <3>2
  <2> QED BY <2>1, <2>2
<1>7. CASE ~includes(0)
  <2>1. times = 0
    BY <1>6, <1>7
  <2> HIDE DEF times
  <2>2. next = Append(SubSeq(m, 1, n), b)
    BY <1>4, <1>5, <2>1
  <2> HIDE DEF next
  <2>3. /\ next \in Seq(Tips) /\ Len(next) = n + 1 /\ next[n + 1] = b
        /\ \A i \in 1 .. n : next[i] = m[i]
    <3>1. n <= Len(m)
      BY <1>1
    <3> QED BY <1>2, <2>2, <3>1, Part
  <2>4. n # 0 => Rises(m[n], b) \/ Rises(b, m[n])
    <3>1. n # 0 => ~Includes(m[n], b) /\ n \in 1 .. n
      BY <1>5, <1>7 DEF Including
    <3> QED BY <1>2, <3>1, OutsideIs
  <2>5. \A i \in 1 .. n : Rises(next[i], next[i + 1]) \/ Rises(next[i + 1], next[i])
    <3> SUFFICES ASSUME NEW i \in 1 .. n
                 PROVE  Rises(next[i], next[i + 1]) \/ Rises(next[i + 1], next[i])
      OBVIOUS
    <3>1. CASE i = n
      BY <2>3, <2>4, <3>1
    <3>2. CASE i # n
      <4>1. i \in 1 .. n - 1 /\ i + 1 \in 1 .. n
        BY <3>2
      <4>2. Rises(m[i], m[i + 1]) \/ Rises(m[i + 1], m[i])
        BY <1>1, <4>1 DEF Stepwise
      <4> QED BY <2>3, <4>1, <4>2
    <3> QED BY <3>1, <3>2
  <2>6. Stepwise(next)
    <3>1. Len(next) - 1 = n
      BY <2>3
    <3> QED BY <2>3, <2>5, <3>1 DEF Stepwise
  <2>7. Follows(next, m)
    BY <1>1, <2>3 DEF Follows
  <2> QED BY <2>6, <2>7 DEF next
<1>8. CASE includes(0)
  <2>1. n # 0 /\ n \in 1 .. n /\ n - 1 \in Nat /\ n - 1 <= Len(m)
    BY <1>1, <1>8 DEF Including
  <2> DEFINE before == SubSeq(m, 1, n - 1)
             g == MergePair(before, m[n], b)
  <2>2. f[1] = g
    <3>1. 1 \in 0 .. n /\ n - 1 + 1 = n /\ 1 - 1 = 0
      BY <2>1
    <3>2. f[1] = Step("grown", m, 1, f[0])
      <4>1. \A j \in 0 .. n : f[j] = IF j = 0 THEN b ELSE Step("grown", m, j, f[j - 1])
        BY <1>3 DEF Runs
      <4>2. f[1] = Step("grown", m, 1, f[1 - 1])
        BY <3>1, <4>1
      <4> QED BY <3>1, <4>2
    <3>3. Step("grown", m, 1, b) = MergePair(SubSeq(m, 1, Len(m) - 1), m[Len(m) - 1 + 1], b)
      BY DEF Step
    <3> QED BY <1>1, <1>5, <3>1, <3>2, <3>3
  <2> HIDE DEF g
  <2>3. /\ g \in Tips
        /\ n # 1 => /\ Rises(m[n - 1], m[n]) => Rises(m[n - 1], g)
                    /\ Rises(m[n], m[n - 1]) => Rises(g, m[n - 1])
    <3>1. n # 1 => before # <<>> /\ Last(before) = m[n - 1]
      BY <1>2, <2>1, Part
    <3>2. n # 1 => n - 1 \in 1 .. n
      BY <2>1
    <3> HIDE DEF before
    <3> QED BY <1>2, <2>1, <3>1, <3>2, MergedPair DEF g
  <2>4. n # 1 => /\ Rises(m[n - 1], m[n]) \/ Rises(m[n], m[n - 1])
                 /\ ~Includes(m[n - 1], g)
    <3>1. n # 1 => n - 1 \in 1 .. n /\ n - 1 \in 1 .. n - 1 /\ (n - 1) + 1 = n
      BY <2>1
    <3>2. n # 1 => Rises(m[n - 1], m[n]) \/ Rises(m[n], m[n - 1])
      BY <1>1, <3>1 DEF Stepwise
    <3> QED BY <1>2, <2>3, <3>1, <3>2, OutsideIs
  <2>5. times = 1
    <3>1. 1 \in 0 .. n /\ (1 < n => n # 1) /\ \A j \in 0 .. 1 - 1 : j = 0
      BY <2>1
    <3>2. ~includes(1)
      BY <2>2, <2>4, <3>1 DEF Including
    <3>3. \A j \in 0 .. 1 - 1 : includes(j)
      BY <1>8, <3>1
    <3> HIDE DEF includes, times
    <3> QED BY <1>6, <3>1, <3>2, <3>3
  <2> HIDE DEF times
  <2>6. next = Append(SubSeq(m, 1, n - 1), g)
    BY <1>4, <2>2, <2>5
  <2> HIDE DEF next
  <2>7. PICK k \in Nat : k = n - 1 /\ k + 1 = n
    BY <2>1
  <2>8. /\ next \in Seq(Tips) /\ Len(next) = k + 1 /\ next[k + 1] = g
        /\ \A i \in 1 .. k : next[i] = m[i]
    <3>1. k <= Len(m)
      BY <2>1, <2>7
    <3> QED BY <1>2, <2>3, <2>6, <2>7, <3>1, Part
  <2>9. ASSUME NEW i \in 1 .. k
        PROVE  /\ Rises(m[i], m[i + 1]) => Rises(next[i], next[i + 1])
               /\ Rises(m[i + 1], m[i]) => Rises(next[i + 1], next[i])
    <3>1. CASE i = k
      <4>1. n # 1 /\ i = n - 1 /\ i + 1 = n /\ i + 1 = k + 1
        BY <2>7, <3>1
      <4> QED BY <2>3, <2>8, <4>1
    <3>2. CASE i # k
      <4>1. i + 1 \in 1 .. k
        BY <3>2
      <4> QED BY <2>8, <4>1
    <3> QED BY <3>1, <3>2
  <2>10. \A i \in 1 .. k : Rises(m[i], m[i + 1]) \/ Rises(m[i + 1], m[i])
    BY <1>1, <2>7 DEF Stepwise
  <2>11. Stepwise(next)
    <3>1. Len(next) - 1 = k
      BY <2>8
    <3> QED BY <2>8, <2>9, <2>10, <3>1 DEF Stepwise
  <2>12. Follows(next, m)
    <3>1. Len(m) - 1 = k /\ Len(m) # 0 /\ Len(next) = Len(m)
      BY <1>1, <2>1, <2>7, <2>8
    <3> QED BY <2>8, <2>9, <3>1 DEF Follows
  <2> QED BY <2>11, <2>12 DEF next
<1> QED
  BY <1>7, <1>8

----------------------------------------------------------------------------
(* Fractals: a place where the merged bars turn                            *)

\* The places, and the fractal at one of them.
Places(m) == {i \in 2 .. Len(m) - 1 : IsTop(m, i) \/ IsBottom(m, i)}
Fractal(m, i) == [at |-> i, kind |-> IF IsTop(m, i) THEN "top" ELSE "bottom"]

\* Tops and bottoms are where the merged bars turn.
LEMMA TurnsAre ==
    ASSUME NEW m, Stepwise(m), NEW i \in 2 .. Len(m) - 1
    PROVE  /\ IsTop(m, i) <=> Rises(m[i - 1], m[i]) /\ Rises(m[i + 1], m[i])
           /\ IsBottom(m, i) <=> Rises(m[i], m[i - 1]) /\ Rises(m[i], m[i + 1])
<1>1. PICK n \in Nat : n = Len(m) /\ m \in Seq(Tips)
  BY DEF Stepwise
<1>2. PICK p \in 1 .. n, s \in 1 .. n : /\ p = i - 1 /\ p + 1 = i /\ s = i + 1 /\ i \in 1 .. n
                                        /\ p \in 1 .. n - 1 /\ i \in 1 .. n - 1
  BY <1>1
<1>3. m[p] \in Tips /\ m[i] \in Tips /\ m[s] \in Tips
  BY <1>1, <1>2
<1>4. /\ m[p].h \in Int /\ m[p].l \in Int /\ m[i].h \in Int /\ m[i].l \in Int
      /\ m[s].h \in Int /\ m[s].l \in Int
  BY <1>3 DEF Tips
<1>5. /\ Rises(m[p], m[i]) \/ Rises(m[i], m[p])
      /\ Rises(m[i], m[s]) \/ Rises(m[s], m[i])
  BY <1>1, <1>2 DEF Stepwise
<1>6. /\ IsTop(m, i) <=> m[i].h > m[p].h /\ m[i].h > m[s].h
      /\ IsBottom(m, i) <=> m[i].l < m[p].l /\ m[i].l < m[s].l
  BY <1>2 DEF IsTop, IsBottom
<1>7. /\ IsTop(m, i) <=> Rises(m[p], m[i]) /\ Rises(m[s], m[i])
      /\ IsBottom(m, i) <=> Rises(m[i], m[p]) /\ Rises(m[i], m[s])
  BY <1>4, <1>5, <1>6 DEF Rises
<1> QED
  BY <1>2, <1>7

\* What has turned stays turned: the last merged bar only grows on its side.
LEMMA TurnsStay ==
    ASSUME NEW m, Stepwise(m), NEW next, Stepwise(next), Follows(next, m),
           NEW i \in 2 .. Len(m) - 1
    PROVE  /\ IsTop(next, i) <=> IsTop(m, i)
           /\ IsBottom(next, i) <=> IsBottom(m, i)
<1>1. PICK n \in Nat, k \in Nat : n = Len(m) /\ k = Len(next) /\ m \in Seq(Tips) /\ next \in Seq(Tips)
  BY DEF Stepwise
<1>2. PICK p \in 1 .. n, s \in 1 .. n :
         /\ p = i - 1 /\ p + 1 = i /\ s = i + 1 /\ i \in 1 .. n
         /\ p \in 1 .. n - 1 /\ i \in 1 .. n - 1
  BY <1>1
<1>3. i \in 2 .. Len(next) - 1
  BY <1>1 DEF Follows
<1>4. /\ Rises(next[p], next[i]) <=> Rises(m[p], m[i])
      /\ Rises(next[i], next[p]) <=> Rises(m[i], m[p])
  BY <1>1, <1>2 DEF Follows
<1>5. /\ Rises(next[i], next[s]) <=> Rises(m[i], m[s])
      /\ Rises(next[s], next[i]) <=> Rises(m[s], m[i])
  <2>1. CASE \A j \in 1 .. Len(m) : next[j] = m[j]
    BY <1>1, <1>2, <2>1
  <2>2. CASE \A j \in 1 .. Len(m) - 1 : /\ Rises(m[j], m[j + 1]) => Rises(next[j], next[j + 1])
                                        /\ Rises(m[j + 1], m[j]) => Rises(next[j + 1], next[j])
    <3>1. /\ Rises(m[i], m[s]) => Rises(next[i], next[s])
          /\ Rises(m[s], m[i]) => Rises(next[s], next[i])
      <4>1. i \in 1 .. Len(m) - 1 /\ i + 1 = s
        BY <1>1, <1>2
      <4>2. /\ Rises(m[i], m[i + 1]) => Rises(next[i], next[i + 1])
            /\ Rises(m[i + 1], m[i]) => Rises(next[i + 1], next[i])
        BY <2>2, <4>1, Zenon
      <4> QED BY <4>1, <4>2
    <3>2. Rises(m[i], m[s]) \/ Rises(m[s], m[i])
      BY <1>1, <1>2 DEF Stepwise
    <3>3. next[i] \in Tips /\ next[s] \in Tips
      <4>1. i \in 1 .. k /\ s \in 1 .. k
        BY <1>1, <1>2, <1>3
      <4> QED BY <1>1, <4>1
    <3> QED BY <3>1, <3>2, <3>3, OutsideIs
  <2> QED BY <2>1, <2>2 DEF Follows
<1>6. /\ IsTop(m, i) <=> Rises(m[p], m[i]) /\ Rises(m[s], m[i])
      /\ IsBottom(m, i) <=> Rises(m[i], m[p]) /\ Rises(m[i], m[s])
  BY <1>2, TurnsAre
<1>7. /\ IsTop(next, i) <=> Rises(next[p], next[i]) /\ Rises(next[s], next[i])
      /\ IsBottom(next, i) <=> Rises(next[i], next[p]) /\ Rises(next[i], next[s])
  BY <1>2, <1>3, TurnsAre
<1> QED
  BY <1>4, <1>5, <1>6, <1>7

\* The fractals before they are collapsed, in their order.
LEMMA RawFacts ==
    ASSUME NEW m, Stepwise(m)
    PROVE  LET at == Ascending(Places(m))
           IN  /\ Places(m) \in SUBSET Int /\ IsFiniteSet(Places(m))
               /\ Len(at) \in Nat /\ DOMAIN at = 1 .. Len(at)
               /\ RawFractals(m) = [k \in 1 .. Len(at) |-> Fractal(m, at[k])]
               /\ \A k \in 1 .. Len(at) : at[k] \in Places(m)
               /\ \A j, k \in 1 .. Len(at) : j < k => at[j] < at[k]
               /\ \A i \in Places(m) : \E k \in 1 .. Len(at) : at[k] = i
<1> DEFINE at == Ascending(Places(m))
<1>1. Places(m) \in SUBSET Int /\ IsFiniteSet(Places(m))
  <2>1. Len(m) \in Nat
    BY DEF Stepwise
  <2>2. IsFiniteSet(2 .. Len(m) - 1)
    BY <2>1, FS_Interval
  <2>3. Places(m) \subseteq 2 .. Len(m) - 1
    BY DEF Places
  <2> QED BY <2>1, <2>2, <2>3, FS_Subset
<1>2. at \in Seq(Places(m)) /\ Ordered(at) /\ ToSet(at) = Places(m)
  BY <1>1, AscendingFacts
<1>3. RawFractals(m) = [k \in DOMAIN at |-> Fractal(m, at[k])]
  BY DEF RawFractals, Places, Fractal
<1> HIDE DEF at
<1>4. Len(at) \in Nat /\ DOMAIN at = 1 .. Len(at) /\ \A k \in 1 .. Len(at) : at[k] \in Places(m)
  BY <1>2
<1>5. \A j, k \in 1 .. Len(at) : j < k => at[j] < at[k]
  BY <1>2, <1>4 DEF Ordered
<1>6. \A i \in Places(m) : \E k \in 1 .. Len(at) : at[k] = i
  BY <1>2, <1>4 DEF ToSet
<1> QED
  BY <1>1, <1>3, <1>4, <1>5, <1>6 DEF at

\* Between a place and a later one that is different there is a last one that is
\* like the first.
LEMMA Turn ==
    ASSUME NEW U, NEW a \in Nat, NEW b \in Nat, a + 1 < b, a + 1 \notin U, b \in U
    PROVE  \E j \in a + 1 .. b - 1 : j \notin U /\ j + 1 \in U
<1> DEFINE T == {j \in a + 1 .. b : j \in U}
<1>1. PICK j \in T : \A k \in T : j <= k
  <2>1. b \in T /\ T \in SUBSET Nat
    OBVIOUS
  <2> HIDE DEF T
  <2> QED BY <2>1, LeastNumber
<1>2. j \in a + 1 .. b /\ j \in U /\ j # a + 1
  BY <1>1
<1>3. PICK i \in a + 1 .. b - 1 : i + 1 = j
  <2>1. j - 1 \in a + 1 .. b - 1 /\ (j - 1) + 1 = j
    BY <1>2
  <2> QED BY <2>1
<1>4. i \notin T
  <2>1. ~(j <= i)
    BY <1>3
  <2> HIDE DEF T
  <2> QED BY <1>1, <2>1
<1>5. i \notin U
  BY <1>3, <1>4
<1> QED
  BY <1>2, <1>3, <1>5

\* Between two tops there is a bottom, and between two bottoms a top.
LEMMA PlacesAlternate ==
    ASSUME NEW m, Stepwise(m), NEW a \in Places(m), NEW b \in Places(m), a < b,
           \A i \in Places(m) : ~(a < i /\ i < b)
    PROVE  ~(IsTop(m, a) <=> IsTop(m, b))
<1>1. PICK n \in Nat : n = Len(m) /\ m \in Seq(Tips)
  BY DEF Stepwise
<1>2. a \in 2 .. n - 1 /\ b \in 2 .. n - 1 /\ a \in Nat /\ b \in Nat
  BY <1>1 DEF Places
<1> DEFINE up(i) == Rises(m[i - 1], m[i])
           down(i) == Rises(m[i], m[i - 1])
<1>3. ASSUME NEW i \in 2 .. n - 1
      PROVE  /\ IsTop(m, i) <=> up(i) /\ down(i + 1)
             /\ IsBottom(m, i) <=> down(i) /\ up(i + 1)
  <2>1. i \in 2 .. Len(m) - 1 /\ (i + 1) - 1 = i
    BY <1>1
  <2> QED BY <2>1, TurnsAre
<1>4. ASSUME NEW i \in 2 .. n PROVE (up(i) \/ down(i)) /\ ~(up(i) /\ down(i))
  <2>1. PICK p \in 1 .. n - 1 : p = i - 1 /\ p + 1 = i /\ p \in 1 .. n /\ i \in 1 .. n
    OBVIOUS
  <2>2. Rises(m[p], m[i]) \/ Rises(m[i], m[p])
    BY <1>1, <2>1 DEF Stepwise
  <2>3. m[p] \in Tips /\ m[i] \in Tips
    BY <1>1, <2>1
  <2> QED BY <2>1, <2>2, <2>3, OutsideIs
<1>5. /\ IsTop(m, a) \/ IsBottom(m, a)
      /\ IsTop(m, b) \/ IsBottom(m, b)
  BY DEF Places
<1>6. ASSUME NEW j \in a + 1 .. b - 1 PROVE ~IsTop(m, j) /\ ~IsBottom(m, j)
  <2>1. j \in 2 .. Len(m) - 1 /\ a < j /\ j < b
    BY <1>1, <1>2
  <2> QED BY <2>1 DEF Places
<1> HIDE DEF up, down
<1>7. a + 1 \in 2 .. n /\ b \in 2 .. n
  BY <1>2
<1>8. ASSUME IsTop(m, a), IsTop(m, b) PROVE FALSE
  <2> DEFINE U == {i \in 2 .. n : up(i)}
  <2>1. down(a + 1) /\ up(b)
    BY <1>2, <1>3, <1>8
  <2>2. a + 1 \notin U /\ b \in U
    BY <1>4, <1>7, <2>1
  <2>3. a + 1 < b
    <3>1. a + 1 # b
      BY <2>2
    <3> QED BY <1>2, <3>1
  <2> HIDE DEF U
  <2>4. PICK j \in a + 1 .. b - 1 : j \notin U /\ j + 1 \in U
    BY <1>2, <2>2, <2>3, Turn
  <2>5. j \in 2 .. n - 1 /\ j \in 2 .. n
    BY <1>2
  <2>6. down(j) /\ up(j + 1)
    BY <1>4, <2>4, <2>5 DEF U
  <2> QED BY <1>3, <1>6, <2>5, <2>6
<1>9. ASSUME ~IsTop(m, a), ~IsTop(m, b) PROVE FALSE
  <2> DEFINE U == {i \in 2 .. n : down(i)}
  <2>1. up(a + 1) /\ down(b)
    BY <1>2, <1>3, <1>5, <1>9
  <2>2. a + 1 \notin U /\ b \in U
    BY <1>4, <1>7, <2>1
  <2>3. a + 1 < b
    <3>1. a + 1 # b
      BY <2>2
    <3> QED BY <1>2, <3>1
  <2> HIDE DEF U
  <2>4. PICK j \in a + 1 .. b - 1 : j \notin U /\ j + 1 \in U
    BY <1>2, <2>2, <2>3, Turn
  <2>5. j \in 2 .. n - 1 /\ j \in 2 .. n
    BY <1>2
  <2>6. up(j) /\ down(j + 1)
    BY <1>4, <2>4, <2>5 DEF U
  <2> QED BY <1>3, <1>6, <2>5, <2>6
<1> QED
  BY <1>8, <1>9

\* So no two fractals in a row are of the same kind.
LEMMA RawAlternates ==
    ASSUME NEW m, Stepwise(m)
    PROVE  \E n \in Nat :
              /\ DOMAIN RawFractals(m) = 1 .. n
              /\ RawFractals(m) = [k \in 1 .. n |-> RawFractals(m)[k]]
              /\ \A k \in 1 .. n : RawFractals(m)[k] \in [at : Int, kind : {"top", "bottom"}]
              /\ \A k \in 1 .. n - 1 : RawFractals(m)[k].kind # RawFractals(m)[k + 1].kind
              /\ \A j, k \in 1 .. n : j < k => RawFractals(m)[j].at < RawFractals(m)[k].at
<1> DEFINE at == Ascending(Places(m))
           raw == RawFractals(m)
<1>1. /\ Places(m) \in SUBSET Int /\ Len(at) \in Nat
      /\ raw = [k \in 1 .. Len(at) |-> Fractal(m, at[k])]
      /\ \A k \in 1 .. Len(at) : at[k] \in Places(m)
      /\ \A j, k \in 1 .. Len(at) : j < k => at[j] < at[k]
      /\ \A i \in Places(m) : \E k \in 1 .. Len(at) : at[k] = i
  BY RawFacts
<1> HIDE DEF at, raw
<1>2. PICK n \in Nat : n = Len(at)
  BY <1>1
<1>3. \A k \in 1 .. n : /\ raw[k] = Fractal(m, at[k]) /\ at[k] \in Int /\ raw[k].at = at[k]
                        /\ raw[k].kind = IF IsTop(m, at[k]) THEN "top" ELSE "bottom"
                        /\ raw[k] \in [at : Int, kind : {"top", "bottom"}]
  BY <1>1, <1>2 DEF Fractal
<1>4. ASSUME NEW k \in 1 .. n - 1 PROVE raw[k].kind # raw[k + 1].kind
  <2>1. k \in 1 .. n /\ k + 1 \in 1 .. n /\ k < k + 1
    OBVIOUS
  <2>2. at[k] \in Places(m) /\ at[k + 1] \in Places(m) /\ at[k] < at[k + 1]
    BY <1>1, <1>2, <2>1
  <2>3. ASSUME NEW i \in Places(m) PROVE ~(at[k] < i /\ i < at[k + 1])
    <3>1. PICK j \in 1 .. n : at[j] = i
      BY <1>1, <1>2
    <3>2. j < k \/ j = k \/ j = k + 1 \/ k + 1 < j
      OBVIOUS
    <3>3. /\ j < k => at[j] < at[k]
          /\ k + 1 < j => at[k + 1] < at[j]
      BY <1>1, <1>2, <2>1
    <3>4. at[j] \in Int /\ at[k] \in Int /\ at[k + 1] \in Int
      BY <1>3, <2>1
    <3> QED BY <3>1, <3>2, <3>3, <3>4
  <2>4. ~(IsTop(m, at[k]) <=> IsTop(m, at[k + 1]))
    BY <2>2, <2>3, PlacesAlternate
  <2> QED BY <1>3, <2>1, <2>4
<1>5. raw = [k \in 1 .. n |-> raw[k]] /\ DOMAIN raw = 1 .. n
  BY <1>1, <1>2
<1>6. \A j, k \in 1 .. n : j < k => raw[j].at < raw[k].at
  BY <1>1, <1>2, <1>3
<1> QED
  BY <1>3, <1>4, <1>5, <1>6 DEF raw

\* A sequence and one element more of it.
LEMMA OneMore ==
    ASSUME NEW raw, NEW j \in Nat \ {0}
    PROVE  /\ Append([k \in 1 .. j - 1 |-> raw[k]], raw[j]) = [k \in 1 .. j |-> raw[k]]
           /\ j = 1 => [k \in 1 .. j - 1 |-> raw[k]] = <<>>
           /\ j # 1 => /\ [k \in 1 .. j - 1 |-> raw[k]] # <<>>
                       /\ Last([k \in 1 .. j - 1 |-> raw[k]]) = raw[j - 1]
<1> DEFINE v == [k \in 1 .. j - 1 |-> raw[k]]
           R == {raw[k] : k \in 1 .. j}
           w == Append(v, raw[j])
<1>1. v \in [1 .. j - 1 -> R] /\ raw[j] \in R /\ \A k \in 1 .. j - 1 : v[k] = raw[k]
  OBVIOUS
<1> HIDE DEF v, R
<1>2. v \in Seq(R) /\ Len(v) = j - 1
  BY <1>1
<1>3. w \in Seq(R) /\ Len(w) = j /\ w[j] = raw[j] /\ \A k \in 1 .. j - 1 : w[k] = v[k]
  BY <1>1, <1>2
<1> HIDE DEF w
<1>4. w = [k \in 1 .. j |-> w[k]]
  BY <1>3
<1>5. \A k \in 1 .. j : w[k] = raw[k]
  <2> SUFFICES ASSUME NEW k \in 1 .. j PROVE w[k] = raw[k]
    OBVIOUS
  <2>1. k = j \/ k \in 1 .. j - 1
    OBVIOUS
  <2> QED BY <1>1, <1>3, <2>1
<1>6. w = [k \in 1 .. j |-> raw[k]]
  BY <1>4, <1>5
<1>7. j = 1 => v = <<>>
  BY <1>2
<1>8. j # 1 => v # <<>> /\ Last(v) = raw[j - 1]
  <2>1. j # 1 => Len(v) # 0 /\ j - 1 \in 1 .. j - 1
    BY <1>2
  <2> QED BY <1>1, <1>2, <2>1 DEF Last
<1> QED
  BY <1>6, <1>7, <1>8 DEF v, w

\* Of merged bars there is nothing to collapse.
LEMMA NothingCollapses ==
    ASSUME NEW m, Stepwise(m)
    PROVE  Fractals(m) = RawFractals(m)
<1> DEFINE raw == RawFractals(m)
<1>1. PICK n \in Nat :
         /\ DOMAIN raw = 1 .. n /\ raw = [k \in 1 .. n |-> raw[k]]
         /\ \A k \in 1 .. n - 1 : raw[k].kind # raw[k + 1].kind
  BY RawAlternates
<1> HIDE DEF raw
<1>2. PICK f : Runs("collapsed", <<m, raw>>, <<>>, n, f) /\ Collapse(m, raw) = f[n]
  <2>1. DOMAIN raw = 1 .. n
    BY <1>1
  <2> QED BY <2>1, CollapseIs
<1> DEFINE Good == {<<j, [k \in 1 .. j |-> raw[k]]>> : j \in 0 .. n}
<1>3. <<0, <<>>>> \in Good
  <2>1. [k \in 1 .. 1 - 1 |-> raw[k]] = <<>> /\ 1 - 1 = 0 /\ 0 \in 0 .. n
    BY OneMore
  <2> QED BY <2>1
<1>4. Keeps("collapsed", <<m, raw>>, n, Good)
  <2> SUFFICES ASSUME NEW j \in 1 .. n, NEW v, <<j - 1, v>> \in Good
               PROVE  <<j, Step("collapsed", <<m, raw>>, j, v)>> \in Good
    BY DEF Keeps
  <2>1. v = [k \in 1 .. j - 1 |-> raw[k]]
    OBVIOUS
  <2>2. Step("collapsed", <<m, raw>>, j, v) = KeepExtreme(m, v, raw[j])
    BY DEF Step
  <2>3. j # 1 => raw[j - 1].kind # raw[j].kind
    <3>1. j # 1 => j - 1 \in 1 .. n - 1 /\ (j - 1) + 1 = j
      OBVIOUS
    <3> QED BY <1>1, <3>1
  <2>4. /\ Append(v, raw[j]) = [k \in 1 .. j |-> raw[k]]
        /\ j = 1 => v = <<>>
        /\ j # 1 => v # <<>> /\ Last(v) = raw[j - 1]
    <3>1. j \in Nat \ {0}
      OBVIOUS
    <3> QED BY <2>1, <3>1, OneMore, Zenon
  <2>5. v = <<>> \/ Last(v).kind # raw[j].kind
    BY <2>3, <2>4
  <2>6. Step("collapsed", <<m, raw>>, j, v) = [k \in 1 .. j |-> raw[k]]
    BY <2>2, <2>4, <2>5, Zenon DEF KeepExtreme
  <2>7. j \in 0 .. n
    OBVIOUS
  <2> QED BY <2>6, <2>7
<1> HIDE DEF Good
<1>5. \A j \in 0 .. n : <<j, f[j]>> \in Good
  BY <1>2, <1>3, <1>4, RunsKeep
<1>6. f[n] = [k \in 1 .. n |-> raw[k]]
  <2>1. <<n, f[n]>> \in Good
    BY <1>5
  <2> QED BY <2>1 DEF Good
<1> QED
  BY <1>1, <1>2, <1>6 DEF Fractals, raw

\* A list that has become longer by one element at most.
Prolongs(longer, s, n) ==
    /\ s = [k \in 1 .. n |-> s[k]]
    /\ \/ longer = s
       \/ /\ longer = [k \in 1 .. n + 1 |-> longer[k]]
          /\ \A k \in 1 .. n : longer[k] = s[k]

\* The fractals of a history that goes on are those there were, and perhaps a
\* new one.
LEMMA FractalsFollow ==
    ASSUME NEW m, Stepwise(m), NEW next, Stepwise(next), Follows(next, m)
    PROVE  \E n \in Nat : Prolongs(Fractals(next), Fractals(m), n)
<1> DEFINE at == Ascending(Places(m))
           P == Places(m)
           Q == Places(next)
           raw == RawFractals(m)
           more == RawFractals(next)
<1>1. PICK e \in Nat : e = Len(m) /\ (Len(next) = e \/ Len(next) = e + 1)
  BY DEF Stepwise, Follows
<1>2. \A i \in 2 .. e - 1 : i \in Q <=> i \in P
  <2>1. ASSUME NEW i \in 2 .. e - 1 PROVE i \in Q <=> i \in P
    <3>1. i \in 2 .. Len(m) - 1 /\ i \in 2 .. Len(next) - 1
      BY <1>1
    <3> QED BY <3>1, TurnsStay DEF Places
  <2> QED BY <2>1
<1>3. P \subseteq 2 .. e - 1 /\ (Q \subseteq 2 .. e - 1 \/ Q \subseteq 2 .. e)
  BY <1>1 DEF Places
<1>4. Q = P \/ Q = P \cup {e}
  <2> HIDE DEF P, Q
  <2>1. \A i \in 2 .. e : i = e \/ i \in 2 .. e - 1
    OBVIOUS
  <2>2. e \notin 2 .. e - 1
    OBVIOUS
  <2> QED BY <1>2, <1>3, <2>1, <2>2
<1>5. \A i \in P : Fractal(next, i) = Fractal(m, i)
  <2>1. \A i \in P : i \in 2 .. Len(m) - 1
    BY <1>1, <1>3
  <2> QED BY <2>1, TurnsStay DEF Fractal
<1>6. /\ P \in SUBSET Int /\ IsFiniteSet(P) /\ Len(at) \in Nat
      /\ raw = [k \in 1 .. Len(at) |-> Fractal(m, at[k])]
      /\ \A k \in 1 .. Len(at) : at[k] \in P
  BY RawFacts
<1>7. more = [k \in 1 .. Len(Ascending(Q)) |-> Fractal(next, Ascending(Q)[k])]
  BY RawFacts
<1>8. Fractals(m) = raw /\ Fractals(next) = more
  BY NothingCollapses
<1> HIDE DEF at, P, Q, raw, more
<1>9. PICK n \in Nat : n = Len(at)
  BY <1>6
<1>10. raw = [k \in 1 .. n |-> raw[k]] /\ \A k \in 1 .. n : raw[k] = Fractal(next, at[k])
  BY <1>5, <1>6, <1>9
<1>11. CASE Q = P
  <2>1. Ascending(Q) = at
    BY <1>11 DEF at, P
  <2>2. more = raw
    BY <1>7, <1>9, <1>10, <2>1
  <2> QED BY <1>8, <1>10, <2>2 DEF Prolongs
<1>12. CASE Q = P \cup {e}
  <2>1. \A x \in P : x < e
    BY <1>3
  <2> DEFINE to == [k \in 1 .. n + 1 |-> IF k = n + 1 THEN e ELSE at[k]]
  <2>2. Ascending(Q) = to
    <3>1. Ascending(P \cup {e}) = [k \in 1 .. Len(Ascending(P)) + 1 |->
                  IF k = Len(Ascending(P)) + 1 THEN e ELSE Ascending(P)[k]]
      BY <1>6, <2>1, AscendingAdds
    <3>2. Ascending(P) = at
      BY DEF at, P
    <3> QED BY <1>9, <1>12, <3>1, <3>2
  <2>3. PICK k \in Nat : k = n + 1
    OBVIOUS
  <2>4. Len(to) = k
    <3>1. to = [i \in 1 .. k |-> to[i]]
      BY <2>3
    <3> HIDE DEF to
    <3> QED BY <3>1, LengthOf
  <2>5. \A i \in 1 .. n : i \in 1 .. n + 1 /\ to[i] = at[i]
    OBVIOUS
  <2> HIDE DEF to
  <2>6. more = [i \in 1 .. n + 1 |-> Fractal(next, to[i])]
    BY <1>7, <2>2, <2>3, <2>4
  <2>7. more = [i \in 1 .. n + 1 |-> more[i]] /\ \A i \in 1 .. n : more[i] = raw[i]
    BY <1>10, <2>5, <2>6
  <2> QED BY <1>8, <1>10, <2>7 DEF Prolongs
<1> QED
  BY <1>4, <1>11, <1>12

----------------------------------------------------------------------------
(* Strokes                                                                 *)

\* What build_strokes is given: fractals in the order of their places.
FractalList(fr, n) ==
    /\ DOMAIN fr = 1 .. n
    /\ \A k \in 1 .. n : fr[k] \in [at : Int, kind : {"top", "bottom"}]
    /\ \A j, k \in 1 .. n : j < k => fr[j].at < fr[k].at

\* What it makes of them.
Stroke == [from : Int, to : Int, dir : {"up", "down"}]

\* Strokes go up and down in turn, each ending after the one before.
Alternating(out) ==
    /\ out \in Seq(Stroke)
    /\ \A i \in 1 .. Len(out) - 1 : out[i].to < out[i + 1].to /\ out[i].dir # out[i + 1].dir

\* The strokes up to the j-th fractal: the last one ends where prev is, or
\* before, and prev is of the kind it ends with.
StrokesUpTo(fr, j, v) ==
    /\ v = [prev |-> v.prev, out |-> v.out]
    /\ v.prev = <<>> \/ \E k \in 1 .. j : v.prev = <<fr[k]>>
    /\ Alternating(v.out)
    /\ Len(v.out) # 0 =>
          /\ v.prev # <<>>
          /\ v.out[Len(v.out)].to <= v.prev[1].at
          /\ v.out[Len(v.out)].dir = IF v.prev[1].kind = "top" THEN "up" ELSE "down"

\* A fractal that is added keeps this, and adds one stroke at most.
LEMMA AddFractalKeeps ==
    ASSUME NEW fr, NEW n \in Nat, FractalList(fr, n), NEW j \in 1 .. n,
           NEW v, StrokesUpTo(fr, j - 1, v)
    PROVE  /\ StrokesUpTo(fr, j, AddFractal(v, fr[j]))
           /\ \/ AddFractal(v, fr[j]).out = v.out
              \/ \E x \in Stroke : AddFractal(v, fr[j]).out = Append(v.out, x)
<1> DEFINE w == AddFractal(v, fr[j])
           q == Len(v.out)
<1>1. /\ fr[j].at \in Int /\ fr[j].kind \in {"top", "bottom"}
      /\ v.out \in Seq(Stroke) /\ q \in Nat
      /\ v = [prev |-> v.prev, out |-> v.out]
  BY DEF FractalList, StrokesUpTo, Alternating
<1>2. v.prev # <<>> => /\ v.prev[1].at \in Int /\ v.prev[1].kind \in {"top", "bottom"}
                       /\ v.prev[1].at < fr[j].at
                       /\ \E k \in 1 .. j : v.prev = <<fr[k]>>
  <2> SUFFICES ASSUME v.prev # <<>>
               PROVE  /\ v.prev[1].at \in Int /\ v.prev[1].kind \in {"top", "bottom"}
                      /\ v.prev[1].at < fr[j].at
                      /\ \E k \in 1 .. j : v.prev = <<fr[k]>>
    OBVIOUS
  <2>1. PICK k \in 1 .. j - 1 : v.prev = <<fr[k]>>
    BY DEF StrokesUpTo
  <2>2. k \in 1 .. n /\ k \in 1 .. j /\ k < j
    OBVIOUS
  <2>3. v.prev[1] = fr[k]
    BY <2>1
  <2> QED BY <2>1, <2>2, <2>3 DEF FractalList
<1>3. CASE v.prev = <<>> \/ v.prev[1].kind = fr[j].kind
  <2>1. w = [prev |-> <<fr[j]>>, out |-> v.out]
    BY <1>1, <1>3 DEF AddFractal
  <2>2. w.out = v.out /\ w.prev = <<fr[j]>> /\ w.prev[1] = fr[j] /\ w.prev # <<>>
    BY <2>1
  <2>3. \E k \in 1 .. j : w.prev = <<fr[k]>>
    <3>1. j \in 1 .. j
      OBVIOUS
    <3> QED BY <2>2, <3>1
  <2>4. q # 0 => /\ w.out[q].to <= fr[j].at
                 /\ w.out[q].dir = IF fr[j].kind = "top" THEN "up" ELSE "down"
    <3>1. q # 0 => v.prev # <<>> /\ v.out[q].to <= v.prev[1].at /\ v.out[q] \in Stroke
                   /\ v.out[q].dir = IF v.prev[1].kind = "top" THEN "up" ELSE "down"
      BY <1>1 DEF StrokesUpTo
    <3>2. q # 0 => v.out[q].to \in Int
      BY <3>1 DEF Stroke
    <3> QED BY <1>1, <1>2, <1>3, <2>2, <3>1, <3>2
  <2>5. Alternating(w.out) /\ w = [prev |-> w.prev, out |-> w.out]
    BY <2>1, <2>2 DEF StrokesUpTo
  <2> HIDE DEF w
  <2>6. StrokesUpTo(fr, j, w)
    BY <2>2, <2>3, <2>4, <2>5 DEF StrokesUpTo
  <2> QED BY <2>2, <2>6 DEF w
<1>4. CASE ~(v.prev = <<>> \/ v.prev[1].kind = fr[j].kind) /\ fr[j].at - v.prev[1].at < MinSep
  <2>1. w = v
    BY <1>4 DEF AddFractal
  <2>2. StrokesUpTo(fr, j, v)
    BY <1>2, <1>4 DEF StrokesUpTo
  <2> QED BY <2>1, <2>2
<1>5. CASE ~(v.prev = <<>> \/ v.prev[1].kind = fr[j].kind) /\ ~(fr[j].at - v.prev[1].at < MinSep)
  <2> DEFINE x == [from |-> v.prev[1].at, to |-> fr[j].at,
                   dir |-> IF fr[j].kind = "top" THEN "up" ELSE "down"]
  <2>1. w = [prev |-> <<fr[j]>>, out |-> Append(v.out, x)]
    BY <1>5 DEF AddFractal
  <2>2. x \in Stroke /\ x.to = fr[j].at /\ x.dir = IF fr[j].kind = "top" THEN "up" ELSE "down"
    BY <1>1, <1>2, <1>5 DEF Stroke
  <2> HIDE DEF x
  <2>3. w.out = Append(v.out, x) /\ w.prev = <<fr[j]>> /\ w.prev[1] = fr[j] /\ w.prev # <<>>
    BY <2>1
  <2>4. w = [prev |-> w.prev, out |-> w.out]
    BY <2>1, <2>3
  <2> HIDE DEF w
  <2>5. /\ w.out \in Seq(Stroke) /\ Len(w.out) = q + 1 /\ w.out[q + 1] = x
        /\ \A i \in 1 .. q : w.out[i] = v.out[i]
    BY <1>1, <2>2, <2>3
  <2>6. q # 0 => v.out[q].to < x.to /\ v.out[q].dir # x.dir
    <3>1. q # 0 => v.out[q].to <= v.prev[1].at /\ v.out[q] \in Stroke
                   /\ v.out[q].dir = IF v.prev[1].kind = "top" THEN "up" ELSE "down"
      BY <1>1 DEF StrokesUpTo
    <3>2. q # 0 => v.out[q].to \in Int
      BY <3>1 DEF Stroke
    <3>3. q # 0 => v.out[q].to < x.to
      BY <1>1, <1>2, <1>5, <2>2, <3>1, <3>2
    <3>4. q # 0 => v.out[q].dir # x.dir
      BY <1>1, <1>2, <1>5, <2>2, <3>1
    <3> QED BY <3>3, <3>4
  <2>7. \A i \in 1 .. q : w.out[i].to < w.out[i + 1].to /\ w.out[i].dir # w.out[i + 1].dir
    <3> SUFFICES ASSUME NEW i \in 1 .. q
                 PROVE  w.out[i].to < w.out[i + 1].to /\ w.out[i].dir # w.out[i + 1].dir
      OBVIOUS
    <3>1. CASE i = q
      BY <2>5, <2>6, <3>1
    <3>2. CASE i # q
      <4>1. i \in 1 .. q - 1 /\ i + 1 \in 1 .. q
        BY <1>1, <3>2
      <4>2. v.out[i].to < v.out[i + 1].to /\ v.out[i].dir # v.out[i + 1].dir
        BY <4>1 DEF StrokesUpTo, Alternating
      <4> QED BY <2>5, <4>1, <4>2
    <3> QED BY <3>1, <3>2
  <2>8. Alternating(w.out)
    <3>1. Len(w.out) - 1 = q
      BY <1>1, <2>5
    <3> QED BY <2>5, <2>7, <3>1 DEF Alternating
  <2>9. \E k \in 1 .. j : w.prev = <<fr[k]>>
    <3>1. j \in 1 .. j
      OBVIOUS
    <3> QED BY <2>3, <3>1
  <2>10. /\ w.out[Len(w.out)].to <= fr[j].at
         /\ w.out[Len(w.out)].dir = IF fr[j].kind = "top" THEN "up" ELSE "down"
    BY <1>1, <2>2, <2>5
  <2>11. StrokesUpTo(fr, j, w)
    BY <2>3, <2>4, <2>8, <2>9, <2>10 DEF StrokesUpTo
  <2> QED BY <2>2, <2>3, <2>11 DEF w
<1> QED
  BY <1>3, <1>4, <1>5

\* The strokes of fractals go up and down in turn.
LEMMA StrokesAlternate ==
    ASSUME NEW fr, NEW n \in Nat, FractalList(fr, n),
           NEW f, Runs("strokes", fr, NoStroke, n, f)
    PROVE  StrokesUpTo(fr, n, f[n])
<1> DEFINE V == [prev : {<<>>} \cup {<<fr[k]>> : k \in 1 .. n}, out : Seq(Stroke)]
           Good == {g \in (0 .. n) \X V : StrokesUpTo(fr, g[1], g[2])}
<1>1. \A j \in 0 .. n : \A v : <<j, v>> \in Good <=> StrokesUpTo(fr, j, v)
  <2> SUFFICES ASSUME NEW j \in 0 .. n, NEW v, StrokesUpTo(fr, j, v) PROVE v \in V
    OBVIOUS
  <2>1. v = [prev |-> v.prev, out |-> v.out] /\ v.out \in Seq(Stroke)
    BY DEF StrokesUpTo, Alternating
  <2>2. v.prev \in {<<>>} \cup {<<fr[k]>> : k \in 1 .. n}
    <3>1. \A k \in 1 .. j : k \in 1 .. n
      OBVIOUS
    <3> QED BY <3>1 DEF StrokesUpTo
  <2> QED BY <2>1, <2>2
<1> HIDE DEF Good
<1>2. StrokesUpTo(fr, 0, NoStroke)
  <2>1. NoStroke.prev = <<>> /\ NoStroke.out = <<>> /\ Len(<<>>) = 0
    BY DEF NoStroke
  <2>2. Alternating(<<>>)
    BY DEF Alternating
  <2>3. NoStroke = [prev |-> NoStroke.prev, out |-> NoStroke.out]
    BY DEF NoStroke
  <2> QED BY <2>1, <2>2, <2>3 DEF StrokesUpTo
<1>3. Keeps("strokes", fr, n, Good)
  <2> SUFFICES ASSUME NEW j \in 1 .. n, NEW v, <<j - 1, v>> \in Good
               PROVE  <<j, Step("strokes", fr, j, v)>> \in Good
    BY DEF Keeps
  <2>1. j - 1 \in 0 .. n /\ j \in 0 .. n
    OBVIOUS
  <2>2. StrokesUpTo(fr, j - 1, v)
    BY <1>1, <2>1
  <2>3. StrokesUpTo(fr, j, AddFractal(v, fr[j]))
    BY <2>2, AddFractalKeeps
  <2>4. Step("strokes", fr, j, v) = AddFractal(v, fr[j])
    BY DEF Step
  <2> QED BY <1>1, <2>1, <2>3, <2>4
<1>4. 0 \in 0 .. n /\ n \in 0 .. n
  OBVIOUS
<1>5. \A j \in 0 .. n : <<j, f[j]>> \in Good
  <2>1. <<0, NoStroke>> \in Good
    BY <1>1, <1>2, <1>4
  <2> QED BY <1>3, <2>1, RunsKeep
<1> QED
  BY <1>1, <1>4, <1>5

\* When a fractal is added the strokes stay, and there is perhaps a new one.
LEMMA StrokesFollow ==
    ASSUME NEW fr, NEW n \in Nat, FractalList(fr, n),
           NEW more, NEW m \in Nat, FractalList(more, m), Prolongs(more, fr, n)
    PROVE  \E k \in Nat : Prolongs(Strokes(more), Strokes(fr), k)
<1>1. PICK f : Runs("strokes", fr, NoStroke, n, f) /\ Strokes(fr) = f[n].out
  BY StrokesAre DEF FractalList
<1>2. PICK out \in Seq(Stroke), k \in Nat : out = Strokes(fr) /\ k = Len(out)
  <2>1. StrokesUpTo(fr, n, f[n])
    BY <1>1, StrokesAlternate
  <2>2. Strokes(fr) \in Seq(Stroke)
    BY <1>1, <2>1 DEF StrokesUpTo, Alternating
  <2> QED BY <2>2
<1>3. out = [i \in 1 .. k |-> out[i]]
  BY <1>2
<1>4. CASE more = fr
  <2>1. Strokes(more) = out
    BY <1>2, <1>4
  <2> QED BY <1>2, <1>3, <2>1 DEF Prolongs
<1>5. CASE more # fr
  <2>1. PICK e \in Nat : e = n + 1
    OBVIOUS
  <2>2. more = [i \in 1 .. e |-> more[i]] /\ \A i \in 1 .. n : more[i] = fr[i]
    BY <1>5, <2>1 DEF Prolongs
  <2>3. m = e
    <3>1. DOMAIN more = 1 .. e /\ DOMAIN more = 1 .. m
      BY <2>2 DEF FractalList
    <3> QED BY <3>1
  <2>4. PICK g : Runs("strokes", more, NoStroke, e, g) /\ Strokes(more) = g[e].out
    <3>1. DOMAIN more = 1 .. e
      BY <2>3 DEF FractalList
    <3> QED BY <3>1, StrokesAre
  <2>5. g[n] = f[n]
    <3>1. n <= e /\ n \in 0 .. n
      BY <2>1
    <3>2. SameSteps("strokes", fr, more, n, f)
      BY <2>2 DEF SameSteps, Step
    <3> QED BY <1>1, <2>4, <3>1, <3>2, RunsAgree
  <2>6. g[e] = AddFractal(f[n], more[e])
    <3>1. e \in 0 .. e /\ e # 0 /\ e - 1 = n
      BY <2>1
    <3> QED BY <2>4, <2>5, <3>1 DEF Runs, Step
  <2>7. StrokesUpTo(more, n, f[n])
    <3>1. StrokesUpTo(fr, n, f[n])
      BY <1>1, StrokesAlternate
    <3> QED BY <2>2, <3>1 DEF StrokesUpTo
  <2>8. Strokes(more) = out \/ \E x \in Stroke : Strokes(more) = Append(out, x)
    <3>1. e \in 1 .. e /\ e - 1 = n
      BY <2>1
    <3>2. FractalList(more, e) /\ StrokesUpTo(more, e - 1, f[n])
      BY <2>3, <2>7, <3>1
    <3>3. \/ AddFractal(f[n], more[e]).out = f[n].out
          \/ \E x \in Stroke : AddFractal(f[n], more[e]).out = Append(f[n].out, x)
      BY <3>1, <3>2, AddFractalKeeps
    <3> QED BY <1>1, <1>2, <2>4, <2>6, <3>3
  <2>9. ASSUME NEW x \in Stroke, Strokes(more) = Append(out, x)
        PROVE  Prolongs(Strokes(more), out, k)
    <3> DEFINE long == Append(out, x)
    <3>1. long = [i \in 1 .. k + 1 |-> long[i]] /\ \A i \in 1 .. k : long[i] = out[i]
      <4>1. long \in Seq(Stroke) /\ Len(long) = k + 1 /\ \A i \in 1 .. k : long[i] = out[i]
        BY <1>2
      <4> HIDE DEF long
      <4>2. DOMAIN long = 1 .. k + 1
        BY <4>1
      <4> QED BY <4>1, <4>2
    <3> HIDE DEF long
    <3> QED BY <1>3, <2>9, <3>1 DEF Prolongs, long
  <2>10. Strokes(more) = out => Prolongs(Strokes(more), out, k)
    BY <1>3 DEF Prolongs
  <2> QED BY <1>2, <2>8, <2>9, <2>10
<1> QED
  BY <1>4, <1>5

\* A stroke ends after all strokes before it.
LEMMA StrokesRise ==
    ASSUME NEW out, Alternating(out), NEW i \in 1 .. Len(out), NEW j \in 1 .. Len(out), i < j
    PROVE  out[i].to < out[j].to
<1> DEFINE Wrong == {k \in 1 .. Len(out) : i < k /\ ~(out[i].to < out[k].to)}
<1>1. SUFFICES ASSUME Wrong # {} PROVE FALSE
  OBVIOUS
<1>2. PICK q \in Nat : q = Len(out) /\ \A k \in 1 .. q : out[k].to \in Int
  <2>1. PICK q \in Nat : q = Len(out) /\ \A k \in 1 .. q : out[k] \in Stroke
    BY DEF Alternating
  <2> QED BY <2>1 DEF Stroke
<1>3. PICK k \in Wrong : \A w \in Wrong : k <= w
  <2>1. Wrong \in SUBSET Nat
    OBVIOUS
  <2> HIDE DEF Wrong
  <2> QED BY <1>1, <2>1, LeastNumber
<1>4. k \in 1 .. q /\ i < k /\ ~(out[i].to < out[k].to)
  BY <1>2, <1>3
<1>5. PICK p \in 1 .. q : p = k - 1 /\ p + 1 = k /\ p \in 1 .. q - 1 /\ ~(k <= p) /\ i <= p
  BY <1>2, <1>4
<1>6. out[p].to < out[k].to
  BY <1>2, <1>5 DEF Alternating
<1>7. p = i \/ out[i].to < out[p].to
  <2>1. p \notin Wrong
    <3> HIDE DEF Wrong
    <3> QED BY <1>3, <1>5
  <2>2. p # i => p \in 1 .. Len(out) /\ i < p
    BY <1>2, <1>5
  <2> QED BY <2>1, <2>2
<1>8. out[i].to \in Int /\ out[p].to \in Int /\ out[k].to \in Int
  BY <1>2, <1>4, <1>5
<1> QED
  BY <1>4, <1>6, <1>7, <1>8

\* Between two strokes of one direction there is one of the other.
LEMMA StrokeBetween ==
    ASSUME NEW out, Alternating(out), NEW s \in ToSet(out), NEW t \in ToSet(out),
           s.dir = t.dir, s.to < t.to
    PROVE  \E u \in ToSet(out) : /\ s.to < u.to /\ u.to < t.to
                                 /\ u.dir = IF t.dir = "up" THEN "down" ELSE "up"
<1>1. PICK q \in Nat : q = Len(out) /\ out \in Seq(Stroke) /\ DOMAIN out = 1 .. q
  BY DEF Alternating
<1>2. \A k \in 1 .. q : out[k] \in Stroke /\ out[k] \in ToSet(out)
  BY <1>1 DEF ToSet
<1>3. PICK i \in 1 .. q, j \in 1 .. q : s = out[i] /\ t = out[j]
  BY <1>1 DEF ToSet
<1>4. \A k \in 1 .. q : out[k].to \in Int /\ out[k].dir \in {"up", "down"}
  BY <1>2 DEF Stroke
<1>5. i < j
  <2>1. j < i => t.to < s.to
    BY <1>1, <1>3, StrokesRise
  <2>2. i # j
    BY <1>3, <1>4
  <2>3. ~(t.to < s.to)
    BY <1>3, <1>4
  <2> QED BY <2>1, <2>2, <2>3
<1>6. PICK k \in 1 .. q : k = i + 1 /\ i < k /\ i \in 1 .. q - 1
  BY <1>1, <1>5
<1>7. out[i].to < out[k].to /\ out[i].dir # out[k].dir
  BY <1>1, <1>6 DEF Alternating
<1>8. k # j
  BY <1>3, <1>7
<1>9. k < j
  BY <1>5, <1>6, <1>8
<1>10. out[k].to < out[j].to
  BY <1>1, <1>9, StrokesRise
<1>11. out[k].dir = IF t.dir = "up" THEN "down" ELSE "up"
  BY <1>3, <1>4, <1>7
<1> QED
  BY <1>2, <1>3, <1>7, <1>10, <1>11

\* A longer history is merged by settling its last bar.
LEMMA MergedNext ==
    ASSUME NEW bs, NEW longer, NEW n \in Nat, Extends(longer, bs, n)
    PROVE  MergeInclusions(longer) = Settle(MergeInclusions(bs), Ranges(longer)[n + 1])
<1>1. PICK f : Runs("merged", Ranges(bs), <<>>, n, f) /\ MergeInclusions(bs) = f[n]
  BY MergedIs DEF Extends
<1>2. PICK m \in Nat : m = n + 1
  OBVIOUS
<1>3. PICK g : Runs("merged", Ranges(longer), <<>>, m, g) /\ MergeInclusions(longer) = g[m]
  BY <1>2, MergedIs DEF Extends
<1>4. \A j \in 1 .. n : Ranges(longer)[j] = Ranges(bs)[j]
  <2>1. \A j \in 1 .. n : j \in DOMAIN bs /\ j \in DOMAIN longer /\ longer[j] = bs[j]
    BY DEF Extends
  <2> QED BY <2>1 DEF Ranges
<1>5. g[n] = f[n]
  <2>1. n <= m /\ n \in 0 .. n
    BY <1>2
  <2>2. SameSteps("merged", Ranges(bs), Ranges(longer), n, f)
    BY <1>4 DEF SameSteps, Step
  <2> QED BY <1>1, <1>3, <2>1, <2>2, RunsAgree
<1>6. g[m] = Settle(g[n], Ranges(longer)[m])
  <2>1. m \in 0 .. m /\ m # 0 /\ m - 1 = n
    BY <1>2
  <2> QED BY <1>3, <2>1 DEF Runs, Step
<1> QED
  BY <1>1, <1>2, <1>3, <1>5, <1>6

\* Any bars are merged to bars that go up or down.
LEMMA MergedIsStepwise ==
    ASSUME NEW bs, NEW n \in Nat, DOMAIN bs = 1 .. n, \A i \in 1 .. n : Ranges(bs)[i] \in Tips
    PROVE  Stepwise(MergeInclusions(bs))
<1>1. PICK f : Runs("merged", Ranges(bs), <<>>, n, f) /\ MergeInclusions(bs) = f[n]
  BY MergedIs
<1> DEFINE Good == {g \in (0 .. n) \X Seq(Tips) : Stepwise(g[2])}
<1>2. \A j \in 0 .. n : \A v : <<j, v>> \in Good <=> Stepwise(v)
  BY DEF Stepwise
<1> HIDE DEF Good
<1>3. <<0, <<>>>> \in Good
  <2>1. Stepwise(<<>>) /\ 0 \in 0 .. n
    BY DEF Stepwise
  <2> QED BY <1>2, <2>1
<1>4. Keeps("merged", Ranges(bs), n, Good)
  <2> SUFFICES ASSUME NEW j \in 1 .. n, NEW v, <<j - 1, v>> \in Good
               PROVE  <<j, Step("merged", Ranges(bs), j, v)>> \in Good
    BY DEF Keeps
  <2>1. j - 1 \in 0 .. n /\ j \in 0 .. n
    OBVIOUS
  <2>2. Stepwise(v)
    BY <1>2, <2>1
  <2>3. Stepwise(Settle(v, Ranges(bs)[j]))
    BY <2>2, SettleFollows
  <2>4. Step("merged", Ranges(bs), j, v) = Settle(v, Ranges(bs)[j])
    BY DEF Step
  <2> QED BY <1>2, <2>1, <2>3, <2>4
<1>5. \A j \in 0 .. n : <<j, f[j]>> \in Good
  BY <1>1, <1>3, <1>4, RunsKeep
<1>6. n \in 0 .. n
  OBVIOUS
<1> QED
  BY <1>1, <1>2, <1>5, <1>6

\* Their fractals are in the order of their places, and the last merged bar is none.
LEMMA FractalsAreListed ==
    ASSUME NEW m, Stepwise(m)
    PROVE  \E n \in Nat : /\ FractalList(Fractals(m), n) /\ DOMAIN Fractals(m) = 1 .. n
                          /\ \A k \in 1 .. n : Fractals(m)[k].at <= Len(m) - 1
<1> DEFINE raw == RawFractals(m)
           at == Ascending(Places(m))
<1>1. Fractals(m) = raw
  BY NothingCollapses
<1>2. PICK n \in Nat : /\ DOMAIN raw = 1 .. n
                       /\ \A k \in 1 .. n : raw[k] \in [at : Int, kind : {"top", "bottom"}]
                       /\ \A j, k \in 1 .. n : j < k => raw[j].at < raw[k].at
  BY RawAlternates
<1>3. /\ Len(at) \in Nat /\ raw = [k \in 1 .. Len(at) |-> Fractal(m, at[k])]
      /\ \A k \in 1 .. Len(at) : at[k] \in Places(m)
  BY RawFacts
<1>4. \A i \in Places(m) : Fractal(m, i).at <= Len(m) - 1
  <2>1. Len(m) \in Nat
    BY DEF Stepwise
  <2> QED BY <2>1 DEF Places, Fractal
<1> HIDE DEF raw, at
<1>5. \A k \in 1 .. n : raw[k].at <= Len(m) - 1
  <2>1. \A k \in 1 .. n : k \in 1 .. Len(at)
    <3>1. DOMAIN raw = 1 .. Len(at)
      BY <1>3
    <3> QED BY <1>2, <3>1
  <2> QED BY <1>3, <1>4, <2>1
<1>6. FractalList(raw, n)
  BY <1>2 DEF FractalList
<1> QED
  BY <1>1, <1>2, <1>5, <1>6

\* So their strokes go up and down in turn, and end before the last merged bar.
LEMMA StrokesEnd ==
    ASSUME NEW m, Stepwise(m)
    PROVE  /\ Alternating(Strokes(Fractals(m)))
           /\ \A s \in ToSet(Strokes(Fractals(m))) : s.to \in Int /\ s.to <= Len(m) - 1
<1>1. PICK fr : fr = Fractals(m)
  OBVIOUS
<1>2. PICK n \in Nat : FractalList(fr, n) /\ \A k \in 1 .. n : fr[k].at <= Len(m) - 1
  BY <1>1, FractalsAreListed
<1>3. PICK f : Runs("strokes", fr, NoStroke, n, f) /\ Strokes(fr) = f[n].out
  BY <1>2, StrokesAre DEF FractalList
<1>4. StrokesUpTo(fr, n, f[n])
  BY <1>2, <1>3, StrokesAlternate
<1>5. PICK v : v = f[n]
  OBVIOUS
<1>6. PICK out : out = v.out /\ Alternating(out)
  BY <1>4, <1>5 DEF StrokesUpTo
<1>7. PICK q \in Nat : /\ q = Len(out) /\ DOMAIN out = 1 .. q
                       /\ \A k \in 1 .. q : out[k].to \in Int
  <2>1. PICK q \in Nat : q = Len(out) /\ DOMAIN out = 1 .. q /\ \A k \in 1 .. q : out[k] \in Stroke
    BY <1>6 DEF Alternating
  <2> QED BY <2>1 DEF Stroke
<1>8. Len(m) \in Nat
  BY DEF Stepwise
<1>9. q # 0 => out[q].to <= Len(m) - 1
  <2> SUFFICES ASSUME q # 0 PROVE out[q].to <= Len(m) - 1
    OBVIOUS
  <2>1. v.prev # <<>> /\ out[q].to <= v.prev[1].at
    BY <1>4, <1>5, <1>6, <1>7 DEF StrokesUpTo
  <2>2. PICK k \in 1 .. n : v.prev = <<fr[k]>>
    BY <1>4, <1>5, <2>1 DEF StrokesUpTo
  <2>3. out[q].to <= fr[k].at /\ fr[k].at <= Len(m) - 1
    BY <1>2, <2>1, <2>2
  <2>4. fr[k].at \in Int /\ out[q].to \in Int
    BY <1>2, <1>7 DEF FractalList
  <2> QED BY <1>8, <2>3, <2>4
<1>10. \A i \in 1 .. q : out[i].to <= Len(m) - 1
  <2> SUFFICES ASSUME NEW i \in 1 .. q PROVE out[i].to <= Len(m) - 1
    OBVIOUS
  <2>1. q \in 1 .. q /\ q # 0 /\ (i = q \/ i < q)
    OBVIOUS
  <2>2. i = q \/ out[i].to < out[q].to
    BY <1>6, <1>7, <2>1, StrokesRise
  <2> QED BY <1>7, <1>8, <1>9, <2>1, <2>2
<1>11. \A s \in ToSet(out) : s.to \in Int /\ s.to <= Len(m) - 1
  BY <1>7, <1>10 DEF ToSet
<1> QED
  BY <1>1, <1>3, <1>5, <1>6, <1>11

\* The chart of a history that goes on.
LEMMA ChartFollows ==
    ASSUME NEW m, Stepwise(m), NEW next, Stepwise(next), Follows(next, m)
    PROVE  /\ \E n \in Nat : Prolongs(Fractals(next), Fractals(m), n)
           /\ \E k \in Nat : Prolongs(Strokes(Fractals(next)), Strokes(Fractals(m)), k)
<1>1. PICK n \in Nat : FractalList(Fractals(m), n) /\ DOMAIN Fractals(m) = 1 .. n
  BY FractalsAreListed
<1>2. PICK k \in Nat : FractalList(Fractals(next), k) /\ DOMAIN Fractals(next) = 1 .. k
  BY FractalsAreListed
<1>3. PICK e \in Nat : Prolongs(Fractals(next), Fractals(m), e)
  BY FractalsFollow
<1>4. e = n
  <2>1. DOMAIN Fractals(m) = 1 .. e
    BY <1>3 DEF Prolongs
  <2> QED BY <1>1, <2>1
<1>5. \E i \in Nat : Prolongs(Strokes(Fractals(next)), Strokes(Fractals(m)), i)
  BY <1>1, <1>2, <1>3, <1>4, StrokesFollow
<1> QED
  BY <1>3, <1>5

----------------------------------------------------------------------------
(* The values the band strategy compares are numbers                       *)

\* The four prices of a bar.
Priced(b) == b.o \in Int /\ b.h \in Int /\ b.l \in Int /\ b.c \in Int

\* A bar of the history has its four prices.
LEMMA DayBarsArePriced ==
    ASSUME NEW b \in DayBars
    PROVE  Priced(b)
<1>1. PICK bar \in Bars["band"], d \in Nat : b = [bar EXCEPT !.day = d]
  BY DEF DayBars
<1>2. bar.o \in Int /\ bar.h \in Int /\ bar.l \in Int /\ bar.c \in Int
  BY ReplayAssumption
<1>3. b.o = bar.o /\ b.h = bar.h /\ b.l = bar.l /\ b.c = bar.c
  BY <1>1, ReplayAssumption
<1> QED
  BY <1>2, <1>3 DEF Priced

\* The greatest and the least of some numbers.
LEMMA ExtremesExist ==
    ASSUME NEW S \in SUBSET Int, IsFiniteSet(S), S # {}
    PROVE  Max(S) \in S /\ Min(S) \in S
<1> DEFINE s == Ascending(S)
<1>1. s \in Seq(S) /\ Ordered(s) /\ ToSet(s) = S
  BY AscendingFacts
<1> HIDE DEF s
<1>2. /\ Len(s) \in Nat /\ DOMAIN s = 1 .. Len(s) /\ \A k \in 1 .. Len(s) : s[k] \in S
      /\ \A x \in S : \E k \in 1 .. Len(s) : s[k] = x
  <2>1. Len(s) \in Nat /\ DOMAIN s = 1 .. Len(s) /\ \A k \in 1 .. Len(s) : s[k] \in S
    BY <1>1
  <2> QED BY <1>1, <2>1 DEF ToSet
<1> DEFINE n == Len(s)
<1>3. n \in Nat \ {0}
  <2>1. PICK x \in S : TRUE
    OBVIOUS
  <2>2. PICK k \in 1 .. Len(s) : s[k] = x
    BY <1>2
  <2> QED BY <1>2, <2>2
<1> HIDE DEF n
<1>31. \A i, j \in 1 .. n : i < j => s[i] < s[j]
  BY <1>1, <1>2 DEF Ordered, n
<1>4. \A k \in 1 .. n : /\ s[k] \in Int /\ s[1] \in Int /\ s[n] \in Int
                        /\ s[1] <= s[k] /\ s[k] <= s[n]
  <2> SUFFICES ASSUME NEW k \in 1 .. n
               PROVE  /\ s[k] \in Int /\ s[1] \in Int /\ s[n] \in Int
                      /\ s[1] <= s[k] /\ s[k] <= s[n]
    OBVIOUS
  <2>1. 1 \in 1 .. n /\ n \in 1 .. n
    BY <1>3
  <2>2. s[k] \in Int /\ s[1] \in Int /\ s[n] \in Int
    BY <1>2, <2>1 DEF n
  <2>3. (k = 1 \/ s[1] < s[k]) /\ (k = n \/ s[k] < s[n])
    <3>1. (k = 1 \/ 1 < k) /\ (k = n \/ k < n)
      BY <1>3
    <3> QED BY <1>31, <2>1, <3>1
  <2> QED BY <2>2, <2>3
<1>5. s[1] \in S /\ s[n] \in S
  BY <1>2, <1>3 DEF n
<1>6. \A x \in S : s[1] <= x /\ x <= s[n] /\ s[n] >= x
  <2>1. \A x \in S : \E k \in 1 .. n : s[k] = x
    BY <1>2 DEF n
  <2> QED BY <1>4, <2>1
<1>7. /\ \E x \in S : \A y \in S : x >= y
      /\ \E x \in S : \A y \in S : x <= y
  BY <1>5, <1>6
<1> QED
  BY <1>7 DEF Max, Min

\* Some bars of a history, at least one, have an aggregate.
LEMMA AggregateIsPriced ==
    ASSUME NEW s \in Seq(DayBars), Len(s) # 0
    PROVE  Priced(Aggregate(s)) /\ HaClose(Aggregate(s)) \in Int
<1>1. /\ Len(s) \in Nat \ {0} /\ DOMAIN s = 1 .. Len(s)
      /\ Head(s) = s[1] /\ Last(s) = s[Len(s)]
  BY DEF Last
<1>2. \A i \in 1 .. Len(s) : Priced(s[i])
  BY <1>1, DayBarsArePriced
<1> DEFINE H == {b.h : b \in ToSet(s)}
           L == {b.l : b \in ToSet(s)}
<1>3. IsFiniteSet(ToSet(s)) /\ s[1] \in ToSet(s) /\ \A b \in ToSet(s) : Priced(b)
  <2>1. IsFiniteSet(ToSet(s))
    BY ToSetIsFinite
  <2>2. 1 \in 1 .. Len(s)
    BY <1>1
  <2> QED BY <1>1, <1>2, <2>1, <2>2 DEF ToSet
<1>4. H \in SUBSET Int /\ L \in SUBSET Int /\ H # {} /\ L # {}
  BY <1>3 DEF Priced
<1>5. IsFiniteSet(H) /\ IsFiniteSet(L)
  <2> DEFINE f == [b \in ToSet(s) |-> b.h]
             g == [b \in ToSet(s) |-> b.l]
  <2>1. f \in Surjection(ToSet(s), H) /\ g \in Surjection(ToSet(s), L)
    BY DEF Surjection
  <2> HIDE DEF f, g, H, L
  <2> QED BY <1>3, <2>1, FS_Surjection
<1>6. Max(H) \in Int /\ Min(L) \in Int
  <2> HIDE DEF H, L
  <2> QED BY <1>4, <1>5, ExtremesExist
<1>7. Aggregate(s) = [o |-> s[1].o, h |-> Max(H), l |-> Min(L), c |-> s[Len(s)].c]
  BY <1>1 DEF Aggregate
<1> HIDE DEF H, L
<1>8. 1 \in 1 .. Len(s) /\ Len(s) \in 1 .. Len(s)
  BY <1>1
<1>9. Priced(Aggregate(s))
  BY <1>2, <1>6, <1>7, <1>8 DEF Priced
<1>10. \A a, b, c, d \in Int : (a + b + c + d) \div 4 \in Int
  OBVIOUS
<1> QED
  BY <1>9, <1>10 DEF Priced, HaClose

\* Places of a history.
LEMMA ElementsAtFacts ==
    ASSUME NEW bs \in Seq(DayBars), NEW Z \in SUBSET DOMAIN bs, Z # {}
    PROVE  ElementsAt(bs, Z) \in Seq(DayBars) /\ Len(ElementsAt(bs, Z)) # 0
<1>1. Len(bs) \in Nat /\ DOMAIN bs = 1 .. Len(bs) /\ \A i \in DOMAIN bs : bs[i] \in DayBars
  OBVIOUS
<1>2. Z \in SUBSET Int /\ IsFiniteSet(Z)
  <2>1. IsFiniteSet(1 .. Len(bs))
    BY <1>1, FS_Interval
  <2> QED BY <1>1, <2>1, FS_Subset
<1> DEFINE at == Ascending(Z)
<1>3. at \in Seq(Z) /\ ToSet(at) = Z
  BY <1>2, AscendingFacts
<1> HIDE DEF at
<1>4. Len(at) \in Nat /\ DOMAIN at = 1 .. Len(at) /\ \A k \in DOMAIN at : at[k] \in Z
  BY <1>3
<1>5. Len(at) # 0
  <2>1. DOMAIN at # {}
    BY <1>3 DEF ToSet
  <2> QED BY <1>4, <2>1
<1>6. ElementsAt(bs, Z) = [k \in 1 .. Len(at) |-> bs[at[k]]]
  BY <1>4 DEF ElementsAt, at
<1>7. ElementsAt(bs, Z) \in [1 .. Len(at) -> DayBars]
  BY <1>1, <1>4, <1>6
<1> HIDE DEF at
<1>8. PICK n \in Nat \ {0} : n = Len(at)
  BY <1>4, <1>5
<1>9. ElementsAt(bs, Z) \in [1 .. n -> DayBars]
  BY <1>7, <1>8
<1> QED
  BY <1>9

\* The HA opens of priced bars.
LEMMA OpensAreInt ==
    ASSUME NEW first \in Int, NEW closes, NEW n \in Nat, \A i \in 1 .. n : closes[i] \in Int,
           NEW open, Opens(first, closes, n, open)
    PROVE  \A i \in 1 .. n : open[i] \in Int
<1> DEFINE Wrong == {i \in 1 .. n : open[i] \notin Int}
<1>1. SUFFICES ASSUME Wrong # {} PROVE FALSE
  OBVIOUS
<1>2. PICK i \in Wrong : \A k \in Wrong : i <= k
  <2>1. Wrong \in SUBSET Nat
    OBVIOUS
  <2> HIDE DEF Wrong
  <2> QED BY <1>1, <2>1, LeastNumber
<1>3. i \in 1 .. n /\ open[i] \notin Int
  BY <1>2
<1>4. i # 1 => i - 1 \in 1 .. n /\ i - 1 \notin Wrong
  <2>1. i # 1 => i - 1 \in 1 .. n /\ ~(i <= i - 1)
    BY <1>3
  <2> HIDE DEF Wrong
  <2> QED BY <1>2, <2>1
<1>5. i # 1 => open[i - 1] \in Int /\ closes[i - 1] \in Int
  BY <1>4
<1>6. open[i] = IF i = 1 THEN first ELSE (open[i - 1] + closes[i - 1]) \div 2
  BY <1>3 DEF Opens
<1>7. \A a, b \in Int : (a + b) \div 2 \in Int
  OBVIOUS
<1> HIDE DEF Wrong
<1> QED
  BY <1>3, <1>5, <1>6, <1>7

\* So a month open is a number, if there is one,
LEMMA MonthOpenIsInt ==
    ASSUME NEW bs \in Seq(DayBars), MonthOpenBacktest(bs) # None
    PROVE  MonthOpenBacktest(bs) \in Int
<1>1. MonthOpenBacktest(bs) = LastMonthHa(bs).open /\ ~(Len(bs) < 2) /\ Len(bs) \in Nat
  BY DEF MonthOpenBacktest
<1>2. PICK n \in Nat \ {0} :
         /\ Len(Months(bs)) = n /\ DOMAIN Months(bs) = 1 .. n
         /\ \A k \in 1 .. n : Months(bs)[k] \in MonthSet(bs)
  BY <1>1, MonthsFacts
<1>3. ASSUME NEW k \in 1 .. n
      PROVE  Priced(MonthRow(bs, Months(bs)[k])) /\ HaClose(MonthRow(bs, Months(bs)[k])) \in Int
  <2> DEFINE m == Months(bs)[k]
             Z == {i \in DOMAIN bs : m <= MonthOf(bs[i].day) /\ MonthOf(bs[i].day) <= m}
  <2>1. m \in MonthSet(bs) /\ MonthSet(bs) \in SUBSET Int
    BY <1>2, MonthSetFacts
  <2>2. PICK i \in DOMAIN bs : MonthOf(bs[i].day) = m
    <3>1. PICK b \in ToSet(bs) : MonthOf(b.day) = m
      BY <2>1 DEF MonthSet
    <3> QED BY <3>1 DEF ToSet
  <2>3. i \in Z
    BY <2>1, <2>2
  <2>4. MonthRow(bs, m) = Aggregate(ElementsAt(bs, Z))
    BY DEF MonthRow, InMonths
  <2>5. Z \in SUBSET DOMAIN bs /\ Z # {}
    BY <2>3
  <2> HIDE DEF Z
  <2>6. ElementsAt(bs, Z) \in Seq(DayBars) /\ Len(ElementsAt(bs, Z)) # 0
    BY <2>5, ElementsAtFacts
  <2> QED BY <2>4, <2>6, AggregateIsPriced
<1> DEFINE f == Seed(MonthRow(bs, Months(bs)[1]))
           cs == MonthCloses(bs)
<1>4. f \in Int
  <2>1. \A a, b \in Int : (a + b) \div 2 \in Int
    OBVIOUS
  <2>2. 1 \in 1 .. n
    OBVIOUS
  <2> QED BY <1>3, <2>1, <2>2 DEF Seed, Priced
<1>5. cs = [k \in 1 .. n |-> HaClose(MonthRow(bs, Months(bs)[k]))]
  BY <1>2 DEF MonthCloses
<1> HIDE DEF f, cs
<1>6. Len(cs) = n /\ \A k \in 1 .. n : cs[k] \in Int
  <2>1. cs = [k \in 1 .. n |-> cs[k]]
    BY <1>5
  <2>2. Len(cs) = n
    BY <2>1, LengthOf
  <2> QED BY <1>3, <1>5, <2>2
<1>7. PICK open : Opens(f, cs, n, open) /\ HaOpen(f, cs) = open[n]
  BY <1>6, HaOpenIs
<1>8. open[n] \in Int
  BY <1>4, <1>6, <1>7, OpensAreInt
<1>9. LastMonthHa(bs).open = HaOpen(f, cs)
  BY <1>2, LastMonthHaIs DEF f, cs
<1> QED
  BY <1>1, <1>7, <1>8, <1>9

\* and so is a weekly close.
LEMMA WeekCloseIsInt ==
    ASSUME NEW bs \in Seq(DayBars), WeekCloseBacktest(bs) # None
    PROVE  WeekCloseBacktest(bs) \in Int
<1> DEFINE week == WeekOf(Last(bs).day)
           Z == {i \in DOMAIN bs : WeekOf(bs[i].day) = week}
<1>1. bs # <<>> /\ WeekCloseBacktest(bs) = HaClose(Aggregate(ElementsAt(bs, Z)))
  BY DEF WeekCloseBacktest, InWeek
<1>2. Len(bs) \in Nat \ {0} /\ DOMAIN bs = 1 .. Len(bs) /\ Last(bs) = bs[Len(bs)]
  BY <1>1 DEF Last
<1>3. Len(bs) \in Z
  BY <1>2
<1>4. Z \in SUBSET DOMAIN bs /\ Z # {}
  BY <1>3
<1> HIDE DEF Z
<1>5. ElementsAt(bs, Z) \in Seq(DayBars) /\ Len(ElementsAt(bs, Z)) # 0
  BY <1>4, ElementsAtFacts
<1> QED
  BY <1>1, <1>5, AggregateIsPriced

\* The band strategy never says the same on two sessions in a row: what it has
\* crossed to say it is where it starts from on the next one, if it still sees it
\* so.
LEMMA BandSignalsAlternate ==
    ASSUME NEW bs \in Seq(DayBars), NEW next,
           WeekCloseBacktest(Front(next)) = WeekCloseBacktest(bs),
           MonthOpenBacktest(Front(next)) = MonthOpenBacktest(bs),
           BandSignal(bs) # None, BandSignal(next) # None
    PROVE  BandSignal(next) # BandSignal(bs)
<1> DEFINE v == WeekCloseBacktest(Front(bs))
           a == MonthOpenBacktest(Front(bs))
           w == WeekCloseBacktest(bs)
           b == MonthOpenBacktest(bs)
           x == WeekCloseBacktest(next)
           c == MonthOpenBacktest(next)
<1>1. BandSignal(bs) = Cross(v, a, w, b) /\ BandSignal(next) = Cross(w, b, x, c)
  BY DEF BandSignal
<1>2. w # None /\ b # None
  <2>1. None \notin ToSet(<<v, a, w, b>>)
    BY DEF BandSignal
  <2>2. w \in ToSet(<<v, a, w, b>>) /\ b \in ToSet(<<v, a, w, b>>)
    <3> HIDE DEF v, a, w, b
    <3> QED BY DEF ToSet
  <2> QED BY <2>1, <2>2
<1>3. w \in Int /\ b \in Int
  BY <1>2, WeekCloseIsInt, MonthOpenIsInt
<1> HIDE DEF v, a, w, b, x, c
<1> DEFINE d == Delta(b)
<1>4. d \in Int
  <2>1. BandPct \in Nat /\ BandAbs \in Nat
    BY HaBandAssumption
  <2>2. b * BandPct \in Int
    BY <1>3, <2>1
  <2>3. \A y \in Int : y \div 100 \in Int
    OBVIOUS
  <2> QED BY <2>1, <2>2, <2>3 DEF Delta
<1>5. /\ Cross(v, a, w, b) # None => \/ Cross(v, a, w, b) = "buy" /\ w > b + d
                                     \/ Cross(v, a, w, b) = "sell" /\ w < b - d
      /\ Cross(w, b, x, c) # None => \/ Cross(w, b, x, c) = "buy" /\ w <= b + d
                                     \/ Cross(w, b, x, c) = "sell" /\ w >= b - d
  BY DEF Cross
<1> HIDE DEF d
<1>6. ~(w > b + d /\ w <= b + d) /\ ~(w < b - d /\ w >= b - d)
  BY <1>3, <1>4
<1> QED
  BY <1>1, <1>5, <1>6

\* The bars of any strategy, and a new one.
LEMMA SessionExtends ==
    ASSUME NEW bs, NEW B, bs \in Seq(B), NEW x, NEW next, next = Append(bs, x)
    PROVE  /\ \E C : next \in Seq(C)
           /\ Len(bs) \in Nat /\ Extends(next, bs, Len(bs)) /\ Front(next) = bs
<1> DEFINE C == B \cup {x}
           n == Len(bs)
<1>1. bs \in Seq(C) /\ x \in C
  OBVIOUS
<1> HIDE DEF C
<1>2. /\ next \in Seq(C) /\ n \in Nat /\ Len(next) = n + 1 /\ DOMAIN bs = 1 .. n
      /\ DOMAIN next = 1 .. n + 1 /\ \A i \in 1 .. n : next[i] = bs[i]
  BY <1>1
<1>3. Front(next) = bs
  <2>1. SubSeq(next, 1, n) = [i \in 1 .. n |-> next[i]]
    <3>1. n <= n + 1
      BY <1>2
    <3> QED BY <1>2, <3>1
  <2>2. bs = [i \in 1 .. n |-> bs[i]]
    BY <1>1, <1>2
  <2>3. Front(next) = SubSeq(next, 1, n)
    BY <1>2 DEF Front
  <2> QED BY <1>2, <2>1, <2>2, <2>3
<1> QED
  BY <1>2, <1>3 DEF Extends

\* One history is a prefix of another if they agree on its length.
LEMMA PrefixOf ==
    ASSUME NEW s, NEW t, NEW n \in Nat, NEW m \in Nat, n <= m,
           s = [i \in 1 .. n |-> s[i]], t = [i \in 1 .. m |-> t[i]],
           \A i \in 1 .. n : t[i] = s[i]
    PROVE  IsPrefix(s, t)
<1>1. Len(s) = n /\ Len(t) = m
  BY LengthOf
<1> DEFINE V == {s[i] : i \in 1 .. n} \cup {t[i] : i \in 1 .. m}
<1>2. s \in [1 .. n -> V] /\ t \in [1 .. m -> V]
  OBVIOUS
<1> HIDE DEF V
<1>3. s \in Seq(V) /\ t \in Seq(V)
  BY <1>2
<1>4. SubSeq(s, 1, n) = [i \in 1 .. n |-> s[i]]
  BY <1>1, <1>3
<1>5. SubSeq(t, 1, n) = [i \in 1 .. n |-> t[i]]
  BY <1>1, <1>3
<1>6. SubSeq(s, 1, n) = SubSeq(t, 1, n)
  BY <1>4, <1>5
<1> QED
  BY <1>1, <1>6 DEF IsPrefix

----------------------------------------------------------------------------
(* What is seen of a history: its last bars                                *)

\* A strategy asks for two bars or more.
LEMMA LimitIs == Limit \in Nat \ {0, 1}
BY HaBandAssumption, ChanAssumption, TrendAssumption DEF Limit

\* The window ends at the last bar and leaves out the first ones, if there are more
\* bars than the strategy asks for.
LeftOut(bs) == IF Len(bs) <= Limit THEN 0 ELSE Len(bs) - Limit

LEMMA SeenIs ==
    ASSUME NEW C, NEW bs \in Seq(C)
    PROVE  /\ LeftOut(bs) \in Nat
           /\ Seen(bs) \in Seq(C) /\ Len(Seen(bs)) = Len(bs) - LeftOut(bs)
           /\ \A i \in 1 .. Len(bs) - LeftOut(bs) : Seen(bs)[i] = bs[i + LeftOut(bs)]
<1>1. PICK n \in Nat : n = Len(bs) /\ DOMAIN bs = 1 .. n
  OBVIOUS
<1>2. PICK e \in Nat \ {0, 1} : e = Limit
  BY LimitIs
<1>3. PICK z \in Int : z = n - e + 1
  OBVIOUS
<1>4. PICK b \in Int : b = Max({1, z}) /\ b \in {1, z} /\ b >= 1 /\ b >= z
  <2>1. \A x, y \in Int : Max({x, y}) \in {x, y} /\ Max({x, y}) >= x /\ Max({x, y}) >= y
    BY MinOfTwo
  <2>2. 1 \in Int
    OBVIOUS
  <2>3. Max({1, z}) \in {1, z} /\ Max({1, z}) >= 1 /\ Max({1, z}) >= z
    BY <1>3, <2>1, <2>2, Zenon
  <2> QED BY <1>3, <2>3
<1>5. Seen(bs) = SubSeq(bs, b, n)
  BY <1>1, <1>2, <1>3, <1>4 DEF Seen
<1>6. PICK d \in Nat : d = LeftOut(bs) /\ b = d + 1 /\ d <= n
  <2>1. n <= e => b = 1
    BY <1>3, <1>4
  <2>2. ~(n <= e) => b = n - e + 1
    BY <1>3, <1>4
  <2>3. LeftOut(bs) = IF n <= e THEN 0 ELSE n - e
    BY <1>1, <1>2 DEF LeftOut
  <2>4. CASE n <= e
    BY <2>1, <2>3, <2>4
  <2>5. CASE ~(n <= e)
    <3>1. n - e \in Nat /\ n - e <= n /\ b = (n - e) + 1
      BY <2>2, <2>5
    <3> QED BY <2>3, <2>5, <3>1
  <2> QED BY <2>4, <2>5
<1>7. PICK k \in Nat : k = n - d /\ (b <= n \/ k = 0)
  BY <1>6
<1>8. /\ SubSeq(bs, b, n) \in Seq(C)
      /\ Len(SubSeq(bs, b, n)) = IF b <= n THEN n - b + 1 ELSE 0
      /\ \A i \in 1 .. n - b + 1 : SubSeq(bs, b, n)[i] = bs[b + i - 1]
  <2>1. \A i \in b .. n : bs[i] \in C
    BY <1>1, <1>4
  <2> QED BY <1>1, <2>1, SubSeqProperties
<1>9. n - b + 1 = k
  BY <1>6, <1>7
<1>10. \A i \in 1 .. k : b + i - 1 = i + d
  BY <1>6
<1>11. Len(SubSeq(bs, b, n)) = k
  BY <1>7, <1>8, <1>9
<1>12. \A i \in 1 .. k : SubSeq(bs, b, n)[i] = bs[i + d]
  BY <1>8, <1>9, <1>10
<1> QED
  BY <1>1, <1>5, <1>6, <1>7, <1>8, <1>11, <1>12

\* With a new bar the window grows, or moves on by one bar.
Grows(bs, next) ==
    Len(next) <= Limit /\ Len(bs) <= Limit /\ Seen(bs) = bs /\ Seen(next) = next
Moves(bs, next) ==
    /\ ~(Len(next) <= Limit) /\ Len(Seen(next)) = Limit /\ Len(Seen(bs)) = Limit
    /\ Shifted(Seen(next), Seen(bs), Limit - 1, 1)

LEMMA WindowMoves ==
    ASSUME NEW C, NEW bs \in Seq(C), NEW x \in C, NEW next, next = Append(bs, x)
    PROVE  /\ Seen(bs) \in Seq(C) /\ Seen(next) \in Seq(C)
           /\ Len(next) = Len(bs) + 1 /\ next \in Seq(C)
           /\ Grows(bs, next) \/ Moves(bs, next)
<1>1. PICK n \in Nat : n = Len(bs) /\ DOMAIN bs = 1 .. n
  OBVIOUS
<1>2. PICK m \in Nat : m = n + 1
  OBVIOUS
<1>3. /\ next \in Seq(C) /\ Len(next) = m /\ DOMAIN next = 1 .. m
      /\ \A i \in 1 .. n : next[i] = bs[i]
  BY <1>1, <1>2
<1>4. PICK e \in Nat \ {0, 1} : e = Limit
  BY LimitIs
<1>5. PICK d : /\ d = (IF n <= e THEN 0 ELSE n - e) /\ d \in Nat
               /\ Seen(bs) \in Seq(C) /\ Len(Seen(bs)) = n - d
               /\ \A i \in 1 .. n - d : Seen(bs)[i] = bs[i + d]
  <2>1. LeftOut(bs) = IF n <= e THEN 0 ELSE n - e
    BY <1>1, <1>4 DEF LeftOut
  <2> QED BY <1>1, <2>1, SeenIs
<1>6. PICK q : /\ q = (IF m <= e THEN 0 ELSE m - e) /\ q \in Nat
               /\ Seen(next) \in Seq(C) /\ Len(Seen(next)) = m - q
               /\ \A i \in 1 .. m - q : Seen(next)[i] = next[i + q]
  <2>1. LeftOut(next) = IF m <= e THEN 0 ELSE m - e
    BY <1>3, <1>4 DEF LeftOut
  <2>2. PICK s \in Seq(C) : s = next
    BY <1>3
  <2>3. /\ LeftOut(s) \in Nat
        /\ Seen(s) \in Seq(C) /\ Len(Seen(s)) = Len(s) - LeftOut(s)
        /\ \A i \in 1 .. Len(s) - LeftOut(s) : Seen(s)[i] = s[i + LeftOut(s)]
    BY SeenIs
  <2> QED BY <1>3, <2>1, <2>2, <2>3
<1>7. ASSUME m <= e PROVE n <= e /\ Seen(bs) = bs /\ Seen(next) = next
  <2>1. n <= e
    BY <1>2, <1>7
  <2>2. d = 0 /\ q = 0
    BY <1>5, <1>6, <1>7, <2>1
  <2>3. Len(Seen(bs)) = n /\ \A i \in 1 .. n : Seen(bs)[i] = bs[i]
    <3>1. n - d = n /\ \A i \in 1 .. n : i + d = i
      BY <2>2
    <3> QED BY <1>5, <3>1
  <2>4. Len(Seen(next)) = m /\ \A i \in 1 .. m : Seen(next)[i] = next[i]
    <3>1. m - q = m /\ \A i \in 1 .. m : i + q = i
      BY <2>2
    <3> QED BY <1>6, <3>1
  <2>5. Seen(bs) = bs
    BY <1>1, <1>5, <2>3
  <2>6. Seen(next) = next
    BY <1>3, <1>6, <2>4
  <2> QED BY <2>1, <2>5, <2>6
<1>8. ASSUME ~(m <= e)
      PROVE  /\ Len(Seen(next)) = e /\ Len(Seen(bs)) = e
             /\ \A i \in 1 .. e - 1 : Seen(next)[i] = Seen(bs)[i + 1]
  <2>1. q = m - e
    BY <1>6, <1>8
  <2>2. d = n - e
    <3>1. CASE n <= e
      <4>1. n = e /\ d = 0
        BY <1>2, <1>5, <1>8, <3>1
      <4> QED BY <4>1
    <3>2. CASE ~(n <= e)
      BY <1>5, <3>2
    <3> QED BY <3>1, <3>2
  <2>3. d + 1 = q /\ n - d = e /\ m - q = e
    BY <1>2, <2>1, <2>2
  <2>4. \A i \in 1 .. e - 1 : i \in 1 .. e /\ i + 1 \in 1 .. e
    OBVIOUS
  <2>5. \A i \in 1 .. e - 1 : i + q = (i + 1) + d /\ i + q \in 1 .. n
    BY <1>2, <1>5, <1>6, <2>1, <2>2
  <2>6. \A i \in 1 .. e - 1 : Seen(next)[i] = next[i + q] /\ Seen(bs)[i + 1] = bs[(i + 1) + d]
    BY <1>5, <1>6, <2>3, <2>4
  <2>7. Len(Seen(next)) = e /\ Len(Seen(bs)) = e
    BY <1>5, <1>6, <2>3
  <2> QED BY <1>3, <2>5, <2>6, <2>7
<1>9. Grows(bs, next) \/ Moves(bs, next)
  BY <1>1, <1>3, <1>4, <1>7, <1>8 DEF Grows, Moves, Shifted
<1> QED
  BY <1>1, <1>2, <1>3, <1>5, <1>6, <1>9

\* A new bar of any kind among the others.
LEMMA Widened ==
    ASSUME NEW B, NEW bs \in Seq(B), NEW x
    PROVE  \E C : bs \in Seq(C) /\ x \in C
<1> DEFINE C == B \cup {x}
<1>1. bs \in Seq(C) /\ x \in C
  OBVIOUS
<1> QED
  BY <1>1

\* Bars and all of them but the last.
LEMMA FrontExtends ==
    ASSUME NEW C, NEW s \in Seq(C), NEW k \in Nat, Len(s) = k + 1
    PROVE  Extends(s, [i \in 1 .. k |-> s[i]], k)
<1> DEFINE v == [i \in 1 .. k |-> s[i]]
<1>1. v = [i \in 1 .. k |-> v[i]] /\ \A i \in 1 .. k : s[i] = v[i]
  OBVIOUS
<1> HIDE DEF v
<1>2. Len(v) = k /\ DOMAIN v = 1 .. k
  BY <1>1, LengthOf
<1>3. DOMAIN s = 1 .. k + 1
  OBVIOUS
<1>4. Extends(s, v, k)
  BY <1>1, <1>2, <1>3 DEF Extends
<1> QED
  BY <1>4 DEF v

----------------------------------------------------------------------------
(* Signals are events, and nothing repaints                                *)

\* The bars of the Chan strategy: all that is needed of them is their range.
ChanBars(bs) == \A i \in 1 .. Len(bs) : Ranges(bs)[i] \in Tips

\* The stroke that a sell or a buy is about.
Way(dir) == IF dir = "sell" THEN "up" ELSE "down"

\* The bars have prices, and as long as the window has not slid the stroke of the
\* last signal is in the chart.
ChanInv ==
    /\ \E B : bars \in Seq(B)
    /\ ChanBars(bars)
    /\ UseBi /\ Len(bars) <= BarLimit /\ emitted.dir \in {"sell", "buy"} =>
          /\ emitted.at \in 1 .. Len(bars)
          /\ Ends(bars, Confirmable(SubSeq(bars, 1, emitted.at)), Way(emitted.dir))

\* After a buy the SuperTrend strategy sees an up trend until it sells, or until the
\* window shows it another past.
TrendInv ==
    /\ \E B : bars \in Seq(B)
    /\ emitted.dir = "buy" /\ ~redrawn =>
          /\ MinTrendBars <= Len(Seen(bars))
          /\ Trend(Seen(bars))[Len(Seen(bars))].trend = 1

\* What a strategy has said goes with what it sees; the band strategy's signal is
\* the one of its bars.
EventInv ==
    /\ strategy = "chan" => ChanInv
    /\ strategy = "band" => Dated(bars) /\ signal = Evaluate(Seen(bars))
    /\ strategy = "supertrend" => TrendInv

\* What a session's step says of the next state.
LEMMA SessionIs ==
    ASSUME Session
    PROVE  /\ strategy' = strategy
           /\ signal' = Evaluate(Seen(bars'))
           /\ emitted' = IF signal' = "hold" THEN emitted ELSE [dir |-> signal', at |-> Len(bars')]
           /\ redrawn' = (signal' = "hold" /\ (redrawn \/ Redraws))
           /\ Seen(bars)' = Seen(bars') /\ Evaluate(Seen(bars))' = Evaluate(Seen(bars'))
<1>1. strategy' = strategy
  BY DEF Session
<1>2. Seen(bars)' = Seen(bars')
  BY <1>1 DEF Seen, Limit
<1>3. Evaluate(Seen(bars))' = Evaluate(Seen(bars'))
  BY <1>1, <1>2 DEF Evaluate
<1> QED
  BY <1>1, <1>2, <1>3 DEF Session

\* The session of the band strategy.
LEMMA BandSession ==
    ASSUME EventInv, Session, strategy = "band"
    PROVE  EventInv' /\ (signal' # "hold" /\ ~Redraws => signal' # signal)
<1>1. PICK bar \in Bars["band"] : CloseSession(bar)
  BY DEF Session
<1>2. Dated(bars) /\ signal = Evaluate(Seen(bars))
  BY DEF EventInv
<1>3. PICK x : x = [bar EXCEPT !.day = Today]
  OBVIOUS
<1>4. PICK next : next = Append(bars, x) /\ bars' = next
  BY <1>1, <1>3 DEF CloseSession
<1>5. Dated(next)
  BY <1>2, <1>3, <1>4, NewBarIsDated
<1>6. PICK before : before = Seen(bars)
  OBVIOUS
<1>7. PICK after : after = Seen(next)
  OBVIOUS
<1>8. signal = Evaluate(before) /\ signal' = Evaluate(after)
  BY <1>2, <1>4, <1>6, <1>7, SessionIs
<1>9. /\ Evaluate(before) = IF BandSignal(before) = None THEN "hold" ELSE BandSignal(before)
      /\ Evaluate(after) = IF BandSignal(after) = None THEN "hold" ELSE BandSignal(after)
  BY DEF Evaluate
<1>10. before \in Seq(DayBars) /\ (bars = <<>> => Len(before) = 0)
  <2>1. PICK old \in Seq(DayBars) : old = bars
    BY <1>2 DEF Dated
  <2>2. Seen(old) \in Seq(DayBars) /\ Len(Seen(old)) = Len(old) - LeftOut(old) /\ LeftOut(old) \in Nat
    BY SeenIs
  <2>3. old = <<>> => Len(Seen(old)) = 0
    <3>1. Seen(old) \in Seq(DayBars) => Len(Seen(old)) \in Nat
      OBVIOUS
    <3>2. old = <<>> => Len(old) = 0
      OBVIOUS
    <3> QED BY <2>2, <3>1, <3>2
  <2> QED BY <1>6, <2>1, <2>2, <2>3
<1>11. ASSUME signal' # "hold", ~Redraws PROVE signal' # signal
  <2>1. CASE signal = "hold"
    BY <1>11, <2>1
  <2>2. CASE signal # "hold"
    <3>1. BandSignal(before) # None /\ BandSignal(after) # None
      BY <1>8, <1>9, <1>11, <2>2
    <3>2. ~(Len(before) < MinHistory)
      BY <3>1 DEF BandSignal
    <3>3. bars # <<>>
      BY <1>10, <3>2, HaBandAssumption
    <3>4. /\ WeekCloseBacktest(Front(after)) = WeekCloseBacktest(before)
          /\ MonthOpenBacktest(Front(after)) = MonthOpenBacktest(before)
      BY <1>4, <1>6, <1>7, <1>11, <3>3 DEF Redraws
    <3>5. BandSignal(after) # BandSignal(before)
      BY <1>10, <3>1, <3>4, BandSignalsAlternate
    <3> QED BY <1>8, <1>9, <3>1, <3>5
  <2> QED BY <2>1, <2>2
<1>12. EventInv'
  <2>1. Dated(bars)' /\ strategy' = "band"
    BY <1>4, <1>5, SessionIs
  <2>2. signal' = Evaluate(Seen(bars))'
    BY SessionIs
  <2> QED BY <2>1, <2>2 DEF EventInv
<1> QED
  BY <1>11, <1>12

\* What the SuperTrend strategy says of some bars.
LEMMA TrendSignalIs ==
    ASSUME NEW C, NEW bs \in Seq(C), NEW k \in Nat, Len(bs) = k + 1
    PROVE  /\ TrendSignal(bs) \in {"hold", "buy", "sell"}
           /\ TrendSignal(bs) = "buy" =>
                 /\ ~(k + 1 < MinTrendBars)
                 /\ Trend(bs)[k].trend = -1 /\ Trend(bs)[k + 1].trend = 1
           /\ ~(k + 1 < MinTrendBars) /\ TrendSignal(bs) # "sell" =>
                 ~(Trend(bs)[k].trend = 1 /\ Trend(bs)[k + 1].trend = -1)
           /\ Trend(bs)[k + 1].trend \in {Trend(bs)[k].trend, 1, -1} \/ k = 0
<1>1. (k + 1) - 1 = k
  OBVIOUS
<1>2. TrendSignal(bs) =
         IF k + 1 < MinTrendBars THEN "hold"
         ELSE IF (Trend(bs)[k].trend = -1 /\ Trend(bs)[k + 1].trend = 1) /\ bs[k + 1].bull
         THEN "buy"
         ELSE IF Trend(bs)[k].trend = 1 /\ Trend(bs)[k + 1].trend = -1
         THEN "sell"
         ELSE "hold"
  BY <1>1 DEF TrendSignal
<1>3. Extends(bs, [i \in 1 .. k |-> bs[i]], k)
  BY FrontExtends
<1>4. Trend(bs)[k + 1].trend \in {Trend(bs)[k].trend, 1, -1} \/ k = 0
  BY <1>3, TrendFacts
<1> QED
  BY <1>2, <1>4

\* The session of the SuperTrend strategy.
LEMMA TrendSession ==
    ASSUME EventInv, Session, strategy = "supertrend"
    PROVE  /\ EventInv'
           /\ ~redrawn /\ ~Redraws /\ emitted.dir = "buy" => signal' # "buy"
           /\ LET before == Seen(bars)
                  after == Seen(bars')
                  slid == Len(before) + 1 - Len(after)
              IN  /\ slid = 0 => IsPrefix(Trend(before), Trend(after))
                  /\ \A j \in 2 * PivotPeriod + 1 .. Len(after) - 1 :
                        PivotsAt(after, j) = PivotsAt(before, j + slid)
<1>1. PICK bar : CloseSession(bar)
  BY DEF Session
<1>2. TrendInv
  BY DEF EventInv
<1>3. PICK x : x = [bar EXCEPT !.day = Today]
  OBVIOUS
<1>4. PICK C : bars \in Seq(C) /\ x \in C
  BY <1>2, Widened DEF TrendInv
<1>5. PICK old \in Seq(C) : old = bars
  BY <1>4
<1>6. PICK next : next = Append(old, x) /\ bars' = next
  BY <1>1, <1>3, <1>5 DEF CloseSession
<1>7. PICK before, after : before = Seen(old) /\ after = Seen(next)
  OBVIOUS
<1>8. /\ before \in Seq(C) /\ after \in Seq(C) /\ next \in Seq(C) /\ Len(next) = Len(old) + 1
      /\ \/ Len(next) <= Limit /\ before = old /\ after = next
         \/ /\ Len(after) = Limit /\ Len(before) = Limit
            /\ Shifted(after, before, Limit - 1, 1)
  <2>1. x \in C /\ next = Append(old, x)
    BY <1>4, <1>6
  <2>2. /\ Seen(old) \in Seq(C) /\ Seen(next) \in Seq(C)
        /\ Len(next) = Len(old) + 1 /\ next \in Seq(C)
        /\ Grows(old, next) \/ Moves(old, next)
    BY <2>1, WindowMoves
  <2> QED BY <1>7, <2>2 DEF Grows, Moves
<1>9. PICK n \in Nat, k \in Nat : /\ n = Len(before) /\ k + 1 = Len(after)
                                  /\ (k = n \/ k + 1 = n)
  <2>1. Len(before) \in Nat /\ Len(after) \in Nat /\ Len(old) \in Nat
    BY <1>8
  <2>2. PICK e \in Nat \ {0, 1} : e = Limit
    BY LimitIs
  <2>3. CASE before = old /\ after = next
    BY <1>8, <2>1, <2>3
  <2>4. CASE Len(after) = Limit /\ Len(before) = Limit
    <3>1. e - 1 \in Nat /\ (e - 1) + 1 = e
      BY <2>2
    <3> QED BY <2>2, <2>4, <3>1
  <2> QED BY <1>8, <2>3, <2>4
<1>10. k = n => Extends(after, before, n)
  <2> SUFFICES ASSUME k = n PROVE Extends(after, before, n)
    OBVIOUS
  <2>1. before = old /\ after = next
    <3>1. Len(after) # Len(before)
      BY <1>9
    <3> QED BY <1>8, <3>1
  <2>2. Extends(next, old, Len(old))
    BY <1>6, SessionExtends
  <2> QED BY <1>9, <2>1, <2>2
<1>11. k + 1 = n => Shifted(after, before, k, 1)
  <2> SUFFICES ASSUME k + 1 = n PROVE Shifted(after, before, k, 1)
    OBVIOUS
  <2>1. Len(after) = Len(before) /\ Len(old) \in Nat
    BY <1>8, <1>9
  <2>2. ~(before = old /\ after = next)
    <3>1. PICK a \in Nat : a = Len(old) /\ a # a + 1
      BY <2>1
    <3> QED BY <1>8, <2>1, <3>1
  <2>3. Limit = k + 1 /\ Shifted(after, before, Limit - 1, 1)
    BY <1>8, <1>9, <2>2
  <2>4. Limit - 1 = k
    BY <2>3
  <2> QED BY <2>3, <2>4
<1>12. k = n => IsPrefix(Trend(before), Trend(after))
  <2> SUFFICES ASSUME k = n PROVE IsPrefix(Trend(before), Trend(after))
    OBVIOUS
  <2>1. Extends(after, before, n)
    BY <1>10
  <2>2. /\ Trend(before) = [j \in 1 .. n |-> Trend(before)[j]]
        /\ Trend(after) = [j \in 1 .. n + 1 |-> Trend(after)[j]]
        /\ \A j \in 1 .. n : Trend(after)[j] = Trend(before)[j]
    BY <1>8, <2>1, TrendFacts, TrendStays
  <2>3. PICK m \in Nat : m = n + 1 /\ n <= m
    OBVIOUS
  <2>4. Trend(after) = [j \in 1 .. m |-> Trend(after)[j]]
    BY <2>2, <2>3
  <2> QED BY <2>2, <2>3, <2>4, PrefixOf
<1>13. ASSUME NEW j \in 2 * PivotPeriod + 1 .. Len(after) - 1
       PROVE  PivotsAt(after, j) = PivotsAt(before, j + (Len(before) + 1 - Len(after)))
  <2>1. j \in 1 .. k /\ ~(j <= 2 * PivotPeriod)
    BY <1>9, TrendAssumption
  <2>2. CASE k = n
    <3>1. PivotsAt(after, j) = PivotsAt(before, j)
      BY <1>10, <2>1, <2>2, PivotsStay
    <3>2. j + (Len(before) + 1 - Len(after)) = j
      BY <1>9, <2>2
    <3> QED BY <3>1, <3>2
  <2>3. CASE k + 1 = n
    <3>1. PICK d \in Nat : d = 1
      OBVIOUS
    <3>2. Shifted(after, before, k, d)
      BY <1>11, <2>3, <3>1
    <3>3. PICK i \in 1 .. k : i = j /\ ~(i <= 2 * PivotPeriod)
      BY <2>1
    <3>4. PivotsAt(after, i) = PivotsAt(before, i + d)
      BY <3>2, <3>3, PivotsSlide
    <3>5. j + (Len(before) + 1 - Len(after)) = i + d
      BY <1>9, <2>3, <3>1, <3>3
    <3> QED BY <3>3, <3>4, <3>5
  <2> QED BY <1>9, <2>2, <2>3
<1>14. signal' = TrendSignal(after)
  <2>1. Evaluate(after) = TrendSignal(after)
    BY DEF Evaluate
  <2> QED BY <1>6, <1>7, <2>1, SessionIs
<1>15. /\ TrendSignal(after) \in {"hold", "buy", "sell"}
       /\ TrendSignal(after) = "buy" =>
             /\ ~(k + 1 < MinTrendBars)
             /\ Trend(after)[k].trend = -1 /\ Trend(after)[k + 1].trend = 1
       /\ ~(k + 1 < MinTrendBars) /\ TrendSignal(after) # "sell" =>
             ~(Trend(after)[k].trend = 1 /\ Trend(after)[k + 1].trend = -1)
       /\ Trend(after)[k + 1].trend \in {Trend(after)[k].trend, 1, -1} \/ k = 0
  BY <1>8, <1>9, TrendSignalIs
<1>16. MinTrendBars \in Nat \ {0}
  BY TrendAssumption DEF MinTrendBars
<1>17. ASSUME emitted.dir = "buy", ~redrawn, ~Redraws
       PROVE  /\ k # 0 => Trend(after)[k].trend = 1
              /\ MinTrendBars <= n
  <2>1. MinTrendBars <= n /\ Trend(before)[n].trend = 1
    BY <1>2, <1>5, <1>7, <1>9, <1>17 DEF TrendInv
  <2>2. bars # <<>>
    <3>1. ASSUME old = <<>> PROVE FALSE
      <4>1. Len(old) = 0 /\ Len(next) = 1
        BY <1>8, <3>1
      <4>2. n = 0
        <5>1. PICK e \in Nat \ {0, 1} : e = Limit
          BY LimitIs
        <5>2. Len(next) <= Limit
          BY <4>1, <5>1
        <5>3. LeftOut(old) = 0
          BY <4>1, <5>1 DEF LeftOut
        <5>4. Len(Seen(old)) = Len(old) - LeftOut(old)
          BY SeenIs
        <5> QED BY <1>7, <1>9, <4>1, <5>3, <5>4
      <4> QED BY <1>16, <2>1, <4>2
    <3> QED BY <1>5, <3>1
  <2>3. Trend(after)[Len(after) - 1].trend = Trend(before)[Len(before)].trend
    BY <1>5, <1>6, <1>7, <1>17, <2>2 DEF Redraws
  <2>4. Len(after) - 1 = k
    BY <1>9
  <2> QED BY <1>9, <1>16, <2>1, <2>3, <2>4
<1>18. ~redrawn /\ ~Redraws /\ emitted.dir = "buy" => signal' # "buy"
  <2> SUFFICES ASSUME ~redrawn, ~Redraws, emitted.dir = "buy", TrendSignal(after) = "buy"
               PROVE  FALSE
    BY <1>14
  <2>1. ~(k + 1 < MinTrendBars) /\ Trend(after)[k].trend = -1
    BY <1>15
  <2>2. k # 0
    <3>1. MinTrendBars >= 2
      BY TrendAssumption DEF MinTrendBars
    <3> QED BY <1>16, <2>1, <3>1
  <2> QED BY <1>17, <2>1, <2>2
<1>19. ASSUME emitted'.dir = "buy", ~redrawn'
       PROVE  MinTrendBars <= k + 1 /\ Trend(after)[k + 1].trend = 1
  <2>1. CASE signal' = "hold"
    <3>1. emitted.dir = "buy" /\ ~redrawn /\ ~Redraws
      BY <1>19, <2>1, SessionIs
    <3>2. MinTrendBars <= k + 1 /\ ~(k + 1 < MinTrendBars) /\ k # 0
      <4>1. MinTrendBars <= n /\ n <= k + 1
        BY <1>9, <1>17, <3>1
      <4>2. MinTrendBars >= 2
        BY TrendAssumption DEF MinTrendBars
      <4>3. k # 0
        <5>1. k = 0 => n <= 1
          BY <1>9
        <5>2. 2 <= n
          BY <1>16, <4>1, <4>2
        <5> QED BY <5>1, <5>2
      <4> QED BY <1>16, <4>1, <4>3
    <3>3. Trend(after)[k].trend = 1 /\ TrendSignal(after) # "sell"
      BY <1>14, <1>17, <2>1, <3>1, <3>2
    <3> QED BY <1>15, <3>2, <3>3
  <2>2. CASE signal' # "hold"
    <3>1. TrendSignal(after) = "buy"
      BY <1>14, <1>19, <2>2, SessionIs
    <3>2. ~(k + 1 < MinTrendBars) => MinTrendBars <= k + 1
      BY <1>16
    <3> QED BY <1>15, <3>1, <3>2
  <2> QED BY <2>1, <2>2
<1>20. EventInv'
  <2>1. strategy' = "supertrend" /\ (\E B : bars \in Seq(B))'
    BY <1>6, <1>8, SessionIs
  <2>2. Seen(bars)' = after
    BY <1>6, <1>7, SessionIs
  <2>3. /\ Len(Seen(bars))' = k + 1
        /\ (Trend(Seen(bars))[Len(Seen(bars))].trend)' = Trend(after)[k + 1].trend
    BY <1>9, <2>2
  <2>4. TrendInv'
    BY <1>19, <2>1, <2>3 DEF TrendInv
  <2> QED BY <2>1, <2>4 DEF EventInv
<1> QED
  BY <1>5, <1>6, <1>7, <1>9, <1>12, <1>13, <1>18, <1>20

\* What ends in a chart is the end of one of its strokes.
LEMMA EndsIs ==
    ASSUME NEW bs, NEW k, NEW way
    PROVE  Ends(bs, k, way) <=>
              \E s \in ToSet(Strokes(Fractals(MergeInclusions(bs)))) : s.to = k /\ s.dir = way
BY DEF Ends, ChanChart

\* With the stroke filter on, the Chan strategy speaks of a stroke that ends at the
\* merged bar before the last one.
LEMMA ChanSignalIs ==
    ASSUME NEW bs
    PROVE  /\ ChanSignal(bs) \in {"hold", "buy", "sell"}
           /\ UseBi /\ ChanSignal(bs) # "hold" => Ends(bs, Confirmable(bs), Way(ChanSignal(bs)))
<1> DEFINE said == ChanSignal(bs)
           m == MergeInclusions(bs)
           ended(dir) == \E s \in ToSet(Strokes(Fractals(m))) : s.to = Len(m) - 1 /\ s.dir = dir
<1>1. \/ said = "hold"
      \/ said = "sell" /\ (UseBi => ended("up"))
      \/ said = "buy" /\ (UseBi => ended("down"))
  BY Zenon DEF ChanSignal
<1>2. \A dir : ended(dir) <=> Ends(bs, Confirmable(bs), dir)
  BY EndsIs DEF Confirmable
<1> HIDE DEF said, ended
<1>3. Way("sell") = "up" /\ Way("buy") = "down"
  BY DEF Way
<1> QED
  BY <1>1, <1>2, <1>3 DEF said

\* Between two strokes one way there is one the other way.
LEMMA EndsBetween ==
    ASSUME NEW bs, Stepwise(MergeInclusions(bs)), NEW dir \in {"sell", "buy"},
           NEW k, Ends(bs, k, Way(dir)), Ends(bs, Confirmable(bs), Way(dir))
    PROVE  \/ k = Confirmable(bs)
           \/ \E j \in k + 1 .. Confirmable(bs) - 1 :
                 Ends(bs, j, IF dir = "sell" THEN "down" ELSE "up")
<1>1. PICK m : m = MergeInclusions(bs)
  OBVIOUS
<1>2. PICK out : /\ out = Strokes(Fractals(m)) /\ Alternating(out)
                 /\ \A s \in ToSet(out) : s.to \in Int /\ s.to <= Len(m) - 1
  BY <1>1, StrokesEnd
<1>3. PICK s \in ToSet(out) : s.to = k /\ s.dir = Way(dir)
  BY <1>1, <1>2, EndsIs
<1>4. PICK t \in ToSet(out) : t.to = Confirmable(bs) /\ t.dir = Way(dir)
  BY <1>1, <1>2, EndsIs
<1>5. Confirmable(bs) = Len(m) - 1
  BY <1>1 DEF Confirmable
<1>6. PICK a \in Int, b \in Int : a = k /\ b = Confirmable(bs) /\ a <= b
  BY <1>2, <1>3, <1>4, <1>5
<1>7. ASSUME a < b
      PROVE  \E j \in a + 1 .. b - 1 : Ends(bs, j, IF dir = "sell" THEN "down" ELSE "up")
  <2>1. s.dir = t.dir /\ s.to < t.to
    BY <1>3, <1>4, <1>6, <1>7
  <2>2. PICK u \in ToSet(out) : /\ s.to < u.to /\ u.to < t.to
                                /\ u.dir = IF t.dir = "up" THEN "down" ELSE "up"
    BY <1>2, <2>1, StrokeBetween
  <2>3. u.dir = IF dir = "sell" THEN "down" ELSE "up"
    BY <1>4, <2>2 DEF Way
  <2>4. u.to \in a + 1 .. b - 1
    <3>1. u.to \in Int
      BY <1>2
    <3> QED BY <1>3, <1>4, <1>6, <2>2, <3>1
  <2>5. Ends(bs, u.to, IF dir = "sell" THEN "down" ELSE "up")
    BY <1>1, <1>2, <2>3, EndsIs
  <2> QED BY <2>4, <2>5
<1>8. a < b \/ a = b
  BY <1>6
<1> QED
  BY <1>6, <1>7, <1>8

\* A list that goes on has what it had, and begins with it.
LEMMA ProlongedHas ==
    ASSUME NEW s, NEW longer, NEW n \in Nat, Prolongs(longer, s, n)
    PROVE  IsPrefix(s, longer) /\ \A x \in ToSet(s) : x \in ToSet(longer)
<1>1. PICK e \in Nat : e = n + 1
  OBVIOUS
<1>2. PICK m \in {n, e} : /\ s = [k \in 1 .. n |-> s[k]]
                          /\ longer = [k \in 1 .. m |-> longer[k]]
                          /\ \A k \in 1 .. n : longer[k] = s[k]
  BY <1>1 DEF Prolongs
<1>3. m \in Nat /\ n <= m /\ \A k \in 1 .. n : k \in 1 .. m
  BY <1>1
<1>4. IsPrefix(s, longer)
  BY <1>2, <1>3, PrefixOf
<1>5. DOMAIN s = 1 .. n /\ DOMAIN longer = 1 .. m
  BY <1>2
<1> QED
  BY <1>2, <1>3, <1>4, <1>5 DEF ToSet

\* What is seen of such bars is merged to bars that go up or down.
LEMMA SeenIsStepwise ==
    ASSUME NEW C, NEW bs \in Seq(C), ChanBars(bs)
    PROVE  Stepwise(MergeInclusions(bs)) /\ Stepwise(MergeInclusions(Seen(bs)))
<1>1. PICK n \in Nat : n = Len(bs) /\ DOMAIN bs = 1 .. n
  OBVIOUS
<1>2. Stepwise(MergeInclusions(bs))
  BY <1>1, MergedIsStepwise DEF ChanBars
<1>3. PICK d \in Nat, now \in Seq(C) : /\ now = Seen(bs) /\ Len(now) = n - d
                                       /\ \A i \in 1 .. n - d : now[i] = bs[i + d]
  <2>1. /\ LeftOut(bs) \in Nat /\ Seen(bs) \in Seq(C) /\ Len(Seen(bs)) = Len(bs) - LeftOut(bs)
        /\ \A i \in 1 .. Len(bs) - LeftOut(bs) : Seen(bs)[i] = bs[i + LeftOut(bs)]
    BY SeenIs
  <2> QED BY <1>1, <2>1
<1>4. PICK k \in Nat : k = n - d /\ k = Len(now) /\ DOMAIN now = 1 .. k
  BY <1>3
<1>5. \A i \in 1 .. k : Ranges(now)[i] \in Tips
  <2> SUFFICES ASSUME NEW i \in 1 .. k PROVE Ranges(now)[i] \in Tips
    OBVIOUS
  <2>1. i + d \in 1 .. n /\ now[i] = bs[i + d]
    BY <1>3, <1>4
  <2>2. /\ Ranges(now)[i] = [h |-> now[i].h, l |-> now[i].l, c |-> now[i].c]
        /\ Ranges(bs)[i + d] = [h |-> bs[i + d].h, l |-> bs[i + d].l, c |-> bs[i + d].c]
    BY <1>1, <1>4, <2>1 DEF Ranges
  <2>3. Ranges(bs)[i + d] \in Tips
    BY <1>1, <2>1 DEF ChanBars
  <2> QED BY <2>1, <2>2, <2>3
<1>6. Stepwise(MergeInclusions(now))
  BY <1>4, <1>5, MergedIsStepwise
<1> QED
  BY <1>2, <1>3, <1>6

\* The chart of a history with a new bar goes on.
LEMMA ChartGoesOn ==
    ASSUME NEW C, NEW bs \in Seq(C), NEW next \in Seq(C), NEW n \in Nat, Extends(next, bs, n),
           ChanBars(bs), ChanBars(next)
    PROVE  /\ IsPrefix(ChanChart(bs)[1], ChanChart(next)[1])
           /\ IsPrefix(ChanChart(bs)[2], ChanChart(next)[2])
           /\ \A k, way : Ends(bs, k, way) => Ends(next, k, way)
<1>1. PICK m, grown : m = MergeInclusions(bs) /\ grown = MergeInclusions(next)
  OBVIOUS
<1>2. Stepwise(m) /\ Stepwise(grown)
  BY <1>1, SeenIsStepwise
<1>3. Follows(grown, m)
  <2>1. grown = Settle(m, Ranges(next)[n + 1])
    BY <1>1, MergedNext
  <2>2. Ranges(next)[n + 1] \in Tips
    BY DEF Extends, ChanBars
  <2> QED BY <1>2, <2>1, <2>2, SettleFollows
<1>4. PICK e \in Nat : Prolongs(Fractals(grown), Fractals(m), e)
  BY <1>2, <1>3, ChartFollows
<1>5. PICK j \in Nat : Prolongs(Strokes(Fractals(grown)), Strokes(Fractals(m)), j)
  BY <1>2, <1>3, ChartFollows
<1>6. IsPrefix(Fractals(m), Fractals(grown))
  BY <1>4, ProlongedHas
<1>7. /\ IsPrefix(Strokes(Fractals(m)), Strokes(Fractals(grown)))
      /\ \A s \in ToSet(Strokes(Fractals(m))) : s \in ToSet(Strokes(Fractals(grown)))
  BY <1>5, ProlongedHas
<1>8. /\ ChanChart(bs) = <<Fractals(m), Strokes(Fractals(m))>>
      /\ ChanChart(next) = <<Fractals(grown), Strokes(Fractals(grown))>>
  BY <1>1 DEF ChanChart
<1>9. \A k, way : Ends(bs, k, way) => Ends(next, k, way)
  BY <1>1, <1>7, EndsIs
<1> QED
  BY <1>6, <1>7, <1>8, <1>9


\* The bars of a session's new bar have prices.
LEMMA NewBarHasRange ==
    ASSUME NEW C, NEW old \in Seq(C), ChanBars(old), NEW bar \in Bars["chan"],
           NEW x, x = [bar EXCEPT !.day = Today], NEW next, next = Append(old, x)
    PROVE  ChanBars(next)
<1>1. PICK n \in Nat : n = Len(old) /\ DOMAIN old = 1 .. n
  OBVIOUS
<1>2. PICK k \in Nat : k = n + 1
  OBVIOUS
<1>3. PICK D : old \in Seq(D) /\ x \in D
  BY Widened
<1>4. /\ Len(next) = k /\ DOMAIN next = 1 .. k /\ next[k] = x
      /\ \A i \in 1 .. n : next[i] = old[i]
  BY <1>1, <1>2, <1>3
<1>5. Ranges(next)[k] \in Tips
  <2>1. Ranges(next)[k] = [h |-> next[k].h, l |-> next[k].l, c |-> next[k].c]
    BY <1>2, <1>4 DEF Ranges
  <2>2. x.h = bar.h /\ x.l = bar.l /\ x.c = bar.c
    BY ReplayAssumption
  <2>3. bar.h \in Int /\ bar.l \in Int /\ bar.c \in Closes
    BY ReplayAssumption DEF Closes
  <2>4. next[k].h \in Int /\ next[k].l \in Int /\ next[k].c \in Closes
    BY <1>4, <2>2, <2>3
  <2>5. PICK h \in Int, l \in Int, c \in Closes : h = next[k].h /\ l = next[k].l /\ c = next[k].c
    BY <2>4
  <2>6. [h |-> h, l |-> l, c |-> c] \in Tips
    BY Zenon DEF Tips
  <2> QED BY <2>1, <2>5, <2>6
<1>6. ASSUME NEW i \in 1 .. n PROVE Ranges(next)[i] \in Tips
  <2>1. i \in 1 .. k
    BY <1>2
  <2>2. /\ Ranges(next)[i] = [h |-> next[i].h, l |-> next[i].l, c |-> next[i].c]
        /\ Ranges(old)[i] = [h |-> old[i].h, l |-> old[i].l, c |-> old[i].c]
    BY <1>1, <1>4, <2>1 DEF Ranges
  <2>3. Ranges(old)[i] \in Tips
    BY <1>1 DEF ChanBars
  <2> QED BY <1>4, <2>2, <2>3
<1>7. \A i \in 1 .. k : i = k \/ i \in 1 .. n
  BY <1>2
<1> QED
  BY <1>4, <1>5, <1>6, <1>7 DEF ChanBars

\* The session of the Chan strategy: as long as its window does not slide its chart
\* goes on, and a signal like the last one is about the same fractal, or about a
\* later one with a stroke the other way in between.
LEMMA ChanSession ==
    ASSUME EventInv, Session, strategy = "chan"
    PROVE  /\ EventInv'
           /\ LET now == Seen(bars')
                  then == SubSeq(now, 1, Len(now) - (Len(bars') - emitted.at))
                  way == IF signal' = "sell" THEN "up" ELSE "down"
                  other == IF signal' = "sell" THEN "down" ELSE "up"
              IN  UseBi /\ signal' # "hold" /\ signal' = emitted.dir =>
                    (Len(bars') <= Limit \/ Ends(now, Confirmable(then), way) =>
                       \/ Confirmable(then) = Confirmable(now)
                       \/ \E k \in Confirmable(then) + 1 .. Confirmable(now) - 1 :
                             Ends(now, k, other))
           /\ LET before == Seen(bars)
                  after == Seen(bars')
                  slid == Len(before) + 1 - Len(after)
              IN  slid = 0 =>
                    /\ IsPrefix(ChanChart(before)[1], ChanChart(after)[1])
                    /\ IsPrefix(ChanChart(before)[2], ChanChart(after)[2])
<1>1. PICK bar \in Bars["chan"] : CloseSession(bar)
  BY DEF Session
<1>2. ChanInv
  BY DEF EventInv
<1>3. PICK x : x = [bar EXCEPT !.day = Today]
  OBVIOUS
<1>4. PICK C : bars \in Seq(C) /\ x \in C
  BY <1>2, Widened DEF ChanInv
<1>5. PICK old \in Seq(C) : old = bars
  BY <1>4
<1>6. PICK next : next = Append(old, x) /\ bars' = next
  BY <1>1, <1>3, <1>5 DEF CloseSession
<1>7. PICK before, after : before = Seen(old) /\ after = Seen(next)
  OBVIOUS
<1>8. PICK n \in Nat : /\ n = Len(old) /\ next \in Seq(C) /\ Len(next) = n + 1
                       /\ before \in Seq(C) /\ after \in Seq(C)
                       /\ Grows(old, next) \/ Moves(old, next)
  <2>1. x \in C /\ next = Append(old, x)
    BY <1>4, <1>6
  <2>2. /\ Seen(old) \in Seq(C) /\ Seen(next) \in Seq(C)
        /\ Len(next) = Len(old) + 1 /\ next \in Seq(C)
        /\ Grows(old, next) \/ Moves(old, next)
    BY <2>1, WindowMoves
  <2> QED BY <1>7, <2>2
<1>9. ChanBars(old) /\ ChanBars(next)
  <2>1. ChanBars(old)
    BY <1>2, <1>5 DEF ChanInv
  <2> QED BY <1>3, <1>6, <2>1, NewBarHasRange
<1>10. Extends(next, old, n)
  BY <1>6, <1>8, SessionExtends
<1>11. /\ IsPrefix(ChanChart(old)[1], ChanChart(next)[1])
       /\ IsPrefix(ChanChart(old)[2], ChanChart(next)[2])
       /\ \A k, way : Ends(old, k, way) => Ends(next, k, way)
  <2>1. PICK s \in Seq(C) : s = next
    BY <1>8
  <2> QED BY <1>9, <1>10, <2>1, ChartGoesOn
<1>12. Limit = BarLimit
  BY DEF Limit
<1>13. ASSUME Len(next) <= Limit PROVE before = old /\ after = next /\ Len(old) <= Limit
  <2>1. Grows(old, next)
    BY <1>8, <1>13 DEF Moves
  <2> QED BY <1>7, <2>1 DEF Grows
<1>14. Len(before) + 1 - Len(after) = 0 =>
         /\ IsPrefix(ChanChart(before)[1], ChanChart(after)[1])
         /\ IsPrefix(ChanChart(before)[2], ChanChart(after)[2])
  <2>1. CASE Grows(old, next)
    BY <1>7, <1>11, <2>1 DEF Grows
  <2>2. CASE Moves(old, next)
    <3>1. PICK e \in Nat \ {0, 1} : e = Limit
      BY LimitIs
    <3>2. Len(before) + 1 - Len(after) = 1
      BY <1>7, <2>2, <3>1 DEF Moves
    <3> QED BY <3>2
  <2> QED BY <1>8, <2>1, <2>2
<1>15. PICK said : said = ChanSignal(after) /\ signal' = said
  <2>1. Evaluate(after) = ChanSignal(after)
    BY DEF Evaluate
  <2> QED BY <1>6, <1>7, <2>1, SessionIs
<1>16. said \in {"hold", "buy", "sell"} /\ (UseBi /\ said # "hold" => Ends(after, Confirmable(after), Way(said)))
  BY <1>15, ChanSignalIs
<1>17. ASSUME UseBi, Len(next) <= Limit, emitted.dir \in {"sell", "buy"}
       PROVE  /\ emitted.at \in 1 .. n
              /\ Ends(next, Confirmable(SubSeq(next, 1, emitted.at)), Way(emitted.dir))
              /\ SubSeq(next, 1, emitted.at) = SubSeq(old, 1, emitted.at)
  <2>1. /\ emitted.at \in 1 .. Len(bars)
        /\ Ends(bars, Confirmable(SubSeq(bars, 1, emitted.at)), Way(emitted.dir))
    BY <1>2, <1>5, <1>12, <1>13, <1>17 DEF ChanInv
  <2>2. PICK e \in 1 .. n : e = emitted.at
    BY <1>5, <1>8, <2>1
  <2>3. SubSeq(next, 1, e) = SubSeq(old, 1, e)
    <3>1. e \in Nat /\ e <= n /\ \A i \in 1 .. e : i \in 1 .. n
      BY <2>2
    <3>2. SubSeq(next, 1, e) = [i \in 1 .. e |-> next[i]] /\ SubSeq(old, 1, e) = [i \in 1 .. e |-> old[i]]
      BY <3>1
    <3>3. \A i \in 1 .. e : next[i] = old[i]
      BY <1>10, <3>1 DEF Extends
    <3> QED BY <3>2, <3>3
  <2>4. Ends(old, Confirmable(SubSeq(next, 1, e)), Way(emitted.dir))
    BY <1>5, <2>1, <2>2, <2>3
  <2> QED BY <1>11, <2>2, <2>3, <2>4
<1>18. Stepwise(MergeInclusions(after))
  <2>1. PICK s \in Seq(C) : s = next
    BY <1>8
  <2>2. Stepwise(MergeInclusions(Seen(s)))
    BY <1>9, <2>1, SeenIsStepwise
  <2> QED BY <1>7, <2>1, <2>2
<1>19. ASSUME UseBi, said # "hold", said = emitted.dir,
              NEW k, Ends(after, k, Way(said))
       PROVE  \/ k = Confirmable(after)
              \/ \E j \in k + 1 .. Confirmable(after) - 1 :
                    Ends(after, j, IF said = "sell" THEN "down" ELSE "up")
  <2>1. said \in {"sell", "buy"} /\ Ends(after, Confirmable(after), Way(said))
    BY <1>16, <1>19
  <2> QED BY <1>18, <1>19, <2>1, EndsBetween
<1>20. ASSUME UseBi, said # "hold", said = emitted.dir, Len(next) <= Limit
       PROVE  Ends(after, Confirmable(SubSeq(after, 1, Len(after) - (Len(next) - emitted.at))), Way(said))
  <2>1. said \in {"sell", "buy"}
    BY <1>16, <1>20
  <2>2. /\ emitted.at \in 1 .. n
        /\ Ends(next, Confirmable(SubSeq(next, 1, emitted.at)), Way(emitted.dir))
    BY <1>17, <1>20, <2>1
  <2>3. after = next /\ Len(after) - (Len(next) - emitted.at) = emitted.at
    BY <1>8, <1>13, <1>20, <2>2
  <2> QED BY <1>20, <2>2, <2>3
<1>21. PICK then : then = SubSeq(after, 1, Len(after) - (Len(next) - emitted.at))
  OBVIOUS
<1>22. UseBi /\ said # "hold" /\ said = emitted.dir =>
         (Len(next) <= Limit \/ Ends(after, Confirmable(then), IF said = "sell" THEN "up" ELSE "down") =>
            \/ Confirmable(then) = Confirmable(after)
            \/ \E j \in Confirmable(then) + 1 .. Confirmable(after) - 1 :
                  Ends(after, j, IF said = "sell" THEN "down" ELSE "up"))
  <2>1. Way(said) = IF said = "sell" THEN "up" ELSE "down"
    BY DEF Way
  <2> SUFFICES ASSUME UseBi, said # "hold", said = emitted.dir,
                      Len(next) <= Limit \/ Ends(after, Confirmable(then), Way(said))
               PROVE  \/ Confirmable(then) = Confirmable(after)
                      \/ \E j \in Confirmable(then) + 1 .. Confirmable(after) - 1 :
                            Ends(after, j, IF said = "sell" THEN "down" ELSE "up")
    BY <2>1
  <2>2. PICK k : k = Confirmable(then)
    OBVIOUS
  <2>3. Ends(after, k, Way(said))
    BY <1>20, <1>21, <2>2
  <2>4. \/ k = Confirmable(after)
        \/ \E j \in k + 1 .. Confirmable(after) - 1 :
              Ends(after, j, IF said = "sell" THEN "down" ELSE "up")
    BY <1>19, <2>3
  <2> QED BY <2>2, <2>4
<1>23. EventInv'
  <2>1. strategy' = "chan" /\ (\E B : bars \in Seq(B))' /\ ChanBars(bars)'
    BY <1>6, <1>8, <1>9, SessionIs
  <2>2. ASSUME UseBi, Len(next) <= BarLimit, emitted'.dir \in {"sell", "buy"}
        PROVE  /\ emitted'.at \in 1 .. Len(next)
               /\ Ends(next, Confirmable(SubSeq(next, 1, emitted'.at)), Way(emitted'.dir))
    <3>1. CASE said = "hold"
      <4>1. emitted' = emitted
        BY <1>15, <3>1, SessionIs
      <4>2. /\ emitted.at \in 1 .. n
            /\ Ends(next, Confirmable(SubSeq(next, 1, emitted.at)), Way(emitted.dir))
        BY <1>12, <1>17, <2>2, <4>1
      <4>3. \A e \in 1 .. n : e \in 1 .. n + 1
        OBVIOUS
      <4> QED BY <1>8, <4>1, <4>2, <4>3
    <3>2. CASE said # "hold"
      <4>1. emitted'.dir = said /\ emitted'.at = Len(next)
        BY <1>6, <1>15, <3>2, SessionIs
      <4>2. SubSeq(next, 1, Len(next)) = next /\ Len(next) \in 1 .. Len(next)
        BY <1>8
      <4>3. Ends(next, Confirmable(next), Way(said))
        BY <1>12, <1>13, <1>16, <2>2, <3>2
      <4> QED BY <4>1, <4>2, <4>3
    <3> QED BY <3>1, <3>2
  <2>3. ChanInv'
    BY <1>6, <2>1, <2>2 DEF ChanInv
  <2> QED BY <2>1, <2>3 DEF EventInv
<1> QED
  BY <1>5, <1>6, <1>7, <1>14, <1>15, <1>21, <1>22, <1>23

\* No other step touches what the invariant is about, but a round or a bar of the
\* slot strategies, which have no bars of this kind.
LEMMA EventInvHolds ==
    /\ Init => EventInv
    /\ EventInv /\ [Next]_vars => EventInv'
<1>1. ASSUME Init PROVE EventInv
  <2>1. /\ bars = <<>> /\ Len(bars) = 0 /\ bars \in Seq({})
        /\ signal = "hold" /\ emitted.dir = "hold"
    BY <1>1 DEF Init, BandInit
  <2>2. strategy = "band" => Evaluate(Seen(bars)) = "hold"
    <3>1. LeftOut(bars) = 0
      BY <2>1, LimitIs DEF LeftOut
    <3>2. Len(Seen(bars)) = 0
      <4>1. PICK old \in Seq({}) : old = bars
        BY <2>1
      <4>2. Len(Seen(old)) = Len(old) - LeftOut(old)
        BY SeenIs
      <4> QED BY <2>1, <3>1, <4>1, <4>2
    <3>3. BandSignal(Seen(bars)) = None
      BY <3>2, HaBandAssumption DEF BandSignal
    <3> QED BY <3>3 DEF Evaluate
  <2>3. Dated(bars)
    BY <2>1 DEF Dated
  <2>4. ChanInv
    BY <2>1 DEF ChanInv, ChanBars
  <2>5. TrendInv
    BY <2>1 DEF TrendInv
  <2> QED BY <2>1, <2>2, <2>3, <2>4, <2>5 DEF EventInv
<1>2. ASSUME EventInv, [Next]_vars PROVE EventInv'
  <2>1. CASE Session
    <3>1. CASE strategy = "band"
      BY <1>2, <2>1, <3>1, BandSession
    <3>2. CASE strategy = "supertrend"
      BY <1>2, <2>1, <3>2, TrendSession
    <3>3. CASE strategy = "chan"
      BY <1>2, <2>1, <3>3, ChanSession
    <3>4. CASE strategy \notin {"band", "supertrend", "chan"}
      <4>1. strategy' = strategy
        BY <2>1, SessionIs
      <4> QED BY <3>4, <4>1 DEF EventInv
    <3> QED BY <3>1, <3>2, <3>3, <3>4
  <2>2. CASE Live \/ Trade \/ UNCHANGED vars
    <3>1. /\ bars' = bars /\ strategy' = strategy /\ signal' = signal
          /\ emitted' = emitted /\ redrawn' = redrawn
      BY <2>2 DEF Live, LiveRun, Trade, vars, bandVars
    <3>2. Seen(bars)' = Seen(bars)
      BY <3>1 DEF Seen, Limit
    <3>3. Evaluate(Seen(bars))' = Evaluate(Seen(bars))
      BY <3>1, <3>2 DEF Evaluate
    <3>4. ChanInv <=> ChanInv'
      BY <3>1 DEF ChanInv
    <3>5. TrendInv <=> TrendInv'
      BY <3>1, <3>2 DEF TrendInv
    <3> QED BY <1>2, <3>1, <3>3, <3>4, <3>5 DEF EventInv
  <2> QED BY <1>2, <2>1, <2>2 DEF Next
<1> QED
  BY <1>1, <1>2

\* A signal of a strategy is an event, whatever the prices and however short the
\* window it is evaluated on.  The band strategy says the same on two sessions in a
\* row, and the SuperTrend strategy buys twice with no sell in between, only after
\* the window has slid and shows another past (_detect_band_cross, _detect_flip on
\* get_bars).  With the stroke filter on, two sells (buys) of the Chan strategy are
\* about one fractal or have a stroke the other way in between, always until the
\* window slides, and then as long as the stroke of the first one is still seen
\* (mvp_chan_signal_at_last_bar).  Without that filter the Chan strategy promises no
\* such thing.
THEOREM SignalsAlwaysAreEvents ==
    ASSUME "chan" \in Strategies => UseBi
    PROVE  Spec => SignalsAreEvents
<1> DEFINE Inv == EventInv /\ strategy \in Strategies
<1>1. Init => Inv
  BY EventInvHolds DEF Init
<1>2. Inv /\ [Next]_vars => Inv'
  <2>1. [Next]_vars => strategy' = strategy
    BY DEF Next, Session, Live, Trade, vars
  <2> QED BY <2>1, EventInvHolds
<1>3. Inv /\ [Next]_vars => [SignalIsAnEvent]_vars
  <2> SUFFICES ASSUME EventInv, strategy \in Strategies, [Next]_vars,
                      bars' # bars, signal' # "hold"
               PROVE  SignalIsAnEvent
    BY DEF SignalIsAnEvent
  <2>1. Session
    BY DEF Next, Live, LiveRun, Trade, vars, bandVars
  <2>2. strategy = "band" /\ ~Redraws => signal' # signal
    BY <2>1, BandSession
  <2>3. strategy = "supertrend" /\ ~redrawn /\ ~Redraws /\ emitted.dir = "buy" => signal' # "buy"
    BY <2>1, TrendSession
  <2>4. ASSUME strategy = "chan", signal' = emitted.dir
        PROVE  LET now == Seen(bars')
                   then == SubSeq(now, 1, Len(now) - (Len(bars') - emitted.at))
                   way == IF signal' = "sell" THEN "up" ELSE "down"
                   other == IF signal' = "sell" THEN "down" ELSE "up"
               IN  Len(bars') <= Limit \/ Ends(now, Confirmable(then), way) =>
                       \/ Confirmable(then) = Confirmable(now)
                       \/ \E k \in Confirmable(then) + 1 .. Confirmable(now) - 1 :
                             Ends(now, k, other)
    BY <2>1, <2>4, ChanSession
  <2> QED BY <2>2, <2>3, <2>4 DEF SignalIsAnEvent
<1> HIDE DEF Inv
<1> QED
  BY <1>1, <1>2, <1>3, PTL DEF Spec, SignalsAreEvents

\* Nothing repaints, whatever the bars, as long as the window does not slide: a
\* fractal of the Chan strategy, once there, stays although the last merged bar
\* still grows, for it grows on its own side only (merge_inclusions); so the strokes
\* stay, and the trend of every earlier bar.  A pivot of the SuperTrend strategy
\* stays even when the window slides: it is looked for in the past only, and not
\* before there are PivotPeriod bars on both sides (_detect_pivots).
THEOREM NothingEverRepaints ==
    Spec => NothingRepaints
<1>1. Init => EventInv
  BY EventInvHolds
<1>2. EventInv /\ [Next]_vars => EventInv'
  BY EventInvHolds
<1>3. EventInv /\ [Next]_vars => [PastStays]_vars
  <2> SUFFICES ASSUME EventInv, [Next]_vars, bars' # bars
               PROVE  PastStays
    BY DEF PastStays
  <2>1. Session
    BY DEF Next, Live, LiveRun, Trade, vars, bandVars
  <2>2. ASSUME strategy = "chan", Len(Seen(bars)) + 1 - Len(Seen(bars')) = 0
        PROVE  /\ IsPrefix(ChanChart(Seen(bars))[1], ChanChart(Seen(bars'))[1])
               /\ IsPrefix(ChanChart(Seen(bars))[2], ChanChart(Seen(bars'))[2])
    BY <2>1, <2>2, ChanSession
  <2>3. ASSUME strategy = "supertrend"
        PROVE  /\ Len(Seen(bars)) + 1 - Len(Seen(bars')) = 0 =>
                     IsPrefix(Trend(Seen(bars)), Trend(Seen(bars')))
               /\ \A j \in 2 * PivotPeriod + 1 .. Len(Seen(bars')) - 1 :
                     PivotsAt(Seen(bars'), j) =
                        PivotsAt(Seen(bars), j + (Len(Seen(bars)) + 1 - Len(Seen(bars'))))
    BY <2>1, <2>3, TrendSession
  <2> QED BY <2>2, <2>3 DEF PastStays
<1> QED
  BY <1>1, <1>2, <1>3, PTL DEF Spec, NothingRepaints
=============================================================================
