SPECIFICATION Spec
CONSTANTS
    None = None
    WeekLength = 3
    TradingDays = 2
    MonthLength = 4
    LookbackMonths = 9
    LiveLimit = 4
    BacktestLimit = 6
    MinHistory = 2
    BandPct = 0
    BandAbs = 256
    BarLimit = 7
    MinSep = 1
    StrokeCount = 2
    UseBi = TRUE
    UseZhongshu = TRUE
    BuyAboveZg = TRUE
    SellBelowZd = FALSE
    TrendLimit = 5
    Atr <- MCAtr
    PivotPeriod = 1
    AtrPeriod = 1
    AtrFactor = 1
    Universe <- MCUniverse
    Cap = 2
    StartCash = 16
    PositionPct = 50
    MaxRounds = 2
    Prices = {1, 2}
    Growths <- MCGrowths
    MaxSlotBars = 3
    Strategies = {"band"}
    Bars <- MCBars
    MaxBars <- MCMaxBars
INVARIANTS WeekCloseMatchesBacktest
CHECK_DEADLOCK FALSE
