\* Three days, the second without a session; two backtests of two windows.
SPECIFICATION Spec
CONSTANTS
    t1 = t1
    t2 = t2
    Tasks = {t1, t2}
    Sessions = {0, 2}
    Kinds = {"daily", "intraday"}
    LastDay = 2
    MonthDays = 2
    MaxDays = 3
    BufferDays = 1
    ChunkDays = 1
    HeadSlack = 1
    Patchy = {6}
    Requests <- MCRequests
    MemMax = 1
    BackfillDays = 1
    PrefetchStarts = {0}
    PrefetchEnds = {2}
    SparseBelow = 1
    GapDays = 2
SYMMETRY Symmetry
INVARIANTS TypeOK SeriesIsSound
PROPERTIES FormingBarsAreAskedFor RunningMonthsStayPartial
CHECK_DEADLOCK FALSE
