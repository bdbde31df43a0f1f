SPECIFICATION Spec
CONSTANTS
    s1 = s1
    s2 = s2
    aapl = aapl
    Signals = {s1, s2}
    SignalInst <- MCInst
    SignalSide <- MCSide
    Instruments = {aapl}
    Requests = {r1, r2, r3}
    Quantities = {1, 2}
    MaxInFlight = 2
    Processors = {p1}
    BatchLimit = 2
    NoRow = NoRow
    Manual = Manual
    Nobody = Nobody
SYMMETRY Symmetry
INVARIANTS TypeOK ExecutedHasFill NotifiedWasMailed PositionBacked
PROPERTIES SettledForever
CHECK_DEADLOCK FALSE
