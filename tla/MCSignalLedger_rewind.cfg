SPECIFICATION Spec
CONSTANTS
    s1 = s1
    s2 = s2
    aapl = aapl
    Signals = {s1, s2}
    SignalInst <- MCInst
    SignalSide <- MCSide
    Instruments = {aapl}
    Requests = {r1, r2}
    Quantities = {1}
    MaxInFlight = 1
    Processors = {p1}
    BatchLimit = 1
    NoRow = NoRow
    Manual = Manual
    Nobody = Nobody
INVARIANTS OneShot
CHECK_DEADLOCK FALSE
