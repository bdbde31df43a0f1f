SPECIFICATION Spec
CONSTANTS
    a = a
    b = b
    Symbols = {a, b}
    N = 4
    Inputs <- MCInputs
    Capital = 8
    PositionPct = 50
    Quantities = {1}
    SignalStops = {1}
    MaxRounds = 2
    None = None
INVARIANTS TypeOK BooksBalance TimeFlows LossIsCapped TargetArmsTrail
PROPERTIES TrailRatchets
CHECK_DEADLOCK FALSE
