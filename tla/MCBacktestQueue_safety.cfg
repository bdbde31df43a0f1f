SPECIFICATION Spec
CONSTANTS
    Jobs = {j1, j2}
    Workers = {w1, w2}
    MaxConcurrent = 1
    StaleAfter = 0
    QueuedStaleAfter = 1
    MaxCrashes = 1
    NoBeat = NoBeat
    NoJob = NoJob
SYMMETRY Symmetry
INVARIANTS TypeOK OneExecutor WithinCapacity ResultsOnce
PROPERTIES SettledForever NoResurrection ImplementsLifecycle
