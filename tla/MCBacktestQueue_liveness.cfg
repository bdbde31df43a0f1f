SPECIFICATION FairSpec
CONSTANTS
    Jobs = {j1, j2}
    Workers = {w1}
    MaxConcurrent = 1
    StaleAfter = 0
    QueuedStaleAfter = 1
    MaxCrashes = 1
    NoBeat = NoBeat
    NoJob = NoJob
PROPERTIES JobsSettle AbandonedIsReaped
