\* Three replicas, of which one may lose its connection and one may crash.
SPECIFICATION FairSpec
CONSTANTS
    Apis = {a1, a2, a3}
    Nobody = Nobody
    Users = {u1}
    Keys = {k1, bad}
    BadKeys = {bad}
    Requests = {r1}
    MaxCrashes = 1
    MaxDrops = 1
    MaxRuns = 2
    MaxReloadFailures = 1
INVARIANTS OneRunPerGroup
PROPERTIES LeaderReturns
