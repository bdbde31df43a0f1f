\* The two processes that are deployed; one of the keys has no trigger.
SPECIFICATION FairSpec
CONSTANTS
    Apis = {a1, a2}
    Nobody = Nobody
    Users = {u1, u2}
    Keys = {k1, bad}
    BadKeys = {bad}
    Requests = {r1, r2}
    MaxCrashes = 1
    MaxDrops = 0
    MaxRuns = 1
    MaxReloadFailures = 1
INVARIANTS TypeOK HotReload StaleJobsAreHarmless
PROPERTIES SchedulesReturn
