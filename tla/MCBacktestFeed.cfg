\* Two pages of one job, and one fault: a request, a socket or the API process.
SPECIFICATION FairSpec
CONSTANTS
    j1 = j1
    c1 = c1
    c2 = c2
    Jobs = {j1}
    Clients = {c1, c2}
    Watched <- MCWatched
    MaxSockets = 2
    MaxFaults = 1
INVARIANTS TypeOK OpenIsListed LossIsBounded
PROPERTIES EndIsShown
CHECK_DEADLOCK FALSE
