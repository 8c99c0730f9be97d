SPECIFICATION FairSpec
CONSTANTS
    M = 2
    N = 3
    Worker = {w1, w2}
    MaxDeaths = 1
    MaxSlow = 2
    w1 = w1
    w2 = w2
INVARIANTS CountersExact MapOutputsReady OutputsComplete
PROPERTY JobFinishes
CHECK_DEADLOCK FALSE
