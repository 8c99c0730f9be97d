SPECIFICATION FairSpec
CONSTANTS
    Client = {c1, c2}
    Key = {k}
    Value = {v}
    Nil = Nil
    Empty = Empty
    MaxVersion = 1
    N = 2
    SnapshotEvery = 2
    MaxCalls = 1
    MaxFaults = 1
    c1 = c1
    c2 = c2
    k = k
    v = v
INVARIANT OwnResult
PROPERTIES ImplementsMap CallsReturn
CHECK_DEADLOCK FALSE
