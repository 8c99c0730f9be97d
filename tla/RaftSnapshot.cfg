SPECIFICATION DivergedSpec
CONSTANTS
    s1 = s1
    s2 = s2
    s3 = s3
    c1 = c1
    c2 = c2
    Server = {s1, s2, s3}
    Command = {c1, c2}
    Nil = Nil
    ElectionTerms <- Alone3
    Requests <- OwnRequests
    MaxIndex = 2
    MaxRounds = 1
    MaxLate = 0
    CrashServers = {s1}
    ApplyServers = {s1, s2}
    CompactServers = {s1, s2}
VIEW LiveState
INVARIANTS
    TypeOK
    IndexesOrdered
    StateMachineSafety
    AppliedInOrder
    LogMatching
    NextIndexInRange
    
