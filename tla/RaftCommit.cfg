SPECIFICATION DivergedSpec
CONSTANTS
    s1 = s1
    s2 = s2
    s3 = s3
    c1 = c1
    c2 = c2
    Server = {s1, s2, s3}
    Command = {c1, c2}
    Nil = Nil
    ElectionTerms <- Turns34
    Requests <- OwnRequests
    MaxIndex = 1
    MaxRounds = 1
    MaxLate = 1
    CrashServers = {}
    ApplyServers = {}
    CompactServers = {}
VIEW LiveState
INVARIANTS
    IndexesOrdered
    LeaderCompleteness
    MatchIndexTruthful
PROPERTY
    CommittedIsStable
