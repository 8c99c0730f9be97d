SPECIFICATION Spec
CONSTANTS
    s1 = s1
    s2 = s2
    s3 = s3
    c1 = c1
    c2 = c2
    Server = {s1, s2, s3}
    Command = {c1, c2}
    Nil = Nil
    ElectionTerms <- Rivals2
    Requests <- OwnRequests
    MaxIndex = 0
    MaxRounds = 1
    MaxLate = 0
    CrashServers = {s1, s3}
    ApplyServers = {}
    CompactServers = {}
VIEW LiveState
INVARIANTS
    ElectionSafety
    BallotsBinding
PROPERTY
    VotesAreFinal
