SPECIFICATION FairSpec
CONSTANTS
    s1 = s1
    s2 = s2
    s3 = s3
    c1 = c1
    c2 = c2
    Server = {s1}
    Command = {c1, c2}
    Nil = Nil
    ElectionTerms <- Alone1
    Requests <- OwnRequests
    MaxIndex = 5
    MaxRounds = 1
    MaxLate = 0
    CrashServers = {}
    ApplyServers = {s1}
    CompactServers = {s1}
PROPERTY
    CommandsAreExecuted
