SPECIFICATION FairSpec
CONSTANTS
    Client = {p1, p2}
    Key = {lock}
    Value = {idle, t1, t2, t3}
    Nil = Nil
    Empty = Empty
    MaxVersion = 0
    lockname = lock
    Idle = idle
    Token = {t1, t2, t3}
    MaxAcquires = 2
CHECK_DEADLOCK FALSE
INVARIANT
    MutualExclusion
PROPERTIES
    OnlyOwnerReleases
    LockProgress
