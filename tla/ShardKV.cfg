SPECIFICATION FairSpec
CONSTANTS
    NShards = 3
    Gid = {1, 2}
    Key = {0}
    Value = {v}
    Nil = Nil
    Empty = Empty
    Client = {c1}
    Ctrler = {i1, i2}
    First = i1
    MaxVersion = 1
    MaxNum = 3
    MaxCalls = 1
    MaxFaults = 1
    c1 = c1
    i1 = i1
    i2 = i2
    v = v
INVARIANTS OneServer NeverDecodesNil PublishedIsServed OneSuccessor 
PROPERTIES  ChangeCompletes CallsReturn
CHECK_DEADLOCK FALSE
