SPECIFICATION FairSpec
CONSTANTS
    Client = {p1, p2}
    Key = {k1}
    Value = {v1, v2}
    Nil = Nil
    Empty = Empty
    MaxVersion = 2
PROPERTIES ImplementsMap CallsReturn
