CONSTANTS
    Clients = {c1, c2, c3}
    Limit = 2
    MaxMsgs = 2
    Lines = 6
    Cap = 2
    MaxLine = 2
    MayCrash = TRUE
    Datagrams = 4
    MaxStray = 2
    Values = {1, 2, 3}
    Nodes = {n1, n2, n3, n4}
    Null = Null
    Garbage = Garbage
    Failed = Failed
    InitialSize = 3
    LowWater = 3
    MaxSize = 5
SPECIFICATION Spec
INVARIANT NoEcho
CHECK_DEADLOCK FALSE
