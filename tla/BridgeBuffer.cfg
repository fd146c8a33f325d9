\* A statement the code does not keep.
SPECIFICATION Spec
PROPERTY CachedTokensHaveTheBuffer
SYMMETRY Alike
CONSTANTS
    ann = ann
    ben = ben
    ua = ua
    ub = ub
    t1 = t1
    t2 = t2
    None = None
    Empty = Empty
    Garbled = Garbled
    Shells = {c1}
    Threads <- MCThreads
    Names <- MCNames
    Users <- MCUsers
    Initial <- MCInitial
    InitiallyDrawn = 1
    Menu <- MCMenu
    Attempts <- MCAttempts
    MaxCommands = 0
    Faults = {"fail", "crash"}
    Second = 2
    TTL = 6
    Buffer = 3
    Travel = 1
    MaxTime = 6
    MaxRequests = 3
CHECK_DEADLOCK FALSE
