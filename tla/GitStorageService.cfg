SPECIFICATION FairSpec
PROPERTIES HandedOutVersionsAreCurrent FailedReadsHaveACause FirstEditsMatchOnce EveryRequestAnswered
CONSTANTS
    t1 = t1
    t2 = t2
    a = a
    b = b
    c = c
    d = d
    x = x
    y = y
    Crlf = Crlf
    Lf = Lf
    NoUtf8 = NoUtf8
    NoThread = NoThread
    None = None
    StaleVersion = StaleVersion
    Threads <- MCThreads
    TextPaths <- MCForeignTextPaths
    BinaryPaths <- MCBinaryPaths
    Tokens <- MCForeignTokens
    InitialFiles <- MCInitialFiles
    Scripts <- ForeignScripts
    MaxRequests = 2
    Faults = {"io", "crash"}
CHECK_DEADLOCK FALSE
