SPECIFICATION Spec
INVARIANT StoreInv
PROPERTIES NoLostUpdate ReadsSeeOneCommit OrphansStay ImplementsAtomicStore
SYMMETRY ThreadSymmetry
CONSTANTS
    t1 = t1
    t2 = t2
    a = a
    b = b
    c = c
    d = d
    x = x
    y = y
    Crlf = Crlf
    Lf = Lf
    NoUtf8 = NoUtf8
    NoThread = NoThread
    None = None
    StaleVersion = StaleVersion
    Threads <- MCThreads
    TextPaths <- MCTextPaths
    BinaryPaths <- MCBinaryPaths
    Tokens <- MCTokens
    InitialFiles <- MCInitialFiles
    Scripts <- CoreScripts
    MaxRequests = 3
    Faults = {"io", "crash"}
CHECK_DEADLOCK FALSE
