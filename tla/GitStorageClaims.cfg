\* Statements the code does not keep, checked one at a time.
SPECIFICATION Spec
INVARIANT FailedTransactionWritesNothing
\* INVARIANT ExistingFilesAreCommitted
\* PROPERTY EditsMatchOnce
CONSTANTS
    t1 = t1
    t2 = t2
    a = a
    b = b
    c = c
    d = d
    x = x
    y = y
    Crlf = Crlf
    Lf = Lf
    NoUtf8 = NoUtf8
    NoThread = NoThread
    None = None
    StaleVersion = StaleVersion
    Threads <- MCThreads
    TextPaths <- MCTextPaths
    BinaryPaths <- MCBinaryPaths
    Tokens <- MCTokens
    InitialFiles <- MCInitialFiles
    Scripts <- MixedScripts
    MaxRequests = 2
    Faults = {}
CHECK_DEADLOCK FALSE
