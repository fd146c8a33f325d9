SPECIFICATION Spec
PROPERTY RevokedKidsAreRefused
SYMMETRY ServerThreads
CONSTANTS
    s1 = s1
    s2 = s2
    cli = cli
    server = server
    shell = shell
    web = web
    bot = bot
    k1 = k1
    k2 = k2
    None = None
    NoActor = NoActor
    Empty = Empty
    Garbled = Garbled
    Malformed = Malformed
    Actors <- MCActors
    Processes <- MCProcesses
    ProcessOf <- MCProcessOf
    Server = server
    InitialPem = 2
    ClientIds <- MCClientIds
    Kids <- MCKids
    Initial <- MCInitial
    InitiallyDrawn = 2
    Menu <- KeyHistory
    MaxCalls = 3
    Serialised = FALSE
    Faults = {}
CHECK_DEADLOCK FALSE
