SPECIFICATION Spec
PROPERTY UnforcedKeysStay
CONSTANTS
    s1 = s1
    s2 = s2
    cli = cli
    server = server
    shell = shell
    web = web
    bot = bot
    k1 = k1
    k2 = k2
    None = None
    NoActor = NoActor
    Empty = Empty
    Garbled = Garbled
    Malformed = Malformed
    Actors <- MCActors
    Processes <- RacingShells
    ProcessOf <- TwoShells
    Server = server
    InitialPem = None
    ClientIds <- MCClientIds
    Kids <- MCKids
    Initial <- NoPairs
    InitiallyDrawn = 2
    Menu <- PairHistory
    MaxCalls = 3
    Serialised = TRUE
    Faults = {}
CHECK_DEADLOCK FALSE
