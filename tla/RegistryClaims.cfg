\* Statements the code does not keep, checked one at a time.
SPECIFICATION Spec
PROPERTY BadLoginsAreUnauthorized
\* PROPERTY TokensOutliveTheirClient
CONSTANTS
    s1 = s1
    s2 = s2
    cli = cli
    server = server
    shell = shell
    web = web
    bot = bot
    k1 = k1
    k2 = k2
    None = None
    NoActor = NoActor
    Empty = Empty
    Garbled = Garbled
    Malformed = Malformed
    Actors <- MCActors
    Processes <- MCProcesses
    ProcessOf <- MCProcessOf
    Server = server
    InitialPem = 2
    ClientIds <- MCClientIds
    Kids <- MCKids
    Initial <- MCInitial
    InitiallyDrawn = 2
    Menu <- AllForms
    MaxCalls = 2
    Serialised = TRUE
    Faults = {}
CHECK_DEADLOCK FALSE
