\* Statements the code does not keep, checked one at a time.
SPECIFICATION Spec
INVARIANT PiiAccessIsFlagged
\* INVARIANT EveryCallIsLogged
\* INVARIANT PreviewsAreFlagged
\* PROPERTY PermittedWhenCommitted
\* INVARIANT AdminCanWriteTheAcl
CONSTANTS
    None = None
    Star = Star
    Slash = Slash
    Newline = Newline
    Broken = Broken
    Nobody = Nobody
    c1 = c1
    c2 = c2
    alice = alice
    root = root
    web = web
    note = note
    pii = pii
    aclJson = aclJson
    chN = chN
    chP = chP
    chS = chS
    chI = chI
    scan = scan
    Callers <- MCPair
    Admin = root
    AclPath = aclJson
    Files <- MCFiles
    TextOf <- MCTextOf
    KindOf <- MCKindOf
    AclFiles <- MCAclFiles
    InitialAcl <- Opened
    Menu <- MCClaims
    PoolSizes = {1}
    MaxRequests = 2
    Faults = {}
CHECK_DEADLOCK FALSE
