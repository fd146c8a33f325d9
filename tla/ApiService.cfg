SPECIFICATION FairSpec
INVARIANTS TypeOK AnswersAreLogged PiiSuccessIsFlagged BrokenRulesLetNothingThrough
PROPERTIES ChangesWerePermitted EveryRequestEnds
CONSTANTS
    None = None
    Star = Star
    Slash = Slash
    Newline = Newline
    Broken = Broken
    Nobody = Nobody
    c1 = c1
    c2 = c2
    alice = alice
    root = root
    web = web
    note = note
    pii = pii
    aclJson = aclJson
    chN = chN
    chP = chP
    chS = chS
    chI = chI
    scan = scan
    Callers <- MCPair
    Admin = root
    AclPath = aclJson
    Files <- MCFiles
    TextOf <- MCTextOf
    KindOf <- MCKindOf
    AclFiles <- MCAclFiles
    InitialAcl <- Opened
    Menu <- MCForms
    PoolSizes = {1, 2}
    MaxRequests = 2
    Faults = {"sink", "crash"}
CHECK_DEADLOCK FALSE
