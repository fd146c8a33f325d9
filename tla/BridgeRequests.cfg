SPECIFICATION Spec
INVARIANT BridgeInv
PROPERTIES OnlyWhatWasSeen MovesWriteBeforeTheyRemove OkMeansDone
SYMMETRY WorkerSymmetry
CONSTANTS
    w1 = w1
    w2 = w2
    t1 = t1
    t2 = t2
    t3 = t3
    s1 = s1
    b1 = b1
    b2 = b2
    crlf = crlf
    lf = lf
    latin1 = latin1
    None = None
    Workers <- MCWorkers
    TextPaths <- MCText
    SkillPaths <- MCSkill
    BinaryPaths <- MCBinary
    Contents <- MCContents
    AsText <- MCAsText
    NotUtf8 <- MCNotUtf8
    Initial <- MCInitial
    Menu <- MCMenu
    MaxRequests = 2
    MaxChanges = 2
    Faults = {"api"}
CHECK_DEADLOCK FALSE
