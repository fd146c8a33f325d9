\* Statements the code does not keep, checked one at a time.
SPECIFICATION Spec
PROPERTY TextMovesAreOneCommit
\* PROPERTY FilesThereCanBeRead
CONSTANTS
    w1 = w1
    w2 = w2
    t1 = t1
    t2 = t2
    t3 = t3
    s1 = s1
    b1 = b1
    b2 = b2
    crlf = crlf
    lf = lf
    latin1 = latin1
    None = None
    Workers <- MCWorkers
    TextPaths <- MCText
    SkillPaths <- MCSkill
    BinaryPaths <- MCBinary
    Contents <- MCContents
    AsText <- MCAsText
    NotUtf8 <- MCNotUtf8
    Initial <- MCLf
    Menu <- MCClaims
    MaxRequests = 2
    MaxChanges = 0
    Faults = {}
CHECK_DEADLOCK FALSE
