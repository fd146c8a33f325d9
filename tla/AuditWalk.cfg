SPECIFICATION AuditSpec
INVARIANT WalkReadsEachOnce
CONSTANTS
    alice = alice
    bob = bob
    None = None
    Draws <- MCDraws
    Users <- MCUsers
    Operations <- MCOps
    MaxTime = 2
    Filters <- MCFilters
    PageSize = 2
CHECK_DEADLOCK FALSE
