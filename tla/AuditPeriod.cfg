SPECIFICATION AuditSpec
INVARIANTS PeriodsHaveAStart
CONSTANTS
    alice = alice
    bob = bob
    None = None
    Draws <- MCDraws
    Users <- MCOneUser
    Operations <- MCOps
    MaxTime = 2
    Filters <- MCPeriod
    PageSize = 2
CHECK_DEADLOCK FALSE
