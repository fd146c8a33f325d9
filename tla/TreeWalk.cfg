SPECIFICATION FairBridgeSpec
INVARIANTS WalkShowsOnceWhatStayed PropfindShowsWhatStayed
PROPERTIES ListingsEnd
CONSTANTS
    Paths <- MCPaths
    Walks <- MCWalks
    Hidden <- MCHidden
    Broken <- MCBroken
    MaxChanges = 2
    End = End
CHECK_DEADLOCK FALSE
