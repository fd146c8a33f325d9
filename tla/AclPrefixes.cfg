SPECIFICATION Spec
\* Statements the code does not keep, checked one at a time.
INVARIANT LongerPrefixDecides
\* INVARIANT DoubleStarsCoverTheirDirectory
CONSTANTS
    None = None
    Star = Star
    Slash = Slash
    Newline = Newline
    alice = alice
    bob = bob
    web = web
    bot = bot
    a = a
    b = b
    dot = dot
    Queries <- MCQueries
    Menu <- MCPrefixMenu
    MaxRules = 2
CHECK_DEADLOCK FALSE
