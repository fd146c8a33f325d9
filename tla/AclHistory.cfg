SPECIFICATION Spec
INVARIANTS NothingWithoutAnAllow PrecedenceHolds OrderBreaksOnlyTies RulesKeepToTheirPaths
PROPERTIES RulesActOnlyWhereTheySpeak
CONSTANTS
    None = None
    Star = Star
    Slash = Slash
    Newline = Newline
    alice = alice
    bob = bob
    web = web
    bot = bot
    a = a
    b = b
    dot = dot
    Queries <- MCQueries
    Menu <- MCMenu
    MaxRules = 3
CHECK_DEADLOCK FALSE
