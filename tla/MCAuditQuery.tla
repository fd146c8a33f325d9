---------------------------- MODULE MCAuditQuery ----------------------------
(* Two users, two moments, pages of two of up to four entries.              *)
EXTENDS AuditQuery

CONSTANTS alice, bob

Ask(user, operation, pii, from, to) ==
    [user |-> user, operation |-> operation, pii |-> pii, from |-> from, to |-> to]

MCDraws   == 1 .. 4
MCUsers   == {alice, bob}
MCOneUser == {alice}
MCOps     == {"read"}

MCFilters == {Ask(None, None, FALSE, None, None), Ask(alice, "read", TRUE, None, 1)}
MCPeriod  == {Ask(None, None, TRUE, 2, None)}
=============================================================================
