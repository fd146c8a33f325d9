--------------------------- MODULE AtomicRegistry ---------------------------
(***************************************************************************)
(* What the client registry promises its callers, without file, lock or    *)
(* processes: one operation at a time, each on the result of the one       *)
(* before, and no secret used twice.                                       *)
(***************************************************************************)
EXTENDS Credentials

VARIABLES
    clients,    \* the registry
    drawn       \* secrets drawn so far

vars == <<clients, drawn>>

Init ==
    /\ clients = Initial
    /\ drawn = InitiallyDrawn

Draw ==
    /\ drawn' = drawn + 1
    /\ UNCHANGED clients

Perform(r) ==
    /\ Verdict(r, clients) = "ok"
    /\ DrawsSecret(r) => drawn \notin Secrets(clients)
    /\ clients' = Updated(r, clients, drawn)
    /\ UNCHANGED drawn

Next == Draw \/ \E r \in Updates : Perform(r)

Spec == Init /\ [][Next]_vars
=============================================================================
