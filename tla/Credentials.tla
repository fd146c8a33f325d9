---------------------------- MODULE Credentials -----------------------------
(***************************************************************************)
(* The content of clients.json and what one administrative operation makes *)
(* of it (auth/client_registry.py).  API keys and key pairs are random and *)
(* never repeat; they are numbered in the order they are drawn.            *)
(***************************************************************************)
EXTENDS Naturals, FiniteSets

CONSTANTS
    ClientIds,
    Kids,           \* names of signing keys
    None,
    Initial,        \* the registry at start
    InitiallyDrawn  \* secrets drawn before

Entries ==
    [key: Nat, revoked: BOOLEAN, issues: BOOLEAN, fixed: BOOLEAN,
     kids: [Kids -> [pub: Nat, active: BOOLEAN] \cup {None}]]

(* A file that is not there reads as an empty registry.                     *)
Registries == [ClientIds -> Entries \cup {None}]

Updates ==
    [op: {"create"}, client: ClientIds, agent: BOOLEAN, fixed: BOOLEAN]
    \cup [op: {"update"}, client: ClientIds, issues: BOOLEAN \cup {None}]
    \cup [op: {"revoke", "rotate"}, client: ClientIds]
    \cup [op: {"addKey", "revokeKey"}, client: ClientIds, kid: Kids]

(* Mutant: a kid may be registered again once it is revoked.                *)
VerdictReusesKids(r, reg) ==
    CASE r.op = "create" ->
            IF reg[r.client] # None \/ r.agent # r.fixed THEN "ValidationError" ELSE "ok"
      [] r.op # "create" /\ reg[r.client] = None -> "NotFound"
      [] r.op = "addKey" /\ reg[r.client] # None ->
            IF reg[r.client].kids[r.kid] # None /\ reg[r.client].kids[r.kid].active
            THEN "ValidationError" ELSE "ok"
      [] r.op = "revokeKey" /\ reg[r.client] # None ->
            IF reg[r.client].kids[r.kid] = None THEN "NotFound" ELSE "ok"
      [] OTHER -> "ok"

(* How the registry judges the operation; fixed_user_id goes with an        *)
(* autonomous agent, and with nobody else.                                  *)
Verdict(r, reg) ==
    CASE r.op = "create" ->
            IF reg[r.client] # None \/ r.agent # r.fixed THEN "ValidationError" ELSE "ok"
      [] r.op # "create" /\ reg[r.client] = None -> "NotFound"
      [] r.op = "addKey" /\ reg[r.client] # None ->
            IF reg[r.client].kids[r.kid] # None THEN "ValidationError" ELSE "ok"
      [] r.op = "revokeKey" /\ reg[r.client] # None ->
            IF reg[r.client].kids[r.kid] = None THEN "NotFound" ELSE "ok"
      [] OTHER -> "ok"

DrawsSecret(r) == r.op \in {"create", "rotate", "addKey"}

(* The registry after the operation; n is the secret drawn for it.          *)
Updated(r, reg, n) ==
    CASE r.op = "create" ->
            [reg EXCEPT ![r.client] =
                [key |-> n, revoked |-> FALSE, issues |-> FALSE, fixed |-> r.fixed,
                 kids |-> [k \in Kids |-> None]]]
      [] r.op = "update" ->
            IF r.issues = None THEN reg
            ELSE [reg EXCEPT ![r.client].issues = r.issues]
      [] r.op = "revoke"    -> [reg EXCEPT ![r.client].revoked = TRUE]
      [] r.op = "rotate"    -> [reg EXCEPT ![r.client].key = n]
      [] r.op = "addKey"    ->
            [reg EXCEPT ![r.client].kids[r.kid] = [pub |-> n, active |-> TRUE]]
      [] r.op = "revokeKey" -> [reg EXCEPT ![r.client].kids[r.kid].active = FALSE]

(* Secrets a registry knows.                                                *)
Secrets(reg) ==
    UNION {{reg[c].key} \cup {reg[c].kids[k].pub : k \in {j \in Kids : reg[c].kids[j] # None}} :
              c \in {d \in ClientIds : reg[d] # None}}

(* The holder of an API key.                                                *)
Holders(reg, n) == {c \in ClientIds : reg[c] # None /\ reg[c].key = n}

KeysAreUnique(reg) ==
    \A c, d \in ClientIds :
       reg[c] # None /\ reg[d] # None /\ reg[c].key = reg[d].key => c = d

ASSUME NoneIsNoEntry  == None \notin Entries /\ None \notin [pub: Nat, active: BOOLEAN]
                         /\ None \notin BOOLEAN
ASSUME InitialTyped   == Initial \in Registries /\ InitiallyDrawn \in Nat
ASSUME InitialSecrets == Secrets(Initial) \subseteq 1 .. InitiallyDrawn /\ KeysAreUnique(Initial)
=============================================================================
