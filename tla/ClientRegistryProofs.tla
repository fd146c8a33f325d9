------------------------ MODULE ClientRegistryProofs ------------------------
(***************************************************************************)
(* Proofs about ClientRegistry: for any number of calls, processes,        *)
(* clients and kids, and whatever breaks, a registry with one writer at a  *)
(* time implements AtomicRegistry, and no credential comes back.           *)
(***************************************************************************)
EXTENDS ClientRegistry, TLAPS

(* One writer at a time: because all calls are of one process, whose lock   *)
(* sees to it, or because the administrator runs no command during another  *)
(* update.                                                                  *)
OneWriter == Serialised \/ \A a, b \in Actors : ProcessOf[a] = ProcessOf[b]

(* What no update undoes.                                                   *)
Keeps(old, new) ==
    \A c \in ClientIds : old[c] # None =>
       /\ new[c] # None
       /\ old[c].revoked => new[c].revoked
       /\ new[c].key = old[c].key \/ new[c].key \notin Secrets(old)
       /\ \A k \in Kids : old[c].kids[k] # None =>
             /\ new[c].kids[k] # None
             /\ new[c].kids[k].pub = old[c].kids[k].pub
             /\ new[c].kids[k].active => old[c].kids[k].active

(* The end of a credential that an update reports is the end of it.         *)
Performed(r, reg) ==
    /\ reg[r.client] # None
    /\ r.op = "revoke" => reg[r.client].revoked
    /\ r.op = "revokeKey" => reg[r.client].kids[r.kid] # None /\ ~reg[r.client].kids[r.kid].active
    /\ r.op = "addKey" => reg[r.client].kids[r.kid] # None

SecretsInHand == \A a \in Actors : pc[a] = "save" /\ DrawsSecret(UpdateOf(req[a])) => drawn > 0

WritesPerform == \A a \in Actors : pc[a] = "write" => Performed(UpdateOf(req[a]), stored)

(* A command about to write a private key has registered the public key.    *)
PairsAreRegistered ==
    \A a \in Actors : pc[a] \in {"open", "pem"} =>
       LET c == req[a].client
           k == req[a].kid
       IN  /\ stored[c] # None
           /\ stored[c].kids[k] # None
           /\ mem[a][c].kids[k].pub = stored[c].kids[k].pub

DeadIsGone ==
    \A c \in ClientIds :
       /\ <<"client", c>> \in dead => stored[c] # None /\ stored[c].revoked
       /\ \A n \in Nat : <<"older", c, n>> \in dead => stored[c] # None /\ stored[c].key >= n
       /\ \A k \in Kids : <<"kid", c, k>> \in dead =>
             stored[c] # None /\ stored[c].kids[k] # None /\ ~stored[c].kids[k].active

DeadBefore == deadAtStart \in [Actors -> SUBSET dead]

(* Between its two reads a login knows that its client was alive.           *)
LoginsAreAlive ==
    \A a \in Actors : pc[a] = "signing" =>
       \A c \in Holders(mem[a], req[a].key) :
          /\ <<"client", c>> \notin deadAtStart[a]
          /\ \A n \in Nat : <<"older", c, n>> \in deadAtStart[a] => req[a].key >= n

(* RegistryInv, strengthened by what the calls under way know.              *)
RegistryInd ==
    /\ RegistryInv
    /\ SecretsInHand /\ WritesPerform /\ PairsAreRegistered
    /\ DeadIsGone /\ DeadBefore /\ LoginsAreAlive
-----------------------------------------------------------------------------
(* What one operation makes of the registry                                 *)

(* An accepted operation makes the entry `new` of the entry `old`.          *)
Outcome(r, old, new, n) ==
    \/ /\ r.op = "create" /\ old = None
       /\ new = [key |-> n, revoked |-> FALSE, issues |-> FALSE, fixed |-> r.fixed,
                 kids |-> [k \in Kids |-> None]]
    \/ /\ r.op = "update" /\ old \in Entries
       /\ new = IF r.issues = None THEN old ELSE [old EXCEPT !.issues = r.issues]
    \/ r.op = "revoke" /\ old \in Entries /\ new = [old EXCEPT !.revoked = TRUE]
    \/ r.op = "rotate" /\ old \in Entries /\ new = [old EXCEPT !.key = n]
    \/ /\ r.op = "addKey" /\ old \in Entries /\ old.kids[r.kid] = None
       /\ new = [old EXCEPT !.kids[r.kid] = [pub |-> n, active |-> TRUE]]
    \/ /\ r.op = "revokeKey" /\ old \in Entries /\ old.kids[r.kid] # None
       /\ new = [old EXCEPT !.kids[r.kid].active = FALSE]

(* An operation changes the entry of its client and no other.               *)
LEMMA UpdatedElsewhere ==
    ASSUME NEW r \in Updates, NEW reg \in Registries, NEW n
    PROVE  /\ DOMAIN Updated(r, reg, n) = ClientIds
           /\ r.client \in ClientIds
           /\ Updated(r, reg, n) = [c \in ClientIds |-> Updated(r, reg, n)[c]]
           /\ \A c \in ClientIds : c # r.client => Updated(r, reg, n)[c] = reg[c]
<1>1. r.client \in ClientIds
  BY DEF Updates
<1>2. CASE r.op = "create"
  BY <1>1, <1>2 DEF Updated, Registries
<1>3. CASE r.op = "update"
  BY <1>1, <1>3 DEF Updated, Registries
<1>4. CASE r.op = "revoke"
  BY <1>1, <1>4 DEF Updated, Registries
<1>5. CASE r.op = "rotate"
  BY <1>1, <1>5 DEF Updated, Registries
<1>6. CASE r.op = "addKey"
  BY <1>1, <1>6 DEF Updated, Registries
<1>7. CASE r.op = "revokeKey"
  BY <1>1, <1>7 DEF Updated, Registries
<1>8. r.op \in {"create", "update", "revoke", "rotate", "addKey", "revokeKey"}
  BY DEF Updates
<1>. QED BY <1>2, <1>3, <1>4, <1>5, <1>6, <1>7, <1>8

(* What an operation accepted by the registry makes of its client's entry.  *)
LEMMA UpdatedEntry ==
    ASSUME NEW r \in Updates, NEW reg \in Registries, NEW n \in Nat, Verdict(r, reg) = "ok"
    PROVE  Outcome(r, reg[r.client], Updated(r, reg, n)[r.client], n)
<1>1. r.client \in ClientIds /\ reg[r.client] \in Entries \cup {None}
  BY DEF Updates, Registries
<1>2. CASE r.op = "create"
  BY <1>1, <1>2 DEF Outcome, Updated, Verdict, Registries
<1>3. CASE r.op = "update"
  BY <1>1, <1>3 DEF Outcome, Updated, Verdict, Registries
<1>4. CASE r.op = "revoke"
  BY <1>1, <1>4 DEF Outcome, Updated, Verdict, Registries
<1>5. CASE r.op = "rotate"
  BY <1>1, <1>5 DEF Outcome, Updated, Verdict, Registries
<1>6. CASE r.op = "addKey"
  BY <1>1, <1>6 DEF Outcome, Updated, Verdict, Registries
<1>7. CASE r.op = "revokeKey"
  BY <1>1, <1>7 DEF Outcome, Updated, Verdict, Registries
<1>8. r.op \in {"create", "update", "revoke", "rotate", "addKey", "revokeKey"}
  BY DEF Updates
<1>. QED BY <1>2, <1>3, <1>4, <1>5, <1>6, <1>7, <1>8

(* An accepted operation leaves an entry.                                   *)
LEMMA OutcomeTyped ==
    ASSUME NEW r \in Updates, NEW n \in Nat, NEW old, NEW new, Outcome(r, old, new, n)
    PROVE  new \in Entries
<1>1. CASE r.op = "create"
  <2>1. r.fixed \in BOOLEAN
    BY <1>1 DEF Updates
  <2>2. [k \in Kids |-> None] \in [Kids -> [pub: Nat, active: BOOLEAN] \cup {None}]
    OBVIOUS
  <2>3. new = [key |-> n, revoked |-> FALSE, issues |-> FALSE, fixed |-> r.fixed,
               kids |-> [k \in Kids |-> None]]
    BY <1>1 DEF Outcome
  <2>. QED BY <2>1, <2>2, <2>3 DEF Entries
<1>2. CASE r.op = "update"
  <2>1. r.issues \in BOOLEAN \cup {None}
    BY <1>2 DEF Updates
  <2>. QED BY <1>2, <2>1 DEF Entries, Outcome
<1>3. CASE r.op = "revoke"
  BY <1>3 DEF Entries, Outcome
<1>4. CASE r.op = "rotate"
  BY <1>4 DEF Entries, Outcome
<1>5. CASE r.op = "addKey"
  <2>1. /\ old \in Entries
        /\ new = [old EXCEPT !.kids = [old.kids EXCEPT ![r.kid] = [pub |-> n, active |-> TRUE]]]
    BY <1>5 DEF Outcome
  <2>2. [old.kids EXCEPT ![r.kid] = [pub |-> n, active |-> TRUE]]
           \in [Kids -> [pub: Nat, active: BOOLEAN] \cup {None}]
    BY <2>1 DEF Entries
  <2>. QED BY <2>1, <2>2 DEF Entries
<1>6. CASE r.op = "revokeKey"
  <2>1. r.kid \in Kids
    BY <1>6 DEF Updates
  <2>2. old.kids[r.kid] \in [pub: Nat, active: BOOLEAN]
    BY <1>6, <2>1 DEF Outcome, Entries
  <2>3. /\ old \in Entries
        /\ new = [old EXCEPT !.kids = [old.kids EXCEPT ![r.kid] = [old.kids[r.kid] EXCEPT !.active = FALSE]]]
    BY <1>6 DEF Outcome
  <2>4. [old.kids EXCEPT ![r.kid] = [old.kids[r.kid] EXCEPT !.active = FALSE]]
           \in [Kids -> [pub: Nat, active: BOOLEAN] \cup {None}]
    BY <2>2, <2>3 DEF Entries
  <2>. QED BY <2>3, <2>4 DEF Entries
<1>7. r.op \in {"create", "update", "revoke", "rotate", "addKey", "revokeKey"}
  BY DEF Updates
<1>. QED BY <1>1, <1>2, <1>3, <1>4, <1>5, <1>6, <1>7

(* An accepted operation leaves a registry, and its client is in it.        *)
LEMMA UpdatedTyped ==
    ASSUME NEW r \in Updates, NEW reg \in Registries, NEW n \in Nat, Verdict(r, reg) = "ok"
    PROVE  Updated(r, reg, n) \in Registries /\ Updated(r, reg, n)[r.client] \in Entries
<1>1. Updated(r, reg, n)[r.client] \in Entries
  BY UpdatedEntry, OutcomeTyped
<1>2. \A c \in ClientIds : Updated(r, reg, n)[c] \in Entries \cup {None}
  BY <1>1, UpdatedElsewhere DEF Registries
<1>. QED BY <1>1, <1>2, UpdatedElsewhere DEF Registries

(* In an accepted operation's entry nothing is undone, and what is new is   *)
(* the secret drawn for it.                                                 *)
LEMMA OutcomeKeeps ==
    ASSUME NEW r \in Updates, NEW n \in Nat, NEW old, NEW new, Outcome(r, old, new, n)
    PROVE  /\ old # None => /\ old.revoked => new.revoked
                            /\ new.key = old.key \/ (new.key = n /\ DrawsSecret(r))
                            /\ \A k \in Kids : old.kids[k] # None =>
                                  /\ new.kids[k] # None
                                  /\ new.kids[k].pub = old.kids[k].pub
                                  /\ new.kids[k].active => old.kids[k].active
           /\ old = None => new.key = n /\ DrawsSecret(r)
           /\ \A k \in Kids : new.kids[k] # None =>
                 \/ old # None /\ old.kids[k] # None /\ new.kids[k].pub = old.kids[k].pub
                 \/ new.kids[k].pub = n /\ DrawsSecret(r)
<1>. USE NoneIsNoEntry
<1>1. CASE r.op = "create"
  BY <1>1 DEF Entries, Outcome, DrawsSecret
<1>2. CASE r.op = "update"
  <2>1. /\ old \in Entries
        /\ new.kids = old.kids /\ new.key = old.key /\ new.revoked = old.revoked
    BY <1>2 DEF Entries, Outcome
  <2>. QED BY <2>1
<1>3. CASE r.op = "revoke"
  <2>1. old \in Entries /\ new.kids = old.kids /\ new.key = old.key /\ new.revoked
    BY <1>3 DEF Entries, Outcome
  <2>. QED BY <2>1
<1>4. CASE r.op = "rotate"
  <2>1. /\ old \in Entries
        /\ new.kids = old.kids /\ new.key = n /\ new.revoked = old.revoked
    BY <1>4 DEF Entries, Outcome
  <2>. QED BY <2>1, <1>4 DEF DrawsSecret
<1>5. CASE r.op = "addKey"
  <2>1. /\ old \in Entries /\ old.kids[r.kid] = None
        /\ new.key = old.key /\ new.revoked = old.revoked
        /\ new.kids = [old.kids EXCEPT ![r.kid] = [pub |-> n, active |-> TRUE]]
    BY <1>5 DEF Entries, Outcome
  <2>2. r.kid \in Kids
    BY <1>5 DEF Updates
  <2>3. /\ new.kids[r.kid].pub = n
        /\ \A k \in Kids : k # r.kid => new.kids[k] = old.kids[k]
    BY <2>1, <2>2 DEF Entries
  <2>. QED BY <2>1, <2>2, <2>3, <1>5 DEF DrawsSecret
<1>6. CASE r.op = "revokeKey"
  <2>1. /\ old \in Entries /\ old.kids[r.kid] # None
        /\ new.key = old.key /\ new.revoked = old.revoked
        /\ new.kids = [old.kids EXCEPT ![r.kid] = [old.kids[r.kid] EXCEPT !.active = FALSE]]
    BY <1>6 DEF Entries, Outcome
  <2>2. r.kid \in Kids
    BY <1>6 DEF Updates
  <2>3. old.kids[r.kid] \in [pub: Nat, active: BOOLEAN]
    BY <2>1, <2>2 DEF Entries
  <2>4. /\ new.kids[r.kid] \in [pub: Nat, active: BOOLEAN]
        /\ new.kids[r.kid].pub = old.kids[r.kid].pub /\ ~new.kids[r.kid].active
        /\ \A k \in Kids : k # r.kid => new.kids[k] = old.kids[k]
    BY <2>1, <2>2, <2>3 DEF Entries
  <2>5. old # None /\ old.kids[r.kid] # None /\ new.kids[r.kid] # None
    BY <2>1, <2>3, <2>4 DEF Entries
  <2>6. ASSUME NEW k \in Kids
        PROVE  /\ old.kids[k] # None <=> new.kids[k] # None
               /\ new.kids[k].pub = old.kids[k].pub
               /\ new.kids[k].active => old.kids[k].active
    <3>1. CASE k = r.kid
      BY <3>1, <2>4, <2>5
    <3>2. CASE k # r.kid
      BY <3>2, <2>4
    <3>. QED BY <3>1, <3>2
  <2>. QED BY <2>1, <2>5, <2>6
<1>7. r.op \in {"create", "update", "revoke", "rotate", "addKey", "revokeKey"}
  BY DEF Updates
<1>. QED BY <1>1, <1>2, <1>3, <1>4, <1>5, <1>6, <1>7

(* What ends a credential has ended it.                                     *)
LEMMA OutcomePerforms ==
    ASSUME NEW r \in Updates, NEW n \in Nat, NEW old, NEW new, Outcome(r, old, new, n)
    PROVE  /\ r.op = "revoke" => new.revoked
           /\ r.op = "revokeKey" => new.kids[r.kid] # None /\ ~new.kids[r.kid].active
           /\ r.op = "addKey" => new.kids[r.kid] # None
<1>. USE NoneIsNoEntry
<1>3. CASE r.op = "revoke"
  BY <1>3 DEF Entries, Outcome
<1>5. CASE r.op = "addKey"
  <2>1. /\ old \in Entries
        /\ new.kids = [old.kids EXCEPT ![r.kid] = [pub |-> n, active |-> TRUE]]
    BY <1>5 DEF Entries, Outcome
  <2>2. r.kid \in Kids
    BY <1>5 DEF Updates
  <2>3. new.kids[r.kid] = [pub |-> n, active |-> TRUE]
    BY <2>1, <2>2 DEF Entries
  <2>4. [pub |-> n, active |-> TRUE] \in [pub: Nat, active: BOOLEAN]
    OBVIOUS
  <2>. QED BY <2>3, <2>4, <1>5
<1>6. CASE r.op = "revokeKey"
  <2>1. /\ old \in Entries /\ old.kids[r.kid] # None
        /\ new.kids = [old.kids EXCEPT ![r.kid] = [old.kids[r.kid] EXCEPT !.active = FALSE]]
    BY <1>6 DEF Entries, Outcome
  <2>2. r.kid \in Kids
    BY <1>6 DEF Updates
  <2>3. old.kids[r.kid] \in [pub: Nat, active: BOOLEAN]
    BY <2>1, <2>2 DEF Entries
  <2>4. new.kids[r.kid] \in [pub: Nat, active: BOOLEAN] /\ ~new.kids[r.kid].active
    BY <2>1, <2>2, <2>3 DEF Entries
  <2>. QED BY <2>4, <1>6
<1>. QED BY <1>3, <1>5, <1>6

(* The secrets of a registry, entry by entry.                               *)
LEMMA SecretsOf ==
    ASSUME NEW reg, NEW n
    PROVE  n \in Secrets(reg) <=>
              \E c \in ClientIds : /\ reg[c] # None
                                   /\ \/ n = reg[c].key
                                      \/ \E k \in Kids : reg[c].kids[k] # None /\ n = reg[c].kids[k].pub
BY DEF Secrets

(* An accepted operation with a fresh secret undoes nothing.                *)
LEMMA UpdatedKeeps ==
    ASSUME NEW r \in Updates, NEW reg \in Registries, NEW n \in Nat, Verdict(r, reg) = "ok",
           DrawsSecret(r) => n \notin Secrets(reg)
    PROVE  Keeps(reg, Updated(r, reg, n)) /\ Performed(r, Updated(r, reg, n))
<1>. DEFINE after == Updated(r, reg, n)
<1>1. Outcome(r, reg[r.client], after[r.client], n)
  BY UpdatedEntry
<1>2. after[r.client] # None
  BY UpdatedTyped, NoneIsNoEntry
<1>3. /\ r.client \in ClientIds
      /\ \A c \in ClientIds : c # r.client => after[c] = reg[c]
  BY UpdatedElsewhere
<1>. HIDE DEF after
<1>4. Keeps(reg, after)
  <2>. SUFFICES ASSUME NEW c \in ClientIds, reg[c] # None
                PROVE  /\ after[c] # None
                       /\ reg[c].revoked => after[c].revoked
                       /\ after[c].key = reg[c].key \/ after[c].key \notin Secrets(reg)
                       /\ \A k \in Kids : reg[c].kids[k] # None =>
                             /\ after[c].kids[k] # None
                             /\ after[c].kids[k].pub = reg[c].kids[k].pub
                             /\ after[c].kids[k].active => reg[c].kids[k].active
    BY DEF Keeps
  <2>1. CASE c # r.client
    BY <1>3, <2>1
  <2>2. CASE c = r.client
    BY <1>1, <1>2, <2>2, OutcomeKeeps
  <2>. QED BY <2>1, <2>2
<1>5. Performed(r, after)
  BY <1>1, <1>2, OutcomePerforms DEF Performed
<1>. QED BY <1>4, <1>5 DEF after

(* An accepted operation with a fresh secret keeps secrets drawn and apart. *)
LEMMA UpdatedSecrets ==
    ASSUME NEW r \in Updates, NEW reg \in Registries, NEW n \in Nat, Verdict(r, reg) = "ok",
           DrawsSecret(r) => n > 0 /\ n \notin Secrets(reg),
           Secrets(reg) \subseteq 1 .. n, KeysAreUnique(reg)
    PROVE  /\ Secrets(Updated(r, reg, n)) \subseteq 1 .. n
           /\ KeysAreUnique(Updated(r, reg, n))
<1>. DEFINE after == Updated(r, reg, n)
<1>1. Outcome(r, reg[r.client], after[r.client], n)
  BY UpdatedEntry
<1>3. /\ r.client \in ClientIds
      /\ \A c \in ClientIds : c # r.client => after[c] = reg[c]
  BY UpdatedElsewhere
<1>. HIDE DEF after
<1>4. Secrets(after) \subseteq 1 .. n
  <2>. SUFFICES ASSUME NEW m \in Secrets(after) PROVE m \in Secrets(reg) \/ (m = n /\ DrawsSecret(r))
    OBVIOUS
  <2>1. PICK c \in ClientIds : /\ after[c] # None
                               /\ \/ m = after[c].key
                                  \/ \E k \in Kids : after[c].kids[k] # None /\ m = after[c].kids[k].pub
    BY SecretsOf
  <2>2. CASE c # r.client
    BY <2>1, <2>2, <1>3, SecretsOf
  <2>3. CASE c = r.client /\ m = after[c].key
    BY <2>3, <1>1, SecretsOf, OutcomeKeeps
  <2>4. CASE c = r.client /\ \E k \in Kids : after[c].kids[k] # None /\ m = after[c].kids[k].pub
    <3>1. PICK k \in Kids : after[c].kids[k] # None /\ m = after[c].kids[k].pub
      BY <2>4
    <3>2. \/ reg[c] # None /\ reg[c].kids[k] # None /\ m = reg[c].kids[k].pub
          \/ m = n /\ DrawsSecret(r)
      <4>1. \A j \in Kids : after[r.client].kids[j] # None =>
               \/ /\ reg[r.client] # None /\ reg[r.client].kids[j] # None
                  /\ after[r.client].kids[j].pub = reg[r.client].kids[j].pub
               \/ after[r.client].kids[j].pub = n /\ DrawsSecret(r)
        BY <1>1, OutcomeKeeps
      <4>. QED BY <4>1, <3>1, <2>4
    <3>. QED BY <3>2, SecretsOf
  <2>. QED BY <2>1, <2>2, <2>3, <2>4
<1>5. KeysAreUnique(after)
  <2>. SUFFICES ASSUME NEW c \in ClientIds, NEW d \in ClientIds, after[c] # None, after[d] # None,
                       after[c].key = after[d].key, c # d
                PROVE  FALSE
    BY DEF KeysAreUnique
  <2>1. \A e \in ClientIds : e # r.client /\ after[e] # None =>
           after[e].key # after[r.client].key
    <3>. SUFFICES ASSUME NEW e \in ClientIds, e # r.client, after[e] # None,
                         after[e].key = after[r.client].key
                  PROVE  FALSE
      OBVIOUS
    <3>1. reg[e] # None /\ after[e].key = reg[e].key /\ reg[e].key \in Secrets(reg)
      BY <1>3, SecretsOf
    <3>2. \/ after[r.client].key = n /\ DrawsSecret(r)
          \/ reg[r.client] # None /\ after[r.client].key = reg[r.client].key
      BY <1>1, OutcomeKeeps
    <3>. QED BY <3>1, <3>2, <1>3 DEF KeysAreUnique
  <2>2. c # r.client /\ d # r.client
    BY <2>1
  <2>. QED BY <2>2, <1>3 DEF KeysAreUnique
<1>. QED BY <1>4, <1>5 DEF after
-----------------------------------------------------------------------------
(* The invariant, call by call                                              *)

(* What RegistryInd says of one call.                                       *)
CallOK(a) ==
    /\ plock[ProcessOf[a]] = a <=> InUpdate(a)
    /\ pc[a] = "idle" <=> req[a] = None
    /\ InUpdate(a) => req[a] \in Changes
    /\ pc[a] \in {"open", "pem"} => req[a] \in Generates
    /\ pc[a] \in {"idle", "probe", "load"} <=> mem[a] = None
    /\ pc[a] = "save" =>
          /\ file = stored
          /\ Verdict(UpdateOf(req[a]), stored) = "ok"
          /\ mem[a] = Updated(UpdateOf(req[a]), stored, drawn)
          /\ DrawsSecret(UpdateOf(req[a])) => drawn > 0 /\ drawn \notin Secrets(stored)
    /\ pc[a] = "write" => file = Empty /\ mem[a] = stored /\ Performed(UpdateOf(req[a]), stored)

(* ... and of one that goes on after its update, or is a login.             *)
PairOK(a) ==
    pc[a] \in {"open", "pem"} =>
       /\ stored[req[a].client] # None
       /\ stored[req[a].client].kids[req[a].kid] # None
       /\ mem[a][req[a].client].kids[req[a].kid].pub = stored[req[a].client].kids[req[a].kid].pub

LoginOK(a) ==
    pc[a] = "signing" =>
       /\ req[a] \in Logins /\ req[a].token \in Tokens
       /\ \E c \in ClientIds : Holders(mem[a], req[a].key) = {c}
       /\ \A c \in Holders(mem[a], req[a].key) :
             /\ <<"client", c>> \notin deadAtStart[a]
             /\ \A n \in Nat : <<"older", c, n>> \in deadAtStart[a] => req[a].key >= n

(* What it says of the registry.                                            *)
StateOK == TypeOK /\ OneUpdate /\ FileIsStored /\ SecretsAreDrawn /\ DeadIsGone /\ DeadBefore

(* The two ways to state the invariant are the same.                        *)
LEMMA IndByCalls ==
    RegistryInd <=> StateOK /\ \A a \in Actors : CallOK(a) /\ PairOK(a) /\ LoginOK(a)
BY DEF RegistryInd, RegistryInv, StateOK, CallOK, PairOK, LoginOK, LockProtects, CallsFit,
       SavesBuildOnFile, WritesStored, SecretsInHand, WritesPerform, PairsAreRegistered, LoginsAreAlive

LEMMA IndByCallsNext ==
    RegistryInd' <=> StateOK' /\ \A a \in Actors : CallOK(a)' /\ PairOK(a)' /\ LoginOK(a)'
BY DEF RegistryInd, RegistryInv, StateOK, CallOK, PairOK, LoginOK, LockProtects, CallsFit,
       SavesBuildOnFile, WritesStored, SecretsInHand, WritesPerform, PairsAreRegistered, LoginsAreAlive

(* Nothing that concerns call b changes.                                    *)
Untouched(b) ==
    /\ pc'[b] = pc[b] /\ req'[b] = req[b] /\ mem'[b] = mem[b]
    /\ deadAtStart'[b] = deadAtStart[b]
    /\ plock'[ProcessOf[b]] = b <=> plock[ProcessOf[b]] = b

(* A call is not affected by what another one does beside an update.        *)
LEMMA FrameBeside ==
    ASSUME NEW b \in Actors, CallOK(b), PairOK(b), LoginOK(b), Untouched(b),
           UNCHANGED <<file, stored, drawn>>
    PROVE  CallOK(b)' /\ PairOK(b)' /\ LoginOK(b)'
<1>1. CallOK(b)'
  BY DEF CallOK, Untouched, InUpdate
<1>2. PairOK(b)'
  BY DEF PairOK, Untouched
<1>3. LoginOK(b)'
  BY DEF LoginOK, Untouched
<1>. QED BY <1>1, <1>2, <1>3

(* A call that is not in an update is not affected by that of another.      *)
LEMMA FrameDuring ==
    ASSUME NEW b \in Actors, RegistryInd, ~InUpdate(b), Untouched(b), Keeps(stored, stored')
    PROVE  CallOK(b)' /\ PairOK(b)' /\ LoginOK(b)'
<1>0. CallOK(b) /\ PairOK(b) /\ LoginOK(b)
  BY IndByCalls
<1>1. CallOK(b)'
  BY <1>0 DEF CallOK, Untouched, InUpdate
<1>2. PairOK(b)'
  <2>. SUFFICES ASSUME pc[b] \in {"open", "pem"} PROVE PairOK(b)'
    BY DEF PairOK, Untouched
  <2>1. req[b].client \in ClientIds /\ req[b].kid \in Kids
    BY <1>0 DEF CallOK, Generates
  <2>. QED BY <1>0, <2>1 DEF PairOK, Untouched, Keeps
<1>3. LoginOK(b)'
  BY <1>0 DEF LoginOK, Untouched
<1>. QED BY <1>1, <1>2, <1>3

(* What has ended stays ended when nothing is undone.                       *)
LEMMA DeadStays ==
    ASSUME DeadIsGone, TypeOK, SecretsAreDrawn, Keeps(stored, stored'), UNCHANGED dead,
           \A c \in ClientIds : stored[c] # None =>
              \A n \in Nat : stored[c].key >= n => stored'[c].key >= n
    PROVE  DeadIsGone'
<1>. SUFFICES ASSUME NEW c \in ClientIds
              PROVE  /\ <<"client", c>> \in dead => stored'[c] # None /\ stored'[c].revoked
                     /\ \A n \in Nat : <<"older", c, n>> \in dead => stored'[c] # None /\ stored'[c].key >= n
                     /\ \A k \in Kids : <<"kid", c, k>> \in dead =>
                           stored'[c] # None /\ stored'[c].kids[k] # None /\ ~stored'[c].kids[k].active
  BY DEF DeadIsGone
<1>1. <<"client", c>> \in dead => stored'[c] # None /\ stored'[c].revoked
  BY DEF DeadIsGone, Keeps
<1>2. ASSUME NEW n \in Nat, <<"older", c, n>> \in dead
      PROVE  stored'[c] # None /\ stored'[c].key >= n
  BY <1>2 DEF DeadIsGone, Keeps
<1>3. ASSUME NEW k \in Kids, <<"kid", c, k>> \in dead
      PROVE  stored'[c] # None /\ stored'[c].kids[k] # None /\ ~stored'[c].kids[k].active
  BY <1>3 DEF DeadIsGone, Keeps
<1>. QED BY <1>1, <1>2, <1>3

(* The calls that change the registry, told from each other and the others. *)
LEMMA CallShapes ==
    /\ \A r \in Changes : UpdateOf(r) \in Updates /\ UpdateOf(r).client = r.client /\ r.client \in ClientIds
    /\ \A r \in Generates : /\ UpdateOf(r).op = "addKey" /\ UpdateOf(r).kid = r.kid
                            /\ r.kid \in Kids /\ r.op = "generate"
    /\ \A r \in Updates : UpdateOf(r) = r /\ r.op # "generate"
    /\ \A r \in Logins : r.op = "resolve"
    /\ Menu \subseteq Calls /\ None \notin Calls
BY MenuTyped, NoneIsNoCall DEF Changes, UpdateOf, Updates, Generates, Logins

(* A call that is over leaves the others as they are.                       *)
LEMMA DoneTouchesOne ==
    ASSUME TypeOK, DeadBefore, NEW a \in Actors, NEW result \in Answers, Done(a, result)
    PROVE  /\ pc'[a] = "idle" /\ req'[a] = None /\ mem'[a] = None /\ deadAtStart'[a] = {}
           /\ answer'[a] = result
           /\ pc' \in [Actors -> {"idle", "probe", "load", "save", "write", "open", "pem", "signing"}]
           /\ req' \in [Actors -> Menu \cup {None}]
           /\ mem' \in [Actors -> Registries \cup {None}]
           /\ answer' \in [Actors -> Answers]
           /\ deadAtStart' \in [Actors -> SUBSET dead]
           /\ \A b \in Actors : b # a => /\ pc'[b] = pc[b] /\ req'[b] = req[b] /\ mem'[b] = mem[b]
                                         /\ answer'[b] = answer[b] /\ deadAtStart'[b] = deadAtStart[b]
BY DEF TypeOK, DeadBefore, Done

(* A call that ends outside an update, having changed nothing but perhaps   *)
(* the private key file.                                                    *)
LEMMA EndsBeside ==
    ASSUME RegistryInd, NEW a \in Actors, NEW result \in Answers, Done(a, result), ~InUpdate(a),
           UNCHANGED <<file, plock, drawn, stored, dead, begun>>, pem' \in Nat \cup {None, Empty}
    PROVE  RegistryInd'
<1>0. StateOK /\ \A b \in Actors : CallOK(b) /\ PairOK(b) /\ LoginOK(b)
  BY IndByCalls
<1>1. StateOK'
  <2>1. TypeOK'
    BY <1>0, DoneTouchesOne DEF TypeOK, StateOK
  <2>2. OneUpdate'
    BY <1>0, DoneTouchesOne DEF OneUpdate, StateOK, InUpdate
  <2>3. DeadBefore'
    BY <1>0, DoneTouchesOne DEF StateOK, DeadBefore
  <2>. QED BY <1>0, <2>1, <2>2, <2>3 DEF StateOK, FileIsStored, SecretsAreDrawn, DeadIsGone
<1>2. ASSUME NEW b \in Actors PROVE CallOK(b)' /\ PairOK(b)' /\ LoginOK(b)'
  <2>1. CASE b = a
    BY <2>1, <1>0, DoneTouchesOne DEF CallOK, PairOK, LoginOK, InUpdate, StateOK
  <2>2. CASE b # a
    <3>1. Untouched(b)
      BY <2>2, <1>0, DoneTouchesOne DEF Untouched, StateOK
    <3>. QED BY <3>1, <1>0, FrameBeside
  <2>. QED BY <2>1, <2>2
<1>. QED BY <1>1, <1>2, IndByCallsNext

(* A call goes on outside an update, having changed nothing but perhaps the *)
(* private key file.                                                        *)
LEMMA GoesOnBeside ==
    ASSUME RegistryInd, NEW a \in Actors, ~InUpdate(a),
           NEW to \in {"load", "pem"}, pc' = [pc EXCEPT ![a] = to],
           to = "load" => pc[a] = "probe", to = "pem" => pc[a] = "open",
           UNCHANGED <<file, plock, req, mem, answer, deadAtStart, drawn, stored, dead, begun>>,
           pem' \in Nat \cup {None, Empty}
    PROVE  RegistryInd'
<1>0. StateOK /\ \A b \in Actors : CallOK(b) /\ PairOK(b) /\ LoginOK(b)
  BY IndByCalls
<1>a. pc'[a] = to /\ \A b \in Actors : b # a => pc'[b] = pc[b]
  BY <1>0 DEF StateOK, TypeOK
<1>1. StateOK'
  <2>1. TypeOK'
    BY <1>0 DEF TypeOK, StateOK
  <2>2. OneUpdate'
    BY <1>0, <1>a DEF OneUpdate, StateOK, InUpdate
  <2>. QED BY <1>0, <2>1, <2>2 DEF StateOK, FileIsStored, SecretsAreDrawn, DeadIsGone, DeadBefore
<1>2. ASSUME NEW b \in Actors PROVE CallOK(b)' /\ PairOK(b)' /\ LoginOK(b)'
  <2>1. CASE b = a
    BY <2>1, <1>0, <1>a DEF CallOK, PairOK, LoginOK, InUpdate
  <2>2. CASE b # a
    <3>1. Untouched(b)
      BY <2>2, <1>a DEF Untouched
    <3>. QED BY <3>1, <1>0, FrameBeside
  <2>. QED BY <2>1, <2>2
<1>. QED BY <1>1, <1>2, IndByCallsNext

(* A new call has done nothing yet.                                         *)
LEMMA BeginStep ==
    ASSUME RegistryInd, NEW a \in Actors, NEW r \in Menu, Begin(a, r)
    PROVE  RegistryInd'
<1>0. StateOK /\ \A b \in Actors : CallOK(b) /\ PairOK(b) /\ LoginOK(b)
  BY IndByCalls
<1>a. /\ pc[a] = "idle" /\ pc'[a] \in {"probe", "load"} /\ req'[a] = r
      /\ \A b \in Actors : b # a => /\ pc'[b] = pc[b] /\ req'[b] = req[b]
                                    /\ deadAtStart'[b] = deadAtStart[b]
      /\ UNCHANGED <<file, plock, mem, drawn, stored, dead, pem>>
  BY <1>0 DEF Begin, ghosts, StateOK, TypeOK, DeadBefore
<1>b. r # None
  BY CallShapes
<1>1. StateOK'
  <2>1. TypeOK'
    <3>1. begun' \in 0 .. MaxCalls
      BY <1>0, MaxCallsIsNat DEF StateOK, TypeOK, Begin
    <3>2. answer' \in [Actors -> Answers]
      BY <1>0 DEF StateOK, TypeOK, Begin, Answers
    <3>3. /\ pc' \in [Actors -> {"idle", "probe", "load", "save", "write", "open", "pem", "signing"}]
          /\ req' \in [Actors -> Menu \cup {None}]
      BY <1>0 DEF StateOK, TypeOK, Begin
    <3>. QED BY <1>0, <1>a, <3>1, <3>2, <3>3 DEF StateOK, TypeOK
  <2>2. OneUpdate'
    BY <1>0, <1>a DEF OneUpdate, StateOK, InUpdate
  <2>3. DeadBefore'
    BY <1>0, <1>a DEF StateOK, DeadBefore, Begin
  <2>. QED BY <1>0, <1>a, <2>1, <2>2, <2>3 DEF StateOK, FileIsStored, SecretsAreDrawn, DeadIsGone
<1>2. ASSUME NEW b \in Actors PROVE CallOK(b)' /\ PairOK(b)' /\ LoginOK(b)'
  <2>1. CASE b = a
    BY <2>1, <1>0, <1>a, <1>b DEF CallOK, PairOK, LoginOK, InUpdate
  <2>2. CASE b # a
    <3>1. Untouched(b)
      BY <2>2, <1>a DEF Untouched
    <3>. QED BY <3>1, <1>0, <1>a, FrameBeside
  <2>. QED BY <2>1, <2>2
<1>. QED BY <1>1, <1>2, IndByCallsNext

(* generate-signing-key looks at the key file and leaves it.                *)
LEMMA ProbeStep ==
    ASSUME RegistryInd, NEW a \in Actors, Probe(a)
    PROVE  RegistryInd'
<1>0. TypeOK /\ ~InUpdate(a) /\ pc[a] = "probe"
  BY DEF RegistryInd, RegistryInv, Probe, InUpdate
<1>1. UNCHANGED <<file, pem, plock, drawn, stored, dead, begun>>
  BY DEF Probe, ghosts
<1>2. pem' \in Nat \cup {None, Empty}
  BY <1>0, <1>1 DEF TypeOK
<1>3. CASE Done(a, "exists")
  <2>1. "exists" \in Answers
    BY DEF Answers
  <2>. QED BY <2>1, <1>0, <1>1, <1>2, <1>3, EndsBeside
<1>4. CASE pc' = [pc EXCEPT ![a] = "load"] /\ UNCHANGED <<req, mem, answer, deadAtStart>>
  BY <1>0, <1>1, <1>2, <1>4, GoesOnBeside
<1>. QED BY <1>3, <1>4 DEF Probe

(* The key file is emptied once the public key is registered.               *)
LEMMA OpenKeyFileStep ==
    ASSUME RegistryInd, NEW a \in Actors, OpenKeyFile(a)
    PROVE  RegistryInd'
<1>1. ~InUpdate(a) /\ pc[a] = "open" /\ UNCHANGED <<file, plock, drawn, stored, dead, begun>>
  BY DEF OpenKeyFile, InUpdate, ghosts
<1>. QED BY <1>1, GoesOnBeside DEF OpenKeyFile

(* What is written to it is the number of a pair.                           *)
LEMMA WriteKeyFileStep ==
    ASSUME RegistryInd, NEW a \in Actors, WriteKeyFile(a)
    PROVE  RegistryInd'
<1>0. TypeOK /\ ~InUpdate(a) /\ CallOK(a) /\ PairOK(a)
  BY IndByCalls DEF WriteKeyFile, InUpdate, StateOK
<1>1. UNCHANGED <<file, plock, drawn, stored, dead, begun>> /\ Done(a, "ok")
  BY DEF WriteKeyFile, ghosts
<1>2. req[a].client \in ClientIds /\ req[a].kid \in Kids
  BY <1>0 DEF WriteKeyFile, CallOK, Generates
<1>3. stored[req[a].client] \in Entries
  BY <1>0, <1>2 DEF TypeOK, PairOK, WriteKeyFile, Registries
<1>4. stored[req[a].client].kids[req[a].kid].pub \in Nat
  BY <1>0, <1>2, <1>3 DEF PairOK, WriteKeyFile, Entries
<1>5. pem' \in Nat
  BY <1>0, <1>4 DEF PairOK, WriteKeyFile
<1>6. "ok" \in Answers
  BY DEF Answers
<1>. QED BY <1>0, <1>1, <1>5, <1>6, EndsBeside

(* A call that only reads.                                                  *)
LEMMA ReadOnlyStep ==
    ASSUME RegistryInd, NEW a \in Actors, ReloadFails(a) \/ Look(a) \/ FindSigningKey(a)
    PROVE  RegistryInd'
<1>0. TypeOK /\ ~InUpdate(a)
  BY DEF RegistryInd, RegistryInv, ReloadFails, Look, FindSigningKey, InUpdate
<1>1. UNCHANGED <<file, pem, plock, drawn, stored, dead, begun>>
  BY DEF ReloadFails, Look, FindSigningKey, ghosts
<1>2. pem' \in Nat \cup {None, Empty}
  BY <1>0, <1>1 DEF TypeOK
<1>3. \E result \in Answers : Done(a, result)
  <2>1. CASE ReloadFails(a)
    BY <2>1 DEF ReloadFails, Answers
  <2>2. CASE Look(a)
    BY <2>2 DEF Look, Answers
  <2>3. CASE FindSigningKey(a)
    <3>1. PICK c : Done(a, IF file[c] = None THEN "NotFound" ELSE TokenVerdict(c, req[a].token))
      BY <2>3 DEF FindSigningKey
    <3>2. TokenVerdict(c, req[a].token) \in Answers
      BY DEF TokenVerdict, Answers, Unauthorized
    <3>3. "NotFound" \in Answers
      BY DEF Answers
    <3>. QED BY <3>1, <3>2, <3>3
  <2>. QED BY <2>1, <2>2, <2>3
<1>. QED BY <1>0, <1>1, <1>2, <1>3, EndsBeside

(* A login goes on to its second read with the client alive that it found   *)
(* in the first.                                                            *)
LEMMA VerifyKeyStep ==
    ASSUME RegistryInd, NEW a \in Actors, VerifyKey(a)
    PROVE  RegistryInd'
<1>0. StateOK /\ \A b \in Actors : CallOK(b) /\ PairOK(b) /\ LoginOK(b)
  BY IndByCalls
<1>1. /\ ~InUpdate(a) /\ pc[a] = "load" /\ req[a] \in Logins /\ file \notin Unreadable
      /\ UNCHANGED <<file, pem, plock, drawn, stored, dead, begun>>
  BY DEF VerifyKey, ghosts, InUpdate
<1>2. pem' \in Nat \cup {None, Empty}
  BY <1>0, <1>1 DEF StateOK, TypeOK
<1>3. CASE \E result \in Answers : Done(a, result)
  BY <1>1, <1>2, <1>3, EndsBeside
<1>4. ASSUME NEW c \in Holders(file, req[a].key), ~file[c].revoked, req[a].token \in Tokens,
             pc' = [pc EXCEPT ![a] = "signing"], mem' = [mem EXCEPT ![a] = file],
             UNCHANGED <<req, answer, deadAtStart>>
      PROVE  RegistryInd'
  <2>a. /\ pc'[a] = "signing" /\ mem'[a] = file
        /\ \A b \in Actors : b # a => pc'[b] = pc[b] /\ mem'[b] = mem[b]
    BY <1>0, <1>4 DEF StateOK, TypeOK
  <2>f. file = stored /\ file \in Registries
    BY <1>0, <1>1 DEF StateOK, FileIsStored, TypeOK
  <2>1. StateOK'
    <3>1. TypeOK'
      BY <1>0, <1>1, <1>4, <2>f DEF TypeOK, StateOK
    <3>2. OneUpdate'
      BY <1>0, <2>a DEF OneUpdate, StateOK, InUpdate
    <3>. QED BY <1>0, <1>1, <1>4, <3>1, <3>2
         DEF StateOK, FileIsStored, SecretsAreDrawn, DeadIsGone, DeadBefore
  <2>2. CallOK(a)' /\ PairOK(a)'
    BY <1>0, <1>1, <1>4, <2>a, <2>f, UnreadableIsNone DEF CallOK, PairOK, InUpdate
  <2>3. LoginOK(a)'
    <3>1. Holders(file, req[a].key) = {c}
      BY <1>0, <2>f DEF StateOK, SecretsAreDrawn, KeysAreUnique, Holders
    <3>2. c \in ClientIds /\ file[c] # None /\ req[a].key = file[c].key
      BY DEF Holders
    <3>3. deadAtStart[a] \subseteq dead
      BY <1>0 DEF StateOK, DeadBefore
    <3>4. <<"client", c>> \notin deadAtStart[a]
      BY <3>2, <3>3, <1>0, <1>4, <2>f DEF StateOK, DeadIsGone
    <3>5. \A n \in Nat : <<"older", c, n>> \in deadAtStart[a] => req[a].key >= n
      BY <3>2, <3>3, <1>0, <1>4, <2>f DEF StateOK, DeadIsGone
    <3>6. Holders(mem[a], req[a].key)' = {c}
      BY <3>1, <1>4, <2>a DEF Holders
    <3>. QED BY <3>2, <3>4, <3>5, <3>6, <1>1, <1>4 DEF LoginOK
  <2>4. ASSUME NEW b \in Actors, b # a PROVE CallOK(b)' /\ PairOK(b)' /\ LoginOK(b)'
    <3>1. Untouched(b)
      BY <2>4, <2>a, <1>1, <1>4 DEF Untouched
    <3>. QED BY <3>1, <1>0, <1>1, FrameBeside
  <2>. QED BY <2>1, <2>2, <2>3, <2>4, IndByCallsNext
<1>5. \/ \E result \in Answers : Done(a, result)
      \/ \E c \in Holders(file, req[a].key) :
            /\ ~file[c].revoked /\ req[a].token \in Tokens
            /\ pc' = [pc EXCEPT ![a] = "signing"] /\ mem' = [mem EXCEPT ![a] = file]
            /\ UNCHANGED <<req, answer, deadAtStart>>
  BY DEF VerifyKey, Answers, Unauthorized
<1>. QED BY <1>3, <1>4, <1>5

(* An update begins during no other: in one process the lock sees to it.    *)
LEMMA ChangeAlone ==
    ASSUME OneWriter, RegistryInd, NEW a \in Actors, Change(a)
    PROVE  \A b \in Actors : ~InUpdate(b)
<1>1. CASE Serialised
  BY <1>1 DEF Change
<1>2. CASE \A b \in Actors : ProcessOf[a] = ProcessOf[b]
  <2>1. \A b \in Actors : plock[ProcessOf[b]] # b
    BY <1>2, NoActorIsNone DEF Change, LockIsFree
  <2>. QED BY <2>1 DEF RegistryInd, RegistryInv, LockProtects
<1>. QED BY <1>1, <1>2 DEF OneWriter

(* An update takes the lock with a copy of the registry, changed.           *)
LEMMA ChangeStep ==
    ASSUME OneWriter, RegistryInd, NEW a \in Actors, Change(a)
    PROVE  RegistryInd'
<1>0. StateOK /\ \A b \in Actors : CallOK(b) /\ PairOK(b) /\ LoginOK(b)
  BY IndByCalls
<1>1. /\ pc[a] = "load" /\ req[a] \in Changes /\ file \notin Unreadable /\ LockIsFree(a)
      /\ UNCHANGED <<file, pem, stored, dead, begun>>
      /\ \A b \in Actors : ~InUpdate(b)
  BY ChangeAlone DEF Change, ghosts
<1>. DEFINE u == UpdateOf(req[a])
            secret == IF DrawsSecret(u) THEN drawn + 1 ELSE drawn
<1>2. file = stored /\ file \in Registries /\ u \in Updates /\ secret \in Nat /\ drawn \in Nat
  BY <1>0, <1>1, CallShapes DEF StateOK, FileIsStored, TypeOK
<1>3. \/ Done(a, Verdict(u, file)) /\ UNCHANGED <<drawn, plock>>
      \/ /\ Verdict(u, file) = "ok"
         /\ mem' = [mem EXCEPT ![a] = Updated(u, file, secret)]
         /\ drawn' = secret
         /\ plock' = [plock EXCEPT ![ProcessOf[a]] = a]
         /\ pc' = [pc EXCEPT ![a] = "save"]
         /\ UNCHANGED <<req, answer, deadAtStart>>
  BY DEF Change
<1>. HIDE DEF u, secret
<1>4. CASE Done(a, Verdict(u, file)) /\ UNCHANGED <<drawn, plock>>
  <2>1. Verdict(u, file) \in Answers
    BY DEF Verdict, Answers
  <2>2. pem' \in Nat \cup {None, Empty}
    BY <1>0, <1>1 DEF StateOK, TypeOK
  <2>. QED BY <1>1, <1>4, <2>1, <2>2, EndsBeside
<1>5. CASE /\ Verdict(u, file) = "ok"
           /\ mem' = [mem EXCEPT ![a] = Updated(u, file, secret)]
           /\ drawn' = secret
           /\ plock' = [plock EXCEPT ![ProcessOf[a]] = a]
           /\ pc' = [pc EXCEPT ![a] = "save"]
           /\ UNCHANGED <<req, answer, deadAtStart>>
  <2>a. /\ pc'[a] = "save" /\ mem'[a] = Updated(u, file, secret)
        /\ plock'[ProcessOf[a]] = a
        /\ \A b \in Actors : b # a => pc'[b] = pc[b] /\ mem'[b] = mem[b]
    BY <1>0, <1>5, ProcessesTyped DEF StateOK, TypeOK
  <2>b. Updated(u, file, secret) \in Registries
    BY <1>2, <1>5, UpdatedTyped
  <2>c. drawn' \in Nat /\ drawn' >= drawn
        /\ (DrawsSecret(u) => drawn' > 0 /\ drawn' \notin Secrets(stored))
    BY <1>0, <1>2, <1>5 DEF secret, StateOK, SecretsAreDrawn
  <2>1. StateOK'
    <3>1. TypeOK'
      BY <1>0, <1>1, <1>5, <2>b, <2>c, ProcessesTyped DEF TypeOK, StateOK
    <3>2. OneUpdate'
      BY <1>1, <2>a DEF OneUpdate, InUpdate
    <3>3. SecretsAreDrawn'
      BY <1>0, <1>1, <1>2, <2>c DEF StateOK, SecretsAreDrawn
    <3>. QED BY <1>0, <1>1, <1>5, <3>1, <3>2, <3>3
         DEF StateOK, FileIsStored, DeadIsGone, DeadBefore
  <2>2. CallOK(a)' /\ PairOK(a)' /\ LoginOK(a)'
    <3>1. u' = u
      BY <1>5 DEF u
    <3>2. mem'[a] # None /\ req[a] # None
      BY <2>a, <2>b, UnreadableIsNone, <1>1, NoneIsNoCall DEF Calls
    <3>. QED BY <1>0, <1>1, <1>2, <1>5, <2>a, <2>c, <3>1, <3>2 DEF CallOK, PairOK, LoginOK, InUpdate, u
  <2>4. ASSUME NEW b \in Actors, b # a PROVE CallOK(b)' /\ PairOK(b)' /\ LoginOK(b)'
    <3>1. plock'[ProcessOf[b]] = b <=> plock[ProcessOf[b]] = b
      BY <1>0, <1>1, <1>5, <2>4, NoActorIsNone, ProcessesTyped DEF StateOK, TypeOK, LockIsFree
    <3>2. Untouched(b)
      BY <2>4, <2>a, <1>1, <1>5, <3>1 DEF Untouched
    <3>3. Keeps(stored, stored')
      BY <1>1 DEF Keeps
    <3>. QED BY <3>2, <3>3, <1>1, FrameDuring
  <2>. QED BY <2>1, <2>2, <2>4, IndByCallsNext
<1>. QED BY <1>3, <1>4, <1>5

(* The step that empties the file is the one that performs the operation.   *)
LEMMA TruncatePerforms ==
    ASSUME RegistryInd, NEW a \in Actors, Truncate(a)
    PROVE  LET u == UpdateOf(req[a])
           IN  /\ u \in Updates
               /\ Verdict(u, stored) = "ok"
               /\ DrawsSecret(u) => drawn > 0 /\ drawn \notin Secrets(stored)
               /\ stored' = Updated(u, stored, drawn)
               /\ UNCHANGED drawn
<1>1. CallOK(a) /\ pc[a] = "save"
  BY IndByCalls DEF Truncate
<1>2. req[a] \in Changes
  BY <1>1 DEF CallOK, InUpdate
<1>. QED BY <1>1, <1>2, CallShapes DEF Truncate, CallOK

(* What the registry knows afterwards: nothing is undone, keys only get     *)
(* newer, and the call has done what it will report.                        *)
LEMMA TruncateKeeps ==
    ASSUME RegistryInd, NEW a \in Actors, Truncate(a)
    PROVE  /\ Keeps(stored, stored')
           /\ Performed(UpdateOf(req[a]), stored')
           /\ stored' \in Registries
           /\ Secrets(stored') \subseteq 1 .. drawn /\ KeysAreUnique(stored')
           /\ \A c \in ClientIds : stored[c] # None =>
                 \A n \in Nat : stored[c].key >= n => stored'[c].key >= n
<1>. DEFINE u == UpdateOf(req[a])
<1>1. TypeOK /\ SecretsAreDrawn
  BY DEF RegistryInd, RegistryInv
<1>2. stored \in Registries /\ drawn \in Nat
  BY <1>1 DEF TypeOK
<1>3. /\ u \in Updates /\ Verdict(u, stored) = "ok" /\ stored' = Updated(u, stored, drawn)
      /\ DrawsSecret(u) => drawn > 0 /\ drawn \notin Secrets(stored)
      /\ Secrets(stored) \subseteq 1 .. drawn /\ KeysAreUnique(stored)
  BY <1>1, TruncatePerforms DEF SecretsAreDrawn
<1>. HIDE DEF u
<1>4. Keeps(stored, stored') /\ Performed(u, stored')
  BY <1>2, <1>3, UpdatedKeeps
<1>5. stored' \in Registries
  BY <1>2, <1>3, UpdatedTyped
<1>6. Secrets(stored') \subseteq 1 .. drawn /\ KeysAreUnique(stored')
  BY <1>2, <1>3, UpdatedSecrets
<1>7. ASSUME NEW c \in ClientIds, stored[c] # None, NEW n \in Nat, stored[c].key >= n
      PROVE  stored'[c].key >= n
  <2>1. CASE c # u.client
    BY <1>2, <1>3, <1>7, <2>1, UpdatedElsewhere
  <2>2. CASE c = u.client
    <3>1. Outcome(u, stored[u.client], stored'[u.client], drawn)
      BY <1>2, <1>3, UpdatedEntry
    <3>2. stored'[c].key = stored[c].key \/ stored'[c].key = drawn
      BY <1>2, <1>3, <1>7, <2>2, <3>1, OutcomeKeeps
    <3>3. stored[c].key \in 1 .. drawn
      BY <1>3, <1>7, SecretsOf
    <3>. QED BY <3>2, <3>3, <1>2, <1>7
  <2>. QED BY <2>1, <2>2
<1>. QED BY <1>4, <1>5, <1>6, <1>7 DEF u

(* The file is emptied.                                                     *)
LEMMA TruncateStep ==
    ASSUME RegistryInd, NEW a \in Actors, Truncate(a)
    PROVE  RegistryInd'
<1>0. StateOK /\ \A b \in Actors : CallOK(b) /\ PairOK(b) /\ LoginOK(b)
  BY IndByCalls
<1>1. /\ pc[a] = "save" /\ file' = Empty /\ stored' = mem[a]
      /\ UNCHANGED <<pem, plock, req, mem, answer, deadAtStart, drawn, dead, begun>>
  BY DEF Truncate
<1>2. pc'[a] = "write" /\ \A b \in Actors : b # a => pc'[b] = pc[b] /\ ~InUpdate(b)
  BY <1>0, <1>1 DEF Truncate, StateOK, TypeOK, OneUpdate, InUpdate
<1>3. StateOK'
  <2>1. TypeOK'
    BY <1>0, <1>1, TruncateKeeps DEF StateOK, TypeOK, Truncate, Unreadable
  <2>2. OneUpdate' /\ FileIsStored'
    BY <1>1, <1>2 DEF OneUpdate, InUpdate, FileIsStored, Unreadable
  <2>3. SecretsAreDrawn'
    BY <1>1, TruncateKeeps DEF SecretsAreDrawn
  <2>4. DeadIsGone'
    BY <1>0, <1>1, TruncateKeeps, DeadStays DEF StateOK
  <2>. QED BY <1>0, <1>1, <2>1, <2>2, <2>3, <2>4 DEF StateOK, DeadBefore
<1>4. CallOK(a)' /\ PairOK(a)' /\ LoginOK(a)'
  <2>1. UpdateOf(req[a])' = UpdateOf(req[a])
    BY <1>1
  <2>2. Performed(UpdateOf(req[a]), stored)'
    BY <2>1, TruncateKeeps DEF Performed
  <2>. QED BY <1>0, <1>1, <1>2, <2>2 DEF CallOK, PairOK, LoginOK, InUpdate
<1>5. ASSUME NEW b \in Actors, b # a PROVE CallOK(b)' /\ PairOK(b)' /\ LoginOK(b)'
  <2>1. Untouched(b)
    BY <1>1, <1>2, <1>5 DEF Untouched
  <2>. QED BY <2>1, <1>2, <1>5, TruncateKeeps, FrameDuring
<1>. QED BY <1>3, <1>4, <1>5, IndByCallsNext

(* A call that releases the lock leaves the other processes theirs.         *)
LEMMA ReleaseTouchesOne ==
    ASSUME RegistryInd, NEW a \in Actors, InUpdate(a), Release(a)
    PROVE  /\ plock' \in [Processes -> Actors \cup {NoActor}]
           /\ plock'[ProcessOf[a]] # a
           /\ \A b \in Actors : b # a =>
                 (plock'[ProcessOf[b]] = b <=> plock[ProcessOf[b]] = b) /\ ~InUpdate(b)
<1>1. TypeOK /\ OneUpdate /\ \A b \in Actors : CallOK(b)
  BY IndByCalls DEF StateOK
<1>. QED BY <1>1, NoActorIsNone, ProcessesTyped DEF Release, TypeOK, CallOK, OneUpdate

(* The operation is done: its text is in the file, its end is confirmed.    *)
LEMMA WriteTextStep ==
    ASSUME RegistryInd, NEW a \in Actors, WriteText(a)
    PROVE  RegistryInd'
<1>0. StateOK /\ \A b \in Actors : CallOK(b) /\ PairOK(b) /\ LoginOK(b)
  BY IndByCalls
<1>1. /\ pc[a] = "write" /\ InUpdate(a) /\ Release(a)
      /\ UNCHANGED <<pem, drawn, stored, begun>>
      /\ dead' = dead \cup Ended(a)
  BY DEF WriteText, InUpdate
<1>2. /\ file = Empty /\ mem[a] = stored /\ file' = stored
      /\ req[a] \in Changes /\ Performed(UpdateOf(req[a]), stored)
  BY <1>0, <1>1 DEF CallOK, WriteText
<1>3. /\ pc'[a] = "idle" /\ req'[a] = None /\ mem'[a] = None
      \/ /\ req[a] \in Generates /\ pc'[a] = "open" /\ UNCHANGED <<req, mem>>
  <2>1. CASE Done(a, "ok")
    <3>1. "ok" \in Answers
      BY DEF Answers
    <3>. QED BY <2>1, <3>1, <1>0, DoneTouchesOne DEF StateOK
  <2>. QED BY <2>1, <1>0 DEF WriteText, StateOK, TypeOK
<1>4. /\ pc' \in [Actors -> {"idle", "probe", "load", "save", "write", "open", "pem", "signing"}]
      /\ req' \in [Actors -> Menu \cup {None}] /\ mem' \in [Actors -> Registries \cup {None}]
      /\ answer' \in [Actors -> Answers] /\ deadAtStart' \in [Actors -> SUBSET dead]
      /\ \A b \in Actors : b # a => /\ pc'[b] = pc[b] /\ req'[b] = req[b] /\ mem'[b] = mem[b]
                                    /\ deadAtStart'[b] = deadAtStart[b]
  <2>1. CASE Done(a, "ok")
    <3>1. "ok" \in Answers
      BY DEF Answers
    <3>. QED BY <2>1, <3>1, <1>0, DoneTouchesOne DEF StateOK
  <2>. QED BY <2>1, <1>0 DEF WriteText, StateOK, TypeOK, DeadBefore
<1>5. DeadIsGone'
  <2>. SUFFICES ASSUME NEW c \in ClientIds
       PROVE  /\ <<"client", c>> \in dead' => stored[c] # None /\ stored[c].revoked
              /\ \A n \in Nat : <<"older", c, n>> \in dead' => stored[c] # None /\ stored[c].key >= n
              /\ \A k \in Kids : <<"kid", c, k>> \in dead' =>
                    stored[c] # None /\ stored[c].kids[k] # None /\ ~stored[c].kids[k].active
    BY <1>1 DEF DeadIsGone
  <2>1. req[a].op \in {"revoke", "revokeKey", "rotate"} => UpdateOf(req[a]) = req[a]
    BY <1>2, CallShapes DEF Changes
  <2>2. <<"client", c>> \in Ended(a) => stored[c] # None /\ stored[c].revoked
    BY <1>2, <2>1 DEF Ended, Performed
  <2>3. ASSUME NEW n \in Nat, <<"older", c, n>> \in Ended(a)
        PROVE  stored[c] # None /\ stored[c].key >= n
    <3>1. req[a].op = "rotate" /\ c = req[a].client /\ n = stored[c].key
      BY <1>2, <2>3 DEF Ended
    <3>. QED BY <3>1, <1>2, <2>1 DEF Performed
  <2>4. ASSUME NEW k \in Kids, <<"kid", c, k>> \in Ended(a)
        PROVE  stored[c] # None /\ stored[c].kids[k] # None /\ ~stored[c].kids[k].active
    <3>1. req[a].op = "revokeKey" /\ c = req[a].client /\ k = req[a].kid
      BY <1>2, <2>4 DEF Ended
    <3>. QED BY <3>1, <1>2, <2>1 DEF Performed
  <2>. QED BY <1>0, <1>1, <2>2, <2>3, <2>4 DEF StateOK, DeadIsGone
<1>6. StateOK'
  <2>1. TypeOK'
    BY <1>0, <1>1, <1>2, <1>4, ReleaseTouchesOne DEF StateOK, TypeOK
  <2>2. OneUpdate'
    BY <1>1, <1>3, <1>4, ReleaseTouchesOne DEF OneUpdate, InUpdate
  <2>3. DeadBefore'
    BY <1>1, <1>4 DEF DeadBefore
  <2>. QED BY <1>0, <1>1, <1>2, <1>5, <2>1, <2>2, <2>3 DEF StateOK, FileIsStored, SecretsAreDrawn
<1>7. CallOK(a)' /\ PairOK(a)' /\ LoginOK(a)'
  <2>1. CallOK(a)'
    BY <1>0, <1>1, <1>2, <1>3, ReleaseTouchesOne, NoneIsNoCall, UnreadableIsNone
    DEF CallOK, InUpdate
  <2>2. PairOK(a)'
    BY <1>1, <1>2, <1>3, CallShapes DEF PairOK, Performed
  <2>3. LoginOK(a)'
    BY <1>3 DEF LoginOK
  <2>. QED BY <2>1, <2>2, <2>3
<1>8. ASSUME NEW b \in Actors, b # a PROVE CallOK(b)' /\ PairOK(b)' /\ LoginOK(b)'
  <2>1. Untouched(b) /\ ~InUpdate(b)
    BY <1>1, <1>4, <1>8, ReleaseTouchesOne DEF Untouched
  <2>2. Keeps(stored, stored')
    BY <1>1 DEF Keeps
  <2>. QED BY <2>1, <2>2, <1>8, FrameDuring
<1>. QED BY <1>6, <1>7, <1>8, IndByCallsNext

(* Whatever breaks in the middle of a call, the lock is released, and the   *)
(* file is what it was or cannot be read.                                   *)
LEMMA IOFaultStep ==
    ASSUME RegistryInd, NEW a \in Actors, IOFault(a)
    PROVE  RegistryInd'
<1>0. StateOK /\ \A b \in Actors : CallOK(b) /\ PairOK(b) /\ LoginOK(b)
  BY IndByCalls
<1>1. /\ Done(a, "internal") /\ "internal" \in Answers
      /\ UNCHANGED <<pem, drawn, stored, dead, begun>>
  BY DEF IOFault, ghosts, Answers
<1>2. CASE ~InUpdate(a)
  <2>1. UNCHANGED <<file, plock>>
    BY <1>2 DEF IOFault, InUpdate
  <2>2. pem' \in Nat \cup {None, Empty}
    BY <1>0, <1>1 DEF StateOK, TypeOK
  <2>. QED BY <1>1, <1>2, <2>1, <2>2, EndsBeside
<1>3. CASE InUpdate(a)
  <2>1. Release(a) /\ file' \in {file, Garbled}
    BY <1>3 DEF IOFault
  <2>2. StateOK'
    <3>1. TypeOK'
      BY <1>0, <1>1, <1>3, <2>1, DoneTouchesOne, ReleaseTouchesOne DEF StateOK, TypeOK, Unreadable
    <3>2. OneUpdate'
      BY <1>0, <1>1, DoneTouchesOne DEF StateOK, OneUpdate, InUpdate
    <3>3. DeadBefore'
      BY <1>0, <1>1, DoneTouchesOne DEF StateOK, DeadBefore
    <3>4. FileIsStored'
      BY <1>0, <1>1, <2>1 DEF StateOK, FileIsStored, Unreadable
    <3>. QED BY <1>0, <1>1, <3>1, <3>2, <3>3, <3>4 DEF StateOK, SecretsAreDrawn, DeadIsGone
  <2>3. CallOK(a)' /\ PairOK(a)' /\ LoginOK(a)'
    <3>1. CallOK(a)'
      BY <1>0, <1>1, <1>3, <2>1, DoneTouchesOne, ReleaseTouchesOne DEF StateOK, CallOK, InUpdate
    <3>2. PairOK(a)'
      BY <1>0, <1>1, <1>3, DoneTouchesOne DEF StateOK, PairOK, InUpdate
    <3>3. LoginOK(a)'
      BY <1>0, <1>1, <1>3, DoneTouchesOne DEF StateOK, LoginOK, InUpdate
    <3>. QED BY <3>1, <3>2, <3>3
  <2>4. ASSUME NEW b \in Actors, b # a PROVE CallOK(b)' /\ PairOK(b)' /\ LoginOK(b)'
    <3>1. Untouched(b) /\ ~InUpdate(b)
      BY <1>0, <1>1, <1>3, <2>1, <2>4, DoneTouchesOne, ReleaseTouchesOne DEF StateOK, Untouched
    <3>2. Keeps(stored, stored')
      BY <1>1 DEF Keeps
    <3>. QED BY <3>1, <3>2, <2>4, FrameDuring
  <2>. QED BY <2>2, <2>3, <2>4, IndByCallsNext
<1>. QED BY <1>2, <1>3

(* The calls of a process that dies are gone, and its lock with them.       *)
LEMMA CrashStep ==
    ASSUME RegistryInd, NEW p \in Processes, Crash(p)
    PROVE  RegistryInd'
<1>0. StateOK /\ \A b \in Actors : CallOK(b) /\ PairOK(b) /\ LoginOK(b)
  BY IndByCalls
<1>1. /\ UNCHANGED <<pem, drawn, stored, dead, begun>>
      /\ file' \in {file, Garbled} /\ plock' = [plock EXCEPT ![p] = NoActor]
      /\ (\A a \in Actors : ProcessOf[a] = p => pc[a] # "write") => file' = file
  BY DEF Crash, ghosts
<1>2. \A a \in Actors : ProcessOf[a] = p =>
         /\ pc'[a] = "idle" /\ req'[a] = None /\ mem'[a] = None /\ plock'[ProcessOf[a]] = NoActor
  BY <1>0, <1>1, ProcessesTyped DEF Crash, StateOK, TypeOK
<1>3. \A a \in Actors : ProcessOf[a] # p => Untouched(a)
  BY <1>0, <1>1, ProcessesTyped DEF Crash, Untouched, StateOK, TypeOK
<1>4. StateOK'
  <2>1. TypeOK'
    <3>1. /\ pc' \in [Actors -> {"idle", "probe", "load", "save", "write", "open", "pem", "signing"}]
          /\ req' \in [Actors -> Menu \cup {None}] /\ mem' \in [Actors -> Registries \cup {None}]
      BY <1>0 DEF StateOK, TypeOK, Crash
    <3>2. answer' \in [Actors -> Answers]
      BY <1>0 DEF StateOK, TypeOK, Crash, Answers
    <3>. QED BY <1>0, <1>1, <3>1, <3>2 DEF StateOK, TypeOK, Unreadable
  <2>2. OneUpdate'
    BY <1>0, <1>2, <1>3 DEF StateOK, OneUpdate, InUpdate, Untouched
  <2>3. DeadBefore'
    BY <1>0, <1>1 DEF StateOK, DeadBefore, Crash
  <2>4. FileIsStored'
    BY <1>0, <1>1 DEF StateOK, FileIsStored, Unreadable
  <2>. QED BY <1>0, <1>1, <2>1, <2>2, <2>3, <2>4 DEF StateOK, SecretsAreDrawn, DeadIsGone
<1>5. ASSUME NEW b \in Actors, ProcessOf[b] = p PROVE CallOK(b)' /\ PairOK(b)' /\ LoginOK(b)'
  BY <1>2, <1>5, NoActorIsNone DEF CallOK, PairOK, LoginOK, InUpdate
<1>6. ASSUME NEW b \in Actors, ProcessOf[b] # p PROVE CallOK(b)' /\ PairOK(b)' /\ LoginOK(b)'
  <2>1. Keeps(stored, stored')
    BY <1>1 DEF Keeps
  <2>2. CASE ~InUpdate(b)
    BY <1>3, <1>6, <2>1, <2>2, FrameDuring
  <2>3. CASE InUpdate(b)
    <3>1. file' = file
      BY <1>0, <1>1, <1>6, <2>3 DEF StateOK, OneUpdate, InUpdate
    <3>. QED BY <3>1, <1>0, <1>1, <1>3, <1>6, FrameBeside
  <2>. QED BY <2>2, <2>3
<1>. QED BY <1>4, <1>5, <1>6, IndByCallsNext

-----------------------------------------------------------------------------
(* The theorems                                                             *)

(* At the start there are no calls, and the file is the registry.           *)
LEMMA InitInd == Init => RegistryInd
<1>. SUFFICES ASSUME Init PROVE RegistryInd
  OBVIOUS
<1>1. StateOK
  <2>1. TypeOK
    BY InitialTyped, InitialPemTyped, MaxCallsIsNat DEF Init, TypeOK, Answers
  <2>2. OneUpdate /\ FileIsStored /\ DeadIsGone /\ DeadBefore
    BY DEF Init, OneUpdate, InUpdate, FileIsStored, DeadIsGone, DeadBefore
  <2>3. SecretsAreDrawn
    BY InitialSecrets DEF Init, SecretsAreDrawn
  <2>. QED BY <2>1, <2>2, <2>3 DEF StateOK
<1>2. \A a \in Actors : CallOK(a) /\ PairOK(a) /\ LoginOK(a)
  BY ProcessesTyped, NoActorIsNone DEF Init, CallOK, PairOK, LoginOK, InUpdate
<1>. QED BY <1>1, <1>2, IndByCalls

(* Every step keeps the invariant, if updates come one at a time.           *)
LEMMA NextInd == OneWriter /\ RegistryInd /\ [Next]_vars => RegistryInd'
<1>. SUFFICES ASSUME OneWriter, RegistryInd, [Next]_vars PROVE RegistryInd'
  OBVIOUS
<1>1. CASE UNCHANGED vars
  BY <1>1 DEF vars, call, ghosts, RegistryInd, RegistryInv, TypeOK, LockProtects, CallsFit, OneUpdate,
     FileIsStored, SavesBuildOnFile, WritesStored, SecretsAreDrawn, SecretsInHand, WritesPerform,
     PairsAreRegistered, DeadIsGone, DeadBefore, LoginsAreAlive, InUpdate, Holders
<1>2. ASSUME NEW p \in Processes, Crash(p) PROVE RegistryInd'
  BY <1>2, CrashStep
<1>3. ASSUME NEW a \in Actors, NEW r \in Menu, Begin(a, r) PROVE RegistryInd'
  BY <1>3, BeginStep
<1>4. ASSUME NEW a \in Actors, IOFault(a) PROVE RegistryInd'
  BY <1>4, IOFaultStep
<1>5. ASSUME NEW a \in Actors, Serve(a) PROVE RegistryInd'
  BY <1>5, ProbeStep, OpenKeyFileStep, WriteKeyFileStep, ReadOnlyStep, ChangeStep, TruncateStep,
     WriteTextStep, VerifyKeyStep DEF Serve
<1>. QED BY <1>1, <1>2, <1>3, <1>4, <1>5 DEF Next

(* What a call reads is the whole of the last update or cannot be read at   *)
(* all, and every update adds to the one before: ClientRegistry._lock, the  *)
(* reload at the start of every operation and the save at its end are       *)
(* enough among the threads of one process, and for several processes       *)
(* as long as no command runs during another update.                        *)
THEOREM RegistryIsKept ==
    ASSUME OneWriter
    PROVE  Spec => []RegistryInd
BY InitInd, NextInd, PTL DEF Spec

THEOREM RegistryInvariant ==
    ASSUME OneWriter
    PROVE  Spec => []RegistryInv
<1>1. RegistryInd => RegistryInv
  BY DEF RegistryInd
<1>. QED BY <1>1, RegistryIsKept, PTL

(* Of all steps only that which empties the file changes the registry.      *)
LEMMA OnlyTruncateChanges ==
    ASSUME [Next]_vars, stored' # stored
    PROVE  \E a \in Actors : Truncate(a)
BY DEF Next, Serve, vars, ghosts, Begin, Probe, OpenKeyFile, WriteKeyFile, ReloadFails, Look, Change,
       WriteText, VerifyKey, FindSigningKey, IOFault, Crash

(* No step undoes anything.                                                 *)
LEMMA StepKeeps ==
    ASSUME RegistryInd, [Next]_vars
    PROVE  Keeps(stored, stored')
<1>1. CASE stored' = stored
  BY <1>1 DEF Keeps
<1>2. CASE stored' # stored
  BY <1>2, OnlyTruncateChanges, TruncateKeeps
<1>. QED BY <1>1, <1>2

(* Clients are never removed, a revoked client or kid stays revoked, and a  *)
(* rotated key is replaced by a new one (create, add_signing_key and the    *)
(* revocations of client_registry.py), over any history of calls.           *)
THEOREM CredentialsStayDead ==
    ASSUME OneWriter
    PROVE  Spec => CredentialsNeverComeBack
<1>1. RegistryInd /\ [Next]_vars =>
         [\A c \in ClientIds : stored[c] # None =>
            /\ stored'[c] # None
            /\ stored[c].revoked => stored'[c].revoked
            /\ stored'[c].key = stored[c].key \/ stored'[c].key \notin Secrets(stored)
            /\ \A k \in Kids : stored[c].kids[k] # None =>
                  /\ stored'[c].kids[k] # None
                  /\ stored'[c].kids[k].pub = stored[c].kids[k].pub
                  /\ stored'[c].kids[k].active => stored[c].kids[k].active]_vars
  BY StepKeeps DEF Keeps
<1>. QED BY <1>1, RegistryIsKept, PTL DEF Spec, CredentialsNeverComeBack

(* The key file is touched by a command that has registered its public key. *)
LEMMA StepFollows ==
    ASSUME RegistryInd, [Next]_vars, pem' # pem
    PROVE  \E a \in Actors :
              /\ req[a] \in Generates
              /\ stored[req[a].client] # None
              /\ LET key == stored[req[a].client].kids[req[a].kid]
                 IN  key # None /\ pem' \in {Empty, key.pub}
<1>1. PICK a \in Actors : OpenKeyFile(a) \/ WriteKeyFile(a)
  BY DEF Next, Serve, vars, ghosts, Begin, Probe, ReloadFails, Look, Change, Truncate,
         WriteText, VerifyKey, FindSigningKey, IOFault, Crash
<1>2. CallOK(a) /\ PairOK(a)
  BY IndByCalls
<1>. QED BY <1>1, <1>2 DEF CallOK, PairOK, OpenKeyFile, WriteKeyFile

(* generate-signing-key (cli.py) registers first and writes then: the       *)
(* private key file changes only to the key of a registered pair, whatever  *)
(* fails, and whatever other commands and requests do in between.           *)
THEOREM KeyFilesFollow ==
    ASSUME OneWriter
    PROVE  Spec => KeyFileFollowsRegistry
<1>1. RegistryInd /\ [Next]_vars =>
         [pem' # pem =>
            \E a \in Actors :
               /\ req[a] \in Generates
               /\ stored[req[a].client] # None
               /\ LET key == stored[req[a].client].kids[req[a].kid]
                  IN  key # None /\ pem' \in {Empty, key.pub}]_vars
  BY StepFollows
<1>. QED BY <1>1, RegistryIsKept, PTL DEF Spec, KeyFileFollowsRegistry

(* The abstract registry's operators are those of the concrete one.         *)
LEMMA SameOperators ==
    ASSUME NEW r, NEW reg, NEW n
    PROVE  /\ Atomic!Verdict(r, reg) = Verdict(r, reg)
           /\ Atomic!Updated(r, reg, n) = Updated(r, reg, n)
           /\ Atomic!DrawsSecret(r) <=> DrawsSecret(r)
           /\ Atomic!Secrets(reg) = Secrets(reg)
           /\ Atomic!Updates = Updates
<1>1. Atomic!Verdict(r, reg) = Verdict(r, reg)
  BY DEF Atomic!Verdict, Verdict
<1>2. Atomic!Updated(r, reg, n) = Updated(r, reg, n)
  BY DEF Atomic!Updated, Updated
<1>3. /\ Atomic!DrawsSecret(r) <=> DrawsSecret(r)
      /\ Atomic!Secrets(reg) = Secrets(reg)
      /\ Atomic!Updates = Updates
  BY DEF Atomic!DrawsSecret, DrawsSecret, Atomic!Secrets, Secrets, Atomic!Updates, Updates
<1>. QED BY <1>1, <1>2, <1>3

(* The registry in the file is an initial state of the abstract one.        *)
LEMMA InitRefines == Init => Atomic!Init
BY DEF Init, Atomic!Init

(* Emptying the file performs the operation, drawing a secret draws one,    *)
(* and no other step shows.                                                 *)
LEMMA StepRefines ==
    ASSUME RegistryInd, [Next]_vars
    PROVE  [Atomic!Next]_(Atomic!vars)
<1>1. CASE stored' # stored
  <2>1. PICK a \in Actors : Truncate(a)
    BY <1>1, OnlyTruncateChanges
  <2>2. Atomic!Perform(UpdateOf(req[a])) /\ UpdateOf(req[a]) \in Updates
    BY <2>1, TruncatePerforms, SameOperators DEF Atomic!Perform
  <2>. QED BY <2>2, SameOperators DEF Atomic!Next
<1>2. CASE stored' = stored /\ drawn' # drawn
  <2>1. \E a \in Actors : Change(a)
    BY <1>2 DEF Next, Serve, vars, ghosts, Begin, Probe, OpenKeyFile, WriteKeyFile, ReloadFails, Look,
       Truncate, WriteText, VerifyKey, FindSigningKey, IOFault, Crash
  <2>2. drawn' = drawn + 1
    BY <1>2, <2>1 DEF Change
  <2>. QED BY <1>2, <2>2 DEF Atomic!Next, Atomic!Draw
<1>3. CASE stored' = stored /\ drawn' = drawn
  BY <1>3 DEF Atomic!vars
<1>. QED BY <1>1, <1>2, <1>3

(* The file, the locks and the two steps of a save implement a registry     *)
(* that performs one operation at a time, each on the result of the last.   *)
THEOREM RegistryIsAtomic ==
    ASSUME OneWriter
    PROVE  Spec => ImplementsAtomicRegistry
BY InitRefines, StepRefines, RegistryIsKept, PTL DEF Spec, ImplementsAtomicRegistry, Atomic!Spec

(* Only the two reads of a login grant anything.                            *)
LEMMA OnlyLoginsGrant ==
    ASSUME RegistryInd, [Next]_vars, NEW a \in Actors, Granted(a)
    PROVE  VerifyKey(a) \/ FindSigningKey(a)
<1>0. TypeOK /\ DeadBefore /\ pc[a] # "idle" /\ pc'[a] = "idle" /\ answer'[a] = "granted"
  BY DEF RegistryInd, RegistryInv, Granted
<1>1. ASSUME NEW b \in Actors, NEW result \in Answers, result # "granted"
      PROVE  ~Done(b, result)
  BY <1>0, <1>1, DoneTouchesOne
<1>2. ASSUME NEW b \in Actors, NEW result, Done(b, result) PROVE b = a
  BY <1>0, <1>2 DEF TypeOK, Done
<1>3. ASSUME NEW p \in Processes, Crash(p) PROVE FALSE
  BY <1>0, <1>3 DEF TypeOK, Crash
<1>4. ASSUME NEW b \in Actors, NEW r \in Menu, Begin(b, r) PROVE FALSE
  BY <1>0, <1>4 DEF TypeOK, Begin
<1>5. {"internal", "exists", "ok", "NotFound", "ValidationError"} \subseteq Answers
  BY DEF Answers
<1>6. ASSUME NEW b \in Actors, IOFault(b) \/ Probe(b) \/ WriteKeyFile(b) \/ ReloadFails(b) \/ Look(b)
      PROVE  FALSE
  BY <1>0, <1>1, <1>5, <1>6 DEF TypeOK, IOFault, Probe, WriteKeyFile, ReloadFails, Look
<1>7. ASSUME NEW b \in Actors, Change(b) PROVE FALSE
  <2>1. Verdict(UpdateOf(req[b]), file) \in {"ok", "NotFound", "ValidationError"}
    BY DEF Verdict
  <2>. QED BY <2>1, <1>0, <1>1, <1>5, <1>7 DEF TypeOK, Change
<1>8. ASSUME NEW b \in Actors, OpenKeyFile(b) \/ Truncate(b) \/ WriteText(b) PROVE FALSE
  BY <1>0, <1>1, <1>5, <1>8 DEF TypeOK, OpenKeyFile, Truncate, WriteText
<1>9. ASSUME NEW b \in Actors, VerifyKey(b) \/ FindSigningKey(b) PROVE a = b
  BY <1>0, <1>2, <1>9 DEF TypeOK, VerifyKey, FindSigningKey
<1>. QED BY <1>0, <1>3, <1>4, <1>6, <1>7, <1>8, <1>9 DEF Next, Serve, vars, call

(* A login that is granted at its first read has the key of a client alive. *)
LEMMA FirstReadGrants ==
    ASSUME RegistryInd, NEW a \in Actors, Granted(a), VerifyKey(a)
    PROVE  LET c == LoginOf(a)
           IN  /\ <<"client", c>> \notin deadAtStart[a]
               /\ \A n \in 1 .. drawn : <<"older", c, n>> \in deadAtStart[a] => req[a].key >= n
               /\ ~ByToken(a)
<1>0. StateOK
  BY IndByCalls
<1>1. file = stored /\ pc[a] = "load"
  BY <1>0 DEF VerifyKey, StateOK, FileIsStored
<1>2. pc'[a] = "idle" /\ answer'[a] = "granted"
  BY DEF Granted
<1>3. ASSUME NEW result, Done(a, result) PROVE result = "granted"
  BY <1>0, <1>2, <1>3 DEF Done, StateOK, TypeOK
<1>4. PICK c \in Holders(file, req[a].key) : ~file[c].revoked /\ req[a].token = None
  <2>1. pc' # [pc EXCEPT ![a] = "signing"]
    BY <1>0, <1>2 DEF StateOK, TypeOK
  <2>. QED BY <2>1, <1>3 DEF VerifyKey
<1>5. c \in ClientIds /\ stored[c] # None /\ stored[c].key = req[a].key /\ ~stored[c].revoked
  BY <1>1, <1>4 DEF Holders
<1>6. LoginOf(a) = c
  <2>1. \A d \in ClientIds : d \in Holders(file, req[a].key) <=> d = c
    BY <1>0, <1>1, <1>5 DEF StateOK, SecretsAreDrawn, KeysAreUnique, Holders
  <2>. QED BY <2>1, <1>1, <1>5 DEF LoginOf
<1>7. deadAtStart[a] \subseteq dead
  BY <1>0 DEF StateOK, DeadBefore
<1>8. drawn \in Nat
  BY <1>0 DEF StateOK, TypeOK
<1>9. /\ <<"client", c>> \notin deadAtStart[a]
      /\ \A n \in 1 .. drawn : <<"older", c, n>> \in deadAtStart[a] => req[a].key >= n
  BY <1>0, <1>5, <1>7, <1>8 DEF StateOK, DeadIsGone
<1>. QED BY <1>4, <1>6, <1>9 DEF ByToken

(* A login that is granted at its second read has a key that is active now, *)
(* of a client that was alive when it began.                                *)
LEMMA SecondReadGrants ==
    ASSUME RegistryInd, NEW a \in Actors, Granted(a), FindSigningKey(a)
    PROVE  LET c == LoginOf(a)
           IN  /\ <<"client", c>> \notin deadAtStart[a]
               /\ \A n \in 1 .. drawn : <<"older", c, n>> \in deadAtStart[a] => req[a].key >= n
               /\ <<"kid", c, req[a].token.kid>> \notin deadAtStart[a]
<1>0. StateOK /\ LoginOK(a)
  BY IndByCalls
<1>1. file = stored /\ pc[a] = "signing"
  BY <1>0 DEF FindSigningKey, StateOK, FileIsStored
<1>2. answer'[a] = "granted"
  BY DEF Granted
<1>3. PICK c \in Holders(mem[a], req[a].key) :
         Done(a, IF file[c] = None THEN "NotFound" ELSE TokenVerdict(c, req[a].token))
  BY DEF FindSigningKey
<1>4. file[c] # None /\ TokenVerdict(c, req[a].token) = "granted"
  BY <1>0, <1>2, <1>3 DEF Done, StateOK, TypeOK
<1>5. LoginOf(a) = c
  <2>1. Holders(mem[a], req[a].key) = {c} /\ c \in ClientIds
    BY <1>0, <1>1 DEF LoginOK, Holders
  <2>. QED BY <2>1, <1>1 DEF LoginOf
<1>6. deadAtStart[a] \subseteq dead /\ drawn \in Nat
  BY <1>0 DEF StateOK, DeadBefore, TypeOK
<1>7. /\ <<"client", c>> \notin deadAtStart[a]
      /\ \A n \in 1 .. drawn : <<"older", c, n>> \in deadAtStart[a] => req[a].key >= n
  BY <1>0, <1>1, <1>6 DEF LoginOK
<1>8. <<"kid", c, req[a].token.kid>> \notin deadAtStart[a]
  <2>1. c \in ClientIds /\ req[a].token.kid \in Kids
    BY <1>0, <1>1 DEF LoginOK, Holders, Tokens
  <2>2. stored[c].kids[req[a].token.kid] # None => stored[c].kids[req[a].token.kid].active
    BY <1>1, <1>4 DEF TokenVerdict
  <2>. QED BY <2>1, <2>2, <1>0, <1>6 DEF StateOK, DeadIsGone
<1>. QED BY <1>5, <1>7, <1>8

(* Once the end of a credential was confirmed, no request that begins later *)
(* is granted with it, although resolve_principal (auth/dependencies.py)    *)
(* reads the registry twice, and other calls may come between.              *)
THEOREM RevokedMeansRefused ==
    ASSUME OneWriter
    PROVE  Spec => GrantsRespectRevocations
<1>1. RegistryInd /\ [Next]_vars =>
         [\A a \in Actors : Granted(a) =>
            LET c == LoginOf(a)
            IN  /\ <<"client", c>> \notin deadAtStart[a]
                /\ \A n \in 1 .. drawn : <<"older", c, n>> \in deadAtStart[a] => req[a].key >= n
                /\ ByToken(a) => <<"kid", c, req[a].token.kid>> \notin deadAtStart[a]]_vars
  BY OnlyLoginsGrant, FirstReadGrants, SecondReadGrants
<1>. QED BY <1>1, RegistryIsKept, PTL DEF Spec, GrantsRespectRevocations
=============================================================================
