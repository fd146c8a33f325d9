--------------------------- MODULE ClientRegistry ---------------------------
(***************************************************************************)
(* The client registry (auth/client_registry.py) and the authentication    *)
(* of requests against it (auth/dependencies.py).  The registry is a JSON  *)
(* file.  Every operation reads the whole file, under a lock its process   *)
(* has for itself, and an update writes the whole file back: first open()  *)
(* empties it, then the text is written.  The server's threads share one   *)
(* process; each call of the command line (cli.py) is a process of its own *)
(* with the same file.  generate-signing-key also writes the private key   *)
(* of the pair it registers to a file, `pem`.                              *)
(*                                                                         *)
(* `stored` is a ghost: the registry as the last update that reached the   *)
(* file meant it.  `dead` is a ghost: credentials whose end was confirmed  *)
(* to the caller who asked for it.                                         *)
(***************************************************************************)
EXTENDS Credentials

CONSTANTS
    Actors,         \* calls that may be under way at a time
    Processes,
    ProcessOf,      \* [Actors -> Processes]
    Server,         \* the process that is not a command line
    InitialPem,     \* the private key file at start
    NoActor,        \* a lock nobody holds
    Empty,          \* the file, emptied by open()
    Garbled,        \* the file, no longer JSON
    Malformed,      \* an X-User-Token that is not a JWT
    Serialised,     \* no update of one process begins during that of another
    Faults,         \* {"io", "crash"} or less
    Menu,           \* the calls that are made
    MaxCalls        \* bound: calls begun in one behaviour

Unreadable == {Empty, Garbled}
Drawable   == 1 .. InitiallyDrawn + MaxCalls
Tokens     == [iss: ClientIds, kid: Kids, pub: Drawable, expired: BOOLEAN]
Lookups    == [op: {"get"}, client: ClientIds] \cup [op: {"list"}]
Logins     == [op: {"resolve"}, key: Drawable, token: Tokens \cup {Malformed, None}]
Generates  == [op: {"generate"}, client: ClientIds, kid: Kids, force: BOOLEAN]
Changes    == Updates \cup Generates
Calls      == Changes \cup Lookups \cup Logins

(* What a call asks of the registry.                                        *)
UpdateOf(r) ==
    IF r \in Generates THEN [op |-> "addKey", client |-> r.client, kid |-> r.kid] ELSE r

ASSUME ProcessesTyped   == ProcessOf \in [Actors -> Processes] /\ Server \in Processes
ASSUME InitialPemTyped  == InitialPem \in (1 .. InitiallyDrawn) \cup {None}
ASSUME NoActorIsNone    == NoActor \notin Actors
ASSUME UnreadableIsNone == ({None} \cup Unreadable) \cap Registries = {}
ASSUME NoneIsNoCall     == None \notin Calls /\ None \notin Tokens
ASSUME SwitchesTyped    == Serialised \in BOOLEAN /\ Faults \subseteq {"io", "crash"}
ASSUME MenuTyped        == Menu \subseteq Calls
ASSUME MaxCallsIsNat    == MaxCalls \in Nat

VARIABLES
    file,       \* clients.json
    pem,        \* private key file: the pair's number, None, or Empty if cut off
    plock,      \* per process, the holder of ClientRegistry._lock
    pc,         \* where each call is
    req,        \* the call, None when there is none
    mem,        \* the copy of the registry a call works on, None when it has none
    answer,     \* last answer of each actor
    drawn,      \* secrets drawn so far
    stored,     \* ghost
    dead,       \* ghost
    deadAtStart,\* ghost: `dead` when the call began
    begun       \* calls begun so far

ghosts == <<stored, dead>>
call   == <<pc, req, mem, answer, deadAtStart>>
vars   == <<file, pem, plock, call, drawn, ghosts, begun>>

(* Unauthorized for different reasons; the texts of the exceptions differ.  *)
Unauthorized == {"unknownKey", "revokedClient", "tokenMissing", "noSigningKey",
                 "expired", "badSignature", "wrongIssuer"}
Answers == Unauthorized \cup {"none", "internal", "ok", "NotFound", "ValidationError",
                              "granted", "exists"}

Init ==
    /\ file = Initial
    /\ pem = InitialPem
    /\ plock = [p \in Processes |-> NoActor]
    /\ pc = [a \in Actors |-> "idle"]
    /\ req = [a \in Actors |-> None]
    /\ mem = [a \in Actors |-> None]
    /\ answer = [a \in Actors |-> "none"]
    /\ drawn = InitiallyDrawn
    /\ stored = Initial
    /\ dead = {}
    /\ deadAtStart = [a \in Actors |-> {}]
    /\ begun = 0

(* A call arrives; secrets are presented only once they exist.              *)
Begin(a, r) ==
    /\ pc[a] = "idle"
    /\ begun < MaxCalls
    /\ r \in Logins => /\ r.key <= drawn
                       /\ r.token \in Tokens => r.token.pub <= drawn
    /\ r \in Generates => ProcessOf[a] # Server
    /\ pc' = [pc EXCEPT ![a] = IF r \in Generates THEN "probe" ELSE "load"]
    /\ req' = [req EXCEPT ![a] = r]
    /\ deadAtStart' = [deadAtStart EXCEPT ![a] = dead]
    /\ answer' = [answer EXCEPT ![a] = "none"]
    /\ begun' = begun + 1
    /\ UNCHANGED <<file, pem, plock, mem, drawn, ghosts>>

Done(a, result) ==
    /\ pc' = [pc EXCEPT ![a] = "idle"]
    /\ req' = [req EXCEPT ![a] = None]
    /\ mem' = [mem EXCEPT ![a] = None]
    /\ answer' = [answer EXCEPT ![a] = result]
    /\ deadAtStart' = [deadAtStart EXCEPT ![a] = {}]

LockIsFree(a) == plock[ProcessOf[a]] = NoActor
Release(a)    == plock' = [plock EXCEPT ![ProcessOf[a]] = NoActor]

(* json.loads() of a file that is being written, or was left broken.        *)
ReloadFails(a) ==
    /\ pc[a] \in {"load", "signing"}
    /\ LockIsFree(a)
    /\ file \in Unreadable
    /\ Done(a, "internal")
    /\ UNCHANGED <<file, pem, plock, drawn, ghosts, begun>>

Look(a) ==
    /\ pc[a] = "load" /\ req[a] \in Lookups
    /\ LockIsFree(a)
    /\ file \notin Unreadable
    /\ Done(a, IF req[a].op = "get" /\ file[req[a].client] = None THEN "NotFound" ELSE "ok")
    /\ UNCHANGED <<file, pem, plock, drawn, ghosts, begun>>

InUpdate(a) == pc[a] \in {"save", "write"}

(* Mutant: the lock covers the load, not the save.                          *)
ChangeUnlocked(a) ==
    /\ pc[a] = "load" /\ req[a] \in Changes
    /\ LockIsFree(a)
    /\ file \notin Unreadable
    /\ LET update  == UpdateOf(req[a])
           verdict == Verdict(update, file)
           secret  == IF DrawsSecret(update) THEN drawn + 1 ELSE drawn
       IN  \/ /\ verdict = "ok"
              /\ mem' = [mem EXCEPT ![a] = Updated(update, file, secret)]
              /\ drawn' = secret
              /\ pc' = [pc EXCEPT ![a] = "save"]
              /\ UNCHANGED <<req, answer, deadAtStart>>
           \/ /\ verdict # "ok"
              /\ Done(a, verdict)
              /\ UNCHANGED drawn
    /\ UNCHANGED <<file, pem, plock, ghosts, begun>>

(* Take the lock, reload, check the call and change the copy in memory.     *)
Change(a) ==
    /\ pc[a] = "load" /\ req[a] \in Changes
    /\ LockIsFree(a)
    /\ file \notin Unreadable
    /\ Serialised => \A b \in Actors : ~InUpdate(b)
    /\ LET update  == UpdateOf(req[a])
           verdict == Verdict(update, file)
           secret  == IF DrawsSecret(update) THEN drawn + 1 ELSE drawn
       IN  \/ /\ verdict = "ok"
              /\ mem' = [mem EXCEPT ![a] = Updated(update, file, secret)]
              /\ drawn' = secret
              /\ plock' = [plock EXCEPT ![ProcessOf[a]] = a]
              /\ pc' = [pc EXCEPT ![a] = "save"]
              /\ UNCHANGED <<req, answer, deadAtStart>>
           \/ /\ verdict # "ok"
              /\ Done(a, verdict)
              /\ UNCHANGED <<drawn, plock>>
    /\ UNCHANGED <<file, pem, ghosts, begun>>

(* _save: write_text opens the file for writing.                            *)
Truncate(a) ==
    /\ pc[a] = "save"
    /\ file' = Empty
    /\ stored' = mem[a]
    /\ pc' = [pc EXCEPT ![a] = "write"]
    /\ UNCHANGED <<pem, plock, req, mem, answer, deadAtStart, drawn, dead, begun>>

(* What a confirmed call has put an end to; of rotated API keys, all that   *)
(* are older than the new one.                                              *)
Ended(a) ==
    LET r == req[a]
    IN  CASE r.op = "revoke"    -> {<<"client", r.client>>}
          [] r.op = "revokeKey" -> {<<"kid", r.client, r.kid>>}
          [] r.op = "rotate"    -> {<<"older", r.client, mem[a][r.client].key>>}
          [] OTHER              -> {}

(* _save: the text; on top of what another process wrote since the file was *)
(* emptied it may leave a mixture.                                          *)
WriteText(a) ==
    /\ pc[a] = "write"
    /\ file' \in {mem[a]} \cup (IF file = Empty THEN {} ELSE {Garbled})
    /\ dead' = dead \cup Ended(a)
    /\ \/ req[a] \in Updates /\ Done(a, "ok")
       \/ /\ req[a] \in Generates
          /\ pc' = [pc EXCEPT ![a] = "open"]
          /\ UNCHANGED <<req, mem, answer, deadAtStart>>
    /\ Release(a)
    /\ UNCHANGED <<pem, drawn, stored, begun>>

(* Mutant: the key file is opened for writing to see if that is possible.   *)
ProbeOpens(a) ==
    /\ pc[a] = "probe"
    /\ \/ pem # None /\ ~req[a].force /\ Done(a, "exists") /\ UNCHANGED pem
       \/ /\ pem = None \/ req[a].force
          /\ pem' = Empty
          /\ pc' = [pc EXCEPT ![a] = "load"]
          /\ UNCHANGED <<req, mem, answer, deadAtStart>>
    /\ UNCHANGED <<file, plock, drawn, ghosts, begun>>

(* generate-signing-key leaves a private key file alone, unless forced.     *)
Probe(a) ==
    /\ pc[a] = "probe"
    /\ \/ pem # None /\ ~req[a].force /\ Done(a, "exists")
       \/ /\ pem = None \/ req[a].force
          /\ pc' = [pc EXCEPT ![a] = "load"]
          /\ UNCHANGED <<req, mem, answer, deadAtStart>>
    /\ UNCHANGED <<file, pem, plock, drawn, ghosts, begun>>

(* Its public key registered, it opens the file and writes the private key. *)
OpenKeyFile(a) ==
    /\ pc[a] = "open"
    /\ pem' = Empty
    /\ pc' = [pc EXCEPT ![a] = "pem"]
    /\ UNCHANGED <<file, plock, req, mem, answer, deadAtStart, drawn, ghosts, begun>>

WriteKeyFile(a) ==
    /\ pc[a] = "pem"
    /\ pem' = mem[a][req[a].client].kids[req[a].kid].pub
    /\ Done(a, "ok")
    /\ UNCHANGED <<file, plock, drawn, ghosts, begun>>

(* resolve_principal, first half: the API key names the client; a client    *)
(* without token must have a fixed user.                                    *)
VerifyKey(a) ==
    /\ pc[a] = "load" /\ req[a] \in Logins
    /\ LockIsFree(a)
    /\ file \notin Unreadable
    /\ LET holders == Holders(file, req[a].key)
       IN  \/ /\ holders = {}
              /\ Done(a, "unknownKey")
           \/ /\ \E c \in holders : file[c].revoked
              /\ Done(a, "revokedClient")
           \/ \E c \in holders :
                 /\ ~file[c].revoked
                 /\ \/ /\ req[a].token = None
                       /\ Done(a, IF file[c].fixed THEN "granted" ELSE "tokenMissing")
                    \/ /\ req[a].token = Malformed
                       /\ Done(a, "internal")
                    \/ /\ req[a].token \in Tokens
                       /\ pc' = [pc EXCEPT ![a] = "signing"]
                       /\ mem' = [mem EXCEPT ![a] = file]
                       /\ UNCHANGED <<req, answer, deadAtStart>>
    /\ UNCHANGED <<file, pem, plock, drawn, ghosts, begun>>

(* Mutant: the key found under the kid need not be active.                  *)
TokenVerdictAnyKey(c, token) ==
    LET key == file[c].kids[token.kid]
    IN  IF key = None THEN "noSigningKey"
        ELSE IF token.pub # key.pub THEN "badSignature"
        ELSE IF token.expired THEN "expired"
        ELSE IF token.iss # c THEN "wrongIssuer"
        ELSE "granted"

(* How a token is judged against the registry as it is now.                 *)
TokenVerdict(c, token) ==
    LET key == file[c].kids[token.kid]
    IN  IF key = None \/ (key # None /\ ~key.active) THEN "noSigningKey"
        ELSE IF token.pub # key.pub THEN "badSignature"
        ELSE IF token.expired THEN "expired"
        ELSE IF token.iss # c THEN "wrongIssuer"
        ELSE "granted"

(* resolve_principal, second half, after a reload of its own: the signing   *)
(* key of the client that was verified.                                     *)
FindSigningKey(a) ==
    /\ pc[a] = "signing"
    /\ LockIsFree(a)
    /\ file \notin Unreadable
    /\ \E c \in Holders(mem[a], req[a].key) :
          Done(a, IF file[c] = None THEN "NotFound" ELSE TokenVerdict(c, req[a].token))
    /\ UNCHANGED <<file, pem, plock, drawn, ghosts, begun>>

(* Mutant: acquire() without a release() on the way out of an exception.    *)
IOFaultKeepsLock(a) ==
    /\ "io" \in Faults
    /\ InUpdate(a)
    /\ Done(a, "internal")
    /\ UNCHANGED <<file, pem, plock, drawn, ghosts, begun>>

(* _save raises, or the writing of the private key: the file could not be   *)
(* opened, or not be written to the end.                                    *)
IOFault(a) ==
    /\ "io" \in Faults
    /\ InUpdate(a) \/ pc[a] \in {"open", "pem"}
    /\ file' \in {file} \cup (IF pc[a] = "write" THEN {Garbled} ELSE {})
    /\ Done(a, "internal")
    /\ IF InUpdate(a) THEN Release(a) ELSE UNCHANGED plock
    /\ UNCHANGED <<pem, drawn, ghosts, begun>>

(* A process dies; the server is started again, the file is as it was left. *)
Crash(p) ==
    /\ "crash" \in Faults
    /\ \E a \in Actors : ProcessOf[a] = p /\ pc[a] # "idle"
    /\ file' \in {file} \cup
          (IF \E a \in Actors : ProcessOf[a] = p /\ pc[a] = "write" THEN {Garbled} ELSE {})
    /\ plock' = [plock EXCEPT ![p] = NoActor]
    /\ pc' = [a \in Actors |-> IF ProcessOf[a] = p THEN "idle" ELSE pc[a]]
    /\ req' = [a \in Actors |-> IF ProcessOf[a] = p THEN None ELSE req[a]]
    /\ mem' = [a \in Actors |-> IF ProcessOf[a] = p THEN None ELSE mem[a]]
    /\ answer' = [a \in Actors |-> IF ProcessOf[a] = p THEN "none" ELSE answer[a]]
    /\ deadAtStart' = [a \in Actors |-> IF ProcessOf[a] = p THEN {} ELSE deadAtStart[a]]
    /\ UNCHANGED <<pem, drawn, ghosts, begun>>

Serve(a) ==
    \/ Probe(a) \/ OpenKeyFile(a) \/ WriteKeyFile(a)
    \/ ReloadFails(a) \/ Look(a) \/ Change(a) \/ Truncate(a) \/ WriteText(a)
    \/ VerifyKey(a) \/ FindSigningKey(a)

Next ==
    \/ \E a \in Actors :
          \/ \E r \in Menu : Begin(a, r)
          \/ Serve(a)
          \/ IOFault(a)
    \/ \E p \in Processes : Crash(p)

Spec == Init /\ [][Next]_vars

(* A thread that can run eventually runs.                                   *)
FairSpec == Spec /\ \A a \in Actors : WF_vars(Serve(a))
-----------------------------------------------------------------------------
(* Properties                                                               *)

(* Type invariant.                                                          *)
TypeOK ==
    /\ file \in Registries \cup Unreadable
    /\ plock \in [Processes -> Actors \cup {NoActor}]
    /\ pc \in [Actors -> {"idle", "probe", "load", "save", "write", "open", "pem", "signing"}]
    /\ pem \in Nat \cup {None, Empty}
    /\ req \in [Actors -> Menu \cup {None}]
    /\ mem \in [Actors -> Registries \cup {None}]
    /\ answer \in [Actors -> Answers]
    /\ drawn \in Nat
    /\ stored \in Registries
    /\ begun \in 0 .. MaxCalls

(* The lock of a process is held exactly during an update of that process.  *)
LockProtects == \A a \in Actors : plock[ProcessOf[a]] = a <=> InUpdate(a)

CallsFit ==
    \A a \in Actors :
       /\ pc[a] = "idle" <=> req[a] = None
       /\ InUpdate(a) => req[a] \in Changes
       /\ pc[a] \in {"open", "pem"} => req[a] \in Generates
       /\ pc[a] \in {"idle", "probe", "load"} <=> mem[a] = None
       /\ pc[a] = "signing" => /\ req[a] \in Logins /\ req[a].token \in Tokens
                               /\ \E c \in ClientIds : Holders(mem[a], req[a].key) = {c}

OneUpdate == \A a, b \in Actors : InUpdate(a) /\ InUpdate(b) => a = b

(* A file that can be read holds the last update, whole.                    *)
FileIsStored == file \notin Unreadable => file = stored

(* An update about to be saved starts from what is in the file.             *)
SavesBuildOnFile ==
    \A a \in Actors : pc[a] = "save" =>
       /\ file = stored
       /\ Verdict(UpdateOf(req[a]), stored) = "ok"
       /\ mem[a] = Updated(UpdateOf(req[a]), stored, drawn)
       /\ DrawsSecret(UpdateOf(req[a])) => drawn \notin Secrets(stored)

WritesStored ==
    \A a \in Actors : pc[a] = "write" => file = Empty /\ mem[a] = stored

SecretsAreDrawn ==
    /\ Secrets(stored) \subseteq 1 .. drawn
    /\ KeysAreUnique(stored)

(* The inductive invariant of a registry with one writer at a time: what a  *)
(* call reads is the whole of the last update or cannot be read at all, and *)
(* every update adds to the one before.                                     *)
RegistryInv ==
    /\ TypeOK /\ LockProtects /\ CallsFit /\ OneUpdate
    /\ FileIsStored /\ SavesBuildOnFile /\ WritesStored /\ SecretsAreDrawn

(* No credential comes back: clients are never removed, a revoked client    *)
(* stays revoked, a rotated API key is replaced by a newer one, and a kid   *)
(* keeps its public key and stays inactive once revoked (rotate and addKey  *)
(* also work on revoked clients, and a kid is burnt for good).              *)
CredentialsNeverComeBack ==
    [][\A c \in ClientIds : stored[c] # None =>
          /\ stored'[c] # None
          /\ stored[c].revoked => stored'[c].revoked
          /\ stored'[c].key = stored[c].key \/ stored'[c].key \notin Secrets(stored)
          /\ \A k \in Kids : stored[c].kids[k] # None =>
                /\ stored'[c].kids[k] # None
                /\ stored'[c].kids[k].pub = stored[c].kids[k].pub
                /\ stored'[c].kids[k].active => stored[c].kids[k].active]_vars

(* The step in which a's login is granted, and the client it is granted to. *)
Granted(a)  == pc[a] # "idle" /\ pc'[a] = "idle" /\ answer'[a] = "granted"
LoginOf(a)  ==
    CHOOSE c \in ClientIds :
       c \in Holders(IF pc[a] = "load" THEN file ELSE mem[a], req[a].key)
ByToken(a)  == req[a].token # None

(* Once the end of a credential was confirmed, no request that begins later *)
(* is granted with it, although a login reads the registry twice, in two    *)
(* separate sections of the lock, and other calls may come between.         *)
GrantsRespectRevocations ==
    [][\A a \in Actors : Granted(a) =>
          LET c == LoginOf(a)
          IN  /\ <<"client", c>> \notin deadAtStart[a]
              /\ \A n \in 1 .. drawn : <<"older", c, n>> \in deadAtStart[a] => req[a].key >= n
              /\ ByToken(a) => <<"kid", c, req[a].token.kid>> \notin deadAtStart[a]]_vars

(* Every call ends, whatever breaks: no exception leaves the lock held.     *)
EveryCallEnds == \A a \in Actors : pc[a] # "idle" ~> pc[a] = "idle"

(* The private key file changes only in a command whose public key is in    *)
(* the registry by then, and comes to hold its private key: a command that  *)
(* is refused, fails or dies earlier leaves the key that was there usable.  *)
KeyFileFollowsRegistry ==
    [][pem' # pem =>
         \E a \in Actors :
            /\ req[a] \in Generates
            /\ stored[req[a].client] # None
            /\ LET key == stored[req[a].client].kids[req[a].kid]
               IN  key # None /\ pem' \in {Empty, key.pub}]_vars

Atomic == INSTANCE AtomicRegistry WITH clients <- stored

(* The file, the locks and the two steps of a save implement a registry     *)
(* that performs one operation at a time, each on the result of the last.   *)
ImplementsAtomicRegistry == Atomic!Spec

-----------------------------------------------------------------------------
(* What the documentation of the API says                                   *)

(* openapi.yaml, revokeSigningKey: tokens with a revoked kid are refused    *)
(* from that moment on.                                                     *)
RevokedKidsAreRefused ==
    [][\A a \in Actors : Granted(a) /\ ByToken(a) =>
          <<"kid", LoginOf(a), req[a].token.kid>> \notin deadAtStart[a]]_vars

(* openapi.yaml, revokeClient: tokens issued before a client is revoked     *)
(* stay valid until they expire.                                            *)
TokensOutliveTheirClient ==
    [][\A a \in Actors : pc[a] = "load" /\ req[a] \in Logins /\ req[a].token \in Tokens =>
          \A c \in IF file \in Unreadable THEN {} ELSE Holders(file, req[a].key) :
             TokenVerdict(c, req[a].token) = "granted" => answer'[a] # "revokedClient"]_vars

(* cli.py:75: an existing private key file is overwritten with --force.     *)
UnforcedKeysStay ==
    [][\A a \in Actors : pc[a] = "open" /\ pc'[a] = "pem" /\ ~req[a].force => pem = None]_vars

(* get_principal: missing or invalid authentication raises an               *)
(* UnauthorizedError.                                                       *)
BadLoginsAreUnauthorized ==
    [][\A a \in Actors :
          /\ pc[a] = "load" /\ pc'[a] = "idle"
          /\ req[a] \in Logins
          /\ file \notin Unreadable
          => answer'[a] \in Unauthorized \cup {"granted"}]_vars
=============================================================================
