---------------------------- MODULE ApiRequests ----------------------------
(***************************************************************************)
(* A request on its way through the server: audit middleware, loading of   *)
(* acl.json, authentication, permission, storage, audit record, answer.    *)
(* Handlers and dependencies declared with `def` run in a pool of threads; *)
(* POST /file/{path} is `async def` and runs in the event loop, which it   *)
(* blocks while it waits for the storage.  The storage is the store that   *)
(* GitStorage implements: under its lock a request takes effect at once.   *)
(***************************************************************************)
EXTENDS AclRules

CONSTANTS
    Callers,      \* connections, each with at most one request
    Admin,        \* settings.admin_user_id
    AclPath,      \* _system/acl.json
    Files,        \* the other paths of the tree
    TextOf,       \* [Paths -> the path as characters]
    KindOf,       \* [Paths -> its kind]
    AclFiles,     \* the lists of rules acl.json may hold
    Broken,       \* an acl.json that is no list of rules
    InitialAcl,   \* acl.json at start: one of AclFiles, Broken or None
    Menu,         \* the requests, without the versions they name
    PoolSizes,    \* how many threads the pool may have
    MaxRequests,  \* bound: requests in one behaviour
    Faults,       \* {"sink", "crash"} or less
    Nobody        \* no caller

Paths == Files \cup {AclPath}
Acls  == AclFiles \cup {Broken, None}
Ops   == {"read", "content", "tree", "edit", "delete", "write", "upload", "batch", "audit"}
Ids   == 1 .. MaxRequests

(* edit, append, delete and transaction; POST /file/{path} with a JSON body *)
(* or as multipart form.                                                    *)
Changes   == {"edit", "delete", "batch"}
LoopOps   == {"write", "upload"}

(* Statuses: "invalid" stands for 400 and 422, "error" for 500.             *)
Statuses == {"ok", "unauthorized", "forbidden", "notfound", "conflict", "invalid", "error"}

ASSUME RequestsTyped ==
    /\ Callers # {} /\ Nobody \notin Callers /\ AclPath \notin Files
    /\ PoolSizes \subseteq Nat \ {0} /\ MaxRequests \in Nat
    /\ InitialAcl \in Acls /\ Faults \subseteq {"sink", "crash"}
    /\ None \notin Statuses /\ None \notin AclFiles \cup {Broken}
    /\ \A m \in Menu : m.user # None
    /\ \A m \in Menu : /\ m.op \in Ops /\ m.acl \in AclFiles \cup {Broken}
                       /\ m.paths \in Seq(Paths) /\ {m.genuine, m.wellFormed} \subseteq BOOLEAN
                       /\ m.op \in {"tree", "audit"} <=> m.paths = << >>
                       /\ m.op \notin {"tree", "audit", "batch"} => Len(m.paths) = 1

VARIABLES
    tree,     \* [Paths -> number of the commit that last wrote it, 0: absent]
    acl,      \* what acl.json holds, None while it is absent
    lock,     \* GitStorage._lock
    pool,     \* threads of the pool, as the server was started
    loop,     \* the caller whose handler blocks the event loop, or Nobody
    pc,       \* where each request is
    req,      \* each caller's request
    seen,     \* the rules its ACL engine was made with
    who,      \* request.state.principal: the user, or None
    extra,    \* request.state.audit_extra
    status,   \* the answer, once it is known
    issued,   \* requests so far
    log,      \* the audit log
    outcome,  \* history: per request the status the client was given, None for
              \* an admin endpoint and while there is none
    done,     \* history: per request the commit it made, 0: none
    since     \* history: what acl.json held since the request came in

server == <<lock, pool, loop, pc, req, seen, who, extra, status, since>>
vars   == <<tree, acl, server, issued, log, outcome, done>>

PathsIn(r) == {r.paths[i] : i \in 1 .. Len(r.paths)}
Pii(p)     == KindOf[p] = "pii.json"
Binary(p)  == KindOf[p] = "binary"

NoRequest == [id |-> 0]
NoExtra   == [pii |-> FALSE, commit |-> 0]

-----------------------------------------------------------------------------
(* Permission                                                               *)

MayRead(rules, r, p) ==
    Permits(rules, [user |-> r.user, client |-> r.client,
                    path |-> TextOf[p], kind |-> KindOf[p]], "read")

(* _require_write: acl.json is the administrator's, whatever the rules say. *)
MayWrite(rules, r, p) ==
    IF p = AclPath THEN r.user = Admin
    ELSE Permits(rules, [user |-> r.user, client |-> r.client,
                         path |-> TextOf[p], kind |-> KindOf[p]], "write")

(* Mutant: the first operation of a batch stands for all.                   *)
MayChangeFirst(rules, r) == MayWrite(rules, r, r.paths[1])

MayChange(rules, r) == \A p \in PathsIn(r) : MayWrite(rules, r, p)

-----------------------------------------------------------------------------
(* What the storage answers to a change that names the versions of r.base.  *)

Absent(p) == tree[p] = 0

PathVerdict(r, p) ==
    IF r.op \in {"edit", "delete"} /\ Absent(p) THEN "notfound"
    ELSE IF r.op # "delete" /\ (Binary(p) <=> r.op # "upload") THEN "invalid"
    ELSE IF r.base[p] = tree[p] THEN "ok"
    ELSE IF r.base[p] = 0 /\ r.op \notin {"edit", "delete"} THEN "invalid"
    ELSE "conflict"

(* The first operation that is not valid decides; an edit may also fail to  *)
(* match.                                                                   *)
Verdicts(r) ==
    LET bad == {i \in 1 .. Len(r.paths) : PathVerdict(r, r.paths[i]) # "ok"}
    IN  IF bad = {} THEN IF r.op \in Changes \ {"delete"} THEN {"ok", "invalid"} ELSE {"ok"}
        ELSE {PathVerdict(r, r.paths[CHOOSE i \in bad : \A j \in bad : i <= j])}

(* Mutant: only the first path of a batch decides on the flag.              *)
ExtraFirstPath(r, commit) ==
    [pii |-> r.op # "tree" /\ Pii(r.paths[1]), commit |-> commit]

(* audit_extra of a handler that ran to its end; a tree is never flagged.   *)
Extra(r, commit) ==
    [pii |-> r.op # "tree" /\ \E p \in PathsIn(r) : Pii(p), commit |-> commit]

-----------------------------------------------------------------------------
Init ==
    /\ tree = [p \in Paths |-> IF p = AclPath /\ InitialAcl = None THEN 0 ELSE 1]
    /\ acl = InitialAcl
    /\ lock = Nobody /\ loop = Nobody /\ pool \in PoolSizes
    /\ pc = [c \in Callers |-> "idle"]
    /\ req = [c \in Callers |-> NoRequest]
    /\ seen = [c \in Callers |-> None]
    /\ who = [c \in Callers |-> None]
    /\ extra = [c \in Callers |-> NoExtra]
    /\ status = [c \in Callers |-> "ok"]
    /\ issued = 0 /\ log = << >>
    /\ outcome = [i \in Ids |-> None]
    /\ done = [i \in Ids |-> 0]
    /\ since = [c \in Callers |-> {}]

Go(c, to)     == pc' = [pc EXCEPT ![c] = to]
Answer(c, st) == Go(c, "reply") /\ status' = [status EXCEPT ![c] = st]

InPool     == {c \in Callers : pc[c] \in {"acl", "auth", "handler", "storage", "locked"}
                               /\ loop # c}
PoolHasRoom == Cardinality(InPool) < pool

(* AuditMiddleware.dispatch begins.  The client names the versions it saw   *)
(* before.  The admin endpoints do not load the ACL.                        *)
Dispatch(c) ==
    /\ pc[c] = "idle" /\ loop = Nobody /\ issued < MaxRequests
    /\ \E m \in Menu :
         /\ req' = [req EXCEPT ![c] = [id |-> issued + 1, base |-> tree, op |-> m.op,
                user |-> m.user, client |-> m.client, genuine |-> m.genuine,
                wellFormed |-> m.wellFormed, paths |-> m.paths, acl |-> m.acl]]
         /\ Go(c, IF m.op = "audit" THEN "toAuth" ELSE "toAcl")
    /\ issued' = issued + 1
    /\ since' = [since EXCEPT ![c] = {acl}]
    /\ UNCHANGED <<pool, tree, acl, lock, loop, seen, who, extra, status, log, outcome, done>>

(* The event loop gives the next piece of a request to a thread.            *)
Submit(c) ==
    /\ loop = Nobody /\ PoolHasRoom
    /\ \/ pc[c] = "toAcl" /\ Go(c, "acl")
       \/ pc[c] = "toAuth" /\ Go(c, "auth")
       \/ pc[c] = "toHandler" /\ req[c].op \notin LoopOps /\ Go(c, "handler")
    /\ UNCHANGED <<pool, tree, acl, lock, loop, req, seen, who, extra, status, since,
                   issued, log, outcome, done>>

(* Mutant: a file that is no list of rules counts as no file.               *)
LoadAclLeniently(c) ==
    /\ pc[c] = "acl" /\ lock = Nobody
    /\ seen' = [seen EXCEPT ![c] = IF acl = Broken THEN None ELSE acl] /\ Go(c, "toAuth")
    /\ UNCHANGED <<pool, tree, acl, lock, loop, req, who, extra, status, since,
                   issued, log, outcome, done>>

(* get_acl_engine.  A file that is no list of rules raises.                 *)
LoadAcl(c) ==
    /\ pc[c] = "acl" /\ lock = Nobody
    /\ IF acl = Broken THEN Answer(c, "error") /\ UNCHANGED seen
       ELSE Go(c, "toAuth") /\ seen' = [seen EXCEPT ![c] = acl] /\ UNCHANGED status
    /\ UNCHANGED <<pool, tree, acl, lock, loop, req, who, extra, since, issued, log, outcome, done>>

(* get_principal; then FastAPI validates the body the handler declares,     *)
(* which the handler of POST /file/{path} does not.                         *)
Authenticate(c) ==
    /\ pc[c] = "auth"
    /\ who' = [who EXCEPT ![c] = IF req[c].genuine THEN req[c].user ELSE None]
    /\ IF ~req[c].genuine THEN Answer(c, "unauthorized")
       ELSE IF ~req[c].wellFormed /\ req[c].op \in Changes
       THEN Answer(c, "invalid")
       ELSE Go(c, "toHandler") /\ UNCHANGED status
    /\ UNCHANGED <<pool, tree, acl, lock, loop, req, seen, extra, since, issued, log, outcome, done>>

(* get_file: the file is read before the permission is asked for.           *)
ReadFile(c) ==
    LET p == req[c].paths[1]
    IN  /\ pc[c] = "handler" /\ req[c].op = "read" /\ lock = Nobody
        /\ IF Absent(p) THEN Answer(c, "notfound") /\ UNCHANGED extra
           ELSE IF ~MayRead(seen[c], req[c], p) THEN Answer(c, "forbidden") /\ UNCHANGED extra
           ELSE Answer(c, "ok") /\ extra' = [extra EXCEPT ![c] = Extra(req[c], 0)]
        /\ UNCHANGED <<pool, tree, acl, lock, loop, req, seen, who, since, issued, log, outcome, done>>

(* get_file_content: here the permission comes first.                       *)
ReadContent(c) ==
    LET p == req[c].paths[1]
    IN  /\ pc[c] = "handler" /\ req[c].op = "content" /\ lock = Nobody
        /\ IF ~MayRead(seen[c], req[c], p) THEN Answer(c, "forbidden") /\ UNCHANGED extra
           ELSE IF Absent(p) THEN Answer(c, "notfound") /\ UNCHANGED extra
           ELSE IF ~Binary(p) THEN Answer(c, "invalid") /\ UNCHANGED extra
           ELSE Answer(c, "ok") /\ extra' = [extra EXCEPT ![c] = NoExtra]
        /\ UNCHANGED <<pool, tree, acl, lock, loop, req, seen, who, since, issued, log, outcome, done>>

(* get_tree shows what the caller may read.                                 *)
ReadTree(c) ==
    /\ pc[c] = "handler" /\ req[c].op = "tree" /\ lock = Nobody
    /\ Answer(c, "ok")
    /\ extra' = [extra EXCEPT ![c] = Extra(req[c], 0)]
    /\ UNCHANGED <<pool, tree, acl, lock, loop, req, seen, who, since, issued, log, outcome, done>>

(* require_admin, and the query.                                            *)
ReadAudit(c) ==
    /\ pc[c] = "handler" /\ req[c].op = "audit"
    /\ Answer(c, IF who[c] = Admin THEN "ok" ELSE "forbidden")
    /\ UNCHANGED <<pool, tree, acl, lock, loop, req, seen, who, extra, since, issued, log, outcome, done>>

(* edit_file, append_file, delete_file, run_transaction.                    *)
Permission(c) ==
    /\ pc[c] = "handler" /\ req[c].op \in Changes
    /\ IF MayChange(seen[c], req[c]) THEN Go(c, "storage") /\ UNCHANGED status
       ELSE Answer(c, "forbidden")
    /\ UNCHANGED <<pool, tree, acl, lock, loop, req, seen, who, extra, since, issued, log, outcome, done>>

(* write_file up to the first await: the body is still to come.             *)
WritePermission(c) ==
    /\ pc[c] = "toHandler" /\ req[c].op \in LoopOps /\ loop = Nobody
    /\ IF MayChange(seen[c], req[c]) THEN Go(c, "body") /\ UNCHANGED status
       ELSE Answer(c, "forbidden")
    /\ UNCHANGED <<pool, tree, acl, lock, loop, req, seen, who, extra, since, issued, log, outcome, done>>

(* Mutant: the lock is taken before the upload is read.                     *)
WriteBodyLocked(c) ==
    /\ pc[c] = "body" /\ loop = Nobody
    /\ IF lock = Nobody THEN lock' = c /\ UNCHANGED <<pc, loop>>
       ELSE loop' = c /\ Go(c, "storage") /\ UNCHANGED lock
    /\ UNCHANGED <<pool, tree, acl, req, seen, who, extra, status, since, issued, log, outcome, done>>

(* The body is complete.  A JSON body that does not validate raises inside  *)
(* the handler, where nothing turns it into an answer; a form without its   *)
(* file or reason is refused.                                               *)
WriteBody(c) ==
    /\ pc[c] = "body" /\ loop = Nobody
    /\ IF req[c].wellFormed THEN Go(c, "storage") /\ loop' = c /\ UNCHANGED status
       ELSE Answer(c, IF req[c].op = "write" THEN "error" ELSE "invalid") /\ UNCHANGED loop
    /\ UNCHANGED <<pool, tree, acl, lock, req, seen, who, extra, since, issued, log, outcome, done>>

(* Mutant: the storage has no lock.                                         *)
AcquireUnlocked(c) ==
    /\ pc[c] = "storage"
    /\ lock' = c /\ Go(c, "locked")
    /\ UNCHANGED <<pool, tree, acl, loop, req, seen, who, extra, status, since, issued, log, outcome, done>>

Acquire(c) ==
    /\ pc[c] = "storage" /\ lock \in {Nobody, c}
    /\ lock' = c /\ Go(c, "locked")
    /\ UNCHANGED <<pool, tree, acl, loop, req, seen, who, extra, status, since, issued, log, outcome, done>>

(* The store takes the change or refuses it; the handler returns.           *)
Store(c) ==
    LET r      == req[c]
        commit == 2 + Cardinality({i \in Ids : done[i] # 0})
        acls   == IF AclPath \notin PathsIn(r) THEN acl
                  ELSE IF r.op = "delete" THEN None ELSE r.acl
    IN  /\ pc[c] = "locked"
        /\ \E st \in Verdicts(r) :
             /\ Answer(c, st)
             /\ IF st # "ok" THEN UNCHANGED <<pool, tree, acl, done, extra, since>>
                ELSE /\ tree' = [p \in Paths |-> IF p \notin PathsIn(r) THEN tree[p]
                                                 ELSE IF r.op = "delete" THEN 0 ELSE commit]
                     /\ acl' = acls
                     /\ done' = [done EXCEPT ![r.id] = commit]
                     /\ extra' = [extra EXCEPT ![c] = Extra(r, commit)]
                     /\ since' = [d \in Callers |->
                                    IF pc[d] = "idle" THEN {} ELSE since[d] \cup {acls}]
        /\ lock' = Nobody
        /\ loop' = IF loop = c THEN Nobody ELSE loop
        /\ UNCHANGED <<pool, req, seen, who, issued, log, outcome>>

(* The middleware's entry.                                                  *)
ResultOf(st) == IF st = "ok" THEN "success"
                ELSE IF st \in {"unauthorized", "forbidden"} THEN "denied" ELSE "error"

Entry(c) == [id |-> req[c].id, user |-> who[c], result |-> ResultOf(status[c]),
             pii |-> extra[c].pii, commit |-> extra[c].commit]

Rest(c, st) ==
    /\ outcome' = IF req[c].op = "audit" THEN outcome
                  ELSE [outcome EXCEPT ![req[c].id] = st]
    /\ Go(c, "idle")
    /\ req' = [req EXCEPT ![c] = NoRequest] /\ seen' = [seen EXCEPT ![c] = None]
    /\ who' = [who EXCEPT ![c] = None] /\ extra' = [extra EXCEPT ![c] = NoExtra]
    /\ status' = [status EXCEPT ![c] = "ok"] /\ since' = [since EXCEPT ![c] = {}]
    /\ UNCHANGED <<pool, tree, acl, lock, loop, issued, done>>

(* Mutant: what the sink raises is caught.                                  *)
ReplyQuietly(c) ==
    /\ pc[c] = "reply" /\ loop = Nobody
    /\ log' \in {IF status[c] = "error" \/ req[c].op = "audit" THEN log
                 ELSE Append(log, Entry(c))}
                \cup (IF "sink" \in Faults THEN {log} ELSE {})
    /\ Rest(c, status[c])

(* call_next returns and the entry is written before the answer goes out.   *)
(* An exception no handler is registered for passes through the middleware; *)
(* admin endpoints are not logged; a sink that raises turns the answer into *)
(* an error.                                                                *)
Reply(c) ==
    /\ pc[c] = "reply" /\ loop = Nobody
    /\ \/ /\ status[c] = "error" \/ req[c].op = "audit"
          /\ Rest(c, status[c]) /\ UNCHANGED log
       \/ /\ status[c] # "error" /\ req[c].op # "audit"
          /\ Rest(c, status[c]) /\ log' = Append(log, Entry(c))
       \/ /\ status[c] # "error" /\ req[c].op # "audit" /\ "sink" \in Faults
          /\ Rest(c, "error") /\ UNCHANGED log

(* The process ends and is started again.                                   *)
Crash ==
    /\ "crash" \in Faults /\ \E c \in Callers : pc[c] # "idle"
    /\ lock' = Nobody /\ loop' = Nobody
    /\ pc' = [c \in Callers |-> "idle"]
    /\ req' = [c \in Callers |-> NoRequest] /\ seen' = [c \in Callers |-> None]
    /\ who' = [c \in Callers |-> None] /\ extra' = [c \in Callers |-> NoExtra]
    /\ status' = [c \in Callers |-> "ok"] /\ since' = [c \in Callers |-> {}]
    /\ UNCHANGED <<pool, tree, acl, issued, log, outcome, done>>

Step(c) ==
    \/ Submit(c) \/ LoadAcl(c) \/ Authenticate(c)
    \/ ReadFile(c) \/ ReadContent(c) \/ ReadTree(c) \/ ReadAudit(c)
    \/ Permission(c) \/ WritePermission(c) \/ WriteBody(c)
    \/ Acquire(c) \/ Store(c) \/ Reply(c)

Next == Crash \/ \E c \in Callers : Dispatch(c) \/ Step(c)

Spec == Init /\ [][Next]_vars

(* Every thread and the event loop run on; a caller need not send anything. *)
FairSpec == Spec /\ \A c \in Callers : WF_vars(Step(c))

-----------------------------------------------------------------------------
(* Type invariant; the loop and the lock are held by whom the program       *)
(* counters say.                                                            *)
TypeOK ==
    /\ tree \in [Paths -> Nat] /\ acl \in Acls /\ (acl = None <=> tree[AclPath] = 0)
    /\ lock \in Callers \cup {Nobody} /\ loop \in Callers \cup {Nobody}
    /\ \A c \in Callers :
         /\ pc[c] = "locked" <=> lock = c
         /\ loop = c => pc[c] \in {"storage", "locked"} /\ req[c].op \in LoopOps
         /\ status[c] \in Statuses /\ extra[c].commit \in Nat
         /\ who[c] # None => who[c] = req[c].user
    /\ \A i \in Ids : outcome[i] \in Statuses \cup {None} /\ done[i] \in Nat
    /\ pool \in PoolSizes /\ Cardinality(InPool) <= pool

Entries(i) == {n \in 1 .. Len(log) : log[n].id = i}

(* Every answer but an error has been written to the audit log before it    *)
(* goes out, once, with its result and with the user who was proven; the    *)
(* log has nothing else (AuditMiddleware.dispatch).  So the client of a     *)
(* write that was refused or accepted can be sure it is on record, whatever *)
(* the sink does and however the requests interleave.  The entry of a write *)
(* that was accepted names its commit, and a write that was refused made    *)
(* none (_audit_extra).                                                     *)
AnswersAreLogged ==
    \A i \in Ids :
       /\ Cardinality(Entries(i)) = IF outcome[i] \in {"error", None} THEN 0 ELSE 1
       /\ \A n \in Entries(i) : /\ log[n].result = ResultOf(outcome[i])
                                /\ log[n].user = None <=> outcome[i] = "unauthorized"
                                /\ outcome[i] = "ok" => log[n].commit = done[i]
       /\ outcome[i] \notin {"ok", "error", None} => done[i] = 0

(* Who reads, writes or deletes a PII file and is told so is flagged, also  *)
(* when the file is one of several in a batch (api/transactions.py:37-43).  *)
PiiSuccessIsFlagged ==
    \A c \in Callers :
       pc[c] = "reply" /\ status[c] = "ok" /\ (\E p \in PathsIn(req[c]) : Pii(p)) => extra[c].pii

(* What changes the tree was permitted, for each of its paths, by an        *)
(* acl.json that was in force while the request was on its way, for a user  *)
(* who has been authenticated; acl.json itself only changes for the         *)
(* administrator (_require_write, run_transaction of api/transactions.py).  *)
ChangesWerePermitted ==
    [][\A c \in Callers :
         tree' # tree /\ lock = c =>
            /\ who[c] = req[c].user
            /\ \A p \in Paths : tree'[p] # tree[p] =>
                  p \in PathsIn(req[c]) /\ \E a \in since[c] : a # Broken /\ MayWrite(a, req[c], p)]_vars

(* Where acl.json is no list of rules nothing succeeds any more, for nobody *)
(* and no operation but the log's: no request that comes in after that      *)
(* reads or changes anything, whatever it overlaps with, the repair of      *)
(* acl.json by the administrator included (get_acl_engine raises).          *)
BrokenRulesLetNothingThrough ==
    \A c \in Callers :
       pc[c] = "reply" /\ status[c] = "ok" /\ req[c].op # "audit" => since[c] # {Broken}

(* Every request that reaches the server ends: no cycle of the pool's       *)
(* threads, the storage's lock and an event loop that one handler blocks.   *)
EveryRequestEnds == \A c \in Callers : pc[c] # "idle" ~> pc[c] = "idle"

-----------------------------------------------------------------------------
(* Statements of the documentation the code does not keep.                  *)

(* README.md:25: "Every call is logged".  Here of the calls that were       *)
(* answered while nothing failed around the server.                         *)
EveryCallIsLogged == \A i \in Ids : outcome[i] # None => Entries(i) # {}

(* README.md:25: "with a pii_accessed flag whenever a PII-classified file   *)
(* is touched".  A conflict carries the current content of the file.        *)
PiiAccessIsFlagged ==
    \A c \in Callers :
       pc[c] = "reply" /\ (\E p \in PathsIn(req[c]) : Pii(p))
       /\ status[c] \in {"ok", "conflict"} => extra[c].pii

(* The same of the previews in a listing: a PII file the caller may read    *)
(* shows its first 200 characters there.                                    *)
PreviewsAreFlagged ==
    \A c \in Callers :
       pc[c] = "reply" /\ req[c].op = "tree" /\ status[c] = "ok"
       /\ (\E p \in Files : Pii(p) /\ ~Absent(p) /\ MayRead(seen[c], req[c], p)) => extra[c].pii

(* docs/spec.en.md:112: phase 1 validates "all operations against current   *)
(* versions/string matches/ACL", inside the critical section (:119).        *)
PermittedWhenCommitted ==
    [][\A c \in Callers :
         tree' # tree /\ lock = c /\ acl # Broken => MayChange(acl, req[c])]_vars

(* api/files.py:29: acl.json is writable for the administrator,             *)
(* "unabhängig von allen sonstigen Pfad-/Kind-Regeln".                      *)
AdminCanWriteTheAcl ==
    \A c \in Callers :
       pc[c] = "reply" /\ req[c].op = "write" /\ req[c].paths = <<AclPath>>
       /\ req[c].user = Admin /\ req[c].genuine /\ req[c].wellFormed
       => status[c] \in {"ok", "conflict", "invalid"}
=============================================================================
