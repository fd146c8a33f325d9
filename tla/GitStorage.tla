----------------------------- MODULE GitStorage -----------------------------
(***************************************************************************)
(* The storage core of the Agent-MD-API (storage/git_repo.py): request     *)
(* threads share one Git work tree behind one lock.  A write request       *)
(* validates all its operations against the last commit, changes the work  *)
(* tree and the index one operation at a time, and commits the whole index *)
(* once.  Nothing is rolled back when the second phase stops half-way;     *)
(* `residue` records the paths such a request may have left changed.       *)
(*                                                                         *)
(* A file's content is a sequence of tokens and stands for its own blob    *)
(* hash, so a version is the content of the path in the last commit.       *)
(***************************************************************************)
EXTENDS FileOps

CONSTANTS
    Threads,        \* threads that serve requests
    TextPaths,      \* paths of the kinds md, json, pii.json and skill
    BinaryPaths,    \* paths of every other kind
    Tokens,         \* pieces of text a file is made of
    Scripts,        \* batches of operations a request may carry, versions left out
    InitialFiles,   \* committed content of every path at start, None when absent
    MaxRequests,    \* bound: requests issued in one behaviour
    Faults,         \* {"io", "crash"} or less: what the environment may do
    NoThread,       \* the lock is free
    StaleVersion    \* a version no path has any more

Paths       == TextPaths \cup BinaryPaths
Contents    == Seq(Tokens)
FileStates  == Contents \cup {None}
OpTypes     == {"write", "edit", "append", "delete", "upload"}
Versions    == Contents \cup {None, StaleVersion}

Template  == [type: OpTypes, path: Paths, old: Tokens \cup {None}, text: FileStates]
Operation == [type: OpTypes, path: Paths, old: Tokens \cup {None}, text: FileStates,
              ver: Versions]

ASSUME LineEndsAreTokens == Lf \in Tokens
ASSUME KindsDisjoint    == TextPaths \cap BinaryPaths = {}
ASSUME NoThreadIsNone   == NoThread \notin Threads
ASSUME NoneIsNoValue    == None \notin Contents /\ None \notin Tokens /\ StaleVersion # None
ASSUME StaleIsNoContent == StaleVersion \notin Contents
ASSUME ScriptsTyped     == Scripts \subseteq Seq(Template)
ASSUME UploadsAlone     ==
    \A s \in Scripts : \A i \in 1 .. Len(s) :
        s[i].type = "upload" => Len(s) = 1 /\ s[i].text # None
ASSUME InitialTyped     == InitialFiles \in [Paths -> FileStates]
ASSUME MaxRequestsIsNat == MaxRequests \in Nat
ASSUME FaultsTyped      == Faults \subseteq {"io", "crash"}

VARIABLES
    work,       \* [Paths -> FileStates]: files of the work tree
    index,      \* the Git index, on disk
    head,       \* the tree of the last commit
    lock,       \* owner of GitStorage._lock, NoThread when free
    pc,         \* where each thread is in its request
    want,       \* what a reading thread asked for: [kind, path]
    ops,        \* operations of a writing thread
    pos,        \* operation a writing thread is at
    resp,       \* last answer of each thread: [status, view]
    residue,    \* ghost: paths a stopped second phase may have left changed
    issued      \* requests issued so far

files == <<work, index, head>>
vars  == <<work, index, head, lock, pc, want, ops, pos, resp, residue, issued>>

ReadKinds == {"file", "bytes", "entry", "tree"}
Wants     == [kind: ReadKinds \ {"tree"}, path: Paths]
             \cup [kind: {"tree", "none"}, path: {None}]
Critical  == {"apply", "stage", "commit", "reply"}

(* Answers.  A view maps paths to the version and content the answer shows.  *)
NoView          == [p \in {} |-> None]
Answer(s, view) == [status |-> s, view |-> view]
Shown(v, c)     == [version |-> v, content |-> c]
IsView(v) ==
    /\ DOMAIN v \subseteq Paths
    /\ v \in [DOMAIN v -> [version: FileStates, content: FileStates]]
Rejections == {"NotFound", "WrongKind", "ValidationError", "VersionConflict",
               "NoMatch", "AmbiguousMatch"}

(* "internal": the code raises, and the request ends in a 500 as it does    *)
(* for "fault", the error of the file system or of Git (IOFault, ReadFault). *)
Statuses ==
    Rejections \cup {"none", "internal", "fault", "assertion", "committed", "read"}

Touched(s)       == {s[i].path : i \in 1 .. Len(s)}
DeletedPaths(s)  == {s[i].path : i \in {j \in 1 .. Len(s) : s[j].type = "delete"}}
Begun(s, k)      == {s[i].path : i \in {j \in 1 .. Len(s) : j <= k}}


-----------------------------------------------------------------------------
(* Phase 1: validation against the work tree and the last commit.           *)

Exists(p) == work[p] # None

(* A text file that read_text(encoding="utf-8") does not decode.            *)
Unreadable(p) == p \in TextPaths /\ Exists(p) /\ ~IsUtf8(work[p])

(* Content c of path p as a read shows it: a text with its line ends as \n. *)
Served(p, c) == IF p \in TextPaths /\ c # None THEN AsText(c) ELSE c

(* Mutant: any version will do, as long as one is given.                    *)
AnyVersionWillDo(op, required) ==
    IF Exists(op.path) THEN IF required /\ op.ver = None THEN "ValidationError" ELSE "ok"
    ELSE IF op.ver = None THEN "ok" ELSE "VersionConflict"

VersionVerdict(op, required) ==
    CASE ~Exists(op.path) /\ op.ver # None -> "VersionConflict"
      [] ~Exists(op.path) /\ op.ver = None -> "ok"
      [] Exists(op.path) /\ op.ver = None  -> IF required THEN "ValidationError" ELSE "ok"
      [] Exists(op.path) /\ op.ver # None  ->
            IF op.ver = head[op.path] THEN "ok" ELSE "VersionConflict"

(* Mutant: of several matches the first one is taken.                       *)
FirstMatchWins(op) ==
    CASE op.old = None \/ op.text = None -> "ValidationError"
      [] op.old # None /\ op.text # None ->
            IF Count(AsText(work[op.path]), op.old) = 0 THEN "NoMatch" ELSE "ok"

MatchVerdict(op) ==
    CASE op.old = None \/ op.text = None      -> "ValidationError"
      [] op.old # None /\ op.text # None      ->
            LET n == Count(AsText(work[op.path]), op.old)
            IN  IF n = 0 THEN "NoMatch" ELSE IF n > 1 THEN "AmbiguousMatch" ELSE "ok"

WriteVerdict(op) ==
    IF op.path \notin TextPaths \/ op.text = None THEN "ValidationError"
    ELSE VersionVerdict(op, Exists(op.path))

ChangeVerdict(op) ==
    IF ~Exists(op.path) THEN "NotFound"
    ELSE IF op.path \notin TextPaths /\ op.type # "delete" THEN "WrongKind"
    ELSE IF VersionVerdict(op, TRUE) # "ok" THEN VersionVerdict(op, TRUE)
    ELSE CASE op.type = "edit"   -> MatchVerdict(op)
           [] op.type = "append" -> IF op.text = None THEN "ValidationError" ELSE "ok"
           [] op.type = "delete" -> "ok"

(* An existing text is read before anything else is looked at, whatever the *)
(* operation: one that does not decode cannot even be replaced or deleted.  *)
Verdict(op) ==
    IF Unreadable(op.path) THEN "internal"
    ELSE CASE op.type = "write"  -> WriteVerdict(op)
           [] op.type = "upload" -> VersionVerdict(op, Exists(op.path))
           [] OTHER              -> ChangeVerdict(op)

AllValid(s) == \A i \in 1 .. Len(s) : Verdict(s[i]) = "ok"

FirstInvalid(s) ==
    s[CHOOSE i \in 1 .. Len(s) : /\ Verdict(s[i]) # "ok"
                                 /\ \A j \in 1 .. i - 1 : Verdict(s[j]) = "ok"]

(* Mutant: the 409 repeats the version of the request.                      *)
RejectionEchoes(op) ==
    Answer(Verdict(op), [p \in {op.path} |-> Shown(op.ver, work[p])])

(* A 409 answer carries the current state of the path in conflict.          *)
Rejection(op) ==
    Answer(Verdict(op),
           IF Verdict(op) = "VersionConflict"
           THEN [p \in {op.path} |->
                    Shown(IF Exists(p) THEN head[p] ELSE None,
                          IF p \in TextPaths THEN Served(p, work[p]) ELSE None)]
           ELSE NoView)

-----------------------------------------------------------------------------
Init ==
    /\ work = InitialFiles
    /\ index = InitialFiles
    /\ head = InitialFiles
    /\ lock = NoThread
    /\ pc = [t \in Threads |-> "idle"]
    /\ want = [t \in Threads |-> [kind |-> "none", path |-> None]]
    /\ ops = [t \in Threads |-> <<>>]
    /\ pos = [t \in Threads |-> 1]
    /\ resp = [t \in Threads |-> Answer("none", NoView)]
    /\ residue = {}
    /\ issued = 0

(* The thread is done with its request.                                     *)
Finish(t, answer) ==
    /\ pc' = [pc EXCEPT ![t] = "idle"]
    /\ resp' = [resp EXCEPT ![t] = answer]
    /\ ops' = [ops EXCEPT ![t] = <<>>]
    /\ pos' = [pos EXCEPT ![t] = 1]

NewRequest(t) ==
    /\ pc[t] = "idle"
    /\ issued < MaxRequests
    /\ issued' = issued + 1

(* get_file, get_file_content_bytes and list_tree(depth=0) test that the    *)
(* file exists before they take the lock.                                   *)
BeginRead(t, kind, p) ==
    /\ NewRequest(t)
    /\ \/ /\ ~Exists(p)
          /\ Finish(t, Answer("NotFound", NoView))
          /\ UNCHANGED want
       \/ /\ Exists(p)
          /\ kind = "bytes" /\ p \in TextPaths
          /\ Finish(t, Answer("WrongKind", NoView))
          /\ UNCHANGED want
       \/ /\ Exists(p)
          /\ ~(kind = "bytes" /\ p \in TextPaths)
          /\ pc' = [pc EXCEPT ![t] = "fetch"]
          /\ want' = [want EXCEPT ![t] = [kind |-> kind, path |-> p]]
          /\ UNCHANGED <<ops, pos, resp>>
    /\ UNCHANGED <<files, lock, residue>>

(* list_tree on a directory; directories are never removed.                 *)
BeginTree(t) ==
    /\ NewRequest(t)
    /\ pc' = [pc EXCEPT ![t] = "fetch"]
    /\ want' = [want EXCEPT ![t] = [kind |-> "tree", path |-> None]]
    /\ UNCHANGED <<files, lock, ops, pos, resp, residue>>

(* The locked part of a read: version from the last commit, content from    *)
(* the work tree.  get_file decodes a text strictly, a listing replaces the *)
(* bytes that do not decode.                                                *)
FetchAnswer(kind, p) ==
    CASE kind = "file" /\ head[p] = None -> Answer("assertion", NoView)
      [] kind = "file" /\ head[p] # None /\ Exists(p) /\ ~Unreadable(p) ->
            Answer("read", [q \in {p} |-> Shown(head[q], Served(q, work[q]))])
      [] kind = "bytes" /\ Exists(p) ->
            Answer("read", [q \in {p} |-> Shown(None, work[q])])
      [] kind = "entry" /\ Exists(p) ->
            Answer("read", [q \in {p} |-> Shown(head[q], Served(q, work[q]))])
      [] kind = "tree" ->
            Answer("read", [q \in {r \in Paths : Exists(r)} |->
                               Shown(head[q], Served(q, work[q]))])
      [] OTHER -> Answer("internal", NoView)

(* Mutant: the read does not wait for the lock.                             *)
FetchUnlocked(t) ==
    /\ pc[t] = "fetch"
    /\ Finish(t, FetchAnswer(want[t].kind, want[t].path))
    /\ want' = [want EXCEPT ![t] = [kind |-> "none", path |-> None]]
    /\ UNCHANGED <<files, lock, residue, issued>>

Fetch(t) ==
    /\ pc[t] = "fetch"
    /\ lock = NoThread
    /\ Finish(t, FetchAnswer(want[t].kind, want[t].path))
    /\ want' = [want EXCEPT ![t] = [kind |-> "none", path |-> None]]
    /\ UNCHANGED <<files, lock, residue, issued>>

(* A write request arrives; its versions come from an earlier answer, or    *)
(* are missing, or out of date.                                             *)
KnownVersions(p) == {None, StaleVersion, head[p]}

IsUpload(script) == \E i \in 1 .. Len(script) : script[i].type = "upload"

Enqueue(t, script, ver) ==
    /\ pc' = [pc EXCEPT ![t] = "validate"]
    /\ ops' = [ops EXCEPT ![t] =
          [i \in 1 .. Len(script) |->
              [type |-> script[i].type, path |-> script[i].path,
               old |-> script[i].old, text |-> script[i].text, ver |-> ver[i]]]]
    /\ pos' = [pos EXCEPT ![t] = 1]
    /\ UNCHANGED resp

BeginBatch(t, script, ver) ==
    /\ NewRequest(t)
    /\ ~IsUpload(script)
    /\ \/ script = <<>> /\ Finish(t, Answer("ValidationError", NoView))
       \/ script # <<>> /\ Enqueue(t, script, ver)
    /\ UNCHANGED <<files, lock, want, residue>>

(* write_binary: one file, checked and written like a batch of its own.     *)
BeginUpload(t, script, ver) ==
    /\ NewRequest(t)
    /\ IsUpload(script)
    /\ \/ script[1].path \in TextPaths /\ Finish(t, Answer("WrongKind", NoView))
       \/ script[1].path \notin TextPaths /\ Enqueue(t, script, ver)
    /\ UNCHANGED <<files, lock, want, residue>>

(* Mutant: phase 1 alone is inside the lock.                                *)
ValidateThenUnlock(t) ==
    /\ pc[t] = "validate"
    /\ lock = NoThread
    /\ \/ /\ AllValid(ops[t])
          /\ pc' = [pc EXCEPT ![t] = "apply"]
          /\ UNCHANGED <<ops, pos, resp>>
       \/ /\ ~AllValid(ops[t])
          /\ Finish(t, Rejection(FirstInvalid(ops[t])))
    /\ UNCHANGED <<files, lock, want, residue, issued>>

(* Take the lock and run phase 1 over the whole batch.                      *)
Validate(t) ==
    /\ pc[t] = "validate"
    /\ lock = NoThread
    /\ \/ /\ AllValid(ops[t])
          /\ lock' = t
          /\ pc' = [pc EXCEPT ![t] = "apply"]
          /\ UNCHANGED <<ops, pos, resp>>
       \/ /\ ~AllValid(ops[t])
          /\ Finish(t, Rejection(FirstInvalid(ops[t])))
          /\ UNCHANGED lock
    /\ UNCHANGED <<files, want, residue, issued>>

(* Phase 2, work-tree half of one operation.                                *)
Apply(t) ==
    /\ pc[t] = "apply"
    /\ LET op == ops[t][pos[t]]
       IN  /\ Applicable(op, work[op.path])
           /\ work' = [work EXCEPT ![op.path] = Result(op, work[op.path])]
    /\ pc' = [pc EXCEPT ![t] = "stage"]
    /\ UNCHANGED <<index, head, lock, want, ops, pos, resp, residue, issued>>

(* Mutants: every file of the work tree is staged, as `git add -A` does;    *)
(* each operation has a commit of its own.                                  *)
StageEverything(t) ==
    /\ pc[t] = "stage"
    /\ index' = work
    /\ pos' = [pos EXCEPT ![t] = @ + 1]
    /\ pc' = [pc EXCEPT ![t] = IF pos[t] = Len(ops[t]) THEN "commit" ELSE "apply"]
    /\ UNCHANGED <<work, head, lock, want, ops, resp, residue, issued>>

StageThenCommit(t) ==
    /\ pc[t] = "stage"
    /\ LET op == ops[t][pos[t]]
       IN  /\ op.type = "delete" => index[op.path] # None
           /\ index' = [index EXCEPT ![op.path] = work[op.path]]
    /\ pos' = [pos EXCEPT ![t] = @ + 1]
    /\ pc' = [pc EXCEPT ![t] = "commit"]
    /\ UNCHANGED <<work, head, lock, want, ops, resp, residue, issued>>

(* Phase 2, index half of the operation: index.add takes the file as it is, *)
(* index.remove needs an entry to remove.                                   *)
Stage(t) ==
    /\ pc[t] = "stage"
    /\ LET op == ops[t][pos[t]]
       IN  /\ op.type = "delete" => index[op.path] # None
           /\ index' = [index EXCEPT ![op.path] =
                            IF op.type = "delete" THEN None ELSE work[op.path]]
    /\ pos' = [pos EXCEPT ![t] = @ + 1]
    /\ pc' = [pc EXCEPT ![t] = IF pos[t] = Len(ops[t]) THEN "commit" ELSE "apply"]
    /\ UNCHANGED <<work, head, lock, want, ops, resp, residue, issued>>

(* index.commit writes the whole index as the new tree.                     *)
Commit(t) ==
    /\ pc[t] = "commit"
    /\ head' = index
    /\ residue' = residue \ Touched(ops[t])
    /\ pc' = [pc EXCEPT ![t] = "reply"]
    /\ UNCHANGED <<work, index, lock, want, ops, pos, resp, issued>>

(* The result lists the paths of the batch no operation of it deleted.      *)
Reply(t) ==
    /\ pc[t] = "reply"
    /\ Finish(t, Answer("committed",
                        [p \in Touched(ops[t]) \ DeletedPaths(ops[t]) |->
                            Shown(head[p], None)]))
    /\ lock' = NoThread
    /\ UNCHANGED <<files, want, residue, issued>>

(* Mutant: acquire() without a release() on the way out of an exception.    *)
AbortKeepsLock(t, status) ==
    /\ Finish(t, Answer(status, NoView))
    /\ residue' = IF pc[t] = "reply" THEN residue
                  ELSE residue \cup Begun(ops[t], pos[t])
    /\ UNCHANGED <<lock, want, issued>>

(* An exception leaves phase 2; the lock is released, nothing is undone.    *)
Abort(t, status) ==
    /\ Finish(t, Answer(status, NoView))
    /\ lock' = NoThread
    /\ residue' = IF pc[t] = "reply" THEN residue
                  ELSE residue \cup Begun(ops[t], pos[t])
    /\ UNCHANGED <<want, issued>>

(* The code itself raises: the file is gone, does not decode, or was never  *)
(* staged.                                                                  *)
Raise(t) ==
    /\ LET op == ops[t][pos[t]]
       IN  \/ pc[t] = "apply" /\ ~Applicable(op, work[op.path]) /\ UNCHANGED work
           \/ /\ pc[t] = "stage"
              /\ op.type = "delete" /\ index[op.path] = None
              /\ UNCHANGED work
    /\ Abort(t, "internal")
    /\ UNCHANGED <<index, head>>

(* A full disk, a permission, a directory in the way, a failing Git call.   *)
IOFault(t) ==
    /\ "io" \in Faults
    /\ pc[t] \in Critical
    /\ \/ UNCHANGED work
       \/ /\ pc[t] = "apply"
          /\ LET op == ops[t][pos[t]]
             IN  work' = [work EXCEPT ![op.path] = Torn(op, @)]
    /\ Abort(t, "fault")
    /\ UNCHANGED <<index, head>>

(* The same in the locked part of a read or in phase 1, which change        *)
(* nothing; a fault of the existence test before the lock ends no other way. *)
ReadFault(t) ==
    /\ "io" \in Faults
    /\ pc[t] \in {"fetch", "validate"}
    /\ lock = NoThread
    /\ Finish(t, Answer("fault", NoView))
    /\ want' = [want EXCEPT ![t] = [kind |-> "none", path |-> None]]
    /\ UNCHANGED <<files, lock, residue, issued>>

(* The process dies and is started again: threads and lock are gone, the    *)
(* work tree, the index and the commits are on disk.                        *)
Crash ==
    /\ "crash" \in Faults
    /\ \E t \in Threads : pc[t] # "idle"
    /\ \/ UNCHANGED work
       \/ \E t \in Threads :
             /\ pc[t] = "apply"
             /\ LET op == ops[t][pos[t]]
                IN  work' = [work EXCEPT ![op.path] = Torn(op, @)]
    /\ residue' = residue \cup
          UNION {Begun(ops[t], pos[t]) :
                    t \in {u \in Threads : pc[u] \in {"apply", "stage", "commit"}}}
    /\ lock' = NoThread
    /\ pc' = [t \in Threads |-> "idle"]
    /\ want' = [t \in Threads |-> [kind |-> "none", path |-> None]]
    /\ ops' = [t \in Threads |-> <<>>]
    /\ pos' = [t \in Threads |-> 1]
    /\ resp' = [t \in Threads |-> Answer("none", NoView)]
    /\ UNCHANGED <<index, head, issued>>

Request(t) ==
    \/ \E kind \in ReadKinds \ {"tree"}, p \in Paths : BeginRead(t, kind, p)
    \/ BeginTree(t)
    \/ \E s \in Scripts :
          \E ver \in [1 .. Len(s) -> UNION {KnownVersions(s[i].path) : i \in 1 .. Len(s)}] :
             /\ \A i \in 1 .. Len(s) : ver[i] \in KnownVersions(s[i].path)
             /\ BeginBatch(t, s, ver) \/ BeginUpload(t, s, ver)

Serve(t) ==
    \/ Fetch(t) \/ Validate(t) \/ Apply(t) \/ Stage(t) \/ Commit(t) \/ Reply(t) \/ Raise(t)

Next ==
    \/ \E t \in Threads : Request(t) \/ Serve(t) \/ IOFault(t) \/ ReadFault(t)
    \/ Crash

Spec == Init /\ [][Next]_vars

(* A thread that can run eventually runs.                                   *)
FairSpec == Spec /\ \A t \in Threads : WF_vars(Serve(t))
-----------------------------------------------------------------------------
(* Properties                                                               *)

AnswersTyped ==
    /\ DOMAIN resp = Threads
    /\ \A t \in Threads : resp[t].status \in Statuses /\ IsView(resp[t].view)

(* Type invariant of the store and of the request threads.                  *)
TypeOK ==
    /\ work \in [Paths -> FileStates]
    /\ index \in [Paths -> FileStates]
    /\ head \in [Paths -> FileStates]
    /\ lock \in Threads \cup {NoThread}
    /\ pc \in [Threads -> {"idle", "fetch", "validate"} \cup Critical]
    /\ want \in [Threads -> Wants]
    /\ ops \in [Threads -> Seq(Operation)]
    /\ pos \in [Threads -> Nat]
    /\ \A t \in Threads : pos[t] \in 1 .. Len(ops[t]) + 1
    /\ AnswersTyped
    /\ residue \subseteq Paths
    /\ issued \in 0 .. MaxRequests

(* The lock is held exactly by the thread that is in phase 2, commits or    *)
(* builds its answer (`with self._lock` around run_transaction's body).     *)
LockProtects == \A t \in Threads : lock = t <=> pc[t] \in Critical

(* Where no request failed half-way, work tree, index and last commit agree *)
(* whenever nobody holds the lock: what get_file and list_tree rely on when *)
(* they pair the committed version with the content of the work tree.       *)
CleanOutsideResidue ==
    lock = NoThread =>
        \A p \in Paths \ residue : work[p] = head[p] /\ index[p] = head[p]

(* The parts of the inductive invariant: phase 2 as seen half-way.          *)
InPhase2(t) == pc[t] \in {"apply", "stage", "commit"}

(* Operations whose work-tree half is done.                                 *)
AppliedCount(t) == IF pc[t] = "stage" THEN pos[t] ELSE pos[t] - 1

PositionsFit ==
    \A t \in Threads :
       /\ pc[t] # "idle" /\ pc[t] # "fetch" => ops[t] # <<>>
       /\ pc[t] \in {"apply", "stage"} => pos[t] \in 1 .. Len(ops[t])
       /\ pc[t] = "validate" => pos[t] = 1
       /\ pc[t] = "commit" => pos[t] = Len(ops[t]) + 1

TextsGiven ==
    \A t \in Threads : InPhase2(t) =>
       \A i \in 1 .. Len(ops[t]) :
          ops[t][i].type \in {"append", "edit"} => ops[t][i].text # None

(* What validation found stays true until the commit.                       *)
VersionsHeld ==
    \A t \in Threads : InPhase2(t) =>
       \A i \in 1 .. Len(ops[t]) :
          ops[t][i].path \in residue \/ ops[t][i].ver = head[ops[t][i].path]

(* The index follows the work tree, one operation behind at most.           *)
IndexFollows ==
    \A t \in Threads : InPhase2(t) =>
       \A p \in Paths :
          /\ p \notin residue \/ p \in Begun(ops[t], pos[t] - 1)
          /\ ~(pc[t] = "stage" /\ ops[t][pos[t]].path = p)
          => index[p] = work[p]

DeletedIsGone ==
    \A t \in Threads :
       pc[t] = "stage" /\ ops[t][pos[t]].type = "delete" =>
          work[ops[t][pos[t]].path] = None

(* Paths no operation has reached are as committed.                         *)
UntouchedIsClean ==
    \A t \in Threads : InPhase2(t) =>
       \A p \in Paths \ residue :
          p \notin Begun(ops[t], AppliedCount(t)) => work[p] = head[p]

QuietIsClean ==
    (\A t \in Threads : ~InPhase2(t)) =>
       \A p \in Paths \ residue : work[p] = head[p] /\ index[p] = head[p]

(* The inductive invariant: it says of every moment of phase 2 what         *)
(* CleanOutsideResidue says of the moments nobody holds the lock.           *)
StoreInv ==
    /\ TypeOK /\ LockProtects /\ PositionsFit /\ TextsGiven /\ VersionsHeld
    /\ IndexFollows /\ DeletedIsGone /\ UntouchedIsClean /\ QuietIsClean

(* Optimistic locking (if_version): whatever interleaving led there, a      *)
(* commit replaces the content of a path only if the batch names the path   *)
(* and one of its operations carried the very version that is replaced, or  *)
(* no version for a path that did not exist; nothing is overwritten unseen. *)
(* Paths a stopped request left behind are the exception.                   *)
NoLostUpdate ==
    [][\A p \in Paths : head'[p] # head[p] =>
          \/ p \in residue
          \/ \E t \in Threads :
                /\ lock = t
                /\ \E i \in 1 .. Len(ops[t]) :
                      ops[t][i].path = p /\ ops[t][i].ver = head[p]]_vars

(* The step in which t's request is answered, or dies with the process.     *)
Answered(t) == pc[t] # "idle" /\ pc'[t] = "idle"

(* A read never shows a half-done transaction: contents read are committed  *)
(* contents (texts with \n for every line end), and a tree listing shows    *)
(* the files of one commit, all of them, except at paths a stopped request  *)
(* left changed.                                                            *)
ReadsSeeOneCommit ==
    [][\A t \in Threads : Answered(t) /\ resp'[t].status = "read" =>
          LET view == resp'[t].view
          IN  /\ \A p \in DOMAIN view \ residue : view[p].content = Served(p, head[p])
              /\ want[t].kind = "tree" =>
                    \A p \in Paths \ residue : p \in DOMAIN view <=> head[p] # None]_vars

(* A file that was written but neither staged nor committed has no version, *)
(* so every request that names it is refused, and no commit of another path *)
(* picks it up: no sequence of calls brings the path back.  (Validation     *)
(* looks for the file in the work tree, but for its version in the commit.) *)
Orphan(p) ==
    /\ work[p] # None /\ index[p] = None /\ head[p] = None
    /\ \A t \in Threads : lock = t => p \notin Touched(ops[t])
OrphansStay == [][\A p \in Paths : Orphan(p) => Orphan(p)']_vars

(* The versions an answer hands out are the current ones: a 409 carries the *)
(* committed version (and content, for text) its client must retry with,    *)
(* and a committed batch gets a version for every path it lists.            *)
HandedOutVersionsAreCurrent ==
    [][\A t \in Threads : Answered(t) =>
          LET view == resp'[t].view
          IN  /\ resp'[t].status = "VersionConflict" =>
                    \A p \in DOMAIN view \ residue :
                       /\ view[p].version = head[p]
                       /\ p \in TextPaths => view[p].content = Served(p, head[p])
              /\ resp'[t].status = "committed" =>
                    \A p \in DOMAIN view :
                       view[p].version = head[p] /\ view[p].version # None]_vars

(* get_file and the byte and entry reads test that the file exists before   *)
(* they take the lock.  Apart from an error of the file system or of Git,   *)
(* such a read fails for one of three reasons: a stopped request left the   *)
(* path behind, a delete committed in between, or the committed text is no  *)
(* UTF-8.  Never because a transaction of another thread was half-way.      *)
FailedReadsHaveACause ==
    [][\A t \in Threads :
          LET p == want[t].path
          IN  pc[t] = "fetch" /\ Answered(t) /\ resp'[t].status \in {"assertion", "internal"} =>
                 \/ p \in residue \/ head[p] = None
                 \/ want[t].kind = "file" /\ p \in TextPaths /\ ~IsUtf8(head[p])]_vars

(* What validation found of an edit still holds when phase 2 comes to it,   *)
(* whoever else writes: its old_str is there exactly once, unless an        *)
(* earlier operation of the same batch changed the file in between          *)
(* (apply_operation replaces one match and does not look again).            *)
FirstEditsMatchOnce ==
    [][\A t \in Threads :
          LET op == ops[t][pos[t]]
          IN  pc[t] = "apply" /\ pc'[t] = "stage" /\ op.type = "edit" =>
                 \/ op.path \in Begun(ops[t], pos[t] - 1)
                 \/ Count(AsText(work[op.path]), op.old) = 1]_vars

(* Every request is answered, its thread idle again and again: whoever      *)
(* waits for the lock gets it, and phase 2 ends with a commit or an error,  *)
(* never stuck with the lock held.                                          *)
EveryRequestAnswered == \A t \in Threads : []<>(pc[t] = "idle")

(* The lock, the in-place work tree and the index implement an optimistic   *)
(* store whose clients work on private drafts (AtomicStore).                *)
OpenBatch(t) ==
    IF InPhase2(t)
    THEN [batch |-> ops[t],
          done  |-> AppliedCount(t),
          draft |-> work]
    ELSE [batch |-> <<>>, done |-> 0, draft |-> <<>>]

Atomic == INSTANCE AtomicStore WITH
    Clients <- Threads, store <- head, loose <- residue,
    open <- [t \in Threads |-> OpenBatch(t)]

(* Each batch takes effect in one step, on the versions it was validated    *)
(* against, with the effect its operations have one after the other; what a *)
(* stopped batch may disturb is limited to the paths it names.              *)
ImplementsAtomicStore == Atomic!Spec

-----------------------------------------------------------------------------
(* What the README and the comments of the code say                         *)

(* README: a transaction that fails partway writes nothing at all.  As the  *)
(* API is the only writer, the work tree equals the last commit whenever    *)
(* nobody holds the lock.                                                   *)
FailedTransactionWritesNothing == lock = NoThread => work = head

(* The commit of a transaction changes only the files its message lists     *)
(* (_commit: "Files: ...").                                                 *)
CommitNamesItsFiles ==
    [][\A t \in Threads : lock = t =>
          \A p \in Paths \ Touched(ops[t]) : head'[p] = head[p]]_vars

(* README: old_str of an edit must match exactly once, otherwise the edit   *)
(* is refused instead of guessing.                                          *)
EditsMatchOnce ==
    [][\A t \in Threads :
          LET op == ops[t][pos[t]]
          IN  pc[t] = "apply" /\ pc'[t] = "stage" /\ op.type = "edit" =>
                 Count(AsText(work[op.path]), op.old) = 1]_vars

(* get_file asserts that a file of the work tree is committed.              *)
ExistingFilesAreCommitted == \A t \in Threads : resp[t].status # "assertion"
=============================================================================
