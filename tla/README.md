# TLA+ model of the Agent-MD-API

The Agent-MD-API serves a Git work tree of Markdown, JSON and binary files to
agents over HTTP, with optimistic locking, transactions, an ACL kept in the tree
itself, an audit log and a registry of clients.  A WebDAV bridge, deployed on
its own, is one of its clients.  This directory holds TLA+ modules that model
the parts of it where the order of steps matters, TLC configurations that check
them on small instances, and proofs for TLAPS.

Check a configuration with `tlc -config GitStorageFaults.cfg MCGitStorage.tla`,
a proof with `tlapm GitStorageProofs.tla` (and so on for the other modules whose
names end in `Proofs`).  `PROJECT.json` lists components, runs, mutants, hazards
and theorems, and names for every definition the lines of code it stands for.

Paths below are relative to `src/agent_md_api/`; `bridge/` stands for
`webdav-bridge/src/webdav_bridge/`.

## 1. The system

| Part | Source | State | Operations | What is hard |
|---|---|---|---|---|
| Git storage | `storage/git_repo.py` | work tree, Git index and commits on disk; one `RLock` | `get_file`, `get_file_content_bytes`, `list_tree`, `run_transaction`, `write_binary`, `delete` | request threads interleave around one lock; a transaction changes the tree step by step and nothing is rolled back |
| Client registry | `auth/client_registry.py`, `api/clients.py` | `clients.json`; one `RLock` per process | create, update, revoke, rotate, add and revoke signing keys, look-ups | several processes share the file, each with a lock of its own; a save empties the file first |
| Authentication | `auth/dependencies.py`, `auth/tokens.py` | none of its own | `resolve_principal` | reads the registry twice |
| Command line | `cli.py` | a private key file | the registry's operations, `generate-signing-key` | runs beside the server; key file and registry are changed one after the other |
| ACL engine | `acl/engine.py` | none: rules come from `_system/acl.json` | `can_read`, `can_write` | precedence of overlapping rules |
| HTTP handlers | `api/*.py` | one request | one function per endpoint | the rules are read before the lock is taken; the pieces of a request run in different threads; one handler blocks the event loop |
| Audit log | `middleware/`, `audit/`, `api/audit_query.py` | table or file of entries | `record`, `query` | written after the effect, and not at all when the handler raises; read page by page while it grows |
| Start-up | `main.py`, `config.py`, `audit/factory.py` | instance lock | `lifespan` | two instances on one tree, and processes that die with the lock |
| WebDAV bridge | `bridge/dav_provider.py`, `bridge/agent_api_client.py` | version and content of the resource of a request | GET, PROPFIND, PUT, MOVE, COPY, DELETE | one DAV request is several API requests, and others come in between |
| Bridge access | `bridge/user_access.py`, `bridge/cli.py`, `bridge/auth.py`, `_TokenCache` | a JSON file of users; tokens in memory | create, rotate, revoke, list, verify; sign or reuse a token | the command line writes the file the server is reading; threads share the cache without a lock; a token ages on its way |

How they interact.  A request of an API client passes the audit middleware,
then the dependencies: the ACL is loaded (a read of the storage), the caller
authenticated (two reads of the registry), then the handler asks the engine and
makes one call of the storage; on the way out the middleware records the
outcome.  All threads of a server share the storage object with its lock and
the registry object with its lock.  The command line shares nothing with the
server but the registry's file.  The bridge knows the API over HTTP only, and
is itself called by wsgidav, in wsgidav's order: who is calling
(`BridgeDomainController`), the resource, then the method.  It signs short-lived
tokens for its users, whom its own command line administers.

What makes each part correct:

- storage: no lost update; a batch takes effect as one commit of exactly its
  operations, on the versions it was validated against; readers see one commit;
  what a failure damages is limited to what the batch named; every request ends
  and frees the lock;
- registry: no confirmed change is lost, no credential comes back, a login never
  acts on half a registry, a private key file changes only for a key that is
  registered, every call ends;
- ACL: deny by default, the precedence of pair, pots and kinds, no rule acts
  where it is silent, order only breaks ties;
- handlers and audit: what changes the tree was permitted and authenticated;
  every answer is on record with its commit and its flag; every request ends;
- tree and audit pages: a walk misses nothing that stayed and repeats nothing;
- bridge: nothing unseen is overwritten, a MOVE never leaves the file nowhere,
  success means the effect is there; a PROPFIND shows what stayed, and where
  its calls come through it fails only over a member that was deleted or that the
  API cannot serve;
- bridge access: a call speaks for the user its PAT was issued for, an ended PAT
  opens nothing, a printed one works, tokens arrive before they expire;
- start-up: one process to a tree, whatever ended the one before.

The hazards behind these are listed in `PROJECT.json`, each at its line.

## 2. Modules

| Module | Models | Composed with |
|---|---|---|
| `FileOps` | what one operation does to one file | used by the next two |
| `AtomicStore` | abstract: clients with private drafts and one atomic, version-checked publication | instantiated by `GitStorage` |
| `GitStorage` | the storage: threads, lock, work tree, index, last commit, failures | |
| `GitStorageProofs` | the two inductive invariants and all safety properties of `GitStorage`, and that it implements `AtomicStore`, proved | extends `GitStorage` |
| `Credentials` | content of the registry; what an operation makes of it | used by the next two |
| `AtomicRegistry` | abstract: one operation at a time on the registry | instantiated by `ClientRegistry` |
| `ClientRegistry` | the registry as file, locks and processes; logins | |
| `ClientRegistryProofs` | its inductive invariant, its safety properties and the refinement of `AtomicRegistry`, proved | extends `ClientRegistry` |
| `AclRules` | the ACL engine as operators | used by `AclEngine`, `ApiRequests` |
| `AclEngine` | `acl.json` growing rule by rule, with the decisions it gives | |
| `GlobPatterns` | a second definition of path patterns, by the pieces of the path their characters stand for | extends `AclRules`, used by `AclEngine` |
| `AclEngineProofs` | defaults, precedence, order and growth of rule lists, and what patterns match, proved for every list, pattern and path | extends `AclEngine` |
| `ApiRequests` | a request from the middleware to its log entry | the engine of `AclRules` over an atomic store |
| `ApiRequestsProofs` | its inductive invariant and its safety properties, proved | extends `ApiRequests` |
| `TreeListing` | `GET /tree`, page by page, while files come and go | |
| `AuditQuery` | `GET /system/audit`, page by page, while the log grows | |
| `BridgeListing` | PROPFIND over the bridge, member by member | extends `TreeListing` |
| `ListingProofs` | the invariants of the two walks and of PROPFIND, and what they show, proved | extends `BridgeListing` and `AuditQuery` |
| `WebDavBridge` | DAV requests as sequences of API calls | over an atomic store, beside other clients |
| `WebDavBridgeProofs` | its inductive invariant and its safety properties, proved | extends `WebDavBridge` |
| `UserAccess` | the bridge's users: the file and the commands that change it | used by the next one |
| `BridgeAccess` | a request at the bridge from its password to the verdict on its token; time | extends `UserAccess` |
| `BridgeAccessProofs` | its two inductive invariants and its safety properties, proved | extends `BridgeAccess` |
| `ServerLifecycle` | processes of the API from start to end, and the instance lock | what it guarantees, one process to a tree, is what `GitStorage` takes for granted |
| `ServerLifecycleProofs` | its invariant and `OneProcessPerTree`, proved | extends `ServerLifecycle` |
| `MC...` | instances for TLC | |

`ApiRequests` and `WebDavBridge` take a call of the storage for one step.  That
is what `GitStorage` shows of it: it implements `AtomicStore`, whose
publication is one step, as long as no request failed half-way.

### GitStorage

| TLA+ | Code (`storage/git_repo.py`) |
|---|---|
| `work`, `index`, `head` | files of the work tree, `repo.index`, the tree of `repo.head` |
| `lock` | `GitStorage._lock` |
| `pc`, `ops`, `pos`, `want` | where a thread is; the batch and the loop variable of phase 2; what a read asked for |
| `resp` | the value returned or the exception raised |
| `BeginRead`, `BeginTree`, `Fetch` | `get_file`, `get_file_content_bytes`, `list_tree`: the test of existence before the lock, the locked part |
| `BeginBatch`, `BeginUpload` | `run_transaction` before its lock; `write_binary` |
| `Validate` | phase 1, `_validate_operation` for the whole batch, and the first exception |
| `Apply`, `Stage` | `_apply_operation`: work tree, then index |
| `Commit`, `Reply` | `_commit`; the result, after which `with self._lock` ends |
| `Raise` | `FileNotFoundError` and the like, raised by the code's own calls in phase 2 |
| `IOFault`, `ReadFault` | an `OSError` or `GitCommandError` in phase 2, the commit or the result; in the locked part of a read or in phase 1 |
| `Crash` | the death of the process, a write torn or not |

A content is a sequence of tokens and stands for its own blob hash, so a version
is the content of the path in the last commit.  A text is read with universal line
ends and written as it is given (`AsText`, `Served`): an edit counts and replaces in
what was read, so it rewrites every CRLF of the file, while the version remains that
of the bytes.  A text somebody committed past the API that is no UTF-8 (`NoUtf8`)
is listed, but `get_file` and every validation, also that of a write or a delete,
raise `UnicodeDecodeError` (`Unreadable`), a 500.  `residue` is a ghost: the paths
a stopped second phase had begun and nobody has committed since.  The properties
that hold of a store that never failed are stated outside the residue.

### ClientRegistry

`file` is `clients.json`, possibly `Empty` (between `open("w")` and the write)
or `Garbled`.  An update is `Change` (lock, `_reload`, check, change of the copy),
`Truncate` and `WriteText` (`_save`); a look-up is `Look`; a login is
`VerifyKey` (`verify_api_key`) and `FindSigningKey` (`active_signing_key` and the
verification of the token), each with a reload of its own.  Secrets are
numbers, drawn in order.  `stored` and `dead` are ghosts: the registry as the
last save meant it, and the credentials whose end was confirmed.  `Serialised`
keeps updates of two processes apart: what holds only with it is checked with
it, and `RegistryTwoWriters.cfg` shows what happens without.

`generate-signing-key` of `cli.py` is a call of its own: `Probe` looks whether
the private key file `pem` exists (and refuses without `--force`), then the public
key is registered like any other, then the file is emptied and written.
A failure or death between any two of these steps is possible.

### AclRules, AclEngine, GlobPatterns

`Permits` is `can_read` and `can_write`: `ScopeDecision` is `_scope_decision`,
`KindGate` is `_kind_gate_decision`, `MostSpecific` is Python's `max` with
`_specificity_score`, `GlobMatches` the regular expression that
`_glob_to_regex` makes: a recursion over pattern and path that tries every
piece a star may stand for.  It is compiled without `DOTALL` and ends in `$`, so a
`**` stops at a newline, a single `*` does not, and a newline may be left at the
end of the path; paths are free text, and `Newline` is a character of its own in
the model.  The administrator's edits of the file are the
actions; a state is a list of rules.

`HasPlaces` says the same without a recursion: the path falls into one piece for
every character of the pattern, from end to end: the character itself, a part of one
segment for a single star, a part of one line for a star of a pair; stars pair up
from the left.  `Reaches` says so of rules.  No definition of the engine uses
them; `RulesKeepToTheirPaths` does.

### ApiRequests

The pieces of a request are actions in the order FastAPI runs them: `Dispatch`
(middleware), `Submit` (the event loop hands a `def` dependency or handler to a
thread of the pool), `LoadAcl` (`get_acl_engine`), `Authenticate`
(`get_principal`, and the validation of the body), the handlers' reads and
permission checks, `Acquire` and `Store` (the storage), `Reply` (the entry and
the answer).  `POST /file/{path}` is the one `async def`: `WritePermission`,
`WriteBody`, and then it holds the event loop (`loop`) until the storage
returns.  `acl.json` is one of the files, so a request can change the rules of
the next.  `outcome`, `done` and `since` are history.

### TreeListing, AuditQuery

One action is one request for a page (`Fetch`, `Query`), with the code's order,
cursor and limit; the others change what is listed.  `Walk` is the recursion of
`_walk`, as a recursive function.  Directories are never removed, as
`_apply_operation` only unlinks files.  `Broken` are files the listing shows
(`_entry_for` decodes leniently and takes no version for granted) but `get_file`
and every validation raise an exception over: texts that are no UTF-8, and files a
failed batch wrote and nobody committed.  So nobody deletes them either.

### BridgeListing

`GetMemberNames` is the method of that name: one page of `GET /tree`, without the
directory itself.  `GetFile` and `GetTree` are `get_resource_inst` for each name in
turn; a name without a resource ends the PROPFIND in an error, as wsgidav asserts
that there is one, and so does a broken file, a 500 for which `get_resource_inst` has
no branch.  `CallFails` is any other failure of any of the calls: `Forbidden`, which
becomes a `DAVError`, a timeout, an error nothing in the provider knows.  Others
create and delete files between any two calls.

### WebDavBridge

Each action is one method of the provider up to its next API call: `Resolve`,
`ResolveDir` (`get_resource_inst`: `GET /file`, then `GET /tree`), `GetContent`,
`Body` and `EndWrite`, `Delete`, `CopyMoveText` (one transaction), `FetchBytes`,
`CopyBytes`, `RemoveSource` (three calls).  The order between them is wsgidav's,
which is not part of the repository: it is taken from the docstrings of
`dav_provider.py` (a `delete()` after each successful move; `begin_write`,
the body, `end_write`) and from RFC 4918 (a MOVE deletes an existing
destination first).  `CallFails` is a refusal or a timeout; after a timeout the
API may still carry the call out (`gone`).  `OtherClient` is any other client.
`Resource`, `ApiContent` and `ApiBytes` are the readings of a file the API offers,
which depend on what the API takes the file for; the bridge has a list of its
own, without `.skill` (`SkillPaths`).

`files` are bytes, and so are versions, but a text is read with universal line
ends: what `GET /file` gives of a text in CRLF is the same text in LF (`AsText`),
with the size of that, while a write stores what it is given.  So a PUT is
stored byte by byte and read back with other line ends, and a MOVE or COPY of
a text turns its line ends into LF.  A text that is no UTF-8 (`NotUtf8`) can only
have come there past the API; every strict read of it, in `GET /file` or in the
validation of a change, ends in a 500 (`Unreadable`), and a body that is none is
not sent (`EndWriteFails`).

### UserAccess, BridgeAccess

A command is a process: `LoadAndChange` (or `LoadOnly`), `Truncate`, `WriteText`,
and `Fail` in between.  A PAT is a number, drawn in order; `Verifies` is the
comparison with its hash.  A request is `Authenticate` (`basic_auth_user`),
`LookUp` (the cache and the clock), `Sign`, and `Judge` (`verify_user_token` at the
API).  `issued`, `printed` and `ended` are ghosts: for whom a PAT was drawn, the
one the operator rightly believes in, and those whose end was confirmed to him.

The times of a token are whole seconds, `int(now) + ttl`, and those of its
entry in the cache are not, `now + ttl`: the cache takes a token to live up to a
second longer than the API does.  So the clock ticks `Second` times a second,
and token and entry have an end each (`exp`, `until`).

Assumed: one clock for bridge and API, and `TimesFit`: a call reaches the API
within `Travel` of the look at the clock, which is at least a second less than
the buffer (59 s for the 60 s of the code).  The HTTP client's timeout of 30 s
bounds each phase of a call, not the whole, so this is an assumption about the
network, not a fact about the code.

### ServerLifecycle

`Start`, `Configure` (the validator of `Settings`), `Acquire`
(`_acquire_single_instance_lock`, without waiting), `OpenStorage`, `OpenSinks`
(`build_audit_sink`), then requests (`Accept`, `Finish`), `Terminate` and `Shutdown` (the
rest of `lifespan`), and `Kill` at any time.  `Gone` frees the lock in each case, as
the operating system does for a `flock`.  `OneLockPerTree` is what the operator
owes: `instance_lock_path` is a setting of its own, and only instances that
share it keep each other out.

## 3. Runs

Twelve runs; ten check properties, two show a disagreement with the
documentation.

| Run | Configuration | What it asks |
|---|---|---|
| `storage_faults` | `GitStorageFaults.cfg` | With I/O errors and a crash anywhere in phase 2: `StoreInv` (the inductive invariant: types, the lock, and `CleanOutsideResidue` while it is free), `NoLostUpdate`, `ReadsSeeOneCommit`, `OrphansStay`, and the refinement of `AtomicStore` |
| `storage_service` | `GitStorageService.cfg` | Every form of request: versions handed out are current, a read that is no victim of the file system fails only over a lost file or a text that does not decode (`FailedReadsHaveACause`), the first edit of a file still matches once (`FirstEditsMatchOnce`), every request is answered, so the lock is freed on every way out |
| `registry_calls` | `RegistryCalls.cfg` | `RegistryInv`, `CredentialsNeverComeBack`, `GrantsRespectRevocations`, `KeyFileFollowsRegistry`, the refinement of `AtomicRegistry`, `EveryCallEnds` |
| `acl_history` | `AclHistory.cfg` | `NothingWithoutAnAllow`, `PrecedenceHolds`, `OrderBreaksOnlyTies`, `RulesActOnlyWhereTheySpeak`, `RulesKeepToTheirPaths`; before that, globs against their second definition (`GlobsMeanWhatTheySay`) |
| `api_service` | `ApiService.cfg` | `TypeOK`, `AnswersAreLogged`, `PiiSuccessIsFlagged`, `ChangesWerePermitted`, `BrokenRulesLetNothingThrough`, `EveryRequestEnds` |
| `tree_walk` | `TreeWalk.cfg` | The client's walk: `WalkShowsOnceWhatStayed`; the bridge's: `PropfindShowsWhatStayed`; both: `ListingsEnd` |
| `audit_walk` | `AuditWalk.cfg` | `WalkReadsEachOnce` |
| `bridge_requests` | `BridgeRequests.cfg` | `BridgeInv` (types, and `TextBodiesMatch`), `OnlyWhatWasSeen`, `MovesWriteBeforeTheyRemove`, `OkMeansDone` |
| `bridge_access` | `BridgeAccess.cfg` | `AccessInv` (types, and `TokensArriveFresh`), `CallsSpeakForTheirUser`, `EndedPatsOpenNothing`, `PrintedPatsWork` |
| `server_lifecycle` | `ServerLifecycle.cfg` | `OneProcessPerTree`, `TreeIsServedAgain` |
| `storage_sweep` | `GitStorageSweep.cfg` | violation of `CommitNamesItsFiles` |
| `registry_two_writers` | `RegistryTwoWriters.cfg` | violation of `RevokedKidsAreRefused` |

Deadlock is checked in `server_lifecycle` only, whose processes go on for ever.
Elsewhere every bound stops the clients when it is reached, and a server without
requests may rest.  That nobody waits for ever is what the liveness properties
say.

### Bounds, and why they are enough

- **Storage.** Two threads, three requests in `storage_faults` (one may fail, one
  run after it, one read beside it), two in `storage_service`, where the menu of
  batches is larger.  Two text paths, one of them with a CRLF, and a binary one; in
  `storage_service` a third text, which is no UTF-8; two words and two line ends.
  The batches are chosen so that every verdict of the validation occurs, and phase 2 fails
  by itself (a file deleted and then edited in the same batch).  A request names
  no version, a stale one or the current one.  Two threads are enough for the
  interleavings of one lock; the proofs remove the bounds.
- **Registry.** Two server threads and one call of the command line, three
  calls: a login needs one, the revocation beside it one, and one more may
  change what either has read.  Two clients, of which one is created, two kids.
- **ACL.** Every list of up to three of 28 rules, 16 requests, one for
  a path with a newline: two equally
  specific rules and a third one are enough to shadow, tie and override.  Globs:
  every pattern and path of up to four characters among a letter, the slash, the
  newline and, in patterns, the star.
- **API.** Two connections with two requests, a pool of one or of two threads
  (starlette's has 40: what matters is that it may be full), two lists of rules and
  a file that is none.  What overlapping requests can do to each other needs a pair.
- **Tree.** Eight paths on four levels, pages of one to three (200 in the code),
  depth 0, 1 and 2, every tree that writing and deleting can lead to at the
  start of the walk, two changes during the walk: one to remove what a page or a
  PROPFIND is about to come to, one to bring something in its place.
- **Audit.** Four ids drawn in any order, pages of two (of 200 in the code), two
  users, two moments.
- **Bridge.** Two workers, two requests, two changes by others, two paths of
  each kind and a text nobody can read; a content with CRLF, the same with LF, so
  that a content can come back as it was or in the other form, and one that is no
  UTF-8.
- **Bridge access.** Two threads, three requests: one fills the cache, one uses
  it, one meets it after a change.  One command at a time and two in all, each of
  which may fail (a PAT issued, then ended).  Two users; two ticks to a second,
  tokens that live three seconds, a buffer of one and a half, a way of half a
  second, which is all `TimesFit` leaves, and a clock up to three seconds: a token
  can be fresh, within the buffer and expired, and signed between two seconds.  Commands at the same time are left out on
  purpose: they lose each other's changes as those of the registry do
  (`registry_two_writers`).
- **Start-up.** Two replicas on one tree, a third process whose directory is no
  work tree and a fourth with a backend that does not exist; two requests each,
  four breaks in all: enough to kill both replicas and their successors.

### Fairness

`WF_vars(Serve(t))`, `WF_vars(Serve(a))`, `WF_vars(Step(c))`: a thread, a call
or a piece of a request that can run eventually runs, as the operating system's
scheduler and the event loop provide.  Nothing is assumed of clients, faults or
crashes.  Weak fairness is enough although threads wait for a lock, because
requests are bounded: nobody can be overtaken for ever.  So liveness shows that
no path leaves the lock held and no cycle of waiting exists; it does not show
that an `RLock` is fair under endless load.  In `BridgeListing` the client is
assumed to go on asking and wsgidav's thread to go on, while others may change
files a bounded number of times.  In `ServerLifecycle` a process that can go on
does, requests end (which is what the other modules show) and a process that
is down is started again: `restart: unless-stopped` of
`docs/deployment.en.md:43`, which means every process that ended by itself or was
killed, and not a container the operator has stopped: that it stays down is
left out.
`TreeIsServedAgain` needs no fairness of the lock: whoever finds it taken exits
and is started again.

### Mutants

Each property of a passing run has a mutant of the code (in the modules next to
the definition it replaces, under a comment "Mutant") that the run must refuse:
a lock taken too late, a version not compared, a cursor that includes its own
entry, a flag set from the first path only, a token used to its last second, and
so on.

## 4. Proofs

Every theorem holds for any values of the constants that satisfy the named
assumptions of its module: any number of threads, callers, actors, workers or
shells, any paths, contents, rules and requests, any bounds.  The assumptions say
that null values are no values, that the menus hold requests the code can get,
and what one module owes another (`OneLockPerTree`, `TimesFit`).  Some theorems
need a hypothesis more, which is stated in them:

- `OneWriter` (registry): all calls are of one process, or no command runs
  during another update.  The code has nothing that would see to it across
  processes, and `registry_two_writers` shows what happens without.
- `OneCommand` (bridge users): commands run one at a time.  Two at a time lose
  each other's change, as nothing locks the file; a PAT just printed is then
  refused.  What does not depend on it (`AccessInvariant`,
  `RightUserAlways`) is proved without.
- `IsFiniteSet(Paths)` (`PropfindShowsMembers` only): the names a file system can
  hold are finitely many.  The property counts those of a directory, to say that
  they fit on a page; the walk through a tree needs no such thing.

Two theorems are about operators rather than specifications, for any
sequences: `GlobsMatchWhatHasPlaces` and `PrefixMeansEverythingBelow`, which needs
`Star` and `Slash` to differ and `None` to be no pattern.

| Module | Theorem | States |
|---|---|---|
| `GitStorageProofs` | `StoreInvariant` | `Spec => []StoreInv` |
| | `TypeCorrect`, `LockIsMutex`, `CleanAtRest` | `[]TypeOK`, `[]LockProtects`, `[]CleanOutsideResidue` |
| | `LostUpdatesImpossible` | `NoLostUpdate` |
| | `ReadsAreConsistent` | `ReadsSeeOneCommit` |
| | `BatchesKeepTheirWord` | `[]BatchInv` |
| | `FailedReadsExplained` | `FailedReadsHaveACause` |
| | `FirstEditsAreSafe` | `FirstEditsMatchOnce` |
| | `AnswersCarryCurrentVersions` | `HandedOutVersionsAreCurrent` |
| | `OrphansAreForGood` | `OrphansStay` |
| | `StorageIsAtomic` | `ImplementsAtomicStore` |
| `ClientRegistryProofs`, under `OneWriter` | `RegistryIsKept` | `[]RegistryInd` |
| | `RegistryInvariant` | `[]RegistryInv` |
| | `CredentialsStayDead` | `CredentialsNeverComeBack` |
| | `RevokedMeansRefused` | `GrantsRespectRevocations` |
| | `KeyFilesFollow` | `KeyFileFollowsRegistry` |
| | `RegistryIsAtomic` | `ImplementsAtomicRegistry` |
| `AclEngineProofs` | `FailsClosed` | `[]NothingWithoutAnAllow` |
| | `ScopesKeepTheirRank` | `[]PrecedenceHolds` |
| | `OrderIsForTies` | `[]OrderBreaksOnlyTies` |
| | `RulesSpeakForThemselves` | `RulesActOnlyWhereTheySpeak` |
| | `GlobsMatchWhatHasPlaces` | `GlobMatches(p, s) <=> HasPlaces(p, s)` |
| | `PrefixMeansEverythingBelow` | `PrefixAndDoubleStar(p, s)` |
| | `PatternsKeepToTheirPaths` | `[]RulesKeepToTheirPaths` |
| `ApiRequestsProofs` | `RequestsKeepTheRecord` | `[]ApiInd` |
| | `TypesHold` | `[]TypeOK` |
| | `EveryAnswerIsLogged` | `[]AnswersAreLogged` |
| | `PiiIsFlagged` | `[]PiiSuccessIsFlagged` |
| | `BrokenMeansClosed` | `[]BrokenRulesLetNothingThrough` |
| | `ChangesPermitted` | `ChangesWerePermitted` |
| `ListingProofs` | `AuditWalkReadsEachOnce` | `[]WalkReadsEachOnce` |
| | `TreeWalkShowsOnceWhatStayed` | `[]WalkShowsOnceWhatStayed` |
| | `PropfindShowsMembers` | `[]PropfindShowsWhatStayed` |
| `WebDavBridgeProofs` | `WorkersKnowEnough` | `[]BridgeInd` |
| | `BridgeInvariant` | `[]BridgeInv` |
| | `NothingUnseenIsLost` | `OnlyWhatWasSeen` |
| | `MovesLoseNothing` | `MovesWriteBeforeTheyRemove` |
| | `SuccessIsReal` | `OkMeansDone` |
| `BridgeAccessProofs` | `RequestsKnowTheirUser` | `[]AccessInd` |
| | `AccessInvariant` | `[]AccessInv` |
| | `RightUserAlways` | `CallsSpeakForTheirUser` |
| the same, under `OneCommand` | `OperatorIsToldTheTruth` | `[]PatsInd` |
| | `EndedMeansRefused` | `EndedPatsOpenNothing` |
| | `PrintedMeansAccepted` | `PrintedPatsWork` |
| `ServerLifecycleProofs` | `LifecycleInvariant` | `[]LifecycleInv` |
| | `TreesAreNotShared` | `[]OneProcessPerTree` |

All others are theorems of `Spec` (`AuditSpec` for the audit log,
`BridgeSpec` for PROPFIND); the specifications
with fairness, which the runs use, imply it.  Each inductive invariant was also
given to TLC on the instance of its run.

### The storage

What one wants, that work tree, index and commit agree
outside the residue while the lock is free, is not inductive: it says nothing
of the moments in between.  `StoreInv` adds what phase 2 keeps half-way:

- `LockProtects`: the lock is held exactly in the critical section, so of two
  threads only one is in phase 2;
- `PositionsFit`, `TextsGiven`: the loop variable points into the batch, and
  operations that need a text have one, which `Validate` found out;
- `VersionsHeld`: the versions found current in phase 1 are current until the
  commit, as only the lock holder moves `head`;
- `IndexFollows`, `DeletedIsGone`: the index is level with the work tree but for
  the operation between its two halves;
- `UntouchedIsClean`: paths no operation has reached are as committed;
- `QuietIsClean`: with nobody in phase 2 everything outside the residue is.

The proof has one lemma per action (`BeginReadStep` ... `CrashStep`), which
`NextStep` combines.  Steps that leave files and phase 2 alone share
`QuietStep` and `WaitingStep`; `Raise` and `IOFault` share `AbortStep`.
`NoLostUpdate` follows since only `Commit` moves `head`, `IndexFollows` says what
the index holds and `VersionsHeld` that the version was the current one.
`ReadsSeeOneCommit` follows from `LockProtects` and `QuietIsClean` when `Fetch`
finds the lock free, and from `BatchInv`, by which bytes are read of binaries only;
`FailedReadsHaveACause` from the same and from what the read looked for.

What answers and edits promise needs more than versions.  `BatchInv` says what a
batch in phase 2 still knows from phase 1: the match it counted in a file it has
not come to (`EditsHeld`), and that what it wrote is there until its answer is
given (`AppliedIsThere`, `CommittedIsThere`).  It is kept because the only other
steps on the work tree are those of the lock's holder.  `OrphansStay` needs no
invariant of its own: an orphan has no version, so no validation accepts it.

**The refinement** maps `head` to the abstract store, the residue to the
paths abstract clients may disturb, and the work tree of a thread in phase 2 to
its private draft.  `Validate` opens the draft, `Apply` updates it, `Commit`
publishes it, `Abort` and `Crash` abandon it, and everything else is a stutter.

### The registry

`RegistryInv` says what file and copies are; that it stays so depends on what
calls under way carry.  `RegistryInd` adds: a write under way performs what its
call will report (`WritesPerform`); a command that is to write a private key has
registered the public one (`PairsAreRegistered`); what is confirmed dead is dead
in `stored` (`DeadIsGone`); and a login between its two reads knows that its
client was alive when it began (`LoginsAreAlive`), which is what makes two reads
enough.  The lemmas about `Updated` say once what each operation makes of one
entry (`Outcome`); `FrameBeside` and `FrameDuring` say what calls keep while
another one steps.  In the refinement the save is the step: `Truncate` of an
update, which fixes what the file will hold, is the abstract operation; a
`Change` that draws a secret is the abstract `Draw`, and the rest are stutters.

### The ACL engine

`Permits` depends on a list of rules only by what its pots decide
(`PermitsByPots`).  `BestExists` shows that a pot that is not empty has a most
specific rule, from the well-foundedness of strict inclusion among finite sets:
`CHOOSE` never falls through.  The rest is one argument: a list `Embeds` in
another if the rules that apply correspond in order and weight; then the pots
decide alike (`PotFollows`, `PermitsFollows`).  A list with one rule more, one with
a rule left out that does not apply, and a list without ties that is reversed
are related by embeddings.  Up to here what a pattern matches is left open.

What it matches is then shown by the rest of the pattern.  `PlacedFrom` is
`HasPlaces` for the pattern from `i` on in the path from `j` on, and it obeys the
equations of the recursion: `PlacedAtEnd`, `PlacedLiteral`, `PlacedSingleStar` and
`PlacedDoubleStar`.  Pieces are taken from the front or put there
(`PlacesDropFirst`, `PlacesAddFirst`), which needs that the stars behind them pair
up as before (`SingleAfterLiteral`, `SingleAfterSingle`, `SingleAfterPair`).  So the function that tells the places is
one the recursion admits (`FitsExist`), and it is the only one (`FitsArePlaces`):
of the places at which another differed, take the one with the least rest of a
pattern; there the equations make them agree.  This takes the place of an
induction over data, which the provers cannot do, and needs no more than that
sets of naturals have least elements (`LeastExists`).  `PatternsKeepToTheirPaths`
follows with `OneRuleDecides` and `IdleRuleIsNothing`.

### Requests

`ApiInd` says of each request under way who it speaks for (`UserOK`), that its
rules were in force on its way and permit what waits for the storage (`RulesOK`),
and that what the middleware is about to write fits what was done (`ResultOK`);
of the log, that it fits what was answered (`LogOK`); and of lock, loop and pool
that they are held by whom the places say (`HoldersOK`, which is also the bound
on the pool).  A request's number is its own (`IdsDiffer`), so the commit of one
never counts for another.  Steps of one request that make no history share
`QuietStep` and `MoveKeeps`; `CallFrame` says what keeps the others as they were.
What `Permits` says is left open here.

### The walks

A page is a `Cut`: the first `k` of a finite set in some strict order.  The lemmas
about cuts say that a page that is not all of it has a last element, and that it
holds exactly what does not come after that (`CutFacts`, `AuditPageFacts`,
`PageFacts`).  For the tree the order is that of paths, shown to be transitive and
total for sequences of any length (`BeforeTransitive`, `BeforeTotal`), and the set
is what `_walk` finds: `WalkIsWithin` shows that its recursion gives the entries
below the root down to the depth, by the same argument about a least difference.

`WalkInv` and `ListingInv` make the cursor a watermark.  Of what fits and has been
there all the time, everything up to it was shown; nothing beyond it was; so
nothing is shown twice, wherever new entries fall, and whether or not the entry
the cursor names is still there.  At the end there is no beyond.  `ListingInv`
needs `Tree` too: what stands above an entry is a directory, or the recursion
would not reach it.

`PropfindInv` says of the names still to be asked for that none of those that
stayed is lost between names and answers, that a name that was no file a
moment ago and is still there is a directory, and that the member a PROPFIND
ends over is gone or broken.

### The bridge

`BridgeInd` is about one worker at a time, since workers share nothing but the
API: it is in a method only for requests that lead there, what it holds of a
resource is what it read (the text of its version), and a MOVE that comes to its removal has the
destination among what it has written (`WrittenFirst`).  `OnlyWhatWasSeen` then
follows from the versions each call names, and `MovesWriteBeforeTheyRemove` from
the history of what was sent.

`AccessInd` of the bridge's users ties a request to the PAT it began with
(`SpeaksFor`), the cache to users whose tokens it holds, and a token to the clock
(`InTime`): a token that had more than `Buffer` but a second left at the look at
the clock (`WholeSecondsClose`: rounding takes less than a second), and is on its
way for no more than `Travel`, is still valid.  `PatsInd` adds, for
one command at a time, that file and copy hold what the operator believes in and
nothing he was told had ended.

### The instance lock

That two processes do not use one tree is not inductive, as it does not know who
has the lock.  `LifecycleInv` adds `LocksAreHeld` (a process between acquisition
and end is the holder, and nobody else is), `LocksFit` (a lock is held by one it
is meant for) and `RequestsServed` (no request outlives its process).  All steps
are of three kinds: on without a change of the lock (`GoesStep`), to the end
(`GoneStep`), and the acquisition (`AcquireStep`).

## 5. What is only model-checked

Every safety property the passing runs check is a theorem.  Liveness
(`EveryRequestAnswered`, `EveryCallEnds`, `EveryRequestEnds`, `ListingsEnd`,
`TreeIsServedAgain`) and everything about `ENABLED` is outside the prover's
reach and stays with TLC, on the instances above.  So do the disagreements of the
next section, which are counterexamples.

## 6. Where the code and its documentation disagree

Two disagreements are runs:

- **The next commit sweeps up a failed batch** (`storage_sweep`).
  `docs/spec.en.md:112` promises one commit covering all affected files;
  `index.commit` (`git_repo.py:382`) commits the whole index, also what a batch
  that failed earlier had staged.
- **Two writers of the registry** (`registry_two_writers`).
  `docs/openapi.yaml:393` says a revoked key is refused at once; a save of the
  server that had loaded the file before the command line's revocation undoes it.

More have configurations in which TLC finds the statement violated.  They are
not part of the runs; where a configuration lists several statements, all but
one are comments, and a reader swaps them:

| Configuration | Statement | Says | What happens |
|---|---|---|---|
| `GitStorageClaims.cfg` | `FailedTransactionWritesNothing` | `README.md:23` | an exception in phase 2 leaves the work tree changed |
| `GitStorageClaims.cfg` | `EditsMatchOnce` | `README.md:22` | the edit is validated on the text before the batch, and applied to what its predecessors left |
| `GitStorageClaims.cfg` | `ExistingFilesAreCommitted` | the assertion in `git_repo.py:202` | the file is deleted between the test and the lock, or was never committed |
| `RegistryClaims.cfg` | `TokensOutliveTheirClient` | `docs/openapi.yaml:320` | the API key of a revoked client is refused, so its tokens cannot be used |
| `RegistryClaims.cfg` | `BadLoginsAreUnauthorized` | `api/dependencies.py:47` | a token that is no JWT raises an exception nothing maps to 401 |
| `AclPrefixes.cfg` | `LongerPrefixDecides` | `docs/spec.en.md:160` | `/` and `b` have the same specificity |
| `AclPrefixes.cfg` | `DoubleStarsCoverTheirDirectory` | `docs/spec.en.md:163` | a path with a newline below the directory matches the prefix, but not the prefix with `**` behind it: `.*` stops at a newline (`engine.py:89`) |
| `ApiClaims.cfg` | `PiiAccessIsFlagged` | `docs/spec.en.md:189` | any access sets the flag; the 409 carries the content, and the exception is raised before the flag is set (`files.py:66`) |
| `BridgeClaims.cfg` | `TextMovesAreOneCommit` | `docs/spec.en.md:323` | the `delete()` after a MOVE matches again when the content has come back, versions being hashes |
| `BridgeClaims.cfg` | `FilesThereCanBeRead` | `bridge/dav_provider.py:31` | the bridge's `classify_kind` lacks `.skill`, so it asks for text where the API has bytes only |
| `BridgeBuffer.cfg` | `CachedTokensHaveTheBuffer` | `bridge/agent_api_client.py:95` | the token ends up to a second before its entry in the cache, so less than 60 s may be left |
| `BridgePages.cfg` | `PropfindShowsAll` | `docs/spec.en.md:317`, `:68` | a directory listing shows the first page only |
| `RegistryKeyRace.cfg` | `UnforcedKeysStay` | `cli.py:75` | two `generate-signing-key` without `--force` look for the file before either writes it; the second replaces the first's key |
| `ApiClaims.cfg` | `EveryCallIsLogged` | `README.md:25` | an exception passes the middleware before the entry is written |
| `ApiClaims.cfg` | `PreviewsAreFlagged` | `README.md:25` | a listing with previews of PII files is not flagged |
| `ApiClaims.cfg` | `PermittedWhenCommitted` | `docs/spec.en.md:112`, `:119` | the rules are read before the lock is taken |
| `ApiClaims.cfg` | `AdminCanWriteTheAcl` | `api/files.py:29` | a broken `acl.json` fails every request, the repairing one included |
| `AuditPeriod.cfg` | `PeriodsHaveAStart` | `docs/openapi.yaml:426` | the parameter is called `from_`, so `from` is ignored |

Seen while modelling the bridge and not stated as properties: the version of a
PUT is read when the PUT arrives, so what others saved since the user opened the
file is overwritten (`docs/spec.en.md:332` against `:320`); length and ETag of
a file that is not a text may not fit the bytes, which are fetched by a later
call; a binary file may be moved with the bytes of another version when its
version comes back; a text that is moved or copied is left with LF, so neither its
bytes nor its version are those of the source; and a path that gets a file between
`GET /file` and `GET /tree` is taken for a directory.

## 7. What is not modelled

- Resolution of paths, and files that collide with directories: `IOFault` and
  `ReadFault` stand for the exceptions they lead to.
- Where in a text a line end is split between two tokens: a `\r` at the end of a
  file to which a `\n` is appended becomes one line end, in the model it stays two.
- I/O errors of the storage inside `ApiRequests`: they are in `GitStorage`.
- The JSON lines and the null sink (append only, no queries), the path filter
  of the audit query, formatting, MIME types, previews.
- Settings other than the audit backend, the paths and the token's life: they
  are constants.  The remaining models and errors of `domain/` are the records and
  status values of the modules that use them; most of their fields are data no
  property tells apart.
- The bridge's WSGI set-up (`bridge/main.py`) beyond its restart; wsgidav's locks,
  which the bridge switches off.
- Two commands of the bridge at a time (see the bounds).

## 8. Plan

Done, in this order: the storage with its abstract specification, its
invariant and its proofs; the registry with its abstract specification; the
ACL engine; requests with the audit log; the two page walks; the bridge; the
private key file of the command line; the bridge's users, tokens and PROPFIND;
the life of the server's processes, with its proofs; then the proofs about the
registry, the ACL engine, the requests, the bridge and its users, the walks,
PROPFIND, and the patterns of the rules.

What is left is what the provers cannot do (section 5) and what section 7 leaves
out.  If the code changes, the first places to look at are the runs of the
module concerned, then its inductive invariant.
