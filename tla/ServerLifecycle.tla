-------------------------- MODULE ServerLifecycle ---------------------------
(***************************************************************************)
(* Processes of the Agent-MD-API from their start to their end (main.py,   *)
(* config.py): replicas of the container, or workers of one uvicorn.  The  *)
(* locks of GitStorage and of the sinks order the threads of one process;  *)
(* that there is one process to a tree rests on the file lock taken here.  *)
(* A process that ends is started again (restart: unless-stopped); the     *)
(* operating system frees the lock of a process that is gone.              *)
(***************************************************************************)
EXTENDS Naturals

CONSTANTS
    Instances,
    Root,       \* root_dir of each instance
    WorkTrees,  \* the directories that are Git work trees
    LockPath,   \* instance_lock_path of each instance
    Backend,    \* audit_backend of each instance
    Nobody,     \* holder of a free lock
    MaxBusy,    \* bound: requests in flight at an instance
    MaxBreaks   \* bound: crashes, failures and terminations

NotYetImplemented == {"loki", "elk", "azure", "aws"}
Backends          == {"none", "sqlite", "jsonl"} \cup NotYetImplemented
LockPaths         == {LockPath[i] : i \in Instances}

ASSUME ConfigurationTyped == Backend \in [Instances -> Backends] /\ Nobody \notin Instances
ASSUME BoundsAreNat       == MaxBusy \in Nat /\ MaxBreaks \in Nat

(* What the operator owes: whoever shares a tree shares the lock.           *)
ASSUME OneLockPerTree ==
    \A i, j \in Instances : Root[i] = Root[j] => LockPath[i] = LockPath[j]

VARIABLES
    state,      \* how far each process is
    holder,     \* of each lock file
    busy,       \* requests in flight
    breaks      \* crashes, failures and terminations so far

vars == <<state, holder, busy, breaks>>

Init ==
    /\ state = [i \in Instances |-> "down"]
    /\ holder = [l \in LockPaths |-> Nobody]
    /\ busy = [i \in Instances |-> 0]
    /\ breaks = 0

Holds(i) == holder[LockPath[i]] = i

Goes(i, from, to) == state[i] = from /\ state' = [state EXCEPT ![i] = to]

(* Mutant: the lock is a file that somebody has to remove.                  *)
GoneButLocked(i) ==
    /\ state' = [state EXCEPT ![i] = "down"]
    /\ busy' = [busy EXCEPT ![i] = 0]
    /\ UNCHANGED holder

(* The process ends; its lock, if it has one, is free.                      *)
Gone(i) ==
    /\ state' = [state EXCEPT ![i] = "down"]
    /\ holder' = IF Holds(i) THEN [holder EXCEPT ![LockPath[i]] = Nobody] ELSE holder
    /\ busy' = [busy EXCEPT ![i] = 0]

Break == breaks < MaxBreaks /\ breaks' = breaks + 1

Start(i) == Goes(i, "down", "started") /\ UNCHANGED <<holder, busy, breaks>>

(* Settings: a backend that is not implemented ends the start.              *)
Configure(i) ==
    /\ \/ /\ Backend[i] \notin NotYetImplemented
          /\ Goes(i, "started", "configured")
          /\ UNCHANGED <<holder, busy>>
       \/ state[i] = "started" /\ Backend[i] \in NotYetImplemented /\ Gone(i)
    /\ UNCHANGED breaks

(* _acquire_single_instance_lock, without waiting: taken, or exit 1.        *)
Acquire(i) ==
    /\ \/ /\ holder[LockPath[i]] = Nobody
          /\ Goes(i, "configured", "locked")
          /\ holder' = [holder EXCEPT ![LockPath[i]] = i]
          /\ UNCHANGED busy
       \/ state[i] = "configured" /\ holder[LockPath[i]] # Nobody /\ Gone(i)
    /\ UNCHANGED breaks

(* GitStorage: the tree must be there; it is never initialised.             *)
OpenStorage(i) ==
    /\ \/ /\ Root[i] \in WorkTrees
          /\ Goes(i, "locked", "opened")
          /\ UNCHANGED <<holder, busy>>
       \/ state[i] = "locked" /\ Root[i] \notin WorkTrees /\ Gone(i)
    /\ UNCHANGED breaks

(* The directories of the registry and the audit log, the database: any of  *)
(* them may fail.                                                           *)
OpenSinks(i) ==
    \/ Goes(i, "opened", "serving") /\ UNCHANGED <<holder, busy, breaks>>
    \/ state[i] = "opened" /\ Gone(i) /\ Break

Accept(i) ==
    /\ state[i] = "serving" /\ busy[i] < MaxBusy
    /\ busy' = [busy EXCEPT ![i] = @ + 1]
    /\ UNCHANGED <<state, holder, breaks>>

Finish(i) ==
    /\ busy[i] > 0
    /\ busy' = [busy EXCEPT ![i] = @ - 1]
    /\ UNCHANGED <<state, holder, breaks>>

(* SIGTERM: uvicorn takes no more requests.                                 *)
Terminate(i) == Goes(i, "serving", "stopping") /\ Break /\ UNCHANGED <<holder, busy>>

(* Mutant: the lock is released as soon as the signal arrives.              *)
ShutdownAtOnce(i) ==
    /\ Goes(i, "stopping", "down")
    /\ holder' = [holder EXCEPT ![LockPath[i]] = Nobody]
    /\ UNCHANGED <<busy, breaks>>

(* When the last answer is sent, the rest of lifespan: lock.release.        *)
Shutdown(i) == state[i] = "stopping" /\ busy[i] = 0 /\ Gone(i) /\ UNCHANGED breaks

Kill(i) == state[i] # "down" /\ Gone(i) /\ Break

Boot(i) == Start(i) \/ Configure(i) \/ Acquire(i) \/ OpenStorage(i) \/ OpenSinks(i)

Next ==
    \E i \in Instances :
       Boot(i) \/ Accept(i) \/ Finish(i) \/ Terminate(i) \/ Shutdown(i) \/ Kill(i)

(* A process that can go on does, one that is down is started again, and a  *)
(* request ends (the liveness of GitStorage and ApiRequests).               *)
Spec ==
    /\ Init /\ [][Next]_vars
    /\ \A i \in Instances : WF_vars(Boot(i)) /\ WF_vars(Finish(i)) /\ WF_vars(Shutdown(i))
-----------------------------------------------------------------------------
(* Properties                                                               *)

States == {"down", "started", "configured", "locked", "opened", "serving", "stopping"}

(* Type invariant.                                                          *)
TypeOK ==
    /\ state \in [Instances -> States]
    /\ holder \in [LockPaths -> Instances \cup {Nobody}]
    /\ busy \in [Instances -> 0 .. MaxBusy]
    /\ breaks \in 0 .. MaxBreaks

(* From the acquisition to its end a process holds its lock, and only then   *)
(* it has requests.                                                         *)
HasLock(i) == state[i] \in {"locked", "opened", "serving", "stopping"}

LocksAreHeld  == \A i \in Instances : HasLock(i) <=> Holds(i)
LocksFit      == \A l \in LockPaths : holder[l] # Nobody => LockPath[holder[l]] = l
RequestsServed == \A i \in Instances : busy[i] > 0 => state[i] \in {"serving", "stopping"}

(* The inductive invariant behind OneProcessPerTree: nobody goes on without *)
(* the lock, and a process that is gone has left none behind, however it    *)
(* ended.                                                                   *)
LifecycleInv == TypeOK /\ LocksAreHeld /\ LocksFit /\ RequestsServed

UsesTree(i) == state[i] \in {"opened", "serving", "stopping"} \/ busy[i] > 0

(* At any time one process at most has a tree open or a request under way   *)
(* that may touch it, through starts at the same moment, crashes and        *)
(* shutdowns (main.py:20-25); GitStorage relies on it.                      *)
OneProcessPerTree ==
    \A i, j \in Instances : i # j /\ Root[i] = Root[j] => ~(UsesTree(i) /\ UsesTree(j))

CanServe(i) == Root[i] \in WorkTrees /\ Backend[i] \notin NotYetImplemented

(* The lock does not survive its process: whatever killed the last one, in  *)
(* the end somebody serves the tree again, and an instance that was refused *)
(* takes over.                                                              *)
TreeIsServedAgain ==
    \A i \in Instances :
       CanServe(i) => []<>(\E j \in Instances : Root[j] = Root[i] /\ state[j] = "serving")
=============================================================================
