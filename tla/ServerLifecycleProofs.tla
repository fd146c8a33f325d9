----------------------- MODULE ServerLifecycleProofs ------------------------
(***************************************************************************)
(* Proofs about ServerLifecycle: for any number of instances, trees, lock  *)
(* files and faults, the file lock keeps two processes from using one      *)
(* tree.                                                                   *)
(***************************************************************************)
EXTENDS ServerLifecycle, TLAPS

(* No process runs at the start, and all locks are free.                    *)
LEMMA InitLifecycle == Init => LifecycleInv
<1>1. ASSUME Init PROVE TypeOK
  BY <1>1, BoundsAreNat DEF Init, TypeOK, States
<1>2. ASSUME Init PROVE LocksAreHeld /\ LocksFit
  BY <1>2, ConfigurationTyped DEF Init, LocksAreHeld, LocksFit, HasLock, Holds, LockPaths
<1>3. ASSUME Init PROVE RequestsServed
  BY <1>3 DEF Init, RequestsServed
<1>. QED BY <1>1, <1>2, <1>3 DEF LifecycleInv

(* A process on its way from a state to another keeps the invariant if it   *)
(* holds its lock in both or in neither, and has no requests to lose.       *)
LEMMA GoesStep ==
    ASSUME LifecycleInv, NEW i \in Instances, NEW from \in States, NEW to \in States,
           Goes(i, from, to), UNCHANGED <<holder, busy>>,
           breaks' \in 0 .. MaxBreaks,
           from \in {"locked", "opened", "serving", "stopping"}
              <=> to \in {"locked", "opened", "serving", "stopping"},
           from \in {"serving", "stopping"} => to \in {"serving", "stopping"}
    PROVE  LifecycleInv'
<1>. USE DEF LifecycleInv
<1>0. \A j \in Instances : j # i => state'[j] = state[j]
  BY DEF TypeOK, Goes
<1>i. state[i] = from /\ state'[i] = to
  BY DEF TypeOK, Goes
<1>1. TypeOK'
  BY DEF TypeOK, Goes
<1>2. LocksAreHeld'
  <2>. SUFFICES ASSUME NEW j \in Instances PROVE HasLock(j)' <=> Holds(j)'
    BY DEF LocksAreHeld
  <2>1. HasLock(j)' <=> HasLock(j)
    BY <1>0, <1>i DEF HasLock
  <2>. QED BY <2>1 DEF LocksAreHeld, Holds
<1>3. LocksFit'
  BY DEF LocksFit
<1>4. RequestsServed'
  BY <1>0, <1>i DEF RequestsServed
<1>. QED BY <1>1, <1>2, <1>3, <1>4

(* However a process ends, its lock is free, and no other lock is.          *)
LEMMA GoneStep ==
    ASSUME LifecycleInv, NEW i \in Instances, Gone(i), breaks' \in 0 .. MaxBreaks
    PROVE  LifecycleInv'
<1>. USE DEF LifecycleInv
<1>0. \A j \in Instances : j # i => state'[j] = state[j] /\ busy'[j] = busy[j]
  BY DEF TypeOK, Gone
<1>i. state'[i] = "down" /\ busy'[i] = 0
  BY DEF TypeOK, Gone
<1>l. \A l \in LockPaths : holder'[l] = IF holder[l] = i THEN Nobody ELSE holder[l]
  <2>. SUFFICES ASSUME NEW l \in LockPaths
                PROVE  holder'[l] = IF holder[l] = i THEN Nobody ELSE holder[l]
    OBVIOUS
  <2>1. LockPath[i] \in LockPaths
    BY DEF LockPaths
  <2>2. CASE Holds(i)
    <3>1. holder' = [holder EXCEPT ![LockPath[i]] = Nobody]
      BY <2>2 DEF Gone
    <3>2. CASE l = LockPath[i]
      BY <3>1, <3>2, <2>2, <2>1 DEF Holds, TypeOK
    <3>3. CASE l # LockPath[i]
      <4>1. holder[l] # i
        BY <3>3, ConfigurationTyped DEF LocksFit
      <4>. QED BY <4>1, <3>1, <3>3, <2>1 DEF TypeOK
    <3>. QED BY <3>2, <3>3
  <2>3. CASE ~Holds(i)
    <3>1. holder' = holder
      BY <2>3 DEF Gone
    <3>2. holder[l] # i
      BY <2>3, ConfigurationTyped DEF LocksFit, Holds
    <3>. QED BY <3>1, <3>2
  <2>. QED BY <2>2, <2>3
<1>1. TypeOK'
  <2>1. state' \in [Instances -> States] /\ busy' \in [Instances -> 0 .. MaxBusy]
    BY BoundsAreNat DEF TypeOK, Gone, States
  <2>2. holder' \in [LockPaths -> Instances \cup {Nobody}]
    BY DEF TypeOK, Gone
  <2>. QED BY <2>1, <2>2 DEF TypeOK
<1>2. LocksAreHeld'
  <2>. SUFFICES ASSUME NEW j \in Instances PROVE HasLock(j)' <=> Holds(j)'
    BY DEF LocksAreHeld
  <2>1. LockPath[j] \in LockPaths
    BY DEF LockPaths
  <2>2. CASE j = i
    BY <2>1, <2>2, <1>i, <1>l, ConfigurationTyped DEF HasLock, Holds
  <2>3. CASE j # i
    <3>1. HasLock(j)' <=> HasLock(j)
      BY <2>3, <1>0 DEF HasLock
    <3>2. Holds(j)' <=> Holds(j)
      BY <2>1, <2>3, <1>l, ConfigurationTyped DEF Holds
    <3>. QED BY <3>1, <3>2 DEF LocksAreHeld
  <2>. QED BY <2>2, <2>3
<1>3. LocksFit'
  BY <1>l DEF LocksFit
<1>4. RequestsServed'
  BY <1>0, <1>i DEF RequestsServed
<1>. QED BY <1>1, <1>2, <1>3, <1>4

(* A lock is taken only when it is free, and by whom it is meant for.       *)
LEMMA AcquireStep ==
    ASSUME LifecycleInv, NEW i \in Instances, Acquire(i)
    PROVE  LifecycleInv'
<1>. USE DEF LifecycleInv
<1>b. breaks' \in 0 .. MaxBreaks
  BY DEF Acquire, TypeOK
<1>g. CASE Gone(i)
  BY <1>g, <1>b, GoneStep
<1>t. CASE /\ holder[LockPath[i]] = Nobody
           /\ Goes(i, "configured", "locked")
           /\ holder' = [holder EXCEPT ![LockPath[i]] = i]
           /\ UNCHANGED busy
  <2>0. \A j \in Instances : j # i => state'[j] = state[j]
    BY <1>t DEF TypeOK, Goes
  <2>i. state[i] = "configured" /\ state'[i] = "locked"
    BY <1>t DEF TypeOK, Goes
  <2>p. LockPath[i] \in LockPaths
    BY DEF LockPaths
  <2>h. \A l \in LockPaths : holder'[l] = IF l = LockPath[i] THEN i ELSE holder[l]
    BY <1>t DEF TypeOK
  <2>1. TypeOK'
    BY <1>t, <1>b DEF TypeOK, Goes, States
  <2>2. LocksAreHeld'
    <3>. SUFFICES ASSUME NEW j \in Instances PROVE HasLock(j)' <=> Holds(j)'
      BY DEF LocksAreHeld
    <3>1. LockPath[j] \in LockPaths
      BY DEF LockPaths
    <3>2. CASE j = i
      BY <3>2, <2>i, <2>h, <2>p DEF HasLock, Holds
    <3>3. CASE j # i
      <4>1. HasLock(j)' <=> HasLock(j)
        BY <3>3, <2>0 DEF HasLock
      <4>2. Holds(j)' <=> Holds(j)
        <5>1. CASE LockPath[j] = LockPath[i]
          BY <5>1, <3>1, <3>3, <2>h, <1>t, ConfigurationTyped DEF Holds
        <5>2. CASE LockPath[j] # LockPath[i]
          BY <5>2, <3>1, <2>h DEF Holds
        <5>. QED BY <5>1, <5>2
      <4>. QED BY <4>1, <4>2 DEF LocksAreHeld
    <3>. QED BY <3>2, <3>3
  <2>3. LocksFit'
    BY <2>h DEF LocksFit
  <2>4. RequestsServed'
    BY <1>t, <2>0, <2>i DEF RequestsServed
  <2>. QED BY <2>1, <2>2, <2>3, <2>4
<1>. QED BY <1>g, <1>t DEF Acquire

(* A request begins at a process that serves, and ends.                     *)
LEMMA RequestStep ==
    ASSUME LifecycleInv, NEW i \in Instances, Accept(i) \/ Finish(i)
    PROVE  LifecycleInv'
<1>. USE DEF LifecycleInv
<1>0. \A j \in Instances : j # i => busy'[j] = busy[j]
  BY DEF TypeOK, Accept, Finish
<1>u. UNCHANGED <<state, holder, breaks>>
  BY DEF Accept, Finish
<1>1. TypeOK'
  <2>1. CASE Accept(i)
    BY <2>1, BoundsAreNat DEF TypeOK, Accept
  <2>2. CASE Finish(i)
    BY <2>2, BoundsAreNat DEF TypeOK, Finish
  <2>. QED BY <2>1, <2>2
<1>2. LocksAreHeld' /\ LocksFit'
  BY <1>u DEF LocksAreHeld, LocksFit, HasLock, Holds
<1>3. RequestsServed'
  <2>1. CASE Accept(i)
    BY <2>1, <1>0, <1>u DEF Accept, RequestsServed
  <2>2. CASE Finish(i)
    BY <2>2, <1>0, <1>u DEF Finish, RequestsServed
  <2>. QED BY <2>1, <2>2
<1>. QED BY <1>1, <1>2, <1>3

(* Each step of each process keeps the invariant.                           *)
LEMMA NextLifecycle == LifecycleInv /\ [Next]_vars => LifecycleInv'
<1>. SUFFICES ASSUME LifecycleInv, [Next]_vars PROVE LifecycleInv'
  OBVIOUS
<1>u. CASE UNCHANGED vars
  BY <1>u DEF vars, LifecycleInv, TypeOK, LocksAreHeld, LocksFit, RequestsServed, HasLock, Holds
<1>n. CASE Next
  <2>. PICK i \in Instances :
          Boot(i) \/ Accept(i) \/ Finish(i) \/ Terminate(i) \/ Shutdown(i) \/ Kill(i)
    BY <1>n DEF Next
  <2>b. breaks \in 0 .. MaxBreaks
    BY DEF LifecycleInv, TypeOK
  <2>k. Break => breaks' \in 0 .. MaxBreaks
    BY <2>b, BoundsAreNat DEF Break
  <2>1. CASE Start(i)
    BY <2>1, <2>b, GoesStep DEF Start, States
  <2>2. CASE Configure(i)
    BY <2>2, <2>b, GoesStep, GoneStep DEF Configure, States
  <2>3. CASE Acquire(i)
    BY <2>3, AcquireStep
  <2>4. CASE OpenStorage(i)
    BY <2>4, <2>b, GoesStep, GoneStep DEF OpenStorage, States
  <2>5. CASE OpenSinks(i)
    BY <2>5, <2>b, <2>k, GoesStep, GoneStep DEF OpenSinks, States
  <2>6. CASE Accept(i) \/ Finish(i)
    BY <2>6, RequestStep
  <2>7. CASE Terminate(i)
    BY <2>7, <2>k, GoesStep DEF Terminate, States
  <2>8. CASE Shutdown(i)
    BY <2>8, <2>b, GoneStep DEF Shutdown
  <2>9. CASE Kill(i)
    BY <2>9, <2>k, GoneStep DEF Kill
  <2>. QED BY <2>1, <2>2, <2>3, <2>4, <2>5, <2>6, <2>7, <2>8, <2>9 DEF Boot
<1>. QED BY <1>u, <1>n

(* From the acquisition to its end, and only then, a process holds its      *)
(* lock, however it ends (main.py:20-53): for any instances and faults.     *)
THEOREM LifecycleInvariant == Spec => []LifecycleInv
<1>. QED BY InitLifecycle, NextLifecycle, PTL DEF Spec

(* Two instances never use one tree at a time (main.py:20-25), if whoever   *)
(* shares a tree shares the lock file (OneLockPerTree).                     *)
THEOREM TreesAreNotShared == Spec => []OneProcessPerTree
<1>1. LifecycleInv => OneProcessPerTree
  <2>. SUFFICES ASSUME LifecycleInv, NEW i \in Instances, NEW j \in Instances,
                       Root[i] = Root[j], UsesTree(i), UsesTree(j)
                PROVE  i = j
    BY DEF OneProcessPerTree
  <2>1. HasLock(i) /\ HasLock(j)
    BY DEF LifecycleInv, RequestsServed, UsesTree, HasLock
  <2>2. Holds(i) /\ Holds(j)
    BY <2>1 DEF LifecycleInv, LocksAreHeld
  <2>3. LockPath[i] = LockPath[j]
    BY OneLockPerTree
  <2>. QED BY <2>2, <2>3 DEF Holds
<1>. QED BY <1>1, LifecycleInvariant, PTL
=============================================================================
