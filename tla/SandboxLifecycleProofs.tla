----------------------- MODULE SandboxLifecycleProofs -----------------------
(***************************************************************************)
(* Proofs about the life cycle of sandboxes: FirecrackerRuntime, for any   *)
(* set of tasks, ids and snapshots and any combination of faults, and      *)
(* ApiLifecycle above it.                                                  *)
(*                                                                         *)
(* The first part is about types, ownership and locks (RtInv), the second  *)
(* about the other properties of the runtime (SafetyInv), the third about  *)
(* the API (ApiInv).                                                       *)
(***************************************************************************)
EXTENDS ApiLifecycle, FiniteSetTheorems, TLAPS

\* The literals the actions assign are members of their enumerations.
LEMMA Literals ==
    /\ "idle" \in Labels /\ "done" \in Labels /\ "lookup" \in Labels
    /\ "lock" \in Labels /\ "pause" \in Labels /\ "resume" \in Labels
    /\ "reconnect" \in Labels /\ "snap_pause" \in Labels
    /\ "snap_capture" \in Labels /\ "snap_resume" \in Labels
    /\ "snap_reconnect" \in Labels /\ "snap_publish" \in Labels
    /\ "snap_insert" \in Labels /\ "snap_lookup" \in Labels
    /\ "snap_lock" \in Labels /\ "verify" \in Labels /\ "try_lock" \in Labels
    /\ "purge" \in Labels /\ "snap_unmap" \in Labels /\ "launch" \in Labels
    /\ "boot" \in Labels /\ "repl_lock" \in Labels /\ "rekey" \in Labels
    /\ "swap" \in Labels /\ "unwind" \in Labels /\ "del_remove" \in Labels
    /\ "del_lock" \in Labels /\ "terminate" \in Labels
    /\ "cleanup" \in Labels
    /\ "none" \in Results /\ "ok" \in Results /\ "not_found" \in Results
    /\ "conflict" \in Results /\ "error" \in Results
    /\ "none" \in VmStates /\ "running" \in VmStates /\ "paused" \in VmStates
    /\ "stopped" \in VmStates /\ "gone" \in VmStates
    /\ "Running" \in States /\ "Paused" \in States /\ "Failed" \in States
    /\ "Deleting" \in States /\ "Deleted" \in States /\ "Creating" \in States
    /\ "none" \in ArtifactStates /\ "reserved" \in ArtifactStates
    /\ "staged" \in ArtifactStates /\ "published" \in ArtifactStates
    /\ "gone" \in ArtifactStates
BY DEF Labels, Results, VmStates, States, ArtifactStates

\* Removing network, jail and cgroup leaves a VM gone or stopped.
LEMMA CleanupOutcomesAre == CleanupOutcomes \subseteq {"gone", "stopped"}
BY DEF CleanupOutcomes

ControlTypes ==
    /\ pc \in [Tasks -> Labels]
    /\ result \in [Tasks -> Results]
    /\ holder \in [Ids -> Tasks \cup {NoTask}]
    /\ sholder \in [Snaps -> Tasks \cup {NoTask}]

DataTypes ==
    /\ sandboxes \in [Ids -> Ids \cup {NoVm}]
    /\ state \in [Ids -> States]
    /\ vm \in [Ids -> VmStates]
    /\ snapshots \in SUBSET Snaps
    /\ artifact \in [Snaps -> ArtifactStates]
    /\ source \in [Snaps -> Ids \cup {NoVm}]
    /\ published \in SUBSET Ids
    /\ op \in [Tasks -> Ops]
    /\ arg \in [Tasks -> Ids \cup {NoVm}]
    /\ snp \in [Tasks -> Snaps \cup {NoSnap}]
    /\ mine \in [Tasks -> Ids \cup {NoVm}]
    /\ cur \in [Tasks -> Ids \cup {NoVm}]
    /\ todo \in [Tasks -> SUBSET Ids]
    /\ launched \in [Tasks -> SUBSET Ids]
    /\ prior \in [Tasks -> {"Running", "Paused"}]

\* The type invariant, split into what Finish and Continue change and the rest.
LEMMA TypeParts == RtTypeOK <=> ControlTypes /\ DataTypes
BY DEF RtTypeOK, ControlTypes, DataTypes

\* The ways a step moves the task on keep the types of what they change.
LEMMA FinishTypes ==
    ASSUME ControlTypes, NEW t \in Tasks, NEW r \in Results, Finish(t, r)
    PROVE  ControlTypes'
BY Literals DEF ControlTypes, Finish, Goto, DropGuards

\* A task that goes on keeps the types of label, result and guards.
LEMMA ContinueTypes ==
    ASSUME ControlTypes, NEW t \in Tasks, NEW l \in Labels, Continue(t, l)
    PROVE  ControlTypes'
BY DEF ControlTypes, Continue, Goto, locks

\* So does one that goes on after dropping its guards.
LEMMA DropTypes ==
    ASSUME ControlTypes, NEW t \in Tasks, NEW l \in Labels, Goto(t, l), DropGuards(t),
           result' = result
    PROVE  ControlTypes'
BY DEF ControlTypes, Goto, DropGuards

\* Every step of a task keeps the types.
LEMMA TypeStep ==
    ASSUME RtTypeOK, ControlInv, NEW t \in Tasks, RtStep(t)
    PROVE  RtTypeOK'
<1> USE Literals, FinishTypes, ContinueTypes, DropTypes
    DEF maps, host, store, call, locals
<1> ControlTypes /\ DataTypes
  BY TypeParts
<1> SUFFICES ControlTypes' /\ DataTypes'
  BY TypeParts, PTL
<1>1. CASE Lookup(t)
  <2>1. ControlTypes'
    BY <1>1 DEF Lookup
  <2>2. DataTypes'
    BY <1>1 DEF Lookup, ControlInv, TaskInv, DataTypes
  <2> QED BY <2>1, <2>2
<1>2. CASE Lock(t)
  <2>1. ControlTypes'
    BY <1>2 DEF Lock, Goto, ControlTypes, ControlInv, TaskInv, AfterLock, RecordOps
  <2>2. DataTypes'
    BY <1>2 DEF Lock, ControlInv, TaskInv, AllowedStates, RecordOps, DataTypes
  <2> QED BY <2>1, <2>2
<1>3. CASE Pause(t)
  <2>1. ControlTypes'
    BY <1>3 DEF Pause
  <2>2. DataTypes'
    BY <1>3 DEF Pause, PatchOk, PatchFails, DataTypes
  <2> QED BY <2>1, <2>2
<1>4. CASE Resume(t)
  <2>1. ControlTypes'
    BY <1>4 DEF Resume
  <2>2. DataTypes'
    BY <1>4 DEF Resume, PatchOk, PatchFails, DataTypes
  <2> QED BY <2>1, <2>2
<1>5. CASE Reconnect(t)
  <2>1. ControlTypes'
    BY <1>5 DEF Reconnect
  <2>2. DataTypes'
    BY <1>5 DEF Reconnect, DataTypes
  <2> QED BY <2>1, <2>2
<1>6. CASE SnapPause(t)
  <2>1. ControlTypes'
    BY <1>6 DEF SnapPause
  <2>2. DataTypes'
    BY <1>6 DEF SnapPause, PatchOk, PatchFails, DataTypes
  <2> QED BY <2>1, <2>2
<1>7. CASE SnapCapture(t)
  <2>1. ControlTypes'
    BY <1>7 DEF SnapCapture, Goto, ControlTypes, locks
  <2>2. DataTypes'
    BY <1>7, ZenonT(60) DEF SnapCapture, DataTypes
  <2> QED BY <2>1, <2>2
<1>8. CASE SnapResume(t)
  <2>1. ControlTypes'
    BY <1>8 DEF SnapResume, SnapResumeFailed
  <2>2. DataTypes'
    BY <1>8 DEF SnapResume, SnapResumeFailed, PatchOk, PatchFails, DataTypes
  <2> QED BY <2>1, <2>2
<1>9. CASE SnapReconnect(t)
  <2>1. ControlTypes'
    BY <1>9 DEF SnapReconnect, SnapResumeFailed
  <2>2. DataTypes'
    BY <1>9 DEF SnapReconnect, SnapResumeFailed, DataTypes
  <2> QED BY <2>1, <2>2
<1>10. CASE SnapPublish(t)
  <2>1. ControlTypes'
    BY <1>10 DEF SnapPublish
  <2>2. DataTypes'
    BY <1>10 DEF SnapPublish, DataTypes
  <2> QED BY <2>1, <2>2
<1>11. CASE SnapInsert(t)
  <2>1. ControlTypes'
    BY <1>11 DEF SnapInsert
  <2>2. DataTypes'
    BY <1>11 DEF SnapInsert, ControlInv, TaskInv, SnapshotLabels, DataTypes
  <2> QED BY <2>1, <2>2
<1>12. CASE SnapLookup(t)
  <2>1. ControlTypes'
    BY <1>12 DEF SnapLookup
  <2>2. DataTypes'
    BY <1>12 DEF SnapLookup, DataTypes
  <2> QED BY <2>1, <2>2
<1>13. CASE SnapLock(t)
  <2>1. ControlTypes'
    BY <1>13 DEF SnapLock, Goto, ControlTypes
  <2>2. DataTypes'
    BY <1>13 DEF SnapLock, DataTypes
  <2> QED BY <2>1, <2>2
<1>14. CASE Verify(t)
  <2>1. ControlTypes'
    BY <1>14 DEF Verify
  <2>2. DataTypes'
    BY <1>14 DEF Verify, DataTypes
  <2> QED BY <2>1, <2>2
<1>15. CASE TryLock(t)
  <2>1. ControlTypes'
    BY <1>15 DEF TryLock, Goto, ControlTypes
  <2>2. DataTypes'
    BY <1>15 DEF TryLock, DataTypes
  <2> QED BY <2>1, <2>2
<1>16. CASE Purge(t)
  <2>1. ControlTypes'
    BY <1>16 DEF Purge
  <2>2. DataTypes'
    BY <1>16 DEF Purge, DataTypes
  <2> QED BY <2>1, <2>2
<1>17. CASE SnapUnmap(t)
  <2>1. ControlTypes'
    BY <1>17 DEF SnapUnmap
  <2>2. DataTypes'
    BY <1>17 DEF SnapUnmap, DataTypes
  <2> QED BY <2>1, <2>2
<1>18. CASE Launch(t)
  <2>1. ControlTypes'
    BY <1>18 DEF Launch
  <2>2. DataTypes'
    BY <1>18 DEF Launch, DataTypes
  <2> QED BY <2>1, <2>2
<1>19. CASE Booted(t)
  <2>1. ControlTypes'
    BY <1>19 DEF Booted, Goto, ControlTypes
  <2>2. DataTypes'
    BY <1>19 DEF Booted, DataTypes
  <2> QED BY <2>1, <2>2
<1>20. CASE BootFailed(t)
  <2>1. ControlTypes'
    BY <1>20 DEF BootFailed
  <2>2. PICK v \in CleanupOutcomes : vm' = [vm EXCEPT ![cur[t]] = v]
    BY <1>20 DEF BootFailed
  <2>3. vm' \in [Ids -> VmStates]
    BY <2>2, CleanupOutcomesAre DEF DataTypes
  <2>4. DataTypes'
    BY <1>20, <2>3 DEF BootFailed, DataTypes
  <2> QED BY <2>1, <2>4
<1>21. CASE Unwind(t)
  <2>1. ControlTypes'
    BY <1>21 DEF Unwind, Goto, ControlTypes, locks
  <2>2. DataTypes'
    BY <1>21 DEF Unwind, DataTypes
  <2> QED BY <2>1, <2>2
<1>22. CASE Unwound(t)
  <2>1. ControlTypes'
    BY <1>22 DEF Unwound
  <2>2. DataTypes'
    BY <1>22 DEF Unwound, DataTypes
  <2> QED BY <2>1, <2>2
<1>23. CASE ReplLock(t)
  <2>1. ControlTypes'
    BY <1>23 DEF ReplLock, Goto, ControlTypes
  <2>2. DataTypes'
    BY <1>23 DEF ReplLock, DataTypes
  <2> QED BY <2>1, <2>2
<1>24. CASE Rekey(t)
  <2>1. ControlTypes'
    BY <1>24 DEF Rekey, Goto, DropReplacement, ControlTypes
  <2>2. DataTypes'
    BY <1>24 DEF Rekey, DataTypes
  <2> QED BY <2>1, <2>2
<1>25. CASE Swap(t)
  <2>1. holder' \in [Ids -> Tasks \cup {NoTask}] /\ sholder' = sholder
    BY <1>25 DEF Swap, DropReplacement, ControlTypes
  <2>2. pc' \in [Tasks -> Labels] /\ result' \in [Tasks -> Results]
    BY <1>25 DEF Swap, Goto, ControlTypes
  <2>3. DataTypes'
    BY <1>25 DEF Swap, DataTypes
  <2> QED BY <2>1, <2>2, <2>3 DEF ControlTypes
<1>26. CASE DelRemove(t)
  <2>1. ControlTypes'
    BY <1>26 DEF DelRemove
  <2>2. DataTypes'
    BY <1>26 DEF DelRemove, ControlInv, TaskInv, DataTypes
  <2> QED BY <2>1, <2>2
<1>27. CASE DelLock(t)
  <2>1. ControlTypes'
    BY <1>27 DEF DelLock, Goto, ControlTypes
  <2>2. DataTypes'
    BY <1>27 DEF DelLock, DataTypes
  <2> QED BY <2>1, <2>2
<1>28. CASE Terminate(t)
  <2>1. ControlTypes'
    BY <1>28 DEF Terminate
  <2>2. DataTypes'
    BY <1>28 DEF Terminate, DataTypes
  <2> QED BY <2>1, <2>2
<1>29. CASE Cleanup(t)
  <2> PICK v \in CleanupOutcomes :
        /\ vm' = [vm EXCEPT ![cur[t]] = v]
        /\ state' = [state EXCEPT ![cur[t]] = IF v = "gone" THEN "Deleted" ELSE "Failed"]
    BY <1>29 DEF Cleanup
  <2>1. ControlTypes'
    BY <1>29 DEF Cleanup, Goto, ControlTypes
  <2>2. v \in {"gone", "stopped"}
    BY CleanupOutcomesAre
  <2>3. UNCHANGED <<maps, store, call, locals>>
    BY <1>29 DEF Cleanup
  <2>4. DataTypes'
    BY <2>2, <2>3 DEF DataTypes
  <2> QED BY <2>1, <2>4
<1> QED
  BY <1>1, <1>2, <1>3, <1>4, <1>5, <1>6, <1>7, <1>8, <1>9, <1>10, <1>11, <1>12,
     <1>13, <1>14, <1>15, <1>16, <1>17, <1>18, <1>19, <1>20, <1>21, <1>22, <1>23,
     <1>24, <1>25, <1>26, <1>27, <1>28, <1>29 DEF RtStep, AcquireLock

\* ... and the relation between labels, operations and arguments.
LEMMA ControlStep ==
    ASSUME RtTypeOK, ControlInv, NEW t \in Tasks, RtStep(t)
    PROVE  ControlInv'
<1> USE DEF RtTypeOK, ControlInv, TaskInv, RollbackLaunches, RecordOps, SnapshotLabels,
        Goto, Finish, Continue, maps, host, store, call, locals
<1>1. CASE Lookup(t)
  BY <1>1 DEF Lookup
<1>2. CASE Lock(t)
  BY <1>2 DEF Lock, AllowedStates, AfterLock
<1>3. CASE Pause(t)
  BY <1>3 DEF Pause, PatchOk, PatchFails
<1>4. CASE Resume(t)
  BY <1>4 DEF Resume, PatchOk, PatchFails
<1>5. CASE Reconnect(t)
  BY <1>5 DEF Reconnect
<1>6. CASE SnapPause(t)
  BY <1>6 DEF SnapPause, PatchOk, PatchFails
<1>7. CASE SnapCapture(t)
  BY <1>7 DEF SnapCapture
<1>8. CASE SnapResume(t)
  BY <1>8 DEF SnapResume, SnapResumeFailed, PatchOk, PatchFails
<1>9. CASE SnapReconnect(t)
  BY <1>9 DEF SnapReconnect, SnapResumeFailed
<1>10. CASE SnapPublish(t)
  BY <1>10 DEF SnapPublish
<1>11. CASE SnapInsert(t)
  BY <1>11 DEF SnapInsert
<1>12. CASE SnapLookup(t)
  BY <1>12 DEF SnapLookup
<1>13. CASE SnapLock(t)
  BY <1>13 DEF SnapLock
<1>14. CASE Verify(t)
  BY <1>14 DEF Verify
<1>15. CASE TryLock(t)
  BY <1>15 DEF TryLock
<1>16. CASE Purge(t)
  BY <1>16 DEF Purge
<1>17. CASE SnapUnmap(t)
  BY <1>17 DEF SnapUnmap
<1>18. CASE Launch(t)
  BY <1>18 DEF Launch
<1>19. CASE Booted(t)
  BY <1>19 DEF Booted
<1>20. CASE BootFailed(t)
  BY <1>20 DEF BootFailed
<1>21. CASE Unwind(t)
  BY <1>21 DEF Unwind
<1>22. CASE Unwound(t)
  BY <1>22 DEF Unwound
<1>23. CASE ReplLock(t)
  BY <1>23 DEF ReplLock
<1>24. CASE Rekey(t)
  BY <1>24 DEF Rekey, DropReplacement
<1>25. CASE Swap(t)
  BY <1>25 DEF Swap, DropReplacement
<1>26. CASE DelRemove(t)
  BY <1>26 DEF DelRemove
<1>27. CASE DelLock(t)
  BY <1>27 DEF DelLock
<1>28. CASE Terminate(t)
  BY <1>28 DEF Terminate
<1>29. CASE Cleanup(t)
  BY <1>29 DEF Cleanup
<1> QED
  BY <1>1, <1>2, <1>3, <1>4, <1>5, <1>6, <1>7, <1>8, <1>9, <1>10, <1>11, <1>12,
     <1>13, <1>14, <1>15, <1>16, <1>17, <1>18, <1>19, <1>20, <1>21, <1>22, <1>23,
     <1>24, <1>25, <1>26, <1>27, <1>28, <1>29 DEF RtStep, AcquireLock

\* Firecracker is only asked to pause or resume a VM that is alive.
LEMMA PatchKeepsVms ==
    ASSUME RtInv, NEW t \in Tasks, pc[t] \in DrivesMine, NEW v \in {"running", "paused"},
           PatchOk(mine[t], v) \/ PatchFails(mine[t], v)
    PROVE  /\ vm' \in [Ids -> VmStates]
           /\ \A i \in Ids : /\ vm'[i] = "none" <=> vm[i] = "none"
                             /\ vm'[i] \in {"running", "paused"} <=> Live(i)
<1>1. mine[t] \in Ids /\ Live(mine[t])
  BY DEF RtInv, LockInv, TaskLocks, HostInv
<1> QED
  BY <1>1, Literals DEF PatchOk, PatchFails, Live, RtInv, RtTypeOK

\* ... and who owns which VM.
LEMMA OwnershipStep ==
    ASSUME RtInv, NEW t \in Tasks, RtStep(t)
    PROVE  OwnershipInv'
<1> USE CleanupOutcomesAre, Literals DEF RtInv, RtTypeOK, ControlInv, TaskInv, OwnershipInv,
        RollbackLaunches, HostInv, Goto, Finish, Continue, maps, host, store, call, locals
<1>1. CASE Lookup(t)
  BY <1>1 DEF Lookup
<1>2. CASE Lock(t)
  BY <1>2 DEF Lock, AllowedStates, AfterLock
<1>3. CASE Pause(t)
  <2>1. PatchOk(mine[t], "paused") \/ PatchFails(mine[t], "paused")
    BY <1>3 DEF Pause
  <2>2. pc[t] \in DrivesMine
    BY <1>3 DEF Pause, DrivesMine
  <2>3. \A i \in Ids : vm'[i] = "none" <=> vm[i] = "none"
    BY <2>1, <2>2, PatchKeepsVms
  <2> QED
    BY <1>3, <2>3 DEF Pause
<1>4. CASE Resume(t)
  <2>1. PatchOk(mine[t], "running") \/ PatchFails(mine[t], "running")
    BY <1>4 DEF Resume
  <2>2. pc[t] \in DrivesMine
    BY <1>4 DEF Resume, DrivesMine
  <2>3. \A i \in Ids : vm'[i] = "none" <=> vm[i] = "none"
    BY <2>1, <2>2, PatchKeepsVms
  <2> QED
    BY <1>4, <2>3 DEF Resume
<1>5. CASE Reconnect(t)
  BY <1>5 DEF Reconnect
<1>6. CASE SnapPause(t)
  <2>1. PatchOk(mine[t], "paused") \/ PatchFails(mine[t], "paused")
    BY <1>6 DEF SnapPause
  <2>2. pc[t] \in DrivesMine
    BY <1>6 DEF SnapPause, DrivesMine
  <2>3. \A i \in Ids : vm'[i] = "none" <=> vm[i] = "none"
    BY <2>1, <2>2, PatchKeepsVms
  <2> QED
    BY <1>6, <2>3 DEF SnapPause
<1>7. CASE SnapCapture(t)
  BY <1>7 DEF SnapCapture
<1>8. CASE SnapResume(t)
  <2>1. PatchOk(mine[t], "running") \/ PatchFails(mine[t], "running")
    BY <1>8 DEF SnapResume
  <2>2. pc[t] \in DrivesMine
    BY <1>8 DEF SnapResume, DrivesMine
  <2>3. \A i \in Ids : vm'[i] = "none" <=> vm[i] = "none"
    BY <2>1, <2>2, PatchKeepsVms
  <2> QED
    BY <1>8, <2>3 DEF SnapResume, SnapResumeFailed
<1>9. CASE SnapReconnect(t)
  BY <1>9 DEF SnapReconnect, SnapResumeFailed
<1>10. CASE SnapPublish(t)
  BY <1>10 DEF SnapPublish
<1>11. CASE SnapInsert(t)
  BY <1>11 DEF SnapInsert
<1>12. CASE SnapLookup(t)
  BY <1>12 DEF SnapLookup
<1>13. CASE SnapLock(t)
  BY <1>13 DEF SnapLock
<1>14. CASE Verify(t)
  BY <1>14 DEF Verify
<1>15. CASE TryLock(t)
  BY <1>15 DEF TryLock
<1>16. CASE Purge(t)
  BY <1>16 DEF Purge
<1>17. CASE SnapUnmap(t)
  BY <1>17 DEF SnapUnmap
<1>18. CASE Launch(t)
  BY <1>18 DEF Launch
<1>19. CASE Booted(t)
  BY <1>19 DEF Booted
<1>20. CASE BootFailed(t)
  BY <1>20 DEF BootFailed
<1>21. CASE Unwind(t)
  BY <1>21 DEF Unwind
<1>22. CASE Unwound(t)
  BY <1>22 DEF Unwound
<1>23. CASE ReplLock(t)
  BY <1>23 DEF ReplLock
<1>24. CASE Rekey(t)
  BY <1>24 DEF Rekey, DropReplacement
<1>25. CASE Swap(t)
  <2>1. CASE sandboxes[arg[t]] = mine[t] /\ sandboxes[cur[t]] = cur[t]
    <3>1. op[t] = "rollback" /\ arg[t] \in published /\ launched[t] = {cur[t]}
      BY <1>25 DEF Swap, RecordOps
    <3>2. /\ sandboxes' = [sandboxes EXCEPT ![arg[t]] = cur[t], ![cur[t]] = NoVm]
          /\ launched' = [launched EXCEPT ![t] = {}]
      BY <1>25, <2>1 DEF Swap
    <3>3. ASSUME NEW u \in Tasks, NEW i \in launched'[u]
          PROVE  u # t /\ i \in launched[u] /\ i # arg[t] /\ i # cur[t]
      BY <3>1, <3>2, <3>3
    <3>4. \A u \in Tasks : u # t => pc'[u] = pc[u] /\ cur'[u] = cur[u]
      BY <1>25, <2>1 DEF Swap
    <3>5. \A u \in Tasks : \A i \in launched'[u] :
            vm'[i] # "none" /\ i \notin published' /\
            ((pc'[u] = "boot" /\ i = cur'[u]) \/ sandboxes'[i] = i)
      BY <1>25, <3>2, <3>3, <3>4 DEF Swap
    <3> QED
      BY <1>25, <3>2, <3>5 DEF Swap
  <2>2. CASE ~(sandboxes[arg[t]] = mine[t] /\ sandboxes[cur[t]] = cur[t])
    BY <1>25, <2>2 DEF Swap
  <2> QED BY <2>1, <2>2
<1>26. CASE DelRemove(t)
  BY <1>26 DEF DelRemove
<1>27. CASE DelLock(t)
  BY <1>27 DEF DelLock
<1>28. CASE Terminate(t)
  BY <1>28 DEF Terminate
<1>29. CASE Cleanup(t)
  BY <1>29 DEF Cleanup
<1> QED
  BY <1>1, <1>2, <1>3, <1>4, <1>5, <1>6, <1>7, <1>8, <1>9, <1>10, <1>11, <1>12,
     <1>13, <1>14, <1>15, <1>16, <1>17, <1>18, <1>19, <1>20, <1>21, <1>22, <1>23,
     <1>24, <1>25, <1>26, <1>27, <1>28, <1>29 DEF RtStep, AcquireLock

\* ... and the guards.
LEMMA LockStep ==
    ASSUME RtInv, NEW t \in Tasks, RtStep(t)
    PROVE  LockInv'
<1> USE ConstantsAssumption DEF RtInv, RtTypeOK, ControlInv, TaskInv, LockInv, TaskLocks,
        RollbackLaunches, DropGuards, locks, DrivesMine, Goto, Finish, Continue, maps, host,
        store, call, locals
<1>1. CASE Lookup(t)
  BY <1>1 DEF Lookup, RecordOps, SnapshotLabels
<1>2. CASE Lock(t)
  BY <1>2 DEF Lock, AllowedStates, AfterLock, RecordOps, SnapshotLabels
<1>3. CASE Pause(t)
  BY <1>3, SMTT(60) DEF Pause, PatchOk, PatchFails, RecordOps, SnapshotLabels
<1>4. CASE Resume(t)
  BY <1>4 DEF Resume, PatchOk, PatchFails, RecordOps, SnapshotLabels
<1>5. CASE Reconnect(t)
  BY <1>5 DEF Reconnect, RecordOps, SnapshotLabels
<1>6. CASE SnapPause(t)
  BY <1>6 DEF SnapPause, PatchOk, PatchFails, RecordOps, SnapshotLabels
<1>7. CASE SnapCapture(t)
  BY <1>7 DEF SnapCapture, RecordOps, SnapshotLabels
<1>8. CASE SnapResume(t)
  BY <1>8 DEF SnapResume, SnapResumeFailed, PatchOk, PatchFails, RecordOps, SnapshotLabels
<1>9. CASE SnapReconnect(t)
  BY <1>9 DEF SnapReconnect, SnapResumeFailed, RecordOps, SnapshotLabels
<1>10. CASE SnapPublish(t)
  BY <1>10 DEF SnapPublish, RecordOps, SnapshotLabels
<1>11. CASE SnapInsert(t)
  BY <1>11 DEF SnapInsert, RecordOps, SnapshotLabels
<1>12. CASE SnapLookup(t)
  BY <1>12 DEF SnapLookup, RecordOps, SnapshotLabels
<1>13. CASE SnapLock(t)
  BY <1>13 DEF SnapLock, RecordOps, SnapshotLabels
<1>14. CASE Verify(t)
  BY <1>14 DEF Verify, RecordOps, SnapshotLabels
<1>15. CASE TryLock(t)
  BY <1>15 DEF TryLock, RecordOps, SnapshotLabels
<1>16. CASE Purge(t)
  BY <1>16 DEF Purge, RecordOps, SnapshotLabels
<1>17. CASE SnapUnmap(t)
  BY <1>17 DEF SnapUnmap, RecordOps, SnapshotLabels
<1>18. CASE Launch(t)
  BY <1>18 DEF Launch, RecordOps, SnapshotLabels
<1>19. CASE Booted(t)
  BY <1>19 DEF Booted, RecordOps, SnapshotLabels
<1>20. CASE BootFailed(t)
  BY <1>20 DEF BootFailed, RecordOps, SnapshotLabels
<1>21. CASE Unwind(t)
  BY <1>21 DEF Unwind, RecordOps, SnapshotLabels
<1>22. CASE Unwound(t)
  BY <1>22 DEF Unwound, RecordOps, SnapshotLabels
<1>23. CASE ReplLock(t)
  BY <1>23 DEF ReplLock, RecordOps, SnapshotLabels
<1>24. CASE Rekey(t)
  BY <1>24 DEF Rekey, DropReplacement, RecordOps, SnapshotLabels
<1>25. CASE Swap(t)
  BY <1>25 DEF Swap, DropReplacement, RecordOps, SnapshotLabels
<1>26. CASE DelRemove(t)
  BY <1>26 DEF DelRemove, RecordOps, SnapshotLabels
<1>27. CASE DelLock(t)
  BY <1>27 DEF DelLock, HostInv, RecordOps, SnapshotLabels
<1>28. CASE Terminate(t)
  BY <1>28 DEF Terminate, RecordOps, SnapshotLabels
<1>29. CASE Cleanup(t)
  BY <1>29 DEF Cleanup, RecordOps, SnapshotLabels
<1> QED
  BY <1>1, <1>2, <1>3, <1>4, <1>5, <1>6, <1>7, <1>8, <1>9, <1>10, <1>11, <1>12,
     <1>13, <1>14, <1>15, <1>16, <1>17, <1>18, <1>19, <1>20, <1>21, <1>22, <1>23,
     <1>24, <1>25, <1>26, <1>27, <1>28, <1>29 DEF RtStep, AcquireLock

\* ... and records and VMs agree.
LEMMA HostStep ==
    ASSUME RtInv, NEW t \in Tasks, RtStep(t)
    PROVE  HostInv'
<1> USE CleanupOutcomesAre, ConstantsAssumption DEF RtInv, RtTypeOK, ControlInv, TaskInv,
        OwnershipInv, LockInv, TaskLocks, HostInv, DrivesMine, Live, Goto, Finish, Continue,
        maps, host, store, call, locals
<1>1. CASE Lookup(t)
  BY <1>1 DEF Lookup
<1>2. CASE Lock(t)
  <2>1. UNCHANGED <<sandboxes, state, vm, cur>>
    BY <1>2 DEF Lock
  <2>2. pc'[t] \notin {"boot", "del_lock", "terminate", "cleanup"}
    BY <1>2 DEF Lock, AfterLock, RecordOps
  <2>3. \A u \in Tasks : u # t => pc'[u] = pc[u]
    BY <1>2 DEF Lock
  <2> QED
    BY <2>1, <2>2, <2>3
<1>3. CASE Pause(t)
  <2>1. PatchOk(mine[t], "paused") \/ PatchFails(mine[t], "paused")
    BY <1>3 DEF Pause
  <2>2. pc[t] \in DrivesMine
    BY <1>3 DEF Pause
  <2>3. \A i \in Ids : /\ vm'[i] = "none" <=> vm[i] = "none"
                       /\ vm'[i] \in {"running", "paused"} <=> Live(i)
    BY <2>1, <2>2, PatchKeepsVms
  <2>4. mine[t] \in Ids /\ state[mine[t]] \in {"Running", "Paused"}
    BY <2>2
  <2>5. state' = state \/ state' = [state EXCEPT ![mine[t]] = "Paused"]
    BY <1>3 DEF Pause
  <2>6. UNCHANGED <<sandboxes, cur>> /\ pc' = [pc EXCEPT ![t] = "done"]
    BY <1>3 DEF Pause
  <2> QED
    BY <2>3, <2>4, <2>5, <2>6
<1>4. CASE Resume(t)
  <2>1. PatchOk(mine[t], "running") \/ PatchFails(mine[t], "running")
    BY <1>4 DEF Resume
  <2>2. pc[t] \in DrivesMine
    BY <1>4 DEF Resume
  <2>3. \A i \in Ids : /\ vm'[i] = "none" <=> vm[i] = "none"
                       /\ vm'[i] \in {"running", "paused"} <=> Live(i)
    BY <2>1, <2>2, PatchKeepsVms
  <2>4. mine[t] \in Ids /\ state[mine[t]] \in {"Running", "Paused"}
    BY <2>2
  <2>5. state' = state \/ state' = [state EXCEPT ![mine[t]] = "Running"]
    BY <1>4 DEF Resume
  <2>6. /\ UNCHANGED <<sandboxes, cur>>
        /\ pc' = [pc EXCEPT ![t] = "reconnect"] \/ pc' = [pc EXCEPT ![t] = "done"]
    BY <1>4 DEF Resume
  <2> QED
    BY <2>3, <2>4, <2>5, <2>6
<1>5. CASE Reconnect(t)
  BY <1>5 DEF Reconnect
<1>6. CASE SnapPause(t)
  <2>1. PatchOk(mine[t], "paused") \/ PatchFails(mine[t], "paused")
    BY <1>6 DEF SnapPause
  <2>2. pc[t] \in DrivesMine
    BY <1>6 DEF SnapPause
  <2>3. \A i \in Ids : /\ vm'[i] = "none" <=> vm[i] = "none"
                       /\ vm'[i] \in {"running", "paused"} <=> Live(i)
    BY <2>1, <2>2, PatchKeepsVms
  <2>4. mine[t] \in Ids /\ state[mine[t]] \in {"Running", "Paused"}
    BY <2>2
  <2>5. state' = state \/ state' = [state EXCEPT ![mine[t]] = "Paused"]
    BY <1>6 DEF SnapPause
  <2>6. /\ UNCHANGED <<sandboxes, cur>>
        /\ pc' = [pc EXCEPT ![t] = "snap_capture"] \/ pc' = [pc EXCEPT ![t] = "done"]
    BY <1>6 DEF SnapPause
  <2> QED
    BY <2>3, <2>4, <2>5, <2>6
<1>7. CASE SnapCapture(t)
  BY <1>7 DEF SnapCapture
<1>8. CASE SnapResume(t)
  <2>1. PatchOk(mine[t], "running") \/ PatchFails(mine[t], "running")
    BY <1>8 DEF SnapResume
  <2>2. pc[t] \in DrivesMine
    BY <1>8 DEF SnapResume
  <2>3. \A i \in Ids : /\ vm'[i] = "none" <=> vm[i] = "none"
                       /\ vm'[i] \in {"running", "paused"} <=> Live(i)
    BY <2>1, <2>2, PatchKeepsVms
  <2>4. mine[t] \in Ids /\ state[mine[t]] \in {"Running", "Paused"}
    BY <2>2
  <2>5. state' = state \/ state' = [state EXCEPT ![mine[t]] = "Failed"]
    BY <1>8 DEF SnapResume, SnapResumeFailed
  <2>6. /\ UNCHANGED <<sandboxes, cur>>
        /\ pc' = [pc EXCEPT ![t] = "snap_reconnect"] \/ pc' = [pc EXCEPT ![t] = "done"]
    BY <1>8 DEF SnapResume, SnapResumeFailed
  <2> QED
    BY <2>3, <2>4, <2>5, <2>6
<1>9. CASE SnapReconnect(t)
  BY <1>9 DEF SnapReconnect, SnapResumeFailed
<1>10. CASE SnapPublish(t)
  BY <1>10 DEF SnapPublish
<1>11. CASE SnapInsert(t)
  BY <1>11 DEF SnapInsert
<1>12. CASE SnapLookup(t)
  BY <1>12 DEF SnapLookup
<1>13. CASE SnapLock(t)
  BY <1>13 DEF SnapLock
<1>14. CASE Verify(t)
  BY <1>14 DEF Verify
<1>15. CASE TryLock(t)
  BY <1>15 DEF TryLock
<1>16. CASE Purge(t)
  BY <1>16 DEF Purge
<1>17. CASE SnapUnmap(t)
  BY <1>17 DEF SnapUnmap
<1>18. CASE Launch(t)
  BY <1>18 DEF Launch
<1>19. CASE Booted(t)
  BY <1>19 DEF Booted
<1>20. CASE BootFailed(t)
  BY <1>20 DEF BootFailed
<1>21. CASE Unwind(t)
  BY <1>21, SMTT(60) DEF Unwind
<1>22. CASE Unwound(t)
  BY <1>22 DEF Unwound
<1>23. CASE ReplLock(t)
  BY <1>23 DEF ReplLock
<1>24. CASE Rekey(t)
  BY <1>24 DEF Rekey, DropReplacement
<1>25. CASE Swap(t)
  <2>1. CASE sandboxes[arg[t]] = mine[t] /\ sandboxes[cur[t]] = cur[t]
    <3>1. arg[t] \in Ids /\ mine[t] \in Ids /\ cur[t] \in Ids
      BY <1>25 DEF Swap, RecordOps
    <3>2. /\ sandboxes' = [sandboxes EXCEPT ![arg[t]] = cur[t], ![cur[t]] = NoVm]
          /\ cur' = [cur EXCEPT ![t] = mine[t]]
          /\ pc' = [pc EXCEPT ![t] = "terminate"]
          /\ UNCHANGED <<state, vm>>
      BY <1>25, <2>1 DEF Swap
    <3>3. state[mine[t]] # "Creating" /\ state[cur[t]] # "Creating"
      BY <2>1, <3>1
    <3> QED
      BY <3>1, <3>2, <3>3
  <2>2. CASE ~(sandboxes[arg[t]] = mine[t] /\ sandboxes[cur[t]] = cur[t])
    BY <1>25, <2>2 DEF Swap
  <2> QED BY <2>1, <2>2
<1>26. CASE DelRemove(t)
  <2>1. arg[t] \in Ids
    BY <1>26 DEF DelRemove
  <2>2. CASE sandboxes[arg[t]] = NoVm
    BY <1>26, <2>2 DEF DelRemove
  <2>3. CASE sandboxes[arg[t]] # NoVm
    <3>1. /\ cur' = [cur EXCEPT ![t] = sandboxes[arg[t]]]
          /\ sandboxes' = [sandboxes EXCEPT ![arg[t]] = NoVm]
          /\ pc' = [pc EXCEPT ![t] = "del_lock"]
          /\ UNCHANGED <<state, vm>>
      BY <1>26, <2>3 DEF DelRemove
    <3> QED
      BY <2>1, <2>3, <3>1
  <2> QED BY <2>2, <2>3
<1>27. CASE DelLock(t)
  BY <1>27 DEF DelLock
<1>28. CASE Terminate(t)
  BY <1>28 DEF Terminate
<1>29. CASE Cleanup(t)
  BY <1>29 DEF Cleanup
<1> QED
  BY <1>1, <1>2, <1>3, <1>4, <1>5, <1>6, <1>7, <1>8, <1>9, <1>10, <1>11, <1>12,
     <1>13, <1>14, <1>15, <1>16, <1>17, <1>18, <1>19, <1>20, <1>21, <1>22, <1>23,
     <1>24, <1>25, <1>26, <1>27, <1>28, <1>29 DEF RtStep, AcquireLock

\* A step that neither changes who owns a VM nor revives one.
LEMMA OrphanFree ==
    ASSUME NoOrphanVm, UNCHANGED published,
           \A k \in published : sandboxes'[k] = sandboxes[k],
           \A u \in Tasks : Owned(u) \subseteq Owned(u)',
           \A i \in Ids : Live(i)' => Live(i)
    PROVE  NoOrphanVm'
BY DEF NoOrphanVm

\* ... and no VM is orphaned.
LEMMA OrphanStep ==
    ASSUME RtInv, NoOrphanVm, NEW t \in Tasks, RtStep(t)
    PROVE  NoOrphanVm'
<1> USE DEF RtInv, RtTypeOK, Goto, Finish, Continue, maps, host, store, call, locals
<1>1. CASE Lookup(t)
  <2>1. UNCHANGED <<sandboxes, published, launched, vm>>
    BY <1>1 DEF Lookup
  <2>2. \A u \in Tasks : Owned(u) \subseteq Owned(u)'
    BY <1>1 DEF Lookup, Owned
  <2> QED BY <2>1, <2>2, OrphanFree DEF Live
<1>2. CASE Lock(t)
  <2>1. UNCHANGED <<sandboxes, published, launched, vm>>
    BY <1>2 DEF Lock, AfterLock
  <2>2. \A u \in Tasks : Owned(u) \subseteq Owned(u)'
    BY <1>2 DEF Lock, AfterLock, Owned
  <2> QED BY <2>1, <2>2, OrphanFree DEF Live
<1>3. CASE Pause(t)
  <2>1. PatchOk(mine[t], "paused") \/ PatchFails(mine[t], "paused")
    BY <1>3 DEF Pause
  <2>2. pc[t] \in DrivesMine
    BY <1>3 DEF Pause, DrivesMine
  <2>3. \A i \in Ids : Live(i)' => Live(i)
    BY <2>1, <2>2, PatchKeepsVms DEF Live
  <2>4. UNCHANGED <<sandboxes, published, launched>>
    BY <1>3 DEF Pause
  <2>5. \A u \in Tasks : Owned(u) \subseteq Owned(u)'
    BY <1>3 DEF Pause, Owned
  <2> QED BY <2>3, <2>4, <2>5, OrphanFree
<1>4. CASE Resume(t)
  <2>1. PatchOk(mine[t], "running") \/ PatchFails(mine[t], "running")
    BY <1>4 DEF Resume
  <2>2. pc[t] \in DrivesMine
    BY <1>4 DEF Resume, DrivesMine
  <2>3. \A i \in Ids : Live(i)' => Live(i)
    BY <2>1, <2>2, PatchKeepsVms DEF Live
  <2>4. UNCHANGED <<sandboxes, published, launched>>
    BY <1>4 DEF Resume
  <2>5. \A u \in Tasks : Owned(u) \subseteq Owned(u)'
    BY <1>4 DEF Resume, Owned
  <2> QED BY <2>3, <2>4, <2>5, OrphanFree
<1>5. CASE Reconnect(t)
  <2>1. UNCHANGED <<sandboxes, published, launched, vm>>
    BY <1>5 DEF Reconnect
  <2>2. \A u \in Tasks : Owned(u) \subseteq Owned(u)'
    BY <1>5 DEF Reconnect, Owned
  <2> QED BY <2>1, <2>2, OrphanFree DEF Live
<1>6. CASE SnapPause(t)
  <2>1. PatchOk(mine[t], "paused") \/ PatchFails(mine[t], "paused")
    BY <1>6 DEF SnapPause
  <2>2. pc[t] \in DrivesMine
    BY <1>6 DEF SnapPause, DrivesMine
  <2>3. \A i \in Ids : Live(i)' => Live(i)
    BY <2>1, <2>2, PatchKeepsVms DEF Live
  <2>4. UNCHANGED <<sandboxes, published, launched>>
    BY <1>6 DEF SnapPause
  <2>5. \A u \in Tasks : Owned(u) \subseteq Owned(u)'
    BY <1>6 DEF SnapPause, Owned
  <2> QED BY <2>3, <2>4, <2>5, OrphanFree
<1>7. CASE SnapCapture(t)
  <2>1. UNCHANGED <<sandboxes, published, launched, vm>>
    BY <1>7 DEF SnapCapture
  <2>2. \A u \in Tasks : Owned(u) \subseteq Owned(u)'
    BY <1>7 DEF SnapCapture, Owned
  <2> QED BY <2>1, <2>2, OrphanFree DEF Live
<1>8. CASE SnapResume(t)
  <2>1. PatchOk(mine[t], "running") \/ PatchFails(mine[t], "running")
    BY <1>8 DEF SnapResume
  <2>2. pc[t] \in DrivesMine
    BY <1>8 DEF SnapResume, DrivesMine
  <2>3. \A i \in Ids : Live(i)' => Live(i)
    BY <2>1, <2>2, PatchKeepsVms DEF Live
  <2>4. UNCHANGED <<sandboxes, published, launched>>
    BY <1>8 DEF SnapResume, SnapResumeFailed
  <2>5. \A u \in Tasks : Owned(u) \subseteq Owned(u)'
    BY <1>8 DEF SnapResume, SnapResumeFailed, Owned
  <2> QED BY <2>3, <2>4, <2>5, OrphanFree
<1>9. CASE SnapReconnect(t)
  <2>1. UNCHANGED <<sandboxes, published, launched, vm>>
    BY <1>9 DEF SnapReconnect, SnapResumeFailed
  <2>2. \A u \in Tasks : Owned(u) \subseteq Owned(u)'
    BY <1>9 DEF SnapReconnect, SnapResumeFailed, Owned
  <2> QED BY <2>1, <2>2, OrphanFree DEF Live
<1>10. CASE SnapPublish(t)
  <2>1. UNCHANGED <<sandboxes, published, launched, vm>>
    BY <1>10 DEF SnapPublish
  <2>2. \A u \in Tasks : Owned(u) \subseteq Owned(u)'
    BY <1>10 DEF SnapPublish, Owned
  <2> QED BY <2>1, <2>2, OrphanFree DEF Live
<1>11. CASE SnapInsert(t)
  <2>1. UNCHANGED <<sandboxes, published, launched, vm>>
    BY <1>11 DEF SnapInsert
  <2>2. \A u \in Tasks : Owned(u) \subseteq Owned(u)'
    BY <1>11 DEF SnapInsert, Owned
  <2> QED BY <2>1, <2>2, OrphanFree DEF Live
<1>12. CASE SnapLookup(t)
  <2>1. UNCHANGED <<sandboxes, published, launched, vm>>
    BY <1>12 DEF SnapLookup
  <2>2. \A u \in Tasks : Owned(u) \subseteq Owned(u)'
    BY <1>12 DEF SnapLookup, Owned
  <2> QED BY <2>1, <2>2, OrphanFree DEF Live
<1>13. CASE SnapLock(t)
  <2>1. UNCHANGED <<sandboxes, published, launched, vm>>
    BY <1>13 DEF SnapLock
  <2>2. \A u \in Tasks : Owned(u) \subseteq Owned(u)'
    BY <1>13 DEF SnapLock, Owned
  <2> QED BY <2>1, <2>2, OrphanFree DEF Live
<1>14. CASE Verify(t)
  <2>1. UNCHANGED <<sandboxes, published, launched, vm>>
    BY <1>14 DEF Verify
  <2>2. \A u \in Tasks : Owned(u) \subseteq Owned(u)'
    BY <1>14 DEF Verify, Owned
  <2> QED BY <2>1, <2>2, OrphanFree DEF Live
<1>15. CASE TryLock(t)
  <2>1. UNCHANGED <<sandboxes, published, launched, vm>>
    BY <1>15 DEF TryLock
  <2>2. \A u \in Tasks : Owned(u) \subseteq Owned(u)'
    BY <1>15 DEF TryLock, Owned
  <2> QED BY <2>1, <2>2, OrphanFree DEF Live
<1>16. CASE Purge(t)
  <2>1. UNCHANGED <<sandboxes, published, launched, vm>>
    BY <1>16 DEF Purge
  <2>2. \A u \in Tasks : Owned(u) \subseteq Owned(u)'
    BY <1>16 DEF Purge, Owned
  <2> QED BY <2>1, <2>2, OrphanFree DEF Live
<1>17. CASE SnapUnmap(t)
  <2>1. UNCHANGED <<sandboxes, published, launched, vm>>
    BY <1>17 DEF SnapUnmap
  <2>2. \A u \in Tasks : Owned(u) \subseteq Owned(u)'
    BY <1>17 DEF SnapUnmap, Owned
  <2> QED BY <2>1, <2>2, OrphanFree DEF Live
<1>18. CASE Launch(t)
  BY <1>18, SMTT(60) DEF Launch, NoOrphanVm, Owned, Live, ControlInv, TaskInv, OwnershipInv,
     RollbackLaunches, RecordOps
<1>19. CASE Booted(t)
  <2>1. /\ UNCHANGED <<launched, vm, published, cur>>
        /\ sandboxes' = [sandboxes EXCEPT ![cur[t]] = cur[t]]
        /\ pc[t] = "boot"
        /\ \A u \in Tasks : u # t => pc'[u] = pc[u]
    BY <1>19 DEF Booted
  <2>2. cur[t] \in launched[t] /\ cur[t] \notin published
    BY <2>1 DEF ControlInv, TaskInv, OwnershipInv
  <2>3. \A k \in published : sandboxes'[k] = sandboxes[k]
    BY <2>1, <2>2
  <2>4. \A u \in Tasks : Owned(u) \subseteq Owned(u)'
    BY <2>1 DEF Owned
  <2> QED BY <2>1, <2>3, <2>4, OrphanFree DEF Live
<1>20. CASE BootFailed(t)
  <2>1. PICK v \in CleanupOutcomes : vm' = [vm EXCEPT ![cur[t]] = v]
    BY <1>20 DEF BootFailed
  <2>2. /\ UNCHANGED <<sandboxes, published, cur>>
        /\ launched' = [launched EXCEPT ![t] = @ \ {cur[t]}]
        /\ pc[t] = "boot" /\ \A u \in Tasks : u # t => pc'[u] = pc[u]
    BY <1>20 DEF BootFailed
  <2>3. cur[t] \in Ids
    BY <2>2 DEF ControlInv, TaskInv
  <2>4. \A i \in Ids : vm'[i] \in {"running", "paused"} => i # cur[t] /\ vm'[i] = vm[i]
    BY <2>1, <2>3, CleanupOutcomesAre
  <2>5. \A u \in Tasks : \A i \in Owned(u) : i # cur[t] => i \in Owned(u)'
    BY <2>2 DEF Owned
  <2> QED BY <2>2, <2>4, <2>5 DEF NoOrphanVm, Live
<1>21. CASE Unwind(t)
  <2>1. PICK i \in launched[t] :
          /\ sandboxes' = [sandboxes EXCEPT ![i] = NoVm]
          /\ cur' = [cur EXCEPT ![t] = sandboxes[i]]
          /\ launched' = [launched EXCEPT ![t] = @ \ {i}]
    BY <1>21 DEF Unwind
  <2>2. /\ UNCHANGED <<published, vm>> /\ pc[t] = "unwind" /\ pc'[t] = "del_lock"
        /\ \A u \in Tasks : u # t => pc'[u] = pc[u]
    BY <1>21 DEF Unwind
  <2>3. sandboxes[i] = i /\ i \notin published
    BY <2>1, <2>2 DEF OwnershipInv
  <2>4. \A k \in published : sandboxes'[k] = sandboxes[k]
    BY <2>1, <2>3
  <2>5. Owned(t) \subseteq Owned(t)'
    BY <2>1, <2>2, <2>3 DEF Owned
  <2>6. \A u \in Tasks : Owned(u) \subseteq Owned(u)'
    BY <2>1, <2>2, <2>5 DEF Owned
  <2> QED BY <2>2, <2>4, <2>6, OrphanFree DEF Live
<1>22. CASE Unwound(t)
  <2>1. UNCHANGED <<sandboxes, published, launched, vm>>
    BY <1>22 DEF Unwound
  <2>2. \A u \in Tasks : Owned(u) \subseteq Owned(u)'
    BY <1>22 DEF Unwound, Owned
  <2> QED BY <2>1, <2>2, OrphanFree DEF Live
<1>23. CASE ReplLock(t)
  <2>1. UNCHANGED <<sandboxes, published, launched, vm>>
    BY <1>23 DEF ReplLock
  <2>2. \A u \in Tasks : Owned(u) \subseteq Owned(u)'
    BY <1>23 DEF ReplLock, Owned
  <2> QED BY <2>1, <2>2, OrphanFree DEF Live
<1>24. CASE Rekey(t)
  <2>1. UNCHANGED <<sandboxes, published, launched, vm>>
    BY <1>24 DEF Rekey
  <2>2. \A u \in Tasks : Owned(u) \subseteq Owned(u)'
    BY <1>24 DEF Rekey, Owned
  <2> QED BY <2>1, <2>2, OrphanFree DEF Live
<1>25. CASE Swap(t)
  <2>1. CASE UNCHANGED <<sandboxes, launched, cur>>
    <3>1. /\ UNCHANGED <<published, vm>> /\ pc[t] = "swap"
          /\ \A u \in Tasks : u # t => pc'[u] = pc[u]
      BY <1>25 DEF Swap
    <3>2. \A u \in Tasks : Owned(u) \subseteq Owned(u)'
      BY <2>1, <3>1 DEF Owned
    <3> QED BY <2>1, <3>1, <3>2, OrphanFree DEF Live
  <2>2. CASE ~UNCHANGED <<sandboxes, launched, cur>>
    <3>1. /\ sandboxes[arg[t]] = mine[t]
          /\ sandboxes' = [sandboxes EXCEPT ![arg[t]] = cur[t], ![cur[t]] = NoVm]
          /\ launched' = [launched EXCEPT ![t] = {}]
          /\ cur' = [cur EXCEPT ![t] = mine[t]]
          /\ pc' = [pc EXCEPT ![t] = "terminate"]
          /\ UNCHANGED <<published, vm>> /\ pc[t] = "swap"
      BY <1>25, <2>2 DEF Swap
    <3>2. /\ arg[t] \in published /\ launched[t] = {cur[t]}
          /\ cur[t] \notin published /\ cur[t] \in Ids
      BY <3>1 DEF ControlInv, TaskInv, RollbackLaunches, OwnershipInv, RecordOps
    <3>3. sandboxes'[arg[t]] = cur[t] /\ mine[t] \in Owned(t)'
      BY <3>1, <3>2 DEF Owned
    <3>4. \A k \in published : k # arg[t] => sandboxes'[k] = sandboxes[k]
      BY <3>1, <3>2
    <3>5. \A u \in Tasks : u # t => Owned(u)' = Owned(u)
      BY <3>1 DEF Owned
    <3>6. Owned(t) = {cur[t]}
      BY <3>1, <3>2 DEF Owned
    <3>7. SUFFICES ASSUME NEW i \in Ids, Live(i)
                   PROVE  \/ \E k \in published : sandboxes'[k] = i
                          \/ \E u \in Tasks : i \in Owned(u)'
      BY <3>1 DEF NoOrphanVm, Live
    <3>8. CASE \E k \in published : sandboxes[k] = i
      BY <3>8, <3>1, <3>3, <3>4
    <3>9. CASE \E u \in Tasks : i \in Owned(u)
      BY <3>9, <3>2, <3>3, <3>5, <3>6
    <3> QED BY <3>7, <3>8, <3>9 DEF NoOrphanVm
  <2> QED BY <2>1, <2>2
<1>26. CASE DelRemove(t)
  <2>1. CASE UNCHANGED <<sandboxes, cur>>
    <3>1. /\ UNCHANGED <<published, vm, launched>> /\ pc[t] = "del_remove"
          /\ \A u \in Tasks : u # t => pc'[u] = pc[u]
      BY <1>26 DEF DelRemove
    <3>2. \A u \in Tasks : Owned(u) \subseteq Owned(u)'
      BY <2>1, <3>1 DEF Owned
    <3> QED BY <2>1, <3>1, <3>2, OrphanFree DEF Live
  <2>2. CASE ~UNCHANGED <<sandboxes, cur>>
    <3>1. /\ cur' = [cur EXCEPT ![t] = sandboxes[arg[t]]]
          /\ sandboxes' = [sandboxes EXCEPT ![arg[t]] = NoVm]
          /\ pc' = [pc EXCEPT ![t] = "del_lock"]
          /\ UNCHANGED <<published, vm, launched>> /\ pc[t] = "del_remove"
      BY <1>26, <2>2 DEF DelRemove
    <3>2. sandboxes[arg[t]] \in Owned(t)'
      BY <3>1 DEF Owned
    <3>3. \A k \in published : k # arg[t] => sandboxes'[k] = sandboxes[k]
      BY <3>1
    <3>4. \A u \in Tasks : Owned(u) \subseteq Owned(u)'
      BY <3>1 DEF Owned
    <3>5. SUFFICES ASSUME NEW i \in Ids, Live(i)
                   PROVE  \/ \E k \in published : sandboxes'[k] = i
                          \/ \E u \in Tasks : i \in Owned(u)'
      BY <3>1 DEF NoOrphanVm, Live
    <3>6. CASE \E k \in published : sandboxes[k] = i
      BY <3>6, <3>2, <3>3
    <3>7. CASE \E u \in Tasks : i \in Owned(u)
      BY <3>7, <3>4
    <3> QED BY <3>5, <3>6, <3>7 DEF NoOrphanVm
  <2> QED BY <2>1, <2>2
<1>27. CASE DelLock(t)
  <2>1. UNCHANGED <<sandboxes, published, launched, vm>>
    BY <1>27 DEF DelLock
  <2>2. \A u \in Tasks : Owned(u) \subseteq Owned(u)'
    BY <1>27 DEF DelLock, Owned
  <2> QED BY <2>1, <2>2, OrphanFree DEF Live
<1>28. CASE Terminate(t)
  BY <1>28 DEF Terminate, NoOrphanVm, Owned, Live, ControlInv, TaskInv,
     OwnershipInv, RollbackLaunches, RecordOps
<1>29. CASE Cleanup(t)
  <2>1. PICK v \in CleanupOutcomes : vm' = [vm EXCEPT ![cur[t]] = v]
    BY <1>29 DEF Cleanup
  <2>2. /\ UNCHANGED <<sandboxes, published, cur, launched>>
        /\ pc[t] = "cleanup" /\ \A u \in Tasks : u # t => pc'[u] = pc[u]
    BY <1>29 DEF Cleanup
  <2>3. cur[t] \in Ids
    BY <2>2 DEF HostInv
  <2>4. \A i \in Ids : vm'[i] \in {"running", "paused"} => vm'[i] = vm[i]
    BY <2>1, <2>3, CleanupOutcomesAre
  <2>5. \A u \in Tasks : Owned(u) \subseteq Owned(u)'
    BY <2>2 DEF Owned
  <2> QED BY <2>2, <2>4, <2>5, OrphanFree DEF Live
<1> QED
  BY <1>1, <1>2, <1>3, <1>4, <1>5, <1>6, <1>7, <1>8, <1>9, <1>10, <1>11, <1>12,
     <1>13, <1>14, <1>15, <1>16, <1>17, <1>18, <1>19, <1>20, <1>21, <1>22, <1>23,
     <1>24, <1>25, <1>26, <1>27, <1>28, <1>29 DEF RtStep, AcquireLock
-----------------------------------------------------------------------------
(***************************************************************************)
(* The callers.  However a call starts, it names ids its caller was given  *)
(* and draws ids no VM and no other call has.                              *)
(***************************************************************************)
WellFormedCall(t, o, i, s, F) ==
    /\ RtCall(t, o, i, s, F)
    /\ F \subseteq Unreserved
    /\ o \in RecordOps \cup {"delete"} => i \in published
    /\ o \in SnapshotOps \cup {"snapshot", "rollback"} => s \in Snaps
    /\ o = "snapshot" => /\ artifact[s] = "none"
                         /\ artifact' = [artifact EXCEPT ![s] = "reserved"]
    /\ o # "snapshot" => UNCHANGED artifact

\* Every action of the callers is a return or a well-formed call.
LEMMA CallsAreWellFormed ==
    ASSUME RtTypeOK, NEW t \in Tasks, RtEnv(t)
    PROVE  \/ RtReturn(t)
           \/ \E o \in Ops, i \in Ids \cup {NoVm}, s \in Snaps \cup {NoSnap}, F \in SUBSET Ids :
                 WellFormedCall(t, o, i, s, F)
<1> USE DEF RtTypeOK, WellFormedCall, Ops, RecordOps, SnapshotOps
<1>1. CASE CallCreate(t)
  <2>1. PICK i \in Unreserved : RtCall(t, "create", NoVm, NoSnap, {i}) /\ UNCHANGED artifact
    BY <1>1 DEF CallCreate
  <2>2. WellFormedCall(t, "create", NoVm, NoSnap, {i}) /\ {i} \in SUBSET Ids
    BY <2>1 DEF Unreserved
  <2> QED BY <2>2
<1>2. CASE \E i \in published, o \in {"pause", "resume", "delete"} : CallOnRecord(t, o, i)
  <2>1. PICK i \in published, o \in {"pause", "resume", "delete"} : CallOnRecord(t, o, i)
    BY <1>2
  <2>2. WellFormedCall(t, o, i, NoSnap, {}) /\ {} \in SUBSET Ids
    BY <2>1 DEF CallOnRecord
  <2> QED BY <2>2
<1>3. CASE \E i \in published : CallSnapshot(t, i)
  <2>1. PICK i \in published : CallSnapshot(t, i)
    BY <1>3
  <2>2. PICK s \in Snaps :
          /\ artifact[s] = "none"
          /\ RtCall(t, "snapshot", i, s, {})
          /\ artifact' = [artifact EXCEPT ![s] = "reserved"]
    BY <2>1 DEF CallSnapshot
  <2>3. WellFormedCall(t, "snapshot", i, s, {}) /\ {} \in SUBSET Ids
    BY <2>2
  <2> QED BY <2>3
<1>4. CASE \E i \in published, s \in Snaps : CallRollback(t, i, s)
  <2>1. PICK i \in published, s \in Snaps : CallRollback(t, i, s)
    BY <1>4
  <2>2. PICK j \in Unreserved : RtCall(t, "rollback", i, s, {j}) /\ UNCHANGED artifact
    BY <2>1 DEF CallRollback
  <2>3. WellFormedCall(t, "rollback", i, s, {j}) /\ {j} \in SUBSET Ids
    BY <2>2 DEF Unreserved
  <2> QED BY <2>3
<1>5. CASE \E s \in Snaps, F \in CloneSets : CallClone(t, s, F)
  <2>1. PICK s \in Snaps, F \in CloneSets : CallClone(t, s, F)
    BY <1>5
  <2>2. WellFormedCall(t, "clone", NoVm, s, F) /\ F \in SUBSET Ids
    BY <2>1 DEF CallClone, Unreserved
  <2> QED BY <2>2
<1>6. CASE \E s \in Snaps, o \in {"verify", "purge"} : CallOnSnapshot(t, o, s)
  <2>1. PICK s \in Snaps, o \in {"verify", "purge"} : CallOnSnapshot(t, o, s)
    BY <1>6
  <2>2. WellFormedCall(t, o, NoVm, s, {}) /\ {} \in SUBSET Ids
    BY <2>1 DEF CallOnSnapshot
  <2> QED BY <2>2
<1> QED
  BY <1>1, <1>2, <1>3, <1>4, <1>5, <1>6 DEF RtEnv

\* Where each operation of the trait starts.
LEMMA FirstLabels ==
    ASSUME NEW o \in Ops
    PROVE  /\ FirstLabel(o) \in {"launch", "del_remove", "lookup", "snap_lookup"}
           /\ FirstLabel(o) = "lookup" => o \in RecordOps
           /\ FirstLabel(o) = "del_remove" => o = "delete"
           /\ o = "rollback" => FirstLabel(o) = "lookup"
BY DEF FirstLabel, Ops, RecordOps, SnapshotOps

\* A call that starts keeps the invariant, and orphans nothing.
LEMMA CallStep ==
    ASSUME RtInv, NoOrphanVm, NEW t \in Tasks, NEW o \in Ops,
           NEW i \in Ids \cup {NoVm}, NEW s \in Snaps \cup {NoSnap}, NEW F \in SUBSET Ids,
           WellFormedCall(t, o, i, s, F)
    PROVE  RtInv' /\ NoOrphanVm'
<1> USE FirstLabels
    DEF RtInv, WellFormedCall, RtCall, Goto, maps, host, locks
<1>1. RtTypeOK'
  BY Literals DEF RtTypeOK
<1>2. ControlInv'
  BY DEF RtTypeOK, ControlInv, TaskInv, RollbackLaunches, SnapshotLabels, RecordOps
<1>3. OwnershipInv'
  <2>1. todo' = [todo EXCEPT ![t] = F] /\ UNCHANGED <<vm, published, launched, sandboxes, cur>>
    OBVIOUS
  <2>2. \A j \in F : vm[j] = "none" /\ \A u \in Tasks : j \notin todo[u]
    BY DEF Unreserved
  <2>3. launched[t] = {}
    BY DEF ControlInv, TaskInv
  <2>4. \A u \in Tasks : u # t => pc'[u] = pc[u]
    BY DEF RtTypeOK
  <2> QED BY <2>1, <2>2, <2>3, <2>4 DEF OwnershipInv, RtTypeOK
<1>4. LockInv'
  BY DEF RtTypeOK, LockInv, TaskLocks, DrivesMine
<1>5. HostInv'
  BY DEF RtTypeOK, HostInv, Live
<1>6. NoOrphanVm'
  <2>1. \A u \in Tasks : Owned(u) \subseteq Owned(u)'
    BY DEF RtTypeOK, Owned
  <2> QED BY <2>1, OrphanFree DEF Live
<1> QED BY <1>1, <1>2, <1>3, <1>4, <1>5, <1>6

\* A result that is taken hands the VMs the call launched to the caller.
LEMMA ReturnStep ==
    ASSUME RtInv, NoOrphanVm, NEW t \in Tasks, RtReturn(t)
    PROVE  RtInv' /\ NoOrphanVm'
<1> USE DEF RtInv, RtReturn, Goto, host, locks, store
<1>1. RtTypeOK'
  BY Literals, ConstantsAssumption DEF RtTypeOK, Ops
<1>2. ControlInv'
  BY DEF RtTypeOK, ControlInv, TaskInv, RollbackLaunches, SnapshotLabels, RecordOps
<1>3. OwnershipInv'
  BY DEF RtTypeOK, OwnershipInv
<1>4. LockInv'
  BY DEF RtTypeOK, LockInv, TaskLocks, DrivesMine
<1>5. HostInv'
  BY DEF RtTypeOK, HostInv, Live
<1>6. NoOrphanVm'
  <2>1. \A i \in launched[t] : i \in published' /\ sandboxes'[i] = i
    BY DEF OwnershipInv
  <2>2. Owned(t) = launched[t] /\ \A u \in Tasks : u # t => Owned(u)' = Owned(u)
    BY DEF RtTypeOK, Owned
  <2> QED BY <2>1, <2>2 DEF NoOrphanVm, Live
<1> QED BY <1>1, <1>2, <1>3, <1>4, <1>5, <1>6

\* The invariant holds when the daemon starts.
LEMMA InvInit == RtInit => RtInv /\ NoOrphanVm
<1> SUFFICES ASSUME RtInit PROVE RtInv /\ NoOrphanVm
  OBVIOUS
<1> USE DEF RtInit
<1>1. RtTypeOK
  BY Literals DEF RtTypeOK, Ops
<1>2. ControlInv
  BY DEF ControlInv, TaskInv, RollbackLaunches, SnapshotLabels, RecordOps
<1>3. OwnershipInv
  BY DEF OwnershipInv
<1>4. LockInv
  BY DEF LockInv, TaskLocks, DrivesMine
<1>5. HostInv
  BY DEF HostInv, Live
<1>6. NoOrphanVm
  BY DEF NoOrphanVm, Live
<1> QED BY <1>1, <1>2, <1>3, <1>4, <1>5, <1>6 DEF RtInv

\* It does not depend on anything but the runtime's variables.
LEMMA InvStutter ==
    ASSUME RtInv, NoOrphanVm, UNCHANGED rtVars
    PROVE  RtInv' /\ NoOrphanVm'
<1> USE DEF rtVars, maps, host, locks, store, call, locals
<1>1. RtTypeOK'
  BY DEF RtInv, RtTypeOK
<1>2. ControlInv'
  BY DEF RtInv, ControlInv, TaskInv, RollbackLaunches
<1>3. OwnershipInv'
  BY DEF RtInv, OwnershipInv
<1>4. LockInv'
  BY DEF RtInv, LockInv, TaskLocks
<1>5. HostInv'
  BY DEF RtInv, HostInv, Live
<1>6. NoOrphanVm'
  BY DEF NoOrphanVm, Live, Owned
<1> QED BY <1>1, <1>2, <1>3, <1>4, <1>5, <1>6 DEF RtInv

\* Every step keeps it.
LEMMA InvNext ==
    ASSUME RtInv, NoOrphanVm, [RtNext]_rtVars
    PROVE  RtInv' /\ NoOrphanVm'
<1>1. ASSUME NEW t \in Tasks, RtStep(t)
      PROVE  RtInv' /\ NoOrphanVm'
  BY <1>1, TypeStep, ControlStep, OwnershipStep, LockStep, HostStep, OrphanStep DEF RtInv
<1>2. ASSUME NEW t \in Tasks, RtEnv(t)
      PROVE  RtInv' /\ NoOrphanVm'
  BY <1>2, CallsAreWellFormed, CallStep, ReturnStep DEF RtInv
<1> QED BY <1>1, <1>2, InvStutter DEF RtNext
-----------------------------------------------------------------------------
(***************************************************************************)
(* The runtime's variables keep their types, in every interleaving of any  *)
(* number of calls and with any combination of faults.                     *)
(***************************************************************************)
THEOREM TypeCorrect == RtSpec => []RtTypeOK
<1>1. RtInv => RtTypeOK
  BY DEF RtInv
<1> QED BY <1>1, InvInit, InvNext, PTL DEF RtSpec

(***************************************************************************)
(* The inductive invariant: control, ownership, locks and host resources   *)
(* agree with each other at every suspension point of every call.          *)
(***************************************************************************)
THEOREM InvariantHolds == RtSpec => []RtInv
BY InvInit, InvNext, PTL DEF RtSpec

(***************************************************************************)
(* No microVM is orphaned: create_fresh, clone_snapshot, rollback_snapshot *)
(* and delete hand every VM over or tear it down, whichever step fails.    *)
(***************************************************************************)
THEOREM NoOrphan == RtSpec => []NoOrphanVm
BY InvInit, InvNext, PTL DEF RtSpec

(***************************************************************************)
(* The record's Mutex serialises pause, resume, create_snapshot, rollback  *)
(* and teardown of one VM, the calls that hold it while they change it.    *)
(***************************************************************************)
THEOREM OneDriver == RtSpec => []OneDriverPerVm
<1>1. RtInv => OneDriverPerVm
  <2> SUFFICES ASSUME RtInv, NEW t \in Tasks, NEW u \in Tasks, NEW i \in Ids,
                      Drives(t, i), Drives(u, i)
               PROVE  t = u
    BY DEF OneDriverPerVm
  <2>1. holder[i] = t
    BY DEF RtInv, LockInv, TaskLocks, Drives
  <2>2. holder[i] = u
    BY DEF RtInv, LockInv, TaskLocks, Drives
  <2> QED BY <2>1, <2>2
<1> QED BY <1>1, InvInit, InvNext, PTL DEF RtSpec
-----------------------------------------------------------------------------
(***************************************************************************)
(* Second part: the runtime's other properties, from SafetyInv.            *)
(***************************************************************************)

\* Every step of a task keeps what a label tells of the operation.
LEMMA LabelStep ==
    ASSUME RtInv, LabelInv, NEW t \in Tasks, RtStep(t)
    PROVE  LabelInv'
<1> USE DEF RtInv, RtTypeOK, ControlInv, TaskInv, LabelInv, TaskLabels, Launches, RecordOps,
        SnapshotOps, SnapshotLabels, Goto, Finish, Continue, DropGuards, maps, host, locks,
        store, call, locals
<1>1. CASE Lookup(t)
  BY <1>1 DEF Lookup
<1>2. CASE Lock(t)
  BY <1>2 DEF Lock, AllowedStates, AfterLock
<1>3. CASE Pause(t)
  BY <1>3 DEF Pause, PatchOk, PatchFails
<1>4. CASE Resume(t)
  BY <1>4 DEF Resume, PatchOk, PatchFails
<1>5. CASE Reconnect(t)
  BY <1>5 DEF Reconnect
<1>6. CASE SnapPause(t)
  BY <1>6 DEF SnapPause, PatchOk, PatchFails
<1>7. CASE SnapCapture(t)
  BY <1>7 DEF SnapCapture
<1>8. CASE SnapResume(t)
  BY <1>8 DEF SnapResume, SnapResumeFailed, PatchOk, PatchFails
<1>9. CASE SnapReconnect(t)
  BY <1>9 DEF SnapReconnect, SnapResumeFailed
<1>10. CASE SnapPublish(t)
  BY <1>10 DEF SnapPublish
<1>11. CASE SnapInsert(t)
  BY <1>11 DEF SnapInsert
<1>12. CASE SnapLookup(t)
  BY <1>12 DEF SnapLookup
<1>13. CASE SnapLock(t)
  BY <1>13 DEF SnapLock
<1>14. CASE Verify(t)
  BY <1>14 DEF Verify
<1>15. CASE TryLock(t)
  BY <1>15 DEF TryLock
<1>16. CASE Purge(t)
  BY <1>16 DEF Purge
<1>17. CASE SnapUnmap(t)
  BY <1>17 DEF SnapUnmap
<1>18. CASE Launch(t)
  BY <1>18 DEF Launch
<1>19. CASE Booted(t)
  BY <1>19 DEF Booted
<1>20. CASE BootFailed(t)
  BY <1>20 DEF BootFailed
<1>21. CASE Unwind(t)
  BY <1>21 DEF Unwind
<1>22. CASE Unwound(t)
  BY <1>22 DEF Unwound
<1>23. CASE ReplLock(t)
  BY <1>23 DEF ReplLock
<1>24. CASE Rekey(t)
  BY <1>24 DEF Rekey, DropReplacement
<1>25. CASE Swap(t)
  BY <1>25 DEF Swap, DropReplacement
<1>26. CASE DelRemove(t)
  BY <1>26 DEF DelRemove
<1>27. CASE DelLock(t)
  BY <1>27 DEF DelLock
<1>28. CASE Terminate(t)
  BY <1>28 DEF Terminate
<1>29. CASE Cleanup(t)
  BY <1>29 DEF Cleanup
<1> QED
  BY <1>1, <1>2, <1>3, <1>4, <1>5, <1>6, <1>7, <1>8, <1>9, <1>10, <1>11, <1>12,
     <1>13, <1>14, <1>15, <1>16, <1>17, <1>18, <1>19, <1>20, <1>21, <1>22, <1>23,
     <1>24, <1>25, <1>26, <1>27, <1>28, <1>29 DEF RtStep, AcquireLock

\* ... and that tasks hold no other guards than they should.
LEMMA GuardStep ==
    ASSUME RtInv, LabelInv, GuardInv, NEW t \in Tasks, RtStep(t)
    PROVE  GuardInv'
<1> USE ConstantsAssumption DEF RtInv, RtTypeOK, ControlInv, TaskInv, LabelInv, TaskLabels,
        GuardInv, MayHold, MayHoldArtifact, LockInv, TaskLocks, DrivesMine, Launches, RecordOps,
        SnapshotOps, SnapshotLabels, Goto, Finish, Continue, DropGuards, maps, host, locks,
        store, call, locals
<1>1. CASE Lookup(t)
  BY <1>1 DEF Lookup
<1>2. CASE Lock(t)
  BY <1>2 DEF Lock, AllowedStates, AfterLock
<1>3. CASE Pause(t)
  BY <1>3 DEF Pause, PatchOk, PatchFails
<1>4. CASE Resume(t)
  BY <1>4 DEF Resume, PatchOk, PatchFails
<1>5. CASE Reconnect(t)
  BY <1>5 DEF Reconnect
<1>6. CASE SnapPause(t)
  BY <1>6 DEF SnapPause, PatchOk, PatchFails
<1>7. CASE SnapCapture(t)
  BY <1>7 DEF SnapCapture
<1>8. CASE SnapResume(t)
  BY <1>8 DEF SnapResume, SnapResumeFailed, PatchOk, PatchFails
<1>9. CASE SnapReconnect(t)
  BY <1>9 DEF SnapReconnect, SnapResumeFailed
<1>10. CASE SnapPublish(t)
  BY <1>10 DEF SnapPublish
<1>11. CASE SnapInsert(t)
  BY <1>11 DEF SnapInsert
<1>12. CASE SnapLookup(t)
  BY <1>12 DEF SnapLookup
<1>13. CASE SnapLock(t)
  BY <1>13 DEF SnapLock
<1>14. CASE Verify(t)
  BY <1>14 DEF Verify
<1>15. CASE TryLock(t)
  BY <1>15 DEF TryLock
<1>16. CASE Purge(t)
  BY <1>16 DEF Purge
<1>17. CASE SnapUnmap(t)
  BY <1>17 DEF SnapUnmap
<1>18. CASE Launch(t)
  BY <1>18 DEF Launch
<1>19. CASE Booted(t)
  BY <1>19 DEF Booted
<1>20. CASE BootFailed(t)
  BY <1>20 DEF BootFailed
<1>21. CASE Unwind(t)
  BY <1>21 DEF Unwind
<1>22. CASE Unwound(t)
  BY <1>22 DEF Unwound
<1>23. CASE ReplLock(t)
  BY <1>23 DEF ReplLock
<1>24. CASE Rekey(t)
  BY <1>24 DEF Rekey, DropReplacement
<1>25. CASE Swap(t)
  BY <1>25 DEF Swap, DropReplacement
<1>26. CASE DelRemove(t)
  BY <1>26 DEF DelRemove
<1>27. CASE DelLock(t)
  BY <1>27 DEF DelLock
<1>28. CASE Terminate(t)
  BY <1>28 DEF Terminate
<1>29. CASE Cleanup(t)
  BY <1>29 DEF Cleanup
<1> QED
  BY <1>1, <1>2, <1>3, <1>4, <1>5, <1>6, <1>7, <1>8, <1>9, <1>10, <1>11, <1>12,
     <1>13, <1>14, <1>15, <1>16, <1>17, <1>18, <1>19, <1>20, <1>21, <1>22, <1>23,
     <1>24, <1>25, <1>26, <1>27, <1>28, <1>29 DEF RtStep, AcquireLock

\* ... and that the directories in use are intact.
LEMMA ArtifactStep ==
    ASSUME RtInv, LabelInv, GuardInv, ArtifactInv, SnapshotInUseIntact, NEW t \in Tasks, RtStep(t)
    PROVE  ArtifactInv' /\ SnapshotInUseIntact'
<1> USE ConstantsAssumption DEF RtInv, RtTypeOK, ControlInv, TaskInv, LabelInv, TaskLabels,
        ArtifactInv, TaskArtifact, SnapshotInUseIntact, Launches, RecordOps, SnapshotOps,
        SnapshotLabels, Goto, Finish, Continue, DropGuards, maps, host, locks, store, call,
        locals
<1>1. CASE Lookup(t)
  BY <1>1 DEF Lookup
<1>2. CASE Lock(t)
  BY <1>2 DEF Lock, AllowedStates, AfterLock
<1>3. CASE Pause(t)
  BY <1>3 DEF Pause, PatchOk, PatchFails
<1>4. CASE Resume(t)
  BY <1>4 DEF Resume, PatchOk, PatchFails
<1>5. CASE Reconnect(t)
  BY <1>5 DEF Reconnect
<1>6. CASE SnapPause(t)
  BY <1>6 DEF SnapPause, PatchOk, PatchFails
<1>7. CASE SnapCapture(t)
  BY <1>7 DEF SnapCapture
<1>8. CASE SnapResume(t)
  BY <1>8 DEF SnapResume, SnapResumeFailed, PatchOk, PatchFails
<1>9. CASE SnapReconnect(t)
  BY <1>9 DEF SnapReconnect, SnapResumeFailed
<1>10. CASE SnapPublish(t)
  BY <1>10 DEF SnapPublish
<1>11. CASE SnapInsert(t)
  BY <1>11 DEF SnapInsert
<1>12. CASE SnapLookup(t)
  BY <1>12 DEF SnapLookup
<1>13. CASE SnapLock(t)
  BY <1>13 DEF SnapLock
<1>14. CASE Verify(t)
  BY <1>14 DEF Verify
<1>15. CASE TryLock(t)
  BY <1>15 DEF TryLock
<1>16. CASE Purge(t)
  BY <1>16 DEF Purge
<1>17. CASE SnapUnmap(t)
  BY <1>17 DEF SnapUnmap
<1>18. CASE Launch(t)
  BY <1>18 DEF Launch
<1>19. CASE Booted(t)
  BY <1>19 DEF Booted
<1>20. CASE BootFailed(t)
  BY <1>20 DEF BootFailed
<1>21. CASE Unwind(t)
  BY <1>21 DEF Unwind
<1>22. CASE Unwound(t)
  BY <1>22 DEF Unwound
<1>23. CASE ReplLock(t)
  BY <1>23 DEF ReplLock
<1>24. CASE Rekey(t)
  BY <1>24 DEF Rekey, DropReplacement
<1>25. CASE Swap(t)
  BY <1>25 DEF Swap, DropReplacement
<1>26. CASE DelRemove(t)
  BY <1>26 DEF DelRemove
<1>27. CASE DelLock(t)
  BY <1>27 DEF DelLock
<1>28. CASE Terminate(t)
  BY <1>28 DEF Terminate
<1>29. CASE Cleanup(t)
  BY <1>29 DEF Cleanup
<1> QED
  BY <1>1, <1>2, <1>3, <1>4, <1>5, <1>6, <1>7, <1>8, <1>9, <1>10, <1>11, <1>12,
     <1>13, <1>14, <1>15, <1>16, <1>17, <1>18, <1>19, <1>20, <1>21, <1>22, <1>23,
     <1>24, <1>25, <1>26, <1>27, <1>28, <1>29 DEF RtStep, AcquireLock

\* ... and what is captured is paused.
LEMMA CaptureStep ==
    ASSUME RtInv, LabelInv, CaptureInv, NEW t \in Tasks, RtStep(t)
    PROVE  CaptureInv'
<1> USE ConstantsAssumption, CleanupOutcomesAre DEF RtInv, RtTypeOK, ControlInv, TaskInv,
        LabelInv, TaskLabels, CaptureInv, LockInv, TaskLocks, HostInv, OwnershipInv, Live,
        DrivesMine, Launches, RecordOps, SnapshotOps, SnapshotLabels, Goto, Finish, Continue,
        DropGuards, maps, host, locks, store, call, locals
<1>1. CASE Lookup(t)
  BY <1>1 DEF Lookup
<1>2. CASE Lock(t)
  BY <1>2 DEF Lock, AllowedStates, AfterLock
<1>3. CASE Pause(t)
  BY <1>3 DEF Pause, PatchOk, PatchFails
<1>4. CASE Resume(t)
  BY <1>4 DEF Resume, PatchOk, PatchFails
<1>5. CASE Reconnect(t)
  BY <1>5 DEF Reconnect
<1>6. CASE SnapPause(t)
  BY <1>6 DEF SnapPause, PatchOk, PatchFails
<1>7. CASE SnapCapture(t)
  BY <1>7 DEF SnapCapture
<1>8. CASE SnapResume(t)
  BY <1>8 DEF SnapResume, SnapResumeFailed, PatchOk, PatchFails
<1>9. CASE SnapReconnect(t)
  BY <1>9 DEF SnapReconnect, SnapResumeFailed
<1>10. CASE SnapPublish(t)
  BY <1>10 DEF SnapPublish
<1>11. CASE SnapInsert(t)
  BY <1>11 DEF SnapInsert
<1>12. CASE SnapLookup(t)
  BY <1>12 DEF SnapLookup
<1>13. CASE SnapLock(t)
  BY <1>13 DEF SnapLock
<1>14. CASE Verify(t)
  BY <1>14 DEF Verify
<1>15. CASE TryLock(t)
  BY <1>15 DEF TryLock
<1>16. CASE Purge(t)
  BY <1>16 DEF Purge
<1>17. CASE SnapUnmap(t)
  BY <1>17 DEF SnapUnmap
<1>18. CASE Launch(t)
  BY <1>18 DEF Launch
<1>19. CASE Booted(t)
  BY <1>19 DEF Booted
<1>20. CASE BootFailed(t)
  BY <1>20 DEF BootFailed
<1>21. CASE Unwind(t)
  BY <1>21 DEF Unwind
<1>22. CASE Unwound(t)
  BY <1>22 DEF Unwound
<1>23. CASE ReplLock(t)
  BY <1>23 DEF ReplLock
<1>24. CASE Rekey(t)
  BY <1>24 DEF Rekey, DropReplacement
<1>25. CASE Swap(t)
  BY <1>25 DEF Swap, DropReplacement
<1>26. CASE DelRemove(t)
  BY <1>26 DEF DelRemove
<1>27. CASE DelLock(t)
  BY <1>27 DEF DelLock
<1>28. CASE Terminate(t)
  BY <1>28 DEF Terminate
<1>29. CASE Cleanup(t)
  BY <1>29 DEF Cleanup
<1> QED
  BY <1>1, <1>2, <1>3, <1>4, <1>5, <1>6, <1>7, <1>8, <1>9, <1>10, <1>11, <1>12,
     <1>13, <1>14, <1>15, <1>16, <1>17, <1>18, <1>19, <1>20, <1>21, <1>22, <1>23,
     <1>24, <1>25, <1>26, <1>27, <1>28, <1>29 DEF RtStep, AcquireLock

\* ... and a rollback's source stays as it was.
LEMMA RollbackStep ==
    ASSUME RtInv, LabelInv, SourceInv, NEW t \in Tasks, RtStep(t)
    PROVE  SourceInv'
<1> USE ConstantsAssumption, CleanupOutcomesAre DEF RtInv, RtTypeOK, ControlInv, TaskInv,
        LabelInv, TaskLabels, SourceInv, RollingBack, LockInv, TaskLocks, HostInv,
        OwnershipInv, Live, DrivesMine, Launches, RecordOps, SnapshotOps, SnapshotLabels, Goto,
        Finish, Continue, DropGuards, maps, host, locks, store, call, locals
<1>1. CASE Lookup(t)
  BY <1>1, SMTT(60) DEF Lookup
<1>2. CASE Lock(t)
  BY <1>2, SMTT(60) DEF Lock, AllowedStates, AfterLock
<1>3. CASE Pause(t)
  <2>1. /\ pc[t] \in DrivesMine /\ op[t] # "rollback"
        /\ \A u \in Tasks : u # t => pc'[u] = pc[u] /\ result'[u] = result[u]
        /\ UNCHANGED <<op, mine, prior>>
    BY <1>3 DEF Pause
  <2>2. \A i \in Ids : i # mine[t] => state'[i] = state[i] /\ vm'[i] = vm[i]
    BY <1>3 DEF Pause, PatchOk, PatchFails
  <2>3. ASSUME NEW u \in Tasks, RollingBack(u)'
        PROVE  RollingBack(u) /\ mine[u] \in Ids /\ mine[u] # mine[t]
    BY <2>1, <2>3
  <2> QED BY <2>1, <2>2, <2>3
<1>4. CASE Resume(t)
  <2>1. /\ pc[t] \in DrivesMine /\ op[t] # "rollback"
        /\ \A u \in Tasks : u # t => pc'[u] = pc[u] /\ result'[u] = result[u]
        /\ UNCHANGED <<op, mine, prior>>
    BY <1>4 DEF Resume
  <2>2. \A i \in Ids : i # mine[t] => state'[i] = state[i] /\ vm'[i] = vm[i]
    BY <1>4 DEF Resume, PatchOk, PatchFails
  <2>3. ASSUME NEW u \in Tasks, RollingBack(u)'
        PROVE  RollingBack(u) /\ mine[u] \in Ids /\ mine[u] # mine[t]
    BY <2>1, <2>3
  <2> QED BY <2>1, <2>2, <2>3
<1>5. CASE Reconnect(t)
  BY <1>5, SMTT(60) DEF Reconnect
<1>6. CASE SnapPause(t)
  BY <1>6, SMTT(60) DEF SnapPause, PatchOk, PatchFails
<1>7. CASE SnapCapture(t)
  BY <1>7 DEF SnapCapture
<1>8. CASE SnapResume(t)
  BY <1>8, SMTT(60) DEF SnapResume, SnapResumeFailed, PatchOk, PatchFails
<1>9. CASE SnapReconnect(t)
  <2>1. /\ pc[t] \in DrivesMine /\ op[t] # "rollback"
        /\ \A u \in Tasks : u # t => pc'[u] = pc[u] /\ result'[u] = result[u]
        /\ UNCHANGED <<op, mine, prior>>
    BY <1>9 DEF SnapReconnect, SnapResumeFailed
  <2>2. \A i \in Ids : i # mine[t] => state'[i] = state[i] /\ vm'[i] = vm[i]
    BY <1>9 DEF SnapReconnect, SnapResumeFailed
  <2>3. ASSUME NEW u \in Tasks, RollingBack(u)'
        PROVE  RollingBack(u) /\ mine[u] \in Ids /\ mine[u] # mine[t]
    BY <2>1, <2>3
  <2> QED BY <2>1, <2>2, <2>3
<1>10. CASE SnapPublish(t)
  BY <1>10 DEF SnapPublish
<1>11. CASE SnapInsert(t)
  BY <1>11 DEF SnapInsert
<1>12. CASE SnapLookup(t)
  BY <1>12 DEF SnapLookup
<1>13. CASE SnapLock(t)
  BY <1>13 DEF SnapLock
<1>14. CASE Verify(t)
  BY <1>14 DEF Verify
<1>15. CASE TryLock(t)
  BY <1>15 DEF TryLock
<1>16. CASE Purge(t)
  BY <1>16, SMTT(60) DEF Purge
<1>17. CASE SnapUnmap(t)
  BY <1>17 DEF SnapUnmap
<1>18. CASE Launch(t)
  BY <1>18 DEF Launch
<1>19. CASE Booted(t)
  BY <1>19 DEF Booted
<1>20. CASE BootFailed(t)
  <2>1. /\ pc[t] = "boot" /\ state[cur[t]] = "Creating"
        /\ \A i \in Ids : i # cur[t] => vm'[i] = vm[i]
        /\ \A u \in Tasks : u # t => pc'[u] = pc[u]
        /\ UNCHANGED <<state, op, mine, prior, result>>
    BY <1>20 DEF BootFailed
  <2>2. ASSUME NEW u \in Tasks, RollingBack(u)'
        PROVE  RollingBack(u) /\ mine[u] \in Ids /\ mine[u] # cur[t]
    BY <2>1, <2>2, SMTT(60)
  <2> QED BY <2>1, <2>2
<1>21. CASE Unwind(t)
  BY <1>21 DEF Unwind
<1>22. CASE Unwound(t)
  BY <1>22 DEF Unwound
<1>23. CASE ReplLock(t)
  BY <1>23 DEF ReplLock
<1>24. CASE Rekey(t)
  BY <1>24 DEF Rekey, DropReplacement
<1>25. CASE Swap(t)
  BY <1>25, SMTT(60) DEF Swap, DropReplacement
<1>26. CASE DelRemove(t)
  BY <1>26 DEF DelRemove
<1>27. CASE DelLock(t)
  BY <1>27 DEF DelLock
<1>28. CASE Terminate(t)
  BY <1>28 DEF Terminate
<1>29. CASE Cleanup(t)
  BY <1>29 DEF Cleanup
<1> QED
  BY <1>1, <1>2, <1>3, <1>4, <1>5, <1>6, <1>7, <1>8, <1>9, <1>10, <1>11, <1>12,
     <1>13, <1>14, <1>15, <1>16, <1>17, <1>18, <1>19, <1>20, <1>21, <1>22, <1>23,
     <1>24, <1>25, <1>26, <1>27, <1>28, <1>29 DEF RtStep, AcquireLock

\* ... and what is torn down is out of reach.
LEMMA MapStep ==
    ASSUME RtInv, LabelInv, MapInv, TornDownUnreachable, NEW t \in Tasks, RtStep(t)
    PROVE  MapInv' /\ TornDownUnreachable'
<1> USE ConstantsAssumption DEF RtInv, RtTypeOK, ControlInv, TaskInv, MapInv, TornDownUnreachable,
        TearsDown, HostInv, RecordOps, Goto, Finish, Continue, DropGuards, maps, host, locks,
        store, call, locals
<1>1. CASE Lookup(t)
  BY <1>1 DEF Lookup
<1>2. CASE Lock(t)
  BY <1>2, SMTT(60) DEF Lock, AllowedStates, AfterLock
<1>3. CASE Pause(t)
  BY <1>3 DEF Pause, PatchOk, PatchFails
<1>4. CASE Resume(t)
  BY <1>4 DEF Resume, PatchOk, PatchFails
<1>5. CASE Reconnect(t)
  BY <1>5 DEF Reconnect
<1>6. CASE SnapPause(t)
  BY <1>6 DEF SnapPause, PatchOk, PatchFails
<1>7. CASE SnapCapture(t)
  BY <1>7 DEF SnapCapture
<1>8. CASE SnapResume(t)
  BY <1>8 DEF SnapResume, SnapResumeFailed, PatchOk, PatchFails
<1>9. CASE SnapReconnect(t)
  BY <1>9 DEF SnapReconnect, SnapResumeFailed
<1>10. CASE SnapPublish(t)
  BY <1>10 DEF SnapPublish
<1>11. CASE SnapInsert(t)
  BY <1>11 DEF SnapInsert
<1>12. CASE SnapLookup(t)
  BY <1>12 DEF SnapLookup
<1>13. CASE SnapLock(t)
  BY <1>13 DEF SnapLock
<1>14. CASE Verify(t)
  BY <1>14 DEF Verify
<1>15. CASE TryLock(t)
  BY <1>15 DEF TryLock
<1>16. CASE Purge(t)
  BY <1>16 DEF Purge
<1>17. CASE SnapUnmap(t)
  BY <1>17 DEF SnapUnmap
<1>18. CASE Launch(t)
  BY <1>18 DEF Launch
<1>19. CASE Booted(t)
  BY <1>19 DEF Booted
<1>20. CASE BootFailed(t)
  BY <1>20 DEF BootFailed
<1>21. CASE Unwind(t)
  BY <1>21 DEF Unwind
<1>22. CASE Unwound(t)
  BY <1>22 DEF Unwound
<1>23. CASE ReplLock(t)
  BY <1>23 DEF ReplLock
<1>24. CASE Rekey(t)
  BY <1>24 DEF Rekey, DropReplacement
<1>25. CASE Swap(t)
  <2>1. CASE sandboxes[arg[t]] = mine[t] /\ sandboxes[cur[t]] = cur[t]
    <3>1. /\ arg[t] \in Ids /\ mine[t] \in Ids /\ cur[t] \in Ids
          /\ cur[t] # mine[t] /\ cur[t] # arg[t]
      BY <1>25, <2>1, SMTT(60) DEF Swap, LockInv, TaskLocks
    <3>2. /\ sandboxes' = [sandboxes EXCEPT ![arg[t]] = cur[t], ![cur[t]] = NoVm]
          /\ cur' = [cur EXCEPT ![t] = mine[t]]
          /\ pc' = [pc EXCEPT ![t] = "terminate"]
      BY <1>25, <2>1 DEF Swap
    <3>3. \A k \in Ids : sandboxes'[k] = IF k = arg[t] THEN cur[t]
                                        ELSE IF k = cur[t] THEN NoVm ELSE sandboxes[k]
      BY <3>1, <3>2
    <3>4. MapInv'
      BY <2>1, <3>1, <3>3
    <3>5. \A k \in Ids : sandboxes'[k] # mine[t]
      BY <2>1, <3>1, <3>3
    <3>6. ASSUME NEW u \in Tasks, NEW i \in Ids, TearsDown(u, i)'
          PROVE  (u = t /\ i = mine[t]) \/ (u # t /\ TearsDown(u, i) /\ i # cur[t] /\ i # mine[t])
      BY <2>1, <3>1, <3>2, <3>6
    <3>7. ASSUME NEW u \in Tasks, NEW i \in Ids, TearsDown(u, i)'
          PROVE  /\ \A k \in Ids : sandboxes'[k] # i
                 /\ \A w \in Tasks : TearsDown(w, i)' => w = u
      <4>1. CASE u = t /\ i = mine[t]
        BY <4>1, <3>5, <3>6
      <4>2. CASE u # t /\ TearsDown(u, i) /\ i # cur[t] /\ i # mine[t]
        <5>1. \A k \in Ids : sandboxes[k] # i
          BY <4>2
        <5>2. \A k \in Ids : sandboxes'[k] # i
          BY <3>3, <4>2, <5>1
        <5> QED BY <4>2, <3>6, <5>2
      <4> QED BY <3>6, <3>7, <4>1, <4>2
    <3>8. TornDownUnreachable'
      BY <3>7
    <3> QED BY <3>4, <3>8
  <2>2. CASE ~(sandboxes[arg[t]] = mine[t] /\ sandboxes[cur[t]] = cur[t])
    BY <1>25, <2>2 DEF Swap
  <2> QED BY <2>1, <2>2
<1>26. CASE DelRemove(t)
  <2>1. CASE sandboxes[arg[t]] = NoVm
    BY <1>26, <2>1 DEF DelRemove
  <2>2. CASE sandboxes[arg[t]] # NoVm
    <3> DEFINE r == sandboxes[arg[t]]
    <3>1. arg[t] \in Ids /\ r \in Ids
      BY <1>26, <2>2 DEF DelRemove
    <3>2. /\ sandboxes' = [sandboxes EXCEPT ![arg[t]] = NoVm]
          /\ cur' = [cur EXCEPT ![t] = r]
          /\ pc' = [pc EXCEPT ![t] = "del_lock"]
      BY <1>26, <2>2 DEF DelRemove
    <3>3. \A k \in Ids : sandboxes'[k] = IF k = arg[t] THEN NoVm ELSE sandboxes[k]
      BY <3>1, <3>2
    <3>4. MapInv'
      BY <3>3
    <3>5. \A k \in Ids : sandboxes'[k] # r
      BY <2>2, <3>1, <3>3
    <3>6. ASSUME NEW u \in Tasks, NEW i \in Ids, TearsDown(u, i)'
          PROVE  (u = t /\ i = r) \/ (u # t /\ TearsDown(u, i) /\ i # r)
      BY <3>1, <3>2, <3>6
    <3>7. TornDownUnreachable'
      BY <3>3, <3>5, <3>6, SMTT(60)
    <3> QED BY <3>4, <3>7
  <2> QED BY <2>1, <2>2
<1>27. CASE DelLock(t)
  BY <1>27 DEF DelLock
<1>28. CASE Terminate(t)
  BY <1>28 DEF Terminate
<1>29. CASE Cleanup(t)
  BY <1>29 DEF Cleanup
<1> QED
  BY <1>1, <1>2, <1>3, <1>4, <1>5, <1>6, <1>7, <1>8, <1>9, <1>10, <1>11, <1>12,
     <1>13, <1>14, <1>15, <1>16, <1>17, <1>18, <1>19, <1>20, <1>21, <1>22, <1>23,
     <1>24, <1>25, <1>26, <1>27, <1>28, <1>29 DEF RtStep, AcquireLock

\* ... and the VMs of a call that launches are known to no other.
LEMMA SecretStep ==
    ASSUME RtInv, LabelInv, MapInv, TornDownUnreachable, GuardInv, SecretInv, NEW t \in Tasks, RtStep(t)
    PROVE  SecretInv'
<1> USE ConstantsAssumption DEF RtInv, RtTypeOK, ControlInv, TaskInv, LabelInv, TaskLabels,
        SecretInv, Secret, OwnershipInv, HostInv, Launches, RecordOps, Goto, Finish, Continue,
        DropGuards, maps, host, locks, store, call, locals
<1>1. CASE Lookup(t)
  <2>1. CASE sandboxes[arg[t]] = NoVm
    BY <1>1, <2>1 DEF Lookup
  <2>2. CASE sandboxes[arg[t]] # NoVm
    <3> DEFINE r == sandboxes[arg[t]]
    <3>1. /\ arg[t] \in published /\ r \in Ids /\ state[r] # "Creating"
          /\ pc[t] = "lookup" /\ pc' = [pc EXCEPT ![t] = "lock"]
          /\ mine' = [mine EXCEPT ![t] = r]
          /\ UNCHANGED <<state, holder, launched, cur, op>>
      BY <1>1, <2>2 DEF Lookup
    <3>2. ASSUME NEW u \in Tasks PROVE r \notin Secret(u)
      <4>1. r \notin launched[u]
        BY <3>1, <2>2 DEF MapInv
      <4>2. pc[u] = "del_lock" => cur[u] # r
        BY <3>1 DEF TornDownUnreachable, TearsDown
      <4> QED BY <4>1, <4>2
    <3>3. \A u \in Tasks : Secret(u)' = Secret(u)
      BY <3>1
    <3> QED BY <3>1, <3>2, <3>3
  <2> QED BY <2>1, <2>2
<1>2. CASE Lock(t)
  BY <1>2 DEF Lock, AllowedStates, AfterLock
<1>3. CASE Pause(t)
  BY <1>3 DEF Pause, PatchOk, PatchFails
<1>4. CASE Resume(t)
  BY <1>4 DEF Resume, PatchOk, PatchFails
<1>5. CASE Reconnect(t)
  BY <1>5 DEF Reconnect
<1>6. CASE SnapPause(t)
  BY <1>6 DEF SnapPause, PatchOk, PatchFails
<1>7. CASE SnapCapture(t)
  BY <1>7 DEF SnapCapture
<1>8. CASE SnapResume(t)
  BY <1>8 DEF SnapResume, SnapResumeFailed, PatchOk, PatchFails
<1>9. CASE SnapReconnect(t)
  <2>1. /\ state' = [state EXCEPT ![mine[t]] = prior[t]]
           \/ state' = [state EXCEPT ![mine[t]] = "Failed"]
        /\ pc[t] = "snap_reconnect" /\ pc'[t] \in {"snap_publish", "done"}
        /\ \A u \in Tasks : u # t => pc'[u] = pc[u]
        /\ UNCHANGED <<mine, launched, cur, op>>
    BY <1>9 DEF SnapReconnect, SnapResumeFailed
  <2>2. \A i \in Ids : holder'[i] = holder[i] \/ (holder[i] = t /\ holder'[i] = NoTask)
    BY <1>9 DEF SnapReconnect, SnapResumeFailed
  <2>3. \A u \in Tasks : Secret(u)' = Secret(u) /\ Secret(u) \subseteq Ids
    BY <2>1
  <2>4. ASSUME NEW i \in Ids, state[i] # "Creating" PROVE state'[i] # "Creating"
    <3>1. state'[i] \in {state[i], prior[t], "Failed"}
      BY <2>1
    <3>2. prior[t] \in {"Running", "Paused"}
      OBVIOUS
    <3> QED BY <2>4, <3>1, <3>2
  <2> QED BY <2>1, <2>2, <2>3, <2>4
<1>10. CASE SnapPublish(t)
  BY <1>10 DEF SnapPublish
<1>11. CASE SnapInsert(t)
  BY <1>11 DEF SnapInsert
<1>12. CASE SnapLookup(t)
  BY <1>12 DEF SnapLookup
<1>13. CASE SnapLock(t)
  BY <1>13 DEF SnapLock
<1>14. CASE Verify(t)
  BY <1>14 DEF Verify
<1>15. CASE TryLock(t)
  BY <1>15 DEF TryLock
<1>16. CASE Purge(t)
  BY <1>16 DEF Purge
<1>17. CASE SnapUnmap(t)
  BY <1>17 DEF SnapUnmap
<1>18. CASE Launch(t)
  <2>1. PICK i \in todo[t] :
          /\ vm' = [vm EXCEPT ![i] = "running"]
          /\ cur' = [cur EXCEPT ![t] = i]
          /\ launched' = [launched EXCEPT ![t] = @ \cup {i}]
    BY <1>18 DEF Launch
  <2>2. /\ pc[t] = "launch" /\ pc' = [pc EXCEPT ![t] = "boot"]
        /\ UNCHANGED <<state, holder, mine, op>>
    BY <1>18 DEF Launch
  <2>3. i \in Ids /\ vm[i] = "none" /\ state[i] = "Creating"
    BY <2>1
  <2>4. \A u \in Tasks : mine[u] # i
    BY <2>3
  <2>5. ASSUME NEW u \in Tasks, holder[i] = u PROVE FALSE
    <3>1. MayHold(u, i)
      BY <2>3, <2>5 DEF GuardInv
    <3>2. i = cur[u] /\ pc[u] \in {"rekey", "swap", "terminate", "cleanup"}
      BY <3>1, <2>4 DEF MayHold
    <3>3. pc[u] \notin {"terminate", "cleanup"}
      BY <2>3, <3>2
    <3>4. pc[u] \in {"rekey", "swap"} => i \in launched[u]
      BY <3>2 DEF RollbackLaunches
    <3> QED BY <3>2, <3>3, <3>4, <2>3
  <2>6. holder[i] = NoTask
    BY <2>3, <2>5
  <2>7. \A u \in Tasks : u # t => Secret(u)' = Secret(u)
    BY <2>1, <2>2
  <2>8. Secret(t)' = Secret(t) \cup {i}
    BY <2>1, <2>2
  <2> QED BY <2>1, <2>2, <2>3, <2>4, <2>6, <2>7, <2>8
<1>19. CASE Booted(t)
  BY <1>19 DEF Booted
<1>20. CASE BootFailed(t)
  BY <1>20 DEF BootFailed
<1>21. CASE Unwind(t)
  BY <1>21 DEF Unwind
<1>22. CASE Unwound(t)
  BY <1>22 DEF Unwound
<1>23. CASE ReplLock(t)
  <2>1. /\ pc[t] = "repl_lock" /\ pc' = [pc EXCEPT ![t] = "rekey"]
        /\ holder' = [holder EXCEPT ![cur[t]] = t]
        /\ UNCHANGED <<state, mine, launched, cur, op>>
    BY <1>23 DEF ReplLock
  <2>2. launched[t] = {cur[t]} /\ cur[t] \in Ids /\ sandboxes[cur[t]] = cur[t]
    BY <2>1, SMTT(60) DEF RollbackLaunches
  <2>3. \A u \in Tasks : Secret(u)' = Secret(u) /\ Secret(u) \subseteq Ids
    BY <2>1
  <2>4. ASSUME NEW u \in Tasks, u # t PROVE cur[t] \notin Secret(u)
    <3>1. cur[t] \notin launched[u]
      BY <2>2, <2>4
    <3>2. pc[u] = "del_lock" => cur[u] # cur[t]
      BY <2>2 DEF TornDownUnreachable, TearsDown
    <3> QED BY <3>1, <3>2
  <2>5. Secret(t) = {cur[t]}
    BY <2>1, <2>2
  <2> QED BY <2>1, <2>2, <2>3, <2>4, <2>5
<1>24. CASE Rekey(t)
  <2>1. /\ pc[t] = "rekey" /\ pc'[t] \in {"swap", "unwind"}
        /\ pc'[t] = "swap" => holder' = holder
        /\ pc'[t] = "unwind" => holder' = [holder EXCEPT ![cur[t]] = NoTask]
        /\ \A u \in Tasks : u # t => pc'[u] = pc[u]
        /\ UNCHANGED <<state, mine, launched, cur, op>>
    BY <1>24 DEF Rekey, DropReplacement
  <2>2. launched[t] = {cur[t]} /\ cur[t] \in Ids
    BY <2>1 DEF RollbackLaunches
  <2>3. \A u \in Tasks : Secret(u)' = Secret(u) /\ Secret(u) \subseteq Ids
    BY <2>1
  <2>4. Secret(t) = {cur[t]}
    BY <2>1, <2>2
  <2> QED BY <2>1, <2>2, <2>3, <2>4
<1>25. CASE Swap(t)
  <2>1. /\ pc[t] = "swap" /\ pc'[t] \in {"unwind", "terminate"}
        /\ launched' = launched \/ launched' = [launched EXCEPT ![t] = {}]
        /\ holder' = [holder EXCEPT ![cur[t]] = NoTask]
        /\ \A u \in Tasks : u # t => pc'[u] = pc[u] /\ cur'[u] = cur[u]
        /\ UNCHANGED <<state, mine, op>>
    BY <1>25 DEF Swap, DropReplacement
  <2>2. launched[t] = {cur[t]} /\ cur[t] \in Ids
    BY <2>1 DEF RollbackLaunches
  <2>3. \A u \in Tasks : Secret(u)' \subseteq Secret(u) /\ Secret(u) \subseteq Ids
    BY <2>1
  <2>4. \A i \in Ids : holder'[i] = holder[i] \/ holder'[i] = NoTask
    BY <2>1
  <2>5. Secret(t) = {cur[t]} /\ holder'[cur[t]] = NoTask
    BY <2>1, <2>2
  <2> QED BY <2>1, <2>3, <2>4, <2>5
<1>26. CASE DelRemove(t)
  BY <1>26 DEF DelRemove
<1>27. CASE DelLock(t)
  <2>1. /\ pc[t] = "del_lock" /\ pc' = [pc EXCEPT ![t] = "terminate"]
        /\ holder' = [holder EXCEPT ![cur[t]] = t]
        /\ UNCHANGED <<state, mine, launched, cur, op>>
    BY <1>27 DEF DelLock
  <2>2. cur[t] \in Ids /\ state[cur[t]] # "Creating" /\ \A k \in Ids : sandboxes[k] # cur[t]
    BY <2>1 DEF TornDownUnreachable, TearsDown
  <2>3. ASSUME NEW u \in Tasks PROVE cur[t] \notin Secret(u)'
    <3>1. cur[t] \notin launched[u]
      BY <2>2
    <3>2. u # t /\ pc[u] = "del_lock" => cur[u] # cur[t]
      BY <2>1, <2>2 DEF TornDownUnreachable, TearsDown
    <3> QED BY <2>1, <3>1, <3>2
  <2>4. \A u \in Tasks : Secret(u)' \subseteq Secret(u) /\ Secret(u) \subseteq Ids
    BY <2>1
  <2> QED BY <2>1, <2>2, <2>3, <2>4
<1>28. CASE Terminate(t)
  BY <1>28 DEF Terminate
<1>29. CASE Cleanup(t)
  BY <1>29 DEF Cleanup
<1> QED
  BY <1>1, <1>2, <1>3, <1>4, <1>5, <1>6, <1>7, <1>8, <1>9, <1>10, <1>11, <1>12,
     <1>13, <1>14, <1>15, <1>16, <1>17, <1>18, <1>19, <1>20, <1>21, <1>22, <1>23,
     <1>24, <1>25, <1>26, <1>27, <1>28, <1>29 DEF RtStep, AcquireLock

-----------------------------------------------------------------------------
\* A call that starts keeps the invariant.
LEMMA CallSafe ==
    ASSUME SafetyInv, NoOrphanVm, NEW t \in Tasks, NEW o \in Ops,
           NEW i \in Ids \cup {NoVm}, NEW s \in Snaps \cup {NoSnap}, NEW F \in SUBSET Ids,
           WellFormedCall(t, o, i, s, F)
    PROVE  SafetyInv'
<1>0. RtInv'
  BY CallStep DEF SafetyInv
<1> USE FirstLabels, ConstantsAssumption
    DEF SafetyInv, RtInv, RtTypeOK, WellFormedCall, RtCall, Goto, maps, host, locks
<1>1. LabelInv'
  BY DEF LabelInv, TaskLabels, Launches, Ops, RecordOps, SnapshotOps, FirstLabel
<1>2. MapInv' /\ TornDownUnreachable'
  BY DEF MapInv, TornDownUnreachable, TearsDown
<1>3. GuardInv'
  BY DEF GuardInv, MayHold, MayHoldArtifact, DrivesMine
<1>4. SecretInv'
  BY DEF SecretInv, Secret
<1>5. ArtifactInv'
  <2>1. \A u \in Tasks : u # t =>
          /\ pc'[u] = pc[u] /\ op'[u] = op[u] /\ snp'[u] = snp[u]
    OBVIOUS
  <2>2. ASSUME NEW u \in Tasks, u # t PROVE TaskArtifact(u)'
    BY <2>1, <2>2 DEF ArtifactInv, TaskArtifact, LabelInv, TaskLabels, SnapshotOps
  <2>3. TaskArtifact(t)'
    BY <2>1 DEF ArtifactInv, TaskArtifact, LabelInv, TaskLabels, Ops, RecordOps,
                SnapshotOps, FirstLabel
  <2> QED BY <2>2, <2>3 DEF ArtifactInv
<1>6. SnapshotInUseIntact'
  <2>1. pc'[t] = FirstLabel(o) /\ op'[t] = o
    OBVIOUS
  <2>2. o \in {"clone", "rollback"} => FirstLabel(o) \notin {"launch", "boot"}
    BY DEF FirstLabel, RecordOps, SnapshotOps
  <2>3. \A k \in Snaps : artifact[k] = "published" => artifact'[k] = "published"
    OBVIOUS
  <2> QED BY <2>1, <2>2, <2>3 DEF SnapshotInUseIntact, LabelInv, TaskLabels, SnapshotOps
<1>7. CaptureInv'
  BY DEF CaptureInv
<1>8. SourceInv'
  BY DEF SourceInv, RollingBack, Live
<1> QED BY <1>0, <1>1, <1>2, <1>3, <1>4, <1>5, <1>6, <1>7, <1>8

\* ... and so does a result that is taken.
LEMMA ReturnSafe ==
    ASSUME SafetyInv, NoOrphanVm, NEW t \in Tasks, RtReturn(t)
    PROVE  SafetyInv'
<1>0. RtInv'
  BY ReturnStep DEF SafetyInv
<1> USE ConstantsAssumption
    DEF SafetyInv, RtInv, RtTypeOK, RtReturn, Goto, host, locks, store
<1>1. LabelInv'
  BY DEF LabelInv, TaskLabels, Launches, SnapshotOps
<1>2. MapInv' /\ TornDownUnreachable'
  BY DEF MapInv, TornDownUnreachable, TearsDown
<1>3. GuardInv'
  BY DEF GuardInv, MayHold, MayHoldArtifact, DrivesMine
<1>4. SecretInv'
  <2>1. Secret(t)' = {}
    BY DEF Secret
  <2>2. ASSUME NEW u \in Tasks, u # t PROVE Secret(u)' = Secret(u)
    BY <2>2 DEF Secret
  <2>3. \A u \in Tasks : Secret(u) \subseteq Ids
    BY DEF Secret, HostInv
  <2>4. \A u \in Tasks : mine'[u] = mine[u] \/ mine'[u] = NoVm
    OBVIOUS
  <2>5. \A u \in Tasks : u # t => pc'[u] = pc[u]
    OBVIOUS
  <2>6. UNCHANGED <<state, holder>>
    OBVIOUS
  <2> QED BY <2>1, <2>2, <2>3, <2>4, <2>5, <2>6 DEF SecretInv
<1>5. ArtifactInv' /\ SnapshotInUseIntact'
  BY DEF ArtifactInv, TaskArtifact, SnapshotInUseIntact
<1>6. CaptureInv'
  BY DEF CaptureInv
<1>7. SourceInv'
  BY DEF SourceInv, RollingBack, Live
<1> QED BY <1>0, <1>1, <1>2, <1>3, <1>4, <1>5, <1>6, <1>7

\* The invariant holds when the daemon starts.
LEMMA SafetyInit == RtInit => SafetyInv /\ NoOrphanVm
<1> SUFFICES ASSUME RtInit PROVE SafetyInv /\ NoOrphanVm
  OBVIOUS
<1>0. RtInv /\ NoOrphanVm
  BY InvInit
<1> USE ConstantsAssumption DEF RtInit
<1>1. LabelInv
  BY DEF LabelInv, TaskLabels, Launches, SnapshotOps
<1>2. MapInv /\ TornDownUnreachable
  BY DEF MapInv, TornDownUnreachable, TearsDown
<1>3. GuardInv
  BY DEF GuardInv
<1>4. SecretInv
  BY DEF SecretInv, Secret
<1>5. ArtifactInv /\ SnapshotInUseIntact
  BY DEF ArtifactInv, TaskArtifact, SnapshotInUseIntact
<1>6. CaptureInv /\ SourceInv
  BY DEF CaptureInv, SourceInv, RollingBack
<1> QED BY <1>0, <1>1, <1>2, <1>3, <1>4, <1>5, <1>6 DEF SafetyInv

\* It does not depend on anything but the runtime's variables.
LEMMA SafetyStutter ==
    ASSUME SafetyInv, NoOrphanVm, UNCHANGED rtVars
    PROVE  SafetyInv'
<1>0. RtInv'
  BY InvStutter DEF SafetyInv
<1> USE DEF SafetyInv, rtVars, maps, host, locks, store, call, locals
<1>1. LabelInv' /\ MapInv' /\ TornDownUnreachable'
  BY DEF LabelInv, TaskLabels, MapInv, TornDownUnreachable, TearsDown
<1>2. GuardInv'
  BY DEF GuardInv, MayHold, MayHoldArtifact
<1>3. SecretInv'
  BY DEF SecretInv, Secret
<1>4. ArtifactInv' /\ SnapshotInUseIntact'
  BY DEF ArtifactInv, TaskArtifact, SnapshotInUseIntact
<1>5. CaptureInv' /\ SourceInv'
  BY DEF CaptureInv, SourceInv, RollingBack, Live
<1> QED BY <1>0, <1>1, <1>2, <1>3, <1>4, <1>5

\* Every step keeps it.
LEMMA SafetyNext ==
    ASSUME SafetyInv, NoOrphanVm, [RtNext]_rtVars
    PROVE  SafetyInv' /\ NoOrphanVm'
<1>0. RtInv' /\ NoOrphanVm'
  BY InvNext DEF SafetyInv
<1>1. ASSUME NEW t \in Tasks, RtStep(t) PROVE SafetyInv'
  BY <1>0, <1>1, LabelStep, GuardStep, ArtifactStep, CaptureStep, RollbackStep, MapStep,
     SecretStep DEF SafetyInv
<1>2. ASSUME NEW t \in Tasks, RtEnv(t) PROVE SafetyInv'
  BY <1>2, CallsAreWellFormed, CallSafe, ReturnSafe DEF SafetyInv, RtInv
<1> QED BY <1>0, <1>1, <1>2, SafetyStutter DEF RtNext

(***************************************************************************)
(* The invariant that the run checks holds for any number of calls.        *)
(***************************************************************************)
THEOREM SafetyHolds == RtSpec => []SafetyInv
BY SafetyInit, SafetyNext, PTL DEF RtSpec

(***************************************************************************)
(* delete, the undoing of a launch and a rollback's commit take a record   *)
(* out of the map before they tear it down, and only one of them has it.   *)
(***************************************************************************)
THEOREM TornDown == RtSpec => []TornDownUnreachable
<1>1. SafetyInv => TornDownUnreachable
  BY DEF SafetyInv
<1> QED BY <1>1, SafetyHolds, PTL

(***************************************************************************)
(* delete_snapshot never takes the directory from under a launch.          *)
(***************************************************************************)
THEOREM SnapshotInUse == RtSpec => []SnapshotInUseIntact
<1>1. SafetyInv => SnapshotInUseIntact
  BY DEF SafetyInv
<1> QED BY <1>1, SafetyHolds, PTL

(***************************************************************************)
(* rollback_snapshot leaves its source alone until it has committed, with  *)
(* its lock in its hands, and nobody but a delete that waits for that lock *)
(* can have taken it away from its id.                                     *)
(***************************************************************************)
THEOREM SourceKept == RtSpec => []RollbackKeepsSource
<1>1. SafetyInv /\ NoOrphanVm => RollbackKeepsSource
  <2> SUFFICES ASSUME SafetyInv, NoOrphanVm, NEW t \in Tasks, RollingBack(t)
               PROVE  /\ holder[mine[t]] = t
                      /\ \/ \E k \in published : sandboxes[k] = mine[t]
                         \/ \E u \in Tasks :
                                op[u] = "delete" /\ pc[u] = "del_lock" /\ cur[u] = mine[t]
    BY DEF SafetyInv, RollbackKeepsSource
  <2>1. mine[t] \in Ids /\ holder[mine[t]] = t /\ Live(mine[t])
    BY DEF SafetyInv, SourceInv, RollingBack, RtInv, LockInv, TaskLocks
  <2>2. ASSUME NEW u \in Tasks, mine[t] \in Owned(u)
        PROVE  op[u] = "delete" /\ pc[u] = "del_lock" /\ cur[u] = mine[t]
    <3>1. mine[t] \notin Secret(u)
      BY DEF SafetyInv, SecretInv
    <3>2. pc[u] \in {"del_lock", "terminate"} /\ cur[u] = mine[t]
      BY <2>2, <3>1 DEF Owned, Secret
    <3>3. pc[u] # "terminate"
      <4>1. SUFFICES ASSUME pc[u] = "terminate" PROVE FALSE
        OBVIOUS
      <4>2. holder[cur[u]] = u
        BY <4>1 DEF SafetyInv, RtInv, LockInv, TaskLocks
      <4>3. u = t
        BY <2>1, <3>2, <4>2
      <4> QED BY <3>2, <4>1, <4>3 DEF SafetyInv, RtInv, LockInv, TaskLocks, RollingBack
    <3> QED BY <3>1, <3>2, <3>3 DEF Secret
  <2> QED BY <2>1, <2>2 DEF NoOrphanVm
<1> QED BY <1>1, SafetyHolds, NoOrphan, PTL

(***************************************************************************)
(* The locks of records and artifacts are never waited for in a circle:    *)
(* who waits for a record holds nothing, except for a rollback that waits  *)
(* for an artifact and for calls that wait for a record nobody else knows. *)
(***************************************************************************)
THEOREM DeadlockFree == RtSpec => []NoDeadlock
<1>1. SafetyInv => NoDeadlock
  <2> SUFFICES ASSUME SafetyInv, NEW W \in SUBSET Tasks, NEW t0 \in W,
                      \A t \in W : WaitsFor(t) \in W
               PROVE  FALSE
    BY DEF NoDeadlock
  <2> USE DEF SafetyInv, RtInv, RtTypeOK
  <2>1. ASSUME NEW t \in W PROVE pc[t] \in {"lock", "repl_lock", "del_lock", "snap_lock"}
    BY <2>1, ConstantsAssumption DEF WaitsFor
  <2>2. ASSUME NEW t \in W, pc[t] \in {"repl_lock", "del_lock"} PROVE op[t] = "delete"
    <3>1. CASE op[t] # "delete"
      <4>1. cur[t] \in Secret(t)
        BY <2>2, <3>1 DEF ControlInv, TaskInv, RollbackLaunches, Secret
      <4>2. holder[cur[t]] = NoTask
        BY <2>2, <4>1 DEF SecretInv
      <4>3. WaitsFor(t) = NoTask
        BY <2>2, <4>2 DEF WaitsFor
      <4> QED BY <4>3, ConstantsAssumption
    <3> QED BY <3>1
  <2>3. ASSUME NEW t \in W, NEW i \in Ids, holder[i] = t PROVE pc[t] = "snap_lock"
    <3>1. MayHold(t, i)
      BY <2>3 DEF GuardInv
    <3>2. pc[t] = "lock" => FALSE
      BY <3>1 DEF MayHold, DrivesMine
    <3>3. pc[t] \in {"repl_lock", "del_lock"} => FALSE
      BY <2>2, <3>1 DEF MayHold, DrivesMine
    <3> QED BY <2>1, <3>2, <3>3
  <2>4. ASSUME NEW t \in W, NEW s \in Snaps, sholder[s] = t PROVE FALSE
    <3>1. MayHoldArtifact(t, s)
      BY <2>4 DEF GuardInv
    <3> QED BY <2>1, <2>2, <3>1 DEF MayHoldArtifact
  <2>5. ASSUME NEW t \in W PROVE pc[t] # "snap_lock"
    <3>1. CASE pc[t] = "snap_lock"
      <4>1. snp[t] \in Snaps
        BY <3>1 DEF LabelInv, TaskLabels, SnapshotOps
      <4>2. sholder[snp[t]] \in W
        BY <3>1 DEF WaitsFor
      <4> QED BY <2>4, <4>1, <4>2
    <3> QED BY <3>1
  <2>6. \A t \in W : \A i \in Ids : holder[i] # t
    BY <2>3, <2>5
  <2>7. ASSUME pc[t0] = "lock" PROVE FALSE
    <3>1. mine[t0] \in Ids
      BY <2>7 DEF ControlInv, TaskInv
    <3>2. holder[mine[t0]] \in W
      BY <2>7 DEF WaitsFor
    <3> QED BY <2>6, <3>1, <3>2
  <2>8. ASSUME pc[t0] \in {"repl_lock", "del_lock"} PROVE FALSE
    <3>1. pc[t0] = "del_lock"
      BY <2>2, <2>8 DEF ControlInv, TaskInv
    <3>2. cur[t0] \in Ids
      BY <3>1 DEF HostInv
    <3>3. holder[cur[t0]] \in W
      BY <2>8 DEF WaitsFor
    <3> QED BY <2>6, <3>2, <3>3
  <2> QED BY <2>1, <2>5, <2>7, <2>8
<1> QED BY <1>1, SafetyHolds, PTL
-----------------------------------------------------------------------------
\* What a step takes out of the map under a known id, a delete takes out.
LEMMA UnmapStep ==
    ASSUME SafetyInv, [RtNext]_rtVars, NEW k \in published,
           sandboxes[k] # NoVm, sandboxes'[k] = NoVm
    PROVE  \E t \in Tasks : Unmaps(t, k)
<1> USE DEF SafetyInv, RtInv, RtTypeOK, OwnershipInv
<1>1. k \in Ids /\ k \notin UNION {launched[t] : t \in Tasks}
  OBVIOUS
<1>2. sandboxes' # sandboxes
  OBVIOUS
<1>3. PICK t \in Tasks : RtStep(t) \/ RtEnv(t)
  BY <1>2 DEF RtNext, rtVars, maps
<1>4. CASE RtEnv(t)
  <2>1. UNCHANGED sandboxes
    BY <1>4, CallsAreWellFormed DEF WellFormedCall, RtCall, RtReturn, maps
  <2> QED BY <1>2, <2>1
<1>5. CASE Booted(t)
  BY <1>5, ConstantsAssumption DEF Booted, ControlInv, TaskInv
<1>6. CASE Unwind(t)
  BY <1>1, <1>6 DEF Unwind
<1>7. CASE Swap(t)
  <2>1. launched[t] = {cur[t]} /\ cur[t] \in Ids
    BY <1>7 DEF Swap, ControlInv, TaskInv, RollbackLaunches
  <2>2. sandboxes' = [sandboxes EXCEPT ![arg[t]] = cur[t], ![cur[t]] = NoVm]
    BY <1>2, <1>7 DEF Swap
  <2> QED BY <1>1, <2>1, <2>2, ConstantsAssumption
<1>8. CASE DelRemove(t)
  <2>1. /\ sandboxes' = [sandboxes EXCEPT ![arg[t]] = NoVm]
        /\ cur' = [cur EXCEPT ![t] = sandboxes[arg[t]]]
        /\ pc' = [pc EXCEPT ![t] = "del_lock"]
        /\ pc[t] = "del_remove" /\ op[t] = "delete"
    BY <1>2, <1>8 DEF DelRemove, Continue, Goto, ControlInv, TaskInv
  <2>2. arg[t] = k
    BY <1>1, <2>1
  <2>3. cur'[t] = sandboxes[k] /\ pc'[t] = "del_lock"
    BY <2>1, <2>2
  <2> QED BY <2>1, <2>2, <2>3 DEF Unmaps
<1>9. CASE ~(RtEnv(t) \/ Booted(t) \/ Unwind(t) \/ Swap(t) \/ DelRemove(t))
  <2>1. UNCHANGED sandboxes
    BY <1>3, <1>9 DEF RtStep, AcquireLock, Lookup, Lock, Pause, Resume, Reconnect, SnapPause,
       SnapCapture, SnapResume, SnapReconnect, SnapPublish, SnapInsert, SnapLookup, SnapLock,
       Verify, TryLock, Purge, SnapUnmap, Launch, BootFailed, Unwound, ReplLock, Rekey, DelLock,
       Terminate, Cleanup, maps
  <2> QED BY <1>2, <2>1
<1> QED BY <1>4, <1>5, <1>6, <1>7, <1>8, <1>9

(***************************************************************************)
(* A known id leaves the map in the step of its own deletion that takes    *)
(* the record, and in no other way.                                        *)
(***************************************************************************)
THEOREM OnlyDelete == RtSpec => OnlyDeleteUnmaps
<1>1. SafetyInv /\ [RtNext]_rtVars =>
        [\A k \in published :
            sandboxes[k] # NoVm /\ sandboxes'[k] = NoVm
                => \E t \in Tasks : Unmaps(t, k)]_rtVars
  BY UnmapStep
<1> QED BY <1>1, SafetyHolds, PTL DEF RtSpec, OnlyDeleteUnmaps

\* A task lets go of a record only in a step of its own.
LEMMA OwnGuards ==
    ASSUME SafetyInv, [RtNext]_rtVars, NEW t \in Tasks, NEW i \in Ids, LetsGo(t, i)
    PROVE  RtStep(t)
<1> USE ConstantsAssumption DEF SafetyInv, RtInv, RtTypeOK, LetsGo
<1>1. holder' # holder
  OBVIOUS
<1>2. PICK u \in Tasks : RtStep(u) \/ RtEnv(u)
  BY <1>1 DEF RtNext, rtVars, locks
<1>3. CASE RtEnv(u)
  <2>1. UNCHANGED holder
    BY <1>3, CallsAreWellFormed DEF WellFormedCall, RtCall, RtReturn, locks
  <2> QED BY <1>1, <2>1
<1>4. ASSUME RtStep(u), u # t PROVE FALSE
  <2>1. CASE Rekey(u) \/ Swap(u) \/ Cleanup(u)
    <3>1. cur[u] \in Ids /\ holder[cur[u]] = u
      BY <2>1 DEF Rekey, Swap, Cleanup, LockInv, TaskLocks
    <3>2. \A j \in Ids : holder'[j] = holder[j] \/ holder[j] = u
      BY <2>1, <3>1 DEF Rekey, Swap, Cleanup, DropReplacement, Continue, locks, Finish, DropGuards
    <3> QED BY <1>4, <3>2
  <2>2. CASE Lock(u) \/ ReplLock(u) \/ DelLock(u)
    BY <1>4, <2>2 DEF Lock, ReplLock, DelLock, Finish, DropGuards
  <2>3. CASE ~(Rekey(u) \/ Swap(u) \/ Cleanup(u) \/ Lock(u) \/ ReplLock(u) \/ DelLock(u))
    <3>1. UNCHANGED holder \/ DropGuards(u)
      BY <1>4, <2>3 DEF RtStep, AcquireLock, Lookup, Pause, Resume, Reconnect, SnapPause,
         SnapCapture, SnapResume, SnapResumeFailed, SnapReconnect, SnapPublish, SnapInsert,
         SnapLookup, SnapLock, Verify, TryLock, Purge, SnapUnmap, Launch, Booted, BootFailed,
         Unwind, Unwound, DelRemove, Terminate, Finish, Continue, locks
    <3> QED BY <1>4, <3>1 DEF DropGuards
  <2> QED BY <2>1, <2>2, <2>3
<1> QED BY <1>2, <1>3, <1>4

\* What a pause, a resume or a snapshot leaves behind.
LEMMA LieStep ==
    ASSUME SafetyInv, [RtNext]_rtVars, NEW t \in Tasks, NEW i \in Ids,
           op[t] \in {"pause", "resume", "snapshot"}, LetsGo(t, i)
    PROVE  Truthful(i)' \/ result'[t] = "error"
<1> USE ConstantsAssumption DEF SafetyInv, RtInv, RtTypeOK
<1>1. RtStep(t)
  BY OwnGuards
<1>2. i = mine[t] /\ pc[t] \in DrivesMine
  BY DEF LetsGo, GuardInv, MayHold, LabelInv, TaskLabels, ControlInv, TaskInv, Launches
<1>3. holder'[i] # t
  BY DEF LetsGo
<1>4. CASE Pause(t)
  BY <1>2, <1>4 DEF Pause, PatchOk, Finish, Truthful
<1>5. CASE Resume(t)
  BY <1>2, <1>3, <1>5 DEF Resume, Finish, Continue, locks, LetsGo
<1>6. CASE Reconnect(t)
  BY <1>2, <1>6 DEF Reconnect, Finish, Truthful, CaptureInv
<1>7. CASE SnapPause(t)
  BY <1>2, <1>3, <1>7 DEF SnapPause, Finish, Continue, locks, LetsGo
<1>8. CASE SnapCapture(t)
  BY <1>2, <1>3, <1>8 DEF SnapCapture, Finish, locks, LetsGo, Truthful, CaptureInv, host
<1>9. CASE SnapResume(t)
  BY <1>2, <1>3, <1>9 DEF SnapResume, SnapResumeFailed, Finish, Continue, locks, LetsGo
<1>10. CASE SnapReconnect(t)
  BY <1>2, <1>10 DEF SnapReconnect, SnapResumeFailed, Finish, Truthful, CaptureInv
<1> QED
  BY <1>1, <1>2, <1>4, <1>5, <1>6, <1>7, <1>8, <1>9, <1>10 DEF RtStep, AcquireLock, DrivesMine,
     Lock, SnapLock, ReplLock, DelLock, Lookup, SnapPublish, SnapInsert, SnapLookup, Verify,
     TryLock, Purge, SnapUnmap, Launch, Booted, BootFailed, Unwind, Unwound, Rekey, Swap,
     DelRemove, Terminate, Cleanup

(***************************************************************************)
(* A pause, a resume or a snapshot that lets go of a record whose state is *)
(* not that of its VM reports an error.                                    *)
(***************************************************************************)
THEOREM NoLie == RtSpec => NoSilentLie
<1>1. SafetyInv /\ [RtNext]_rtVars =>
        [\A t \in Tasks, i \in Ids :
            op[t] \in {"pause", "resume", "snapshot"} /\ LetsGo(t, i)
                => Truthful(i)' \/ result'[t] = "error"]_rtVars
  BY LieStep
<1> QED BY <1>1, SafetyHolds, PTL DEF RtSpec, NoSilentLie
-----------------------------------------------------------------------------
(***************************************************************************)
(* Third part: the API. The handlers and the reapers call the runtime only *)
(* in ways RtNext allows, so that every theorem about RtSpec holds under   *)
(* the API; on top of it ApiInv is inductive, and with it the API          *)
(* implements SandboxLifetime and forgets no VM it has registered.         *)
(***************************************************************************)

\* A step of the runtime, as far as the API's records depend on it.
LEMMA RuntimeStep ==
    ASSUME RtInv, NEW t \in Tasks, RtStep(t)
    PROVE  /\ UNCHANGED <<op, arg, published>>
           /\ pc[t] # "idle"
           /\ \E l \in Labels \ {"idle", "del_remove"} : pc' = [pc EXCEPT ![t] = l]
           /\ \A i \in published : sandboxes[i] = NoVm => sandboxes'[i] = NoVm
           /\ op[t] = "delete" /\ pc[t] = "del_remove" => sandboxes'[arg[t]] = NoVm
<1> USE Literals DEF RtInv, RtTypeOK, Goto, Finish, Continue, maps, call
<1>1. UNCHANGED <<op, arg, published>>
  BY DEF RtStep, AcquireLock, Lookup, Lock, Pause, Resume, Reconnect, SnapPause,
       SnapCapture, SnapResume, SnapReconnect, SnapPublish, SnapInsert, SnapLookup, SnapLock,
       Verify, TryLock, Purge, SnapUnmap, Launch, Booted, BootFailed, Unwind, Unwound, ReplLock,
       Rekey, Swap, DelRemove, DelLock, Terminate, Cleanup, locals, SnapResumeFailed
<1>2. pc[t] # "idle"
  BY DEF RtStep, AcquireLock, Lookup, Lock, Pause, Resume, Reconnect, SnapPause,
       SnapCapture, SnapResume, SnapReconnect, SnapPublish, SnapInsert, SnapLookup, SnapLock,
       Verify, TryLock, Purge, SnapUnmap, Launch, Booted, BootFailed, Unwind, Unwound, ReplLock,
       Rekey, Swap, DelRemove, DelLock, Terminate, Cleanup
<1>3. \E l \in Labels \ {"idle", "del_remove"} : pc' = [pc EXCEPT ![t] = l]
  <2>1. CASE Lock(t)
    BY <2>1 DEF Lock, AfterLock, ControlInv, TaskInv, RecordOps
  <2>2. CASE Lookup(t) \/ Pause(t) \/ Resume(t) \/ Reconnect(t) \/ SnapPause(t) \/ SnapResume(t)
    BY <2>2 DEF Lookup, Pause, Resume, Reconnect, SnapPause, SnapResume, SnapResumeFailed
  <2>3. CASE SnapCapture(t) \/ SnapReconnect(t) \/ SnapPublish(t) \/ SnapInsert(t)
    BY <2>3 DEF SnapCapture, SnapReconnect, SnapPublish, SnapInsert, SnapResumeFailed
  <2>4. CASE SnapLookup(t) \/ SnapLock(t) \/ Verify(t) \/ TryLock(t) \/ Purge(t) \/ SnapUnmap(t)
    BY <2>4 DEF SnapLookup, SnapLock, Verify, TryLock, Purge, SnapUnmap
  <2>5. CASE Launch(t) \/ Booted(t) \/ BootFailed(t) \/ Unwind(t) \/ Unwound(t)
    BY <2>5 DEF Launch, Booted, BootFailed, Unwind, Unwound
  <2>6. CASE ReplLock(t) \/ Rekey(t) \/ Swap(t)
    BY <2>6 DEF ReplLock, Rekey, Swap
  <2>7. CASE DelRemove(t) \/ DelLock(t) \/ Terminate(t) \/ Cleanup(t)
    BY <2>7 DEF DelRemove, DelLock, Terminate, Cleanup
  <2> QED BY <2>1, <2>2, <2>3, <2>4, <2>5, <2>6, <2>7 DEF RtStep, AcquireLock
<1>4. ASSUME NEW i \in published, sandboxes[i] = NoVm PROVE sandboxes'[i] = NoVm
  <2>1. CASE Booted(t)
    BY <1>4, <2>1 DEF Booted, ControlInv, TaskInv, OwnershipInv
  <2>2. CASE Unwind(t)
    BY <1>4, <2>2 DEF Unwind
  <2>3. CASE Swap(t)
    <3>1. mine[t] \in Ids
      BY <2>3 DEF Swap, LockInv, TaskLocks, ControlInv, TaskInv
    <3> QED BY <1>4, <2>3, <3>1, ConstantsAssumption DEF Swap
  <2>4. CASE DelRemove(t)
    BY <1>4, <2>4 DEF DelRemove
  <2>5. CASE ~(Booted(t) \/ Unwind(t) \/ Swap(t) \/ DelRemove(t))
    <3>1. UNCHANGED sandboxes
      BY <2>5 DEF RtStep, AcquireLock, Lookup, Lock, Pause, Resume, Reconnect, SnapPause,
         SnapCapture, SnapResume, SnapReconnect, SnapPublish, SnapInsert, SnapLookup, SnapLock,
         Verify, TryLock, Purge, SnapUnmap, Launch, BootFailed, Unwound, ReplLock, Rekey,
         DelLock, Terminate, Cleanup
    <3> QED BY <1>4, <3>1
  <2> QED BY <2>1, <2>2, <2>3, <2>4, <2>5
<1>5. ASSUME op[t] = "delete", pc[t] = "del_remove" PROVE sandboxes'[arg[t]] = NoVm
  <2>1. DelRemove(t)
    BY <1>5 DEF RtStep, AcquireLock, Lookup, Lock, Pause, Resume, Reconnect, SnapPause,
       SnapCapture, SnapResume, SnapReconnect, SnapPublish, SnapInsert, SnapLookup, SnapLock,
       Verify, TryLock, Purge, SnapUnmap, Launch, Booted, BootFailed, Unwind, Unwound, ReplLock,
       Rekey, Swap, DelLock, Terminate, Cleanup
  <2>2. arg[t] \in Ids
    BY <1>5 DEF ControlInv, TaskInv, RecordOps
  <2> QED BY <2>1, <2>2 DEF DelRemove
<1> QED BY <1>1, <1>2, <1>3, <1>4, <1>5
-----------------------------------------------------------------------------
\* Handlers and reapers use the runtime as its callers may.
LEMMA CallsOfTheApi ==
    ASSUME RtInv, ApiInv, [Next]_vars
    PROVE  [RtNext]_rtVars
<1> USE ApiAssumption DEF RtNext, RtEnv
<1>1. \A i \in Ids : Authorize(i) => i \in published
  BY DEF ApiInv, KnownInv, Authorize
<1>2. ASSUME NEW c \in Clients, Request(c) PROVE RtEnv(c)
  <2>1. CASE CreateSandbox(c)
    BY <2>1 DEF CreateSandbox
  <2>2. ASSUME NEW i \in Ids, PauseSandbox(c, i) \/ ResumeSandbox(c, i) \/ DeleteSandbox(c, i)
        PROVE  RtEnv(c)
    BY <1>1, <2>2 DEF PauseSandbox, ResumeSandbox, DeleteSandbox
  <2>3. ASSUME NEW i \in Ids, CreateSnapshot(c, i) PROVE RtEnv(c)
    BY <1>1, <2>3 DEF CreateSnapshot
  <2>4. ASSUME NEW i \in Ids, NEW s \in Snaps, RollbackSnapshot(c, i, s) PROVE RtEnv(c)
    BY <1>1, <2>4 DEF RollbackSnapshot
  <2>5. ASSUME NEW s \in Snaps, CloneSnapshot(c, s) PROVE RtEnv(c)
    BY <2>5 DEF CloneSnapshot
  <2>6. ASSUME NEW s \in Snaps, DeleteSnapshot(c, s) PROVE RtEnv(c)
    BY <2>6 DEF DeleteSnapshot
  <2> QED BY <1>2, <2>1, <2>2, <2>3, <2>4, <2>5, <2>6 DEF Request
<1>3. ASSUME NEW c \in Clients, Respond(c) PROVE RtEnv(c)
  BY <1>3 DEF Respond
<1>4. ASSUME NEW i \in Ids, Expire(i) \/ ReaperGivesUp(i) PROVE UNCHANGED rtVars
  BY <1>4 DEF Expire, ReaperGivesUp
<1>5. ASSUME NEW i \in Ids, ReaperDelete(i) PROVE RtEnv(i)
  <2>1. i \in published
    BY <1>5 DEF ApiInv, KnownInv, ReaperDelete
  <2> QED BY <1>5, <2>1 DEF ReaperDelete
<1>6. ASSUME NEW i \in Ids, ReaperDone(i) PROVE RtEnv(i)
  BY <1>6 DEF ReaperDone
<1>7. ASSUME UNCHANGED vars PROVE UNCHANGED rtVars
  BY <1>7 DEF vars
<1> QED BY <1>2, <1>3, <1>4, <1>5, <1>6, <1>7 DEF Next, Runtime, Reaper
-----------------------------------------------------------------------------
\* No record appears, and one whose id is mapped can still be deleted if it could.
KeepsRecords ==
    /\ records' \in [Ids -> States \cup {"None"}]
    /\ \A i \in Ids :
        /\ records'[i] # "None" => records[i] # "None"
        /\ sandboxes[i] # NoVm /\ MayTransition(i, "Deleting") => MayTransition(i, "Deleting")'

\* A call other than delete, that changes no more than that, keeps ApiInv.
LEMMA OtherCall ==
    ASSUME RtInv, ApiInv, NEW c \in Clients, KeepsRecords, UNCHANGED <<tokens, expired, reaper>>,
           NEW o \in Ops \ {"delete"}, NEW i, NEW s, NEW F, RtCall(c, o, i, s, F)
    PROVE  ApiInv'
<1> USE ApiAssumption DEF RtInv, RtTypeOK, ApiInv, KeepsRecords, RtCall, Goto, maps
<1>1. ApiTypeOK' /\ KnownInv'
  BY DEF ApiTypeOK, KnownInv
<1>2. \A u \in Tasks : u # c => pc'[u] = pc[u] /\ op'[u] = op[u] /\ arg'[u] = arg[u]
  OBVIOUS
<1>3. ReaperInv'
  BY <1>2 DEF ReaperInv
<1>4. DeleteInv'
  BY <1>2 DEF DeleteInv
<1>5. ReclaimInv'
  <2>1. ASSUME NEW k \in Ids, reaper'[k] # "unarmed", sandboxes'[k] # NoVm
        PROVE  \/ reaper'[k] = "sleeping" /\ MayTransition(k, "Deleting")'
               \/ \E u \in Tasks : op'[u] = "delete" /\ arg'[u] = k /\ pc'[u] = "del_remove"
    <3>1. reaper[k] # "unarmed" /\ sandboxes[k] # NoVm
      BY <2>1
    <3> QED BY <1>2, <3>1, SMTT(60) DEF ReclaimInv
  <2> QED BY <2>1 DEF ReclaimInv
<1> QED BY <1>1, <1>3, <1>4, <1>5

\* A delete takes its record to Deleting and is about to unmap the id.
LEMMA DeleteCall ==
    ASSUME RtInv, ApiInv, NEW t \in Tasks, NEW i \in Ids, t \in Ids => t = i,
           MayTransition(i, "Deleting"), Transition(i, "Deleting"), CallOnRecord(t, "delete", i),
           reaper' = IF t \in Ids THEN [reaper EXCEPT ![i] = "deleting"] ELSE reaper,
           reaper[i] = "sleeping" \/ t \notin Ids,
           UNCHANGED <<tokens, expired>>
    PROVE  ApiInv'
<1> USE ApiAssumption DEF RtInv, RtTypeOK, ApiInv, CallOnRecord, RtCall, Goto, maps
<1>0. records' = [records EXCEPT ![i] = "Deleting"] /\ records[i] # "None"
  BY DEF Transition, MayTransition
<1>1. ApiTypeOK' /\ KnownInv'
  BY <1>0 DEF ApiTypeOK, KnownInv, ReaperStates, States
<1>2. \A u \in Tasks : u # t => pc'[u] = pc[u] /\ op'[u] = op[u] /\ arg'[u] = arg[u]
  OBVIOUS
<1>3. pc[t] = "idle" /\ pc'[t] = "del_remove" /\ op'[t] = "delete" /\ arg'[t] = i
  BY DEF FirstLabel, RecordOps, SnapshotOps
<1>4. ReaperInv'
  BY <1>2, <1>3 DEF ReaperInv, ApiTypeOK
<1>5. DeleteInv'
  BY <1>2, <1>3 DEF DeleteInv
<1>6. ReclaimInv'
  <2>1. ASSUME NEW k \in Ids, k # i, reaper'[k] # "unarmed", sandboxes'[k] # NoVm
        PROVE  \/ reaper'[k] = "sleeping" /\ MayTransition(k, "Deleting")'
               \/ \E u \in Tasks : op'[u] = "delete" /\ arg'[u] = k /\ pc'[u] = "del_remove"
    <3>1. reaper'[k] = reaper[k] /\ records'[k] = records[k]
      BY <1>0, <2>1 DEF ApiTypeOK
    <3> QED BY <1>2, <1>3, <2>1, <3>1 DEF ReclaimInv, MayTransition
  <2> QED BY <1>3, <2>1 DEF ReclaimInv
<1> QED BY <1>1, <1>4, <1>5, <1>6

\* Requests keep ApiInv.
LEMMA RequestStep ==
    ASSUME RtInv, ApiInv, NEW c \in Clients, Request(c)
    PROVE  ApiInv'
<1> USE ApiAssumption
<1>0. records \in [Ids -> States \cup {"None"}]
  BY DEF ApiInv, ApiTypeOK
<1>1. CASE UNCHANGED apiVars
  <2>1. KeepsRecords
    BY <1>0, <1>1 DEF KeepsRecords, apiVars, MayTransition
  <2>2. CASE CreateSandbox(c)
    BY <1>1, <2>1, <2>2, OtherCall DEF CreateSandbox, CallCreate, Ops, apiVars
  <2>3. ASSUME NEW i \in Ids, CreateSnapshot(c, i) PROVE ApiInv'
    BY <1>1, <2>1, <2>3, OtherCall DEF CreateSnapshot, CallSnapshot, Ops, RecordOps, apiVars
  <2>4. ASSUME NEW i \in Ids, NEW s \in Snaps, RollbackSnapshot(c, i, s) PROVE ApiInv'
    BY <1>1, <2>1, <2>4, OtherCall DEF RollbackSnapshot, CallRollback, Ops, RecordOps, apiVars
  <2>5. ASSUME NEW s \in Snaps, CloneSnapshot(c, s) PROVE ApiInv'
    BY <1>1, <2>1, <2>5, OtherCall DEF CloneSnapshot, CallClone, Ops, SnapshotOps, apiVars
  <2>6. ASSUME NEW s \in Snaps, DeleteSnapshot(c, s) PROVE ApiInv'
    BY <1>1, <2>1, <2>6, OtherCall DEF DeleteSnapshot, CallOnSnapshot, Ops, SnapshotOps, apiVars
  <2>7. ASSUME NEW i \in Ids, PauseSandbox(c, i) \/ ResumeSandbox(c, i) \/ DeleteSandbox(c, i)
        PROVE  ApiInv'
    <3>1. records'[i] # records[i]
      BY <1>0, <2>7 DEF PauseSandbox, ResumeSandbox, DeleteSandbox, Transition, MayTransition,
             CanTransitionTo, LegalTransitions
    <3> QED BY <1>1, <3>1 DEF apiVars
  <2> QED BY <2>2, <2>3, <2>4, <2>5, <2>6, <2>7 DEF Request
<1>2. ASSUME NEW i \in Ids, PauseSandbox(c, i) PROVE ApiInv'
  <2>1. KeepsRecords
    BY <1>0, <1>2 DEF PauseSandbox, KeepsRecords, MayTransition, CanTransitionTo, LegalTransitions,
           States
  <2> QED BY <1>2, <2>1, OtherCall DEF PauseSandbox, CallOnRecord, Ops, RecordOps
<1>3. ASSUME NEW i \in Ids, ResumeSandbox(c, i) PROVE ApiInv'
  <2>1. KeepsRecords
    BY <1>0, <1>3 DEF ResumeSandbox, KeepsRecords, MayTransition, CanTransitionTo, LegalTransitions,
           States
  <2> QED BY <1>3, <2>1, OtherCall DEF ResumeSandbox, CallOnRecord, Ops, RecordOps
<1>4. ASSUME NEW i \in Ids, DeleteSandbox(c, i) PROVE ApiInv'
  BY <1>4, DeleteCall DEF DeleteSandbox
<1> QED BY <1>1, <1>2, <1>3, <1>4 DEF Request, CreateSandbox, CreateSnapshot, RollbackSnapshot,
               CloneSnapshot, DeleteSnapshot
-----------------------------------------------------------------------------
\* What a legal transition other than one to a deletion does to a record.
LEMMA TransitionKeeps ==
    ASSUME ApiTypeOK, NEW i \in Ids, NEW next \in States \ {"Deleting", "Deleted"},
           Transition(i, next)
    PROVE  KeepsRecords
BY DEF ApiTypeOK, Transition, KeepsRecords, MayTransition, CanTransitionTo, LegalTransitions, States

\* The outcome of a delete concerns an id that is no longer mapped.
LEMMA OutcomeKeeps ==
    ASSUME ApiTypeOK, NEW i \in Ids, NEW ok \in BOOLEAN, DeleteOutcome(i, ok), sandboxes[i] = NoVm
    PROVE  KeepsRecords
<1>1. CASE ok
  BY <1>1 DEF ApiTypeOK, DeleteOutcome, KeepsRecords, MayTransition
<1>2. CASE ~ok
  BY <1>2, TransitionKeeps DEF DeleteOutcome, States
<1> QED BY <1>1, <1>2

\* An answer that registers nothing keeps ApiInv.
LEMMA PlainReturn ==
    ASSUME RtInv, ApiInv, NEW t \in Tasks, RtReturn(t), KeepsRecords, UNCHANGED expired,
           tokens' \in SUBSET Snaps,
           t \in Ids => reaper[t] = "deleting",
           reaper' = IF t \in Ids THEN [reaper EXCEPT ![t] = "spent"] ELSE reaper
    PROVE  ApiInv'
<1> USE ApiAssumption DEF RtInv, RtTypeOK, ApiInv, KeepsRecords, RtReturn, Goto
<1>1. ApiTypeOK' /\ KnownInv'
  BY DEF ApiTypeOK, KnownInv, ReaperStates
<1>2. \A u \in Tasks : u # t => pc'[u] = pc[u] /\ op'[u] = op[u] /\ arg'[u] = arg[u]
  OBVIOUS
<1>3. pc'[t] = "idle" /\ op'[t] = "create"
  OBVIOUS
<1>4. ReaperInv'
  BY <1>2, <1>3 DEF ReaperInv, ApiTypeOK
<1>5. DeleteInv'
  BY <1>2, <1>3 DEF DeleteInv
<1>6. ReclaimInv'
  <2>1. ASSUME NEW k \in Ids, reaper'[k] # "unarmed", sandboxes'[k] # NoVm
        PROVE  \/ reaper'[k] = "sleeping" /\ MayTransition(k, "Deleting")'
               \/ \E u \in Tasks : op'[u] = "delete" /\ arg'[u] = k /\ pc'[u] = "del_remove"
    <3>1. CASE k = t
      <4>1. op[t] = "delete" /\ arg[t] = t /\ pc[t] = "done"
        BY <3>1 DEF ReaperInv
      <4> QED BY <2>1, <3>1, <4>1 DEF DeleteInv
    <3>2. CASE k # t
      <4>1. reaper'[k] = reaper[k] /\ sandboxes[k] # NoVm
        BY <2>1, <3>2 DEF ApiTypeOK
      <4> QED BY <1>2, <2>1, <4>1 DEF ReclaimInv
    <3> QED BY <3>1, <3>2
  <2> QED BY <2>1 DEF ReclaimInv
<1> QED BY <1>1, <1>4, <1>5, <1>6

\* create and clone register VMs that nobody knew.
LEMMA RegisterStep ==
    ASSUME RtInv, ApiInv, NEW c \in Clients, RtReturn(c), UNCHANGED <<tokens, expired>>,
           NEW S \in SUBSET launched[c], Register(S)
    PROVE  ApiInv'
<1> USE ApiAssumption DEF RtInv, RtTypeOK, ApiInv, RtReturn, Goto, Register
<1>1. S \subseteq Ids /\ S \cap published = {}
  BY DEF OwnershipInv
<1>2. \A i \in S : reaper[i] = "unarmed"
  BY <1>1 DEF KnownInv
<1>3. ApiTypeOK' /\ KnownInv'
  BY <1>1 DEF ApiTypeOK, KnownInv, ReaperStates, States
<1>4. \A u \in Tasks : u # c => pc'[u] = pc[u] /\ op'[u] = op[u] /\ arg'[u] = arg[u]
  OBVIOUS
<1>5. ReaperInv'
  BY <1>1, <1>2, <1>4 DEF ReaperInv
<1>6. DeleteInv'
  BY <1>4 DEF DeleteInv
<1>7. ReclaimInv'
  <2>1. ASSUME NEW k \in S PROVE reaper'[k] = "sleeping" /\ MayTransition(k, "Deleting")'
    BY <1>1 DEF MayTransition, CanTransitionTo, LegalTransitions
  <2>2. ASSUME NEW k \in Ids \ S, reaper'[k] # "unarmed", sandboxes'[k] # NoVm
        PROVE  \/ reaper'[k] = "sleeping" /\ MayTransition(k, "Deleting")'
               \/ \E u \in Tasks : op'[u] = "delete" /\ arg'[u] = k /\ pc'[u] = "del_remove"
    <3>1. reaper'[k] = reaper[k] /\ records'[k] = records[k] /\ sandboxes[k] # NoVm
      BY <2>2
    <3> QED BY <1>4, <2>2, <3>1 DEF ReclaimInv, MayTransition
  <2>3. ASSUME NEW k \in Ids, reaper'[k] # "unarmed", sandboxes'[k] # NoVm
        PROVE  \/ reaper'[k] = "sleeping" /\ MayTransition(k, "Deleting")'
               \/ \E u \in Tasks : op'[u] = "delete" /\ arg'[u] = k /\ pc'[u] = "del_remove"
    <3>1. CASE k \in S
      BY <2>1, <3>1
    <3>2. CASE k \in Ids \ S
      BY <2>2, <2>3, <3>2
    <3> QED BY <3>1, <3>2
  <2> QED BY <2>3 DEF ReclaimInv
<1> QED BY <1>3, <1>5, <1>6, <1>7

\* The handlers' answers keep ApiInv.
LEMMA RespondStep ==
    ASSUME RtInv, ApiInv, NEW c \in Clients, Respond(c)
    PROVE  ApiInv'
<1> USE ApiAssumption DEF Respond
<1>0. ApiTypeOK /\ c \in Tasks /\ c \notin Ids /\ pc[c] = "done"
  BY DEF ApiInv, RtReturn
<1>1. op[c] \in RecordOps \cup {"delete"} => arg[c] \in Ids
  BY <1>0 DEF RtInv, RtTypeOK, ControlInv, TaskInv
<1>2. CASE NewSandboxes(c)
  <2>1. PICK S \in Registered(c) : Register(S)
    BY <1>2 DEF NewSandboxes
  <2>2. S \in SUBSET launched[c]
    BY DEF Registered
  <2> QED BY <1>2, <2>1, <2>2, RegisterStep DEF NewSandboxes
<1>3. CASE Paused(c) \/ Resumed(c)
  <2>1. KeepsRecords
    BY <1>0, <1>1, <1>3, TransitionKeeps DEF Paused, Resumed, RecordOps, States
  <2> QED BY <1>0, <1>3, <2>1, PlainReturn DEF Paused, Resumed, ApiTypeOK
<1>4. CASE Snapshotted(c) \/ SnapshotDeleted(c)
  <2>1. tokens' \in SUBSET Snaps
    BY <1>0, <1>4 DEF Snapshotted, SnapshotDeleted, ApiTypeOK, RtInv, ControlInv, TaskInv
  <2>2. KeepsRecords
    BY <1>0, <1>4 DEF Snapshotted, SnapshotDeleted, KeepsRecords, ApiTypeOK, MayTransition
  <2> QED BY <1>0, <1>4, <2>1, <2>2, PlainReturn DEF Snapshotted, SnapshotDeleted
<1>5. CASE RolledBack(c)
  <2>1. KeepsRecords
    BY <1>0, <1>1, <1>5 DEF RolledBack, RecordOps, KeepsRecords, ApiTypeOK, MayTransition,
           CanTransitionTo, LegalTransitions, States
  <2> QED BY <1>0, <1>5, <2>1, PlainReturn DEF RolledBack, ApiTypeOK
<1>6. CASE SandboxDeleted(c)
  <2>1. sandboxes[arg[c]] = NoVm
    BY <1>0, <1>6 DEF SandboxDeleted, ApiInv, DeleteInv
  <2>2. KeepsRecords
    BY <1>0, <1>1, <1>6, <2>1, OutcomeKeeps DEF SandboxDeleted, Ok
  <2> QED BY <1>0, <1>6, <2>2, PlainReturn DEF SandboxDeleted, ApiTypeOK
<1> QED BY <1>2, <1>3, <1>4, <1>5, <1>6

\* The reapers keep ApiInv.
LEMMA ReaperStep ==
    ASSUME RtInv, ApiInv, NEW i \in Ids, Expire(i) \/ Reaper(i)
    PROVE  ApiInv'
<1> USE ApiAssumption
<1>0. ApiTypeOK
  BY DEF ApiInv
<1>1. CASE Expire(i)
  BY <1>1 DEF Expire, ApiInv, ApiTypeOK, KnownInv, ReaperInv, DeleteInv, ReclaimInv, MayTransition,
       rtVars, maps, call
<1>2. CASE ReaperDelete(i)
  BY <1>2, DeleteCall DEF ReaperDelete
<1>3. CASE ReaperGivesUp(i)
  <2> USE <1>3 DEF ReaperGivesUp, ApiInv, rtVars, maps, call
  <2>1. ApiTypeOK' /\ KnownInv' /\ ReaperInv' /\ DeleteInv'
    BY DEF ApiTypeOK, KnownInv, ReaperStates, ReaperInv, DeleteInv
  <2>2. ReclaimInv'
    BY <1>0 DEF ApiTypeOK, ReclaimInv, MayTransition
  <2> QED BY <2>1, <2>2
<1>4. CASE ReaperDone(i)
  <2>1. sandboxes[i] = NoVm
    BY <1>4 DEF ReaperDone, RtReturn, ApiInv, ReaperInv, DeleteInv
  <2>2. KeepsRecords
    BY <1>0, <1>4, <2>1, OutcomeKeeps DEF ReaperDone, Ok
  <2> QED BY <1>0, <1>4, <2>2, PlainReturn DEF ReaperDone, ApiTypeOK
<1> QED BY <1>1, <1>2, <1>3, <1>4 DEF Reaper

\* A step of the runtime keeps ApiInv.
LEMMA RuntimeKeeps ==
    ASSUME RtInv, ApiInv, NEW t \in Tasks, Runtime(t)
    PROVE  ApiInv'
<1> USE ApiAssumption DEF ApiInv, Runtime, apiVars
<1>1. /\ UNCHANGED <<op, arg, published>>
      /\ pc[t] # "idle"
      /\ \A i \in published : sandboxes[i] = NoVm => sandboxes'[i] = NoVm
      /\ op[t] = "delete" /\ pc[t] = "del_remove" => sandboxes'[arg[t]] = NoVm
  BY RuntimeStep
<1>2. /\ pc'[t] # "del_remove"
      /\ \A u \in Tasks : u # t => pc'[u] = pc[u]
  BY RuntimeStep DEF RtInv, RtTypeOK
<1>3. ApiTypeOK' /\ KnownInv'
  BY <1>1 DEF ApiTypeOK, KnownInv
<1>4. ReaperInv'
  BY <1>1, <1>2 DEF ReaperInv
<1>5. DeleteInv'
  <2>1. \A u \in Tasks : op[u] = "delete" => arg[u] \in published
    BY DEF RtInv, ControlInv, TaskInv
  <2> QED BY <1>1, <1>2, <2>1 DEF DeleteInv
<1>6. ReclaimInv'
  <2>1. ASSUME NEW k \in Ids, reaper[k] # "unarmed", sandboxes'[k] # NoVm
        PROVE  \/ reaper[k] = "sleeping" /\ MayTransition(k, "Deleting")
               \/ \E u \in Tasks : op[u] = "delete" /\ arg[u] = k /\ pc'[u] = "del_remove"
    <3>1. sandboxes[k] # NoVm
      BY <1>1, <2>1 DEF KnownInv
    <3> QED BY <1>1, <1>2, <2>1, <3>1 DEF ReclaimInv
  <2> QED BY <1>1, <2>1 DEF ReclaimInv, MayTransition
<1> QED BY <1>3, <1>4, <1>5, <1>6
-----------------------------------------------------------------------------
\* When the server starts nothing is registered.
LEMMA ApiInit == Init => RtInv /\ NoOrphanVm /\ ApiInv
<1> SUFFICES ASSUME Init PROVE RtInv /\ NoOrphanVm /\ ApiInv
  OBVIOUS
<1>1. RtInv /\ NoOrphanVm
  BY InvInit DEF Init
<1>2. ApiInv
  BY ApiAssumption DEF Init, RtInit, ApiInv, ApiTypeOK, KnownInv, ReaperInv, DeleteInv, ReclaimInv,
       ReaperStates
<1> QED BY <1>1, <1>2

\* ApiInv and the runtime's invariant are inductive together.
LEMMA ApiNext ==
    ASSUME RtInv, NoOrphanVm, ApiInv, [Next]_vars
    PROVE  RtInv' /\ NoOrphanVm' /\ ApiInv'
<1>1. RtInv' /\ NoOrphanVm'
  BY CallsOfTheApi, InvNext
<1>2. CASE UNCHANGED vars
  <2> USE <1>2 DEF vars, apiVars, rtVars, maps, call, ApiInv
  <2>1. ApiTypeOK' /\ KnownInv' /\ ReaperInv' /\ DeleteInv'
    BY DEF ApiTypeOK, KnownInv, ReaperInv, DeleteInv
  <2>2. ReclaimInv'
    BY DEF ReclaimInv, MayTransition
  <2> QED BY <1>1, <2>1, <2>2
<1>3. ASSUME NEW c \in Clients, Request(c) \/ Respond(c) PROVE ApiInv'
  BY <1>3, RequestStep, RespondStep
<1>4. ASSUME NEW t \in Tasks, Runtime(t) PROVE ApiInv'
  BY <1>4, RuntimeKeeps
<1>5. ASSUME NEW i \in Ids, Expire(i) \/ Reaper(i) PROVE ApiInv'
  BY <1>5, ReaperStep
<1> QED BY <1>1, <1>2, <1>3, <1>4, <1>5 DEF Next

(***************************************************************************)
(* The inductive invariant of the API: its records, its reapers and the    *)
(* deletes under way fit the runtime's map.                                *)
(***************************************************************************)
THEOREM ApiInvariant == Spec => []ApiInv
BY ApiInit, ApiNext, PTL DEF Spec

(***************************************************************************)
(* The handlers and the reapers are callers the runtime's specification    *)
(* allows: the API over the runtime implements the runtime alone, so all   *)
(* that is proved of RtSpec holds here.                                    *)
(***************************************************************************)
THEOREM ApiImplementsRuntime == Spec => RtSpec
<1>1. Init => RtInit
  BY DEF Init
<1> QED BY <1>1, ApiInit, ApiNext, CallsOfTheApi, PTL DEF Spec, RtSpec

(***************************************************************************)
(* Under every mix of requests, answers and expiries: no microVM is        *)
(* orphaned, none is driven by two calls or reachable once it is torn      *)
(* down, and no circle of calls waits for one another's locks.             *)
(***************************************************************************)
THEOREM ApiKeepsRuntimeSafe ==
    Spec => [](NoOrphanVm /\ OneDriverPerVm /\ TornDownUnreachable /\ NoDeadlock)
BY ApiImplementsRuntime, NoOrphan, OneDriver, TornDown, DeadlockFree, PTL

\* A step of the runtime keeps HandOverInv.
LEMMA HandOverStep ==
    ASSUME RtInv, LabelInv, HandOverInv, NEW t \in Tasks, RtStep(t)
    PROVE  HandOverInv'
<1> USE DEF RtInv, RtTypeOK, HandOverInv, Goto, Finish, Continue, call, locals, Launches
<1>0. ControlInv /\ TaskInv(t) /\ TaskLabels(t)
  BY DEF ControlInv, LabelInv
<1>1. CASE Lookup(t)
  BY <1>0, <1>1 DEF Lookup, TaskInv, TaskLabels, RollbackLaunches
<1>2. CASE Lock(t)
  BY <1>0, <1>2 DEF Lock, TaskInv, TaskLabels, RollbackLaunches
<1>3. CASE Pause(t)
  BY <1>0, <1>3 DEF Pause, TaskInv, TaskLabels, RollbackLaunches
<1>4. CASE Resume(t)
  BY <1>0, <1>4 DEF Resume, TaskInv, TaskLabels, RollbackLaunches
<1>5. CASE Reconnect(t)
  BY <1>0, <1>5 DEF Reconnect, TaskInv, TaskLabels, RollbackLaunches
<1>6. CASE SnapPause(t)
  BY <1>0, <1>6 DEF SnapPause, SnapshotLabels, TaskInv
<1>7. CASE SnapCapture(t)
  BY <1>0, <1>7 DEF SnapCapture, SnapshotLabels, TaskInv
<1>8. CASE SnapResume(t)
  BY <1>0, <1>8 DEF SnapResume, SnapResumeFailed, SnapshotLabels, TaskInv
<1>9. CASE SnapReconnect(t)
  BY <1>0, <1>9 DEF SnapReconnect, SnapResumeFailed, SnapshotLabels, TaskInv
<1>10. CASE SnapPublish(t)
  BY <1>0, <1>10 DEF SnapPublish, SnapshotLabels, TaskInv
<1>11. CASE SnapInsert(t)
  BY <1>0, <1>11 DEF SnapInsert, SnapshotLabels, TaskInv
<1>12. CASE SnapLookup(t)
  BY <1>0, <1>12 DEF SnapLookup, TaskInv, TaskLabels, RollbackLaunches
<1>13. CASE SnapLock(t)
  BY <1>0, <1>13 DEF SnapLock, TaskInv, TaskLabels, RollbackLaunches
<1>14. CASE Verify(t)
  BY <1>0, <1>14 DEF Verify, TaskInv, TaskLabels, RollbackLaunches
<1>15. CASE TryLock(t)
  BY <1>0, <1>15 DEF TryLock, TaskInv, TaskLabels, RollbackLaunches
<1>16. CASE Purge(t)
  BY <1>0, <1>16 DEF Purge, TaskInv, TaskLabels, RollbackLaunches
<1>17. CASE SnapUnmap(t)
  BY <1>0, <1>17 DEF SnapUnmap, TaskInv, TaskLabels, RollbackLaunches
<1>18. CASE Launch(t)
  BY <1>0, <1>18 DEF Launch, TaskInv, TaskLabels, RollbackLaunches
<1>19. CASE Booted(t)
  BY <1>0, <1>19 DEF Booted, TaskInv, TaskLabels, RollbackLaunches
<1>20. CASE BootFailed(t)
  BY <1>0, <1>20 DEF BootFailed, TaskInv, TaskLabels, RollbackLaunches
<1>21. CASE Unwind(t)
  BY <1>0, <1>21 DEF Unwind, TaskInv, TaskLabels, RollbackLaunches
<1>22. CASE Unwound(t)
  BY <1>0, <1>22 DEF Unwound, TaskInv, TaskLabels, RollbackLaunches
<1>23. CASE ReplLock(t)
  BY <1>0, <1>23 DEF ReplLock, TaskInv, TaskLabels, RollbackLaunches
<1>24. CASE Rekey(t)
  BY <1>0, <1>24 DEF Rekey, TaskInv, TaskLabels, RollbackLaunches
<1>25. CASE Swap(t)
  BY <1>0, <1>25 DEF Swap, TaskInv, TaskLabels, RollbackLaunches
<1>26. CASE DelRemove(t)
  BY <1>0, <1>26 DEF DelRemove, TaskInv, TaskLabels, RollbackLaunches
<1>27. CASE DelLock(t)
  BY <1>0, <1>27 DEF DelLock, TaskInv, TaskLabels, RollbackLaunches
<1>28. CASE Terminate(t)
  BY <1>0, <1>28 DEF Terminate, TaskInv, TaskLabels, RollbackLaunches
<1>29. CASE Cleanup(t)
  BY <1>0, <1>29 DEF Cleanup, TaskInv, TaskLabels, RollbackLaunches
<1> QED BY <1>1, <1>2, <1>3, <1>4, <1>5, <1>6, <1>7, <1>8, <1>9, <1>10, <1>11, <1>12, <1>13,
        <1>14, <1>15, <1>16, <1>17, <1>18, <1>19, <1>20, <1>21, <1>22, <1>23, <1>24, <1>25,
        <1>26, <1>27, <1>28, <1>29 DEF RtStep, AcquireLock

\* Only a call draws ids: a step of the runtime launches what is to do and drops the rest.
LEMMA NothingDrawn ==
    ASSUME RtTypeOK, NEW t \in Tasks, RtStep(t), NEW u \in Tasks
    PROVE  todo'[u] \cup launched'[u] \subseteq todo[u] \cup launched[u]
<1> USE DEF RtTypeOK, locals
<1>1. CASE Launch(t)
  BY <1>1 DEF Launch
<1>2. CASE BootFailed(t)
  BY <1>2 DEF BootFailed
<1>3. CASE Unwind(t)
  BY <1>3 DEF Unwind
<1>4. CASE Rekey(t)
  BY <1>4 DEF Rekey
<1>5. CASE Swap(t)
  BY <1>5 DEF Swap
<1>6. CASE ReplLock(t)
  BY <1>6 DEF ReplLock
<1>7. CASE UNCHANGED <<todo, launched>>
  BY <1>7
<1> QED BY <1>1, <1>2, <1>3, <1>4, <1>5, <1>6, <1>7 DEF RtStep, AcquireLock, Lookup, Lock, Pause,
        Resume, Reconnect, SnapPause, SnapCapture, SnapResume, SnapResumeFailed, SnapReconnect,
        SnapPublish, SnapInsert, SnapLookup, SnapLock, Verify, TryLock, Purge, SnapUnmap, Booted,
        Unwound, DelRemove, DelLock, Terminate, Cleanup

\* One clone at most means one id at most for every call.
LEMMA SingleStep ==
    ASSUME RtInv, SingleInv, [RtNext]_rtVars
    PROVE  SingleInv'
<1> SUFFICES ASSUME MaxClones = 1, NEW u \in Tasks
             PROVE  \A i, j \in todo'[u] \cup launched'[u] : i = j
  BY DEF SingleInv
<1>0. \A i, j \in todo[u] \cup launched[u] : i = j
  BY DEF SingleInv
<1>1. ASSUME NEW t \in Tasks, RtStep(t) PROVE \A i, j \in todo'[u] \cup launched'[u] : i = j
  BY <1>0, <1>1, NothingDrawn DEF RtInv
<1>2. ASSUME NEW t \in Tasks, RtEnv(t) PROVE \A i, j \in todo'[u] \cup launched'[u] : i = j
  <2>1. \A F \in CloneSets : \A i, j \in F : i = j
    <3> SUFFICES ASSUME NEW F \in CloneSets PROVE \A i, j \in F : i = j
      OBVIOUS
    <3>1. IsFiniteSet(F) /\ Cardinality(F) = 1
      BY DEF CloneSets
    <3>2. \E x : F = {x}
      BY <3>1, FS_Singleton
    <3> QED BY <3>2
  <2>2. CASE RtReturn(t)
    BY <1>0, <2>2 DEF RtReturn, RtInv, RtTypeOK
  <2>3. ASSUME NEW o, NEW i, NEW s, NEW F, RtCall(t, o, i, s, F), \A k, l \in F : k = l
        PROVE  \A k, l \in todo'[u] \cup launched'[u] : k = l
    <3>1. launched[t] = {}
      BY <2>3 DEF RtCall, RtInv, ControlInv, TaskInv
    <3> QED BY <1>0, <2>3, <3>1 DEF RtCall, RtInv, RtTypeOK
  <2>4. CASE CallCreate(t)
    BY <2>3, <2>4 DEF CallCreate
  <2>5. CASE \E i \in published, o \in {"pause", "resume", "delete"} : CallOnRecord(t, o, i)
    BY <2>3, <2>5 DEF CallOnRecord
  <2>6. CASE \E i \in published : CallSnapshot(t, i)
    BY <2>3, <2>6 DEF CallSnapshot
  <2>7. CASE \E i \in published, s \in Snaps : CallRollback(t, i, s)
    BY <2>3, <2>7 DEF CallRollback
  <2>8. CASE \E s \in Snaps, F \in CloneSets : CallClone(t, s, F)
    BY <2>1, <2>3, <2>8 DEF CallClone
  <2>9. CASE \E s \in Snaps, o \in {"verify", "purge"} : CallOnSnapshot(t, o, s)
    BY <2>3, <2>9 DEF CallOnSnapshot
  <2> QED BY <1>2, <2>2, <2>4, <2>5, <2>6, <2>7, <2>8, <2>9 DEF RtEnv
<1>3. CASE UNCHANGED rtVars
  BY <1>0, <1>3 DEF rtVars, locals
<1> QED BY <1>1, <1>2, <1>3 DEF RtNext

\* An answer registers every VM that was launched, unless the audit log fails
\* between the registrations of two clones.
LEMMA RegisteredStep ==
    ASSUME ~AuditFails \/ MaxClones = 1,
           RtInv, LabelInv, ApiInv, HandOverInv, SingleInv, AllRegistered, [Next]_vars
    PROVE  HandOverInv' /\ SingleInv' /\ AllRegistered'
<1> USE ApiAssumption DEF AllRegistered
<1>0. ApiTypeOK /\ published \subseteq Ids
  BY DEF ApiInv, RtInv, RtTypeOK
<1>1. HandOverInv'
  <2>1. ASSUME NEW t \in Tasks, RtEnv(t) PROVE HandOverInv'
    <3>1. \A u \in Tasks : u # t =>
            launched'[u] = launched[u] /\ op'[u] = op[u] /\ pc'[u] = pc[u] /\ result'[u] = result[u]
      BY <2>1, CallsAreWellFormed DEF WellFormedCall, RtCall, RtReturn, Goto, RtInv, RtTypeOK
    <3>2. launched'[t] = {}
      BY <2>1, CallsAreWellFormed DEF WellFormedCall, RtCall, RtReturn, Goto, RtInv, RtTypeOK,
           ControlInv, TaskInv
    <3> QED BY <3>1, <3>2 DEF HandOverInv
  <2>2. CASE UNCHANGED rtVars
    BY <2>2 DEF HandOverInv, rtVars, call, locals
  <2> QED BY <2>1, <2>2, CallsOfTheApi, HandOverStep DEF RtNext
<1>2. ASSUME NEW c \in Clients, Request(c) PROVE AllRegistered'
  <2>1. UNCHANGED published
    BY <1>2 DEF Request, CreateSandbox, PauseSandbox, ResumeSandbox, DeleteSandbox, CreateSnapshot,
         RollbackSnapshot, CloneSnapshot, DeleteSnapshot, CallCreate, CallOnRecord, CallSnapshot,
         CallRollback, CallClone, CallOnSnapshot, RtCall, maps
  <2>2. UNCHANGED reaper
    BY <1>2 DEF Request, CreateSandbox, PauseSandbox, ResumeSandbox, DeleteSandbox, CreateSnapshot,
         RollbackSnapshot, CloneSnapshot, DeleteSnapshot, apiVars
  <2> QED BY <2>1, <2>2
<1>3. ASSUME NEW c \in Clients, Respond(c) PROVE AllRegistered'
  <2>1. published' = published \cup launched[c] /\ pc[c] = "done"
    BY <1>3 DEF Respond, RtReturn
  <2>2. CASE NewSandboxes(c)
    <3>1. Register(launched[c])
      <4>1. PICK S \in Registered(c) : Register(S)
        BY <2>2 DEF NewSandboxes
      <4>2. S = launched[c]
        <5>1. CASE ~AuditFails
          BY <4>1, <5>1 DEF Registered
        <5>2. CASE MaxClones = 1
          <6>1. \A i, j \in launched[c] : i = j
            BY <5>2 DEF SingleInv
          <6>2. S = launched[c] \/ (S \subseteq launched[c] /\ S # {})
            BY <4>1 DEF Registered
          <6> QED BY <6>1, <6>2
        <5> QED BY <5>1, <5>2
      <4> QED BY <4>1, <4>2
    <3>2. launched[c] \subseteq Ids
      BY DEF RtInv, RtTypeOK
    <3> QED BY <1>0, <2>1, <3>1, <3>2 DEF Register, ApiTypeOK
  <2>3. CASE ~NewSandboxes(c)
    <3>1. op[c] \notin {"create", "clone"} /\ UNCHANGED reaper
      BY <1>3, <2>3 DEF Respond, Paused, Resumed, Snapshotted, RolledBack, SnapshotDeleted,
           SandboxDeleted
    <3>2. launched[c] = {}
      BY <2>1, <3>1 DEF HandOverInv, Launches
    <3> QED BY <2>1, <3>1, <3>2
  <2> QED BY <2>2, <2>3
<1>4. ASSUME NEW t \in Tasks, Runtime(t) PROVE AllRegistered'
  BY <1>4, RuntimeStep DEF Runtime, apiVars
<1>5. ASSUME NEW i \in Ids, Expire(i) \/ ReaperGivesUp(i) \/ ReaperDelete(i) PROVE AllRegistered'
  BY <1>0, <1>5 DEF Expire, ReaperGivesUp, ReaperDelete, CallOnRecord, RtCall, rtVars, maps,
          ApiTypeOK
<1>6. ASSUME NEW i \in Ids, ReaperDone(i) PROVE AllRegistered'
  <2>1. launched[i] = {}
    BY <1>6 DEF ReaperDone, ApiInv, ReaperInv, HandOverInv, Launches
  <2> QED BY <1>0, <1>6, <2>1 DEF ReaperDone, RtReturn, ApiTypeOK
<1>7. ASSUME UNCHANGED vars PROVE AllRegistered'
  BY <1>7 DEF vars, rtVars, apiVars, maps
<1>8. SingleInv'
  BY CallsOfTheApi, SingleStep
<1> QED BY <1>1, <1>2, <1>3, <1>4, <1>5, <1>6, <1>7, <1>8 DEF Next, Reaper

(***************************************************************************)
(* An id the API has registered and the runtime still maps has a reaper    *)
(* asleep whose delete will be accepted, or a delete about to unmap it.    *)
(***************************************************************************)
THEOREM RegisteredReclaimable == Spec => []ReclaimInv
<1>1. ApiInv => ReclaimInv
  BY DEF ApiInv
<1> QED BY <1>1, ApiInvariant, PTL

(***************************************************************************)
(* No sandbox can be forgotten, as long as the audit log can be written or *)
(* clones come one at a time: clone_snapshot returns at the first audit    *)
(* record that fails and leaves its remaining VMs unregistered.            *)
(***************************************************************************)
THEOREM Reclaimable ==
    ASSUME ~AuditFails \/ MaxClones = 1
    PROVE  Spec => []EveryVmReclaimable
<1>1. Init => HandOverInv /\ SingleInv /\ AllRegistered
  BY DEF Init, RtInit, HandOverInv, SingleInv, AllRegistered
<1>2. RtInv /\ LabelInv /\ ApiInv /\ HandOverInv /\ SingleInv /\ AllRegistered /\ [Next]_vars
        => HandOverInv' /\ SingleInv' /\ AllRegistered'
  BY RegisteredStep
<1>3. RtInv /\ ApiInv /\ AllRegistered => EveryVmReclaimable
  BY DEF RtInv, RtTypeOK, ApiInv, ReclaimInv, AllRegistered, EveryVmReclaimable
<1>4. SafetyInv => RtInv /\ LabelInv
  BY DEF SafetyInv
<1>5. Spec => []SafetyInv
  BY ApiImplementsRuntime, SafetyHolds, PTL
<1> QED BY <1>1, <1>2, <1>3, <1>4, <1>5, ApiInvariant, PTL DEF Spec
-----------------------------------------------------------------------------
lifeVars == <<Usable, Overdue, Ended>>

\* Nothing that SandboxLifetime sees has changed.
LEMMA LifeStutters ==
    ASSUME UNCHANGED expired,
           \A i \in Ids : /\ records'[i] = "None" <=> records[i] = "None"
                          /\ reaper'[i] = "unarmed" <=> reaper[i] = "unarmed",
           expired \subseteq Ids
    PROVE  UNCHANGED lifeVars
BY DEF lifeVars, Usable, Overdue, Ended, Authorize

\* A transition leaves the record in place.
LEMMA TransitionStutters ==
    ASSUME ApiTypeOK, NEW i \in Ids, NEW next \in States, Transition(i, next)
    PROVE  \A k \in Ids : records'[k] = "None" <=> records[k] = "None"
BY DEF ApiTypeOK, Transition, MayTransition, States

\* The outcome of a delete ends the sandbox or leaves it in place.
LEMMA OutcomeLife ==
    ASSUME ApiTypeOK, KnownInv, NEW i \in Ids, NEW ok \in BOOLEAN, DeleteOutcome(i, ok),
           UNCHANGED expired,
           \A k \in Ids : reaper'[k] = "unarmed" <=> reaper[k] = "unarmed"
    PROVE  Lifetime!LifeNext \/ UNCHANGED lifeVars
<1>1. CASE ok /\ MayTransition(i, "Deleted")
  <2>1. records' = [records EXCEPT ![i] = "None"] /\ records[i] # "None" /\ reaper[i] # "unarmed"
    BY <1>1 DEF DeleteOutcome, MayTransition, KnownInv
  <2>2. i \in Usable \cup Overdue
    BY <2>1 DEF Usable, Overdue, Authorize, ApiTypeOK
  <2>3. Usable' = Usable \ {i}
    BY <2>1 DEF Usable, Authorize, ApiTypeOK
  <2>4. Overdue' = Overdue \ {i}
    BY <2>1 DEF Overdue, ApiTypeOK
  <2>5. Ended' = Ended \cup {i}
    BY <2>1 DEF Ended, ApiTypeOK
  <2> QED BY <2>2, <2>3, <2>4, <2>5 DEF Lifetime!LifeNext, Lifetime!End
<1>2. CASE ok /\ ~MayTransition(i, "Deleted")
  <2>1. UNCHANGED records
    BY <1>2 DEF DeleteOutcome
  <2> QED BY <2>1, LifeStutters DEF ApiTypeOK
<1>3. CASE ~ok
  <2>1. \A k \in Ids : records'[k] = "None" <=> records[k] = "None"
    BY <1>3, TransitionStutters DEF DeleteOutcome, States
  <2> QED BY <2>1, LifeStutters DEF ApiTypeOK
<1> QED BY <1>1, <1>2, <1>3

\* Every step of the API is a step of SandboxLifetime or changes nothing it sees.
LEMMA LifeStep ==
    ASSUME RtInv, ApiInv, [Next]_vars
    PROVE  [Lifetime!LifeNext]_lifeVars
<1> USE ApiAssumption
<1>0. ApiTypeOK /\ KnownInv
  BY DEF ApiInv
<1>1. ASSUME NEW c \in Clients, Request(c) PROVE UNCHANGED lifeVars
  <2>1. UNCHANGED <<expired, reaper>>
    BY <1>1 DEF Request, CreateSandbox, PauseSandbox, ResumeSandbox, DeleteSandbox, CreateSnapshot,
         RollbackSnapshot, CloneSnapshot, DeleteSnapshot, apiVars
  <2>2. ASSUME NEW i \in Ids, PauseSandbox(c, i) \/ ResumeSandbox(c, i)
        PROVE  \A k \in Ids : records'[k] = "None" <=> records[k] = "None"
    BY <1>0, <2>2 DEF PauseSandbox, ResumeSandbox, ApiTypeOK
  <2>3. ASSUME NEW i \in Ids, DeleteSandbox(c, i)
        PROVE  \A k \in Ids : records'[k] = "None" <=> records[k] = "None"
    BY <1>0, <2>3, TransitionStutters DEF DeleteSandbox, States
  <2>4. \A k \in Ids : records'[k] = "None" <=> records[k] = "None"
    BY <1>1, <2>2, <2>3 DEF Request, CreateSandbox, CreateSnapshot, RollbackSnapshot, CloneSnapshot,
         DeleteSnapshot, apiVars
  <2> QED BY <1>0, <2>1, <2>4, LifeStutters DEF ApiTypeOK
<1>2. ASSUME NEW c \in Clients, Respond(c) PROVE Lifetime!LifeNext \/ UNCHANGED lifeVars
  <2>0. UNCHANGED expired /\ (op[c] \in RecordOps \cup {"delete"} => arg[c] \in Ids)
    BY <1>2 DEF Respond, RtInv, RtTypeOK, ControlInv, TaskInv
  <2>1. CASE NewSandboxes(c)
    <3>1. PICK S \in Registered(c) : Register(S)
      BY <2>1 DEF NewSandboxes
    <3>2. S \subseteq Ids \ published
      BY DEF Registered, RtInv, RtTypeOK, OwnershipInv
    <3>3. \A i \in S : reaper[i] = "unarmed" /\ records[i] = "None" /\ i \notin expired
      BY <1>0, <3>2 DEF KnownInv
    <3>4. S \in SUBSET (Ids \ (Usable \cup Overdue \cup Ended))
      BY <3>2, <3>3 DEF Usable, Overdue, Ended, Authorize
    <3>5. Usable' = Usable \cup S
      BY <2>0, <3>1, <3>2, <3>3 DEF Register, Usable, Authorize
    <3>6. UNCHANGED Overdue
      BY <1>0, <2>0, <3>1, <3>3 DEF Register, Overdue, ApiTypeOK
    <3>7. UNCHANGED Ended
      BY <3>1, <3>3 DEF Register, Ended
    <3> QED BY <3>4, <3>5, <3>6, <3>7 DEF Lifetime!LifeNext, Lifetime!HandOut
  <2>2. CASE Paused(c) \/ Resumed(c)
    <3>1. \A k \in Ids : records'[k] = "None" <=> records[k] = "None"
      BY <1>0, <2>0, <2>2, TransitionStutters DEF Paused, Resumed, RecordOps, States
    <3> QED BY <1>0, <2>0, <2>2, <3>1, LifeStutters DEF Paused, Resumed, ApiTypeOK
  <2>3. CASE Snapshotted(c) \/ SnapshotDeleted(c)
    BY <1>0, <2>0, <2>3, LifeStutters DEF Snapshotted, SnapshotDeleted, ApiTypeOK
  <2>4. CASE RolledBack(c)
    <3>1. \A k \in Ids : records'[k] = "None" <=> records[k] = "None"
      BY <1>0, <2>0, <2>4 DEF RolledBack, RecordOps, ApiTypeOK
    <3> QED BY <1>0, <2>0, <2>4, <3>1, LifeStutters DEF RolledBack, ApiTypeOK
  <2>5. CASE SandboxDeleted(c)
    BY <1>0, <2>0, <2>5, OutcomeLife DEF SandboxDeleted, Ok
  <2> QED BY <1>2, <2>1, <2>2, <2>3, <2>4, <2>5 DEF Respond
<1>3. ASSUME NEW t \in Tasks, Runtime(t) PROVE UNCHANGED lifeVars
  BY <1>0, <1>3, LifeStutters DEF Runtime, apiVars, ApiTypeOK
<1>4. ASSUME NEW i \in Ids, Expire(i) PROVE Lifetime!LifeNext \/ UNCHANGED lifeVars
  <2>1. expired' = expired \cup {i} /\ i \notin expired /\ UNCHANGED <<records, reaper>>
    BY <1>4 DEF Expire
  <2>2. UNCHANGED Ended
    BY <2>1 DEF Ended
  <2>3. CASE records[i] # "None"
    <3>1. i \in Usable /\ Usable' = Usable \ {i}
      BY <2>1, <2>3 DEF Usable, Authorize
    <3>2. Overdue' = Overdue \cup {i}
      BY <2>1, <2>3 DEF Overdue
    <3> QED BY <2>2, <3>1, <3>2 DEF Lifetime!LifeNext, Lifetime!TimeUp
  <2>4. CASE records[i] = "None"
    <3>1. UNCHANGED Usable
      BY <2>1, <2>4 DEF Usable, Authorize
    <3>2. UNCHANGED Overdue
      BY <2>1, <2>4 DEF Overdue
    <3> QED BY <2>2, <3>1, <3>2 DEF lifeVars
  <2> QED BY <2>3, <2>4
<1>5. ASSUME NEW i \in Ids, ReaperDelete(i) PROVE UNCHANGED lifeVars
  <2>1. \A k \in Ids : records'[k] = "None" <=> records[k] = "None"
    BY <1>0, <1>5, TransitionStutters DEF ReaperDelete, States
  <2> QED BY <1>0, <1>5, <2>1, LifeStutters DEF ReaperDelete, ApiTypeOK
<1>6. ASSUME NEW i \in Ids, ReaperGivesUp(i) PROVE UNCHANGED lifeVars
  BY <1>0, <1>6, LifeStutters DEF ReaperGivesUp, ApiTypeOK
<1>7. ASSUME NEW i \in Ids, ReaperDone(i) PROVE Lifetime!LifeNext \/ UNCHANGED lifeVars
  BY <1>0, <1>7, OutcomeLife DEF ReaperDone, Ok, ApiTypeOK
<1>8. ASSUME UNCHANGED vars PROVE UNCHANGED lifeVars
  BY <1>0, <1>8, LifeStutters DEF vars, apiVars, ApiTypeOK
<1> QED BY <1>1, <1>2, <1>3, <1>4, <1>5, <1>6, <1>7, <1>8 DEF Next, Reaper

(***************************************************************************)
(* The API implements SandboxLifetime: ids are handed out once, no late    *)
(* answer makes an overdue id usable again, and what has ended never       *)
(* returns.                                                                *)
(***************************************************************************)
THEOREM LifetimeImplemented == Spec => ImplementsLifetime
<1>1. Init => Lifetime!LifeInit
  BY DEF Init, Lifetime!LifeInit, Usable, Overdue, Ended, Authorize
<1>2. RtInv /\ ApiInv /\ [Next]_vars => [Lifetime!LifeNext]_<<Usable, Overdue, Ended>>
  BY LifeStep DEF lifeVars
<1> QED BY <1>1, <1>2, ApiInit, ApiNext, PTL
     DEF Spec, ImplementsLifetime, Lifetime!LifeSpec
=============================================================================
