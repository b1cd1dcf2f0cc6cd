------------------------- MODULE FirecrackerRuntime -------------------------
(***************************************************************************)
(* The Firecracker runtime of ferrobox-node: the map of sandboxes, the     *)
(* record (and microVM) behind each entry, the map of user snapshots, and  *)
(* the asynchronous operations of the SandboxRuntime trait that work on    *)
(* them.  A task is one call of the trait in flight; every action below is *)
(* what a task does between two points at which it can be suspended        *)
(* (`.await` on a lock, on Firecracker, on the guest or on the file        *)
(* system), so the behaviours are the interleavings tokio can produce.     *)
(*                                                                         *)
(* A record is named by its jailer_id, the id the VM was launched under.   *)
(* The id a caller uses and the record behind it differ after a rollback,  *)
(* which installs the record of a replacement VM under the source's id.    *)
(*                                                                         *)
(* The runtime is modelled with an empty ready pool: `create` always       *)
(* launches a VM.                                                          *)
(***************************************************************************)
EXTENDS SandboxState, Naturals, FiniteSets

CONSTANTS Tasks,    \* calls that may be in flight at the same time
          Ids,      \* sandbox ids (SandboxId::new never repeats one)
          Snaps,    \* snapshot ids
          NoVm, NoTask, NoSnap,
          MaxClones, \* most VMs one clone call asks for (the code: 32)
          Faults    \* the failures the environment may produce

(***************************************************************************)
(* What the environment may do to a call:                                  *)
(*  "launch"   the VM does not come up        "reject"  Firecracker refuses*)
(*  "timeout"  Firecracker obeys, but the answer comes after the client's  *)
(*             deadline                       "guest"   no guest answers   *)
(*  "stage"    capturing or staging fails     "publish" finalize fails     *)
(*  "corrupt"  an artifact fails verification "rekey"   the guest refuses  *)
(*  "cleanup"  network, jail or cgroup removal fails                       *)
(*  "purge"    removing an artifact's directory fails                      *)
(***************************************************************************)
FaultKinds == {"launch", "reject", "timeout", "guest", "stage", "publish",
               "corrupt", "rekey", "cleanup", "purge"}

ASSUME ConstantsAssumption ==
    /\ NoVm \notin Ids
    /\ NoTask \notin Tasks
    /\ NoSnap \notin Snaps
    /\ Faults \subseteq FaultKinds
    /\ MaxClones \in Nat

VARIABLES
    sandboxes,  \* FirecrackerRuntime.sandboxes: id -> record
    state,      \* FirecrackerSandbox.state of each record
    holder,     \* the task that holds the record's Mutex
    vm,         \* the microVM process and the host resources around it
    snapshots,  \* FirecrackerRuntime.snapshots: the ids it maps
    sholder,    \* the task that holds the artifact's Mutex
    artifact,   \* the snapshot's directory in the store
    source,     \* SnapshotArtifact.source_sandbox_id
    published,  \* ids that were handed to a caller
    pc, op, arg, snp,             \* where a task is, and its arguments
    mine,       \* the Arc a lookup returned
    cur,        \* the VM being launched, rekeyed or torn down
    todo,       \* ids the call will launch (drawn up front)
    launched,   \* VMs the call created and has not handed over
    prior,      \* create_snapshot's source_state
    result

maps == <<sandboxes, snapshots, published>>
host == <<state, vm>>
locks == <<holder, sholder>>
store == <<artifact, source>>
call == <<op, arg, snp>>
locals == <<mine, cur, todo, launched, prior>>
rtVars == <<maps, host, locks, store, pc, call, locals, result>>

RecordOps == {"pause", "resume", "snapshot", "rollback"}
SnapshotOps == {"clone", "verify", "purge"}
Ops == RecordOps \cup SnapshotOps \cup {"create", "delete"}

Labels == {"idle", "done", "lookup", "lock", "pause", "resume", "reconnect",
           "snap_pause", "snap_capture", "snap_resume", "snap_reconnect",
           "snap_publish", "snap_insert", "snap_lookup", "snap_lock",
           "verify", "try_lock", "purge", "snap_unmap", "launch", "boot",
           "repl_lock", "rekey", "swap", "unwind", "del_remove", "del_lock",
           "terminate", "cleanup"}

SnapshotLabels == {"snap_pause", "snap_capture", "snap_resume", "snap_reconnect",
                   "snap_publish", "snap_insert"}

Results == {"none", "ok", "not_found", "conflict", "error"}

\* "stopped": the process is gone, its network, jail or cgroup is not.
VmStates == {"none", "running", "paused", "stopped", "gone"}
Live(i) == vm[i] \in {"running", "paused"}

\* "reserved": a call drew the id; "gone": no directory, and none will come.
ArtifactStates == {"none", "reserved", "staged", "published", "gone"}

RtInit ==
    /\ sandboxes = [i \in Ids |-> NoVm]
    /\ state = [i \in Ids |-> "Creating"]
    /\ holder = [i \in Ids |-> NoTask]
    /\ vm = [i \in Ids |-> "none"]
    /\ snapshots = {}
    /\ sholder = [s \in Snaps |-> NoTask]
    /\ artifact = [s \in Snaps |-> "none"]
    /\ source = [s \in Snaps |-> NoVm]
    /\ published = {}
    /\ pc = [t \in Tasks |-> "idle"]
    /\ op = [t \in Tasks |-> "create"]
    /\ arg = [t \in Tasks |-> NoVm]
    /\ snp = [t \in Tasks |-> NoSnap]
    /\ mine = [t \in Tasks |-> NoVm]
    /\ cur = [t \in Tasks |-> NoVm]
    /\ todo = [t \in Tasks |-> {}]
    /\ launched = [t \in Tasks |-> {}]
    /\ prior = [t \in Tasks |-> "Running"]
    /\ result = [t \in Tasks |-> "none"]
-----------------------------------------------------------------------------
Goto(t, label) == pc' = [pc EXCEPT ![t] = label]

\* Every guard a task still holds is dropped when its call returns.
DropGuards(t) ==
    /\ holder' = [i \in Ids |-> IF holder[i] = t THEN NoTask ELSE holder[i]]
    /\ sholder' = [s \in Snaps |-> IF sholder[s] = t THEN NoTask ELSE sholder[s]]

Finish(t, r) ==
    /\ Goto(t, "done")
    /\ result' = [result EXCEPT ![t] = r]
    /\ DropGuards(t)

\* The call goes on: the result so far and every guard are kept.
Continue(t, label) ==
    /\ Goto(t, label)
    /\ UNCHANGED <<result, locks>>

(***************************************************************************)
(* Outcomes of a PATCH /vm that asks for VM state v: obeyed and answered,  *)
(* refused, or obeyed with the answer lost to the client's timeout.        *)
(***************************************************************************)
PatchOk(i, v) == vm' = [vm EXCEPT ![i] = v]
PatchFails(i, v) ==
    \/ "reject" \in Faults /\ UNCHANGED vm
    \/ "timeout" \in Faults /\ vm' = [vm EXCEPT ![i] = v]

\* After network, jail and cgroup cleanup; a failed one leaves a residue.
CleanupOutcomes == {"gone"} \cup (IF "cleanup" \in Faults THEN {"stopped"} ELSE {})

Unreserved == {i \in Ids : vm[i] = "none" /\ \A t \in Tasks : i \notin todo[t]}

-----------------------------------------------------------------------------
(***************************************************************************)
(* A caller calls the trait: RtCall(t, o, i, s, F) is operation o on       *)
(* sandbox i and snapshot s, with the set F of ids it will launch VMs      *)
(* under.  Callers know the ids that were returned to them and no others.  *)
(***************************************************************************)
FirstLabel(o) ==
    CASE o = "create" -> "launch"
      [] o = "delete" -> "del_remove"
      [] o \in RecordOps -> "lookup"
      [] o \in SnapshotOps -> "snap_lookup"

RtCall(t, o, i, s, F) ==
    /\ pc[t] = "idle"
    /\ Goto(t, FirstLabel(o))
    /\ op' = [op EXCEPT ![t] = o]
    /\ arg' = [arg EXCEPT ![t] = i]
    /\ snp' = [snp EXCEPT ![t] = s]
    /\ todo' = [todo EXCEPT ![t] = F]
    /\ UNCHANGED <<maps, host, locks, source, mine, cur, launched, prior, result>>

CallCreate(t) ==
    \E i \in Unreserved :
        RtCall(t, "create", NoVm, NoSnap, {i}) /\ UNCHANGED artifact

CallOnRecord(t, o, i) ==
    /\ o \in {"pause", "resume", "delete"}
    /\ RtCall(t, o, i, NoSnap, {})
    /\ UNCHANGED artifact

CallSnapshot(t, i) ==
    \E s \in Snaps :
        /\ artifact[s] = "none"
        /\ RtCall(t, "snapshot", i, s, {})
        /\ artifact' = [artifact EXCEPT ![s] = "reserved"]

CallRollback(t, i, s) ==
    \E j \in Unreserved :
        RtCall(t, "rollback", i, s, {j}) /\ UNCHANGED artifact

CallClone(t, s, F) ==
    /\ F \subseteq Unreserved
    /\ RtCall(t, "clone", NoVm, s, F)
    /\ UNCHANGED artifact

CallOnSnapshot(t, o, s) ==
    /\ o \in {"verify", "purge"}
    /\ RtCall(t, o, NoVm, s, {})
    /\ UNCHANGED artifact

\* The caller takes the result; the ids of new sandboxes become known to it.
RtReturn(t) ==
    /\ pc[t] = "done"
    /\ Goto(t, "idle")
    /\ published' = published \cup launched[t]
    /\ op' = [op EXCEPT ![t] = "create"]
    /\ arg' = [arg EXCEPT ![t] = NoVm]
    /\ snp' = [snp EXCEPT ![t] = NoSnap]
    /\ mine' = [mine EXCEPT ![t] = NoVm]
    /\ cur' = [cur EXCEPT ![t] = NoVm]
    /\ todo' = [todo EXCEPT ![t] = {}]
    /\ launched' = [launched EXCEPT ![t] = {}]
    /\ prior' = [prior EXCEPT ![t] = "Running"]
    /\ result' = [result EXCEPT ![t] = "none"]
    /\ UNCHANGED <<sandboxes, snapshots, host, locks, store>>
-----------------------------------------------------------------------------
(***************************************************************************)
(* record(): clone the Arc out of the map, or NotFound.                    *)
(***************************************************************************)
Lookup(t) ==
    /\ pc[t] = "lookup"
    /\ \/ /\ sandboxes[arg[t]] = NoVm
          /\ Finish(t, "not_found")
          /\ UNCHANGED mine
       \/ /\ sandboxes[arg[t]] # NoVm
          /\ mine' = [mine EXCEPT ![t] = sandboxes[arg[t]]]
          /\ Continue(t, "lock")
    /\ UNCHANGED <<maps, host, store, call, cur, todo, launched, prior>>

\* The states a record must be in for the operation to go ahead.
AllowedStates(o) ==
    CASE o = "pause" -> {"Running"}
      [] o = "resume" -> {"Paused"}
      [] OTHER -> {"Running", "Paused"}

AfterLock(o, st) ==
    CASE o = "pause" -> "pause"
      [] o = "resume" -> "resume"
      [] o = "rollback" -> "snap_lookup"
      [] o = "snapshot" -> IF st = "Running" THEN "snap_pause" ELSE "snap_capture"

\* record.lock().await, then the state check with its early Conflict return.
Lock(t) ==
    /\ pc[t] = "lock"
    /\ holder[mine[t]] = NoTask
    /\ \/ /\ state[mine[t]] \notin AllowedStates(op[t])
          /\ Finish(t, "conflict")
          /\ UNCHANGED prior
       \/ /\ state[mine[t]] \in AllowedStates(op[t])
          /\ holder' = [holder EXCEPT ![mine[t]] = t]
          /\ prior' = [prior EXCEPT ![t] = state[mine[t]]]
          /\ Goto(t, AfterLock(op[t], state[mine[t]]))
          /\ UNCHANGED <<sholder, result>>
    /\ UNCHANGED <<maps, host, store, call, mine, cur, todo, launched>>

\* pause(): the state follows Firecracker's answer.
Pause(t) ==
    /\ pc[t] = "pause"
    /\ \/ /\ PatchOk(mine[t], "paused")
          /\ state' = [state EXCEPT ![mine[t]] = "Paused"]
          /\ Finish(t, "ok")
       \/ /\ PatchFails(mine[t], "paused")
          /\ Finish(t, "error")
          /\ UNCHANGED state
    /\ UNCHANGED <<maps, store, call, locals>>

\* resume(): PATCH, then wait for the guest; the state changes last.
Resume(t) ==
    /\ pc[t] = "resume"
    /\ \/ PatchOk(mine[t], "running") /\ Continue(t, "reconnect")
       \/ PatchFails(mine[t], "running") /\ Finish(t, "error")
    /\ UNCHANGED <<maps, state, store, call, locals>>

Reconnect(t) ==
    /\ pc[t] = "reconnect"
    /\ \/ /\ state' = [state EXCEPT ![mine[t]] = "Running"]
          /\ Finish(t, "ok")
       \/ /\ "guest" \in Faults
          /\ Finish(t, "error")
          /\ UNCHANGED state
    /\ UNCHANGED <<maps, vm, store, call, locals>>
-----------------------------------------------------------------------------
(***************************************************************************)
(* create_snapshot(), from the capture block on.  paused_by_request is     *)
(* prior = "Running": the flag is set once the PATCH was answered, and     *)
(* SnapPause returns when it was not.                                      *)
(***************************************************************************)
SnapPause(t) ==
    /\ pc[t] = "snap_pause"
    /\ \/ /\ PatchOk(mine[t], "paused")
          /\ state' = [state EXCEPT ![mine[t]] = "Paused"]
          /\ Continue(t, "snap_capture")
          /\ UNCHANGED artifact
       \/ /\ PatchFails(mine[t], "paused")
          /\ Finish(t, "error")
          /\ artifact' = [artifact EXCEPT ![snp[t]] = "gone"]
          /\ UNCHANGED state
    /\ UNCHANGED <<maps, source, call, locals>>

(***************************************************************************)
(* /snapshot/create, which Firecracker refuses while the VM runs, and      *)
(* store.stage, then the choice on paused_by_request.                      *)
(***************************************************************************)
SnapCapture(t) ==
    /\ pc[t] = "snap_capture"
    /\ \E captured \in BOOLEAN :
        /\ \/ captured /\ vm[mine[t]] = "paused"
           \/ ~captured /\ ("stage" \in Faults \/ vm[mine[t]] # "paused")
        /\ artifact' = [artifact EXCEPT
                           ![snp[t]] = IF captured THEN "staged" ELSE "gone"]
        /\ source' = IF captured THEN [source EXCEPT ![snp[t]] = arg[t]] ELSE source
        /\ \/ /\ prior[t] = "Running"
              /\ Goto(t, "snap_resume")
              /\ result' = [result EXCEPT ![t] = IF captured THEN "none" ELSE "error"]
              /\ UNCHANGED locks
           \/ /\ prior[t] = "Paused"
              /\ captured
              /\ Goto(t, "snap_publish")
              /\ DropGuards(t)
              /\ UNCHANGED result
           \/ /\ prior[t] = "Paused"
              /\ ~captured
              /\ Finish(t, "error")
    /\ UNCHANGED <<maps, host, call, locals>>

\* The resume failed: state Failed, guard dropped, a staged artifact discarded.
SnapResumeFailed(t) ==
    /\ state' = [state EXCEPT ![mine[t]] = "Failed"]
    /\ artifact' = [artifact EXCEPT ![snp[t]] = "gone"]
    /\ Finish(t, "error")

SnapResume(t) ==
    /\ pc[t] = "snap_resume"
    /\ \/ /\ PatchOk(mine[t], "running")
          /\ Continue(t, "snap_reconnect")
          /\ UNCHANGED <<state, artifact>>
       \/ /\ PatchFails(mine[t], "running")
          /\ SnapResumeFailed(t)
    /\ UNCHANGED <<maps, source, call, locals>>

\* Mutant of SnapReconnect: the record keeps the state of the capture.
SnapReconnectForgets(t) ==
    /\ pc[t] = "snap_reconnect"
    /\ \/ /\ UNCHANGED state
          /\ \/ /\ result[t] = "none"
                /\ Goto(t, "snap_publish")
                /\ DropGuards(t)
                /\ UNCHANGED result
             \/ /\ result[t] = "error"
                /\ Finish(t, "error")
          /\ UNCHANGED artifact
       \/ /\ "guest" \in Faults
          /\ SnapResumeFailed(t)
    /\ UNCHANGED <<maps, vm, source, call, locals>>

\* The source is as it was, its guard is dropped, and capture decides.
SnapReconnect(t) ==
    /\ pc[t] = "snap_reconnect"
    /\ \/ /\ state' = [state EXCEPT ![mine[t]] = prior[t]]
          /\ \/ /\ result[t] = "none"
                /\ Goto(t, "snap_publish")
                /\ DropGuards(t)
                /\ UNCHANGED result
             \/ /\ result[t] = "error"
                /\ Finish(t, "error")
          /\ UNCHANGED artifact
       \/ /\ "guest" \in Faults
          /\ SnapResumeFailed(t)
    /\ UNCHANGED <<maps, vm, source, call, locals>>

\* store.finalize: on failure the directory is removed again.
SnapPublish(t) ==
    /\ pc[t] = "snap_publish"
    /\ \/ /\ artifact' = [artifact EXCEPT ![snp[t]] = "published"]
          /\ Continue(t, "snap_insert")
       \/ /\ "publish" \in Faults
          /\ artifact' = [artifact EXCEPT ![snp[t]] = "gone"]
          /\ Finish(t, "error")
    /\ UNCHANGED <<maps, host, source, call, locals>>

SnapInsert(t) ==
    /\ pc[t] = "snap_insert"
    /\ snapshots' = snapshots \cup {snp[t]}
    /\ Finish(t, "ok")
    /\ UNCHANGED <<sandboxes, published, host, store, call, locals>>
-----------------------------------------------------------------------------
(***************************************************************************)
(* snapshot_record() and the artifact's Mutex.  delete_snapshot only tries *)
(* the Mutex; the other operations wait for it.                            *)
(***************************************************************************)
SnapLookup(t) ==
    /\ pc[t] = "snap_lookup"
    /\ \/ /\ snp[t] \notin snapshots
          /\ Finish(t, "not_found")
       \/ /\ snp[t] \in snapshots
          /\ Continue(t, IF op[t] = "purge" THEN "try_lock" ELSE "snap_lock")
    /\ UNCHANGED <<maps, host, store, call, locals>>

SnapLock(t) ==
    /\ pc[t] = "snap_lock"
    /\ sholder[snp[t]] = NoTask
    /\ sholder' = [sholder EXCEPT ![snp[t]] = t]
    /\ Goto(t, "verify")
    /\ UNCHANGED <<maps, host, holder, store, call, locals, result>>

\* rollback checks the owner first; then store.verify and restore_token.
Verify(t) ==
    /\ pc[t] = "verify"
    /\ \/ /\ op[t] = "verify"
          /\ Finish(t, "ok")
       \/ /\ op[t] = "rollback"
          /\ source[snp[t]] # arg[t]
          /\ Finish(t, "conflict")
       \/ /\ op[t] = "clone" \/ (op[t] = "rollback" /\ source[snp[t]] = arg[t])
          /\ \/ /\ artifact[snp[t]] = "published"
                /\ Continue(t, "launch")
             \/ /\ artifact[snp[t]] # "published" \/ "corrupt" \in Faults
                /\ Finish(t, "error")
    /\ UNCHANGED <<maps, host, store, call, locals>>

\* Mutant of TryLock: it does not look whether somebody holds the artifact.
TryLockBarges(t) ==
    /\ pc[t] = "try_lock"
    /\ sholder' = [sholder EXCEPT ![snp[t]] = t]
    /\ Goto(t, "purge")
    /\ UNCHANGED <<holder, result, maps, host, store, call, locals>>

\* delete_snapshot(): Conflict while anyone holds the artifact.
TryLock(t) ==
    /\ pc[t] = "try_lock"
    /\ \/ /\ sholder[snp[t]] # NoTask
          /\ Finish(t, "conflict")
       \/ /\ sholder[snp[t]] = NoTask
          /\ sholder' = [sholder EXCEPT ![snp[t]] = t]
          /\ Goto(t, "purge")
          /\ UNCHANGED <<holder, result>>
    /\ UNCHANGED <<maps, host, store, call, locals>>

\* store.delete: remove_dir_all, then a sync that may fail after it.
Purge(t) ==
    /\ pc[t] = "purge"
    /\ \/ /\ artifact[snp[t]] = "published"
          /\ artifact' = [artifact EXCEPT ![snp[t]] = "gone"]
          /\ Goto(t, "snap_unmap")
          /\ DropGuards(t)
          /\ UNCHANGED result
       \/ /\ "purge" \in Faults \/ artifact[snp[t]] # "published"
          /\ artifact' \in {artifact, [artifact EXCEPT ![snp[t]] = "gone"]}
          /\ Finish(t, "error")
    /\ UNCHANGED <<maps, host, source, call, locals>>

SnapUnmap(t) ==
    /\ pc[t] = "snap_unmap"
    /\ snapshots' = snapshots \ {snp[t]}
    /\ Finish(t, "ok")
    /\ UNCHANGED <<sandboxes, published, host, store, call, locals>>
-----------------------------------------------------------------------------
(***************************************************************************)
(* launch(): the jail, the network and the jailer process, then everything *)
(* up to the insertion into the map.  A failure kills the process, deletes *)
(* the network and cleans jail and cgroup; create_fresh, clone_snapshot    *)
(* and rollback_snapshot then delete what they had launched before.        *)
(***************************************************************************)
Launch(t) ==
    /\ pc[t] = "launch"
    /\ \E i \in todo[t] :
        /\ vm' = [vm EXCEPT ![i] = "running"]
        /\ cur' = [cur EXCEPT ![t] = i]
        /\ todo' = [todo EXCEPT ![t] = @ \ {i}]
        /\ launched' = [launched EXCEPT ![t] = @ \cup {i}]
    /\ Continue(t, "boot")
    /\ UNCHANGED <<maps, state, store, call, mine, prior>>

Booted(t) ==
    /\ pc[t] = "boot"
    /\ sandboxes' = [sandboxes EXCEPT ![cur[t]] = cur[t]]
    /\ state' = [state EXCEPT ![cur[t]] = "Running"]
    /\ \/ /\ op[t] # "rollback"
          /\ todo[t] # {}
          /\ Continue(t, "launch")
       \/ /\ op[t] # "rollback"
          /\ todo[t] = {}
          /\ Finish(t, "ok")
       \/ /\ op[t] = "rollback"         \* drop(snapshot)
          /\ Goto(t, "repl_lock")
          /\ sholder' = [sholder EXCEPT ![snp[t]] = NoTask]
          /\ UNCHANGED <<holder, result>>
    /\ UNCHANGED <<snapshots, published, vm, store, call, locals>>

BootFailed(t) ==
    /\ pc[t] = "boot"
    /\ "launch" \in Faults
    /\ \E v \in CleanupOutcomes : vm' = [vm EXCEPT ![cur[t]] = v]
    /\ launched' = [launched EXCEPT ![t] = @ \ {cur[t]}]
    /\ todo' = [todo EXCEPT ![t] = {}]
    /\ Continue(t, "unwind")
    /\ UNCHANGED <<maps, state, store, call, mine, cur, prior>>

\* The error path deletes every VM the call launched, one delete at a time.
Unwind(t) ==
    /\ pc[t] = "unwind"
    /\ \E i \in launched[t] :
        /\ sandboxes' = [sandboxes EXCEPT ![i] = NoVm]
        /\ cur' = [cur EXCEPT ![t] = sandboxes[i]]
        /\ launched' = [launched EXCEPT ![t] = @ \ {i}]
    /\ Goto(t, "del_lock")
    /\ result' = [result EXCEPT ![t] = "error"]
    /\ UNCHANGED <<snapshots, published, host, locks, store, call, mine, todo, prior>>

Unwound(t) ==
    /\ pc[t] = "unwind"
    /\ launched[t] = {}
    /\ Finish(t, "error")
    /\ UNCHANGED <<maps, host, store, call, locals>>
-----------------------------------------------------------------------------
(***************************************************************************)
(* rollback_snapshot(), after the replacement VM was launched.  The source *)
(* record's guard is held from Lock to the end.                            *)
(***************************************************************************)
ReplLock(t) ==
    /\ pc[t] = "repl_lock"
    /\ holder[cur[t]] = NoTask
    /\ holder' = [holder EXCEPT ![cur[t]] = t]
    /\ Goto(t, "rekey")
    /\ UNCHANGED <<maps, host, sholder, store, call, locals, result>>

\* Mutants of DropReplacement: the source's guard goes too; neither goes.
DropBoth(t) == DropGuards(t)

DropNeither(t) == UNCHANGED locks

\* drop(replacement), before delete(replacement_id) or the source's teardown.
DropReplacement(t) ==
    /\ holder' = [holder EXCEPT ![cur[t]] = NoTask]
    /\ UNCHANGED sholder

Rekey(t) ==
    /\ pc[t] = "rekey"
    /\ \/ Continue(t, "swap")
       \/ /\ "rekey" \in Faults
          /\ Goto(t, "unwind")
          /\ DropReplacement(t)
          /\ UNCHANGED result
    /\ UNCHANGED <<maps, host, store, call, locals>>

\* Mutants of Swap: without ptr_eq, and without the insertion under the id.
SwapUnchecked(t) ==
    /\ pc[t] = "swap"
    /\ sandboxes' = [sandboxes EXCEPT ![arg[t]] = cur[t], ![cur[t]] = NoVm]
    /\ launched' = [launched EXCEPT ![t] = {}]
    /\ cur' = [cur EXCEPT ![t] = mine[t]]
    /\ result' = [result EXCEPT ![t] = "ok"]
    /\ Goto(t, "terminate")
    /\ DropReplacement(t)
    /\ UNCHANGED <<snapshots, published, host, store, call, mine, todo, prior>>

SwapUnmaps(t) ==
    /\ pc[t] = "swap"
    /\ sandboxes' = [sandboxes EXCEPT ![arg[t]] = NoVm, ![cur[t]] = NoVm]
    /\ launched' = [launched EXCEPT ![t] = {}]
    /\ cur' = [cur EXCEPT ![t] = mine[t]]
    /\ result' = [result EXCEPT ![t] = "ok"]
    /\ Goto(t, "terminate")
    /\ DropReplacement(t)
    /\ UNCHANGED <<snapshots, published, host, store, call, mine, todo, prior>>

\* Under the map's write lock: ptr_eq on both entries, then the exchange.
Swap(t) ==
    /\ pc[t] = "swap"
    /\ \/ /\ sandboxes[arg[t]] = mine[t]
          /\ sandboxes[cur[t]] = cur[t]
          /\ sandboxes' = [sandboxes EXCEPT ![arg[t]] = cur[t], ![cur[t]] = NoVm]
          /\ launched' = [launched EXCEPT ![t] = {}]
          /\ cur' = [cur EXCEPT ![t] = mine[t]]
          /\ result' = [result EXCEPT ![t] = "ok"]
          /\ Goto(t, "terminate")
       \/ /\ sandboxes[arg[t]] # mine[t] \/ sandboxes[cur[t]] # cur[t]
          /\ Goto(t, "unwind")
          /\ UNCHANGED <<sandboxes, launched, cur, result>>
    /\ DropReplacement(t)
    /\ UNCHANGED <<snapshots, published, host, store, call, mine, todo, prior>>
-----------------------------------------------------------------------------
(***************************************************************************)
(* delete(): the entry leaves the map first, then the record is locked and *)
(* torn down.                                                              *)
(***************************************************************************)
DelRemove(t) ==
    /\ pc[t] = "del_remove"
    /\ \/ /\ sandboxes[arg[t]] = NoVm
          /\ Finish(t, "not_found")
          /\ UNCHANGED <<sandboxes, cur>>
       \/ /\ sandboxes[arg[t]] # NoVm
          /\ cur' = [cur EXCEPT ![t] = sandboxes[arg[t]]]
          /\ sandboxes' = [sandboxes EXCEPT ![arg[t]] = NoVm]
          /\ Continue(t, "del_lock")
    /\ UNCHANGED <<snapshots, published, host, store, call, mine, todo, launched, prior>>

\* Mutant of DelLock: teardown starts without the record's Mutex.
DelUnlocked(t) ==
    /\ pc[t] = "del_lock"
    /\ Goto(t, "terminate")
    /\ UNCHANGED <<maps, host, locks, store, call, locals, result>>

DelLock(t) ==
    /\ pc[t] = "del_lock"
    /\ holder[cur[t]] = NoTask
    /\ holder' = [holder EXCEPT ![cur[t]] = t]
    /\ Goto(t, "terminate")
    /\ UNCHANGED <<maps, host, sholder, store, call, locals, result>>

\* terminate_record(): shutdown, or a kill after two seconds.
Terminate(t) ==
    /\ pc[t] = "terminate"
    /\ state' = [state EXCEPT ![cur[t]] = "Deleting"]
    /\ vm' = [vm EXCEPT ![cur[t]] = "stopped"]
    /\ Continue(t, "cleanup")
    /\ UNCHANGED <<maps, store, call, locals>>

\* A rollback that committed succeeds whatever becomes of the old VM.
Cleanup(t) ==
    /\ pc[t] = "cleanup"
    /\ \E v \in CleanupOutcomes :
        /\ vm' = [vm EXCEPT ![cur[t]] = v]
        /\ state' = [state EXCEPT ![cur[t]] = IF v = "gone" THEN "Deleted" ELSE "Failed"]
        /\ \/ op[t] = "delete" /\ Finish(t, IF v = "gone" THEN "ok" ELSE "error")
           \/ op[t] # "delete" /\ result[t] = "ok" /\ Finish(t, "ok")
           \/ /\ result[t] = "error"
              /\ Goto(t, "unwind")
              /\ holder' = [holder EXCEPT ![cur[t]] = NoTask]
              /\ UNCHANGED <<sholder, result>>
    /\ UNCHANGED <<maps, store, call, locals>>
-----------------------------------------------------------------------------
AcquireLock(t) == Lock(t) \/ SnapLock(t) \/ ReplLock(t) \/ DelLock(t)

RtStep(t) ==
    \/ AcquireLock(t)
    \/ Lookup(t) \/ Pause(t) \/ Resume(t) \/ Reconnect(t)
    \/ SnapPause(t) \/ SnapCapture(t) \/ SnapResume(t) \/ SnapReconnect(t)
    \/ SnapPublish(t) \/ SnapInsert(t)
    \/ SnapLookup(t) \/ Verify(t) \/ TryLock(t) \/ Purge(t) \/ SnapUnmap(t)
    \/ Launch(t) \/ Booted(t) \/ BootFailed(t) \/ Unwind(t) \/ Unwound(t)
    \/ Rekey(t) \/ Swap(t)
    \/ DelRemove(t) \/ Terminate(t) \/ Cleanup(t)

\* Sets of ids a clone call may ask for: between 1 and MaxClones of them.
CloneSets == {F \in SUBSET Unreserved : IsFiniteSet(F) /\ Cardinality(F) \in 1..MaxClones}

RtEnv(t) ==
    \/ CallCreate(t)
    \/ \E i \in published :
        \/ \E o \in {"pause", "resume", "delete"} : CallOnRecord(t, o, i)
        \/ CallSnapshot(t, i)
        \/ \E s \in Snaps : CallRollback(t, i, s)
    \/ \E s \in Snaps :
        \/ \E F \in CloneSets : CallClone(t, s, F)
        \/ \E o \in {"verify", "purge"} : CallOnSnapshot(t, o, s)
    \/ RtReturn(t)

RtNext == \E t \in Tasks : RtStep(t) \/ RtEnv(t)

RtSpec == RtInit /\ [][RtNext]_rtVars
-----------------------------------------------------------------------------
\* Every variable has its type.
RtTypeOK ==
    /\ sandboxes \in [Ids -> Ids \cup {NoVm}]
    /\ state \in [Ids -> States]
    /\ holder \in [Ids -> Tasks \cup {NoTask}]
    /\ vm \in [Ids -> VmStates]
    /\ snapshots \in SUBSET Snaps
    /\ sholder \in [Snaps -> Tasks \cup {NoTask}]
    /\ artifact \in [Snaps -> ArtifactStates]
    /\ source \in [Snaps -> Ids \cup {NoVm}]
    /\ published \in SUBSET Ids
    /\ pc \in [Tasks -> Labels]
    /\ op \in [Tasks -> Ops]
    /\ arg \in [Tasks -> Ids \cup {NoVm}]
    /\ snp \in [Tasks -> Snaps \cup {NoSnap}]
    /\ mine \in [Tasks -> Ids \cup {NoVm}]
    /\ cur \in [Tasks -> Ids \cup {NoVm}]
    /\ todo \in [Tasks -> SUBSET Ids]
    /\ launched \in [Tasks -> SUBSET Ids]
    /\ prior \in [Tasks -> {"Running", "Paused"}]
    /\ result \in [Tasks -> Results]

(***************************************************************************)
(* No microVM outlives the code's knowledge of it: a VM process that runs  *)
(* is behind an id some caller was given, or belongs to a call in flight   *)
(* that will hand it over or tear it down.                                 *)
(***************************************************************************)
Owned(t) ==
    launched[t] \cup (IF pc[t] \in {"del_lock", "terminate"} THEN {cur[t]} ELSE {})

NoOrphanVm ==
    \A i \in Ids : Live(i) =>
        \/ \E k \in published : sandboxes[k] = i
        \/ \E t \in Tasks : i \in Owned(t)

(***************************************************************************)
(* At most one call at a time changes a microVM or its record: the Mutex   *)
(* of the record covers every such step of pause, resume, create_snapshot, *)
(* rollback_snapshot and teardown.  (exec, read and write copy the guest   *)
(* client and let the record go before they use it; they are not among     *)
(* these calls.)                                                           *)
(***************************************************************************)
DrivesMine == {"pause", "resume", "reconnect", "snap_pause", "snap_capture",
               "snap_resume", "snap_reconnect"}
Drives(t, i) ==
    \/ pc[t] \in DrivesMine /\ mine[t] = i
    \/ pc[t] \in {"rekey", "swap", "terminate", "cleanup"} /\ cur[t] = i

OneDriverPerVm ==
    \A t, u \in Tasks : \A i \in Ids : Drives(t, i) /\ Drives(u, i) => t = u

(***************************************************************************)
(* A record that is being torn down is behind no id, so no new call can    *)
(* reach it, and no two calls tear the same one down.                      *)
(***************************************************************************)
TearsDown(t, i) == pc[t] \in {"del_lock", "terminate", "cleanup"} /\ cur[t] = i

TornDownUnreachable ==
    \A t \in Tasks : \A i \in Ids : TearsDown(t, i) =>
        /\ \A k \in Ids : sandboxes[k] # i
        /\ \A u \in Tasks : TearsDown(u, i) => u = t

(***************************************************************************)
(* While clone_snapshot or rollback_snapshot launches VMs from a verified  *)
(* snapshot, delete_snapshot does not remove its directory.                *)
(***************************************************************************)
SnapshotInUseIntact ==
    \A t \in Tasks :
        op[t] \in {"clone", "rollback"} /\ pc[t] \in {"launch", "boot"}
            => artifact[snp[t]] = "published"

(***************************************************************************)
(* Until a rollback commits, the source VM is in the state it was in when  *)
(* the rollback locked it, its record is locked by that rollback, and its  *)
(* owner is not cut off from it: a failed launch, verification, rekey or   *)
(* swap leaves it as it was.  A delete may take it out of the map at any   *)
(* time, and has to wait for the rollback with it.                         *)
(***************************************************************************)
RollingBack(t) ==
    /\ op[t] = "rollback"
    /\ pc[t] \notin {"idle", "lookup", "lock", "done"}
    /\ result[t] # "ok"

SourceInv ==
    \A t \in Tasks : RollingBack(t) =>
        /\ state[mine[t]] = prior[t]
        /\ Live(mine[t])

RollbackKeepsSource ==
    /\ SourceInv
    /\ \A t \in Tasks : RollingBack(t) =>
        /\ holder[mine[t]] = t
        /\ \/ \E k \in published : sandboxes[k] = mine[t]
           \/ \E u \in Tasks : op[u] = "delete" /\ pc[u] = "del_lock" /\ cur[u] = mine[t]

(***************************************************************************)
(* No call leaves a lie behind in silence: when a pause, a resume or a     *)
(* snapshot lets go of a record, Running means that the VM runs and Paused *)
(* that it is paused, or the call reports an error.  The two do part       *)
(* company where Firecracker obeys after the client's deadline or the      *)
(* guest does not come back, and a later call must not build on it.        *)
(***************************************************************************)
Truthful(i) ==
    /\ state[i] = "Running" => vm[i] = "running"
    /\ state[i] = "Paused" => vm[i] = "paused"

LetsGo(t, i) == holder[i] = t /\ holder'[i] = NoTask

NoSilentLie ==
    [][\A t \in Tasks, i \in Ids :
         op[t] \in {"pause", "resume", "snapshot"} /\ LetsGo(t, i)
            => Truthful(i)' \/ result'[t] = "error"]_rtVars

(***************************************************************************)
(* Only a delete of the id itself takes a known id out of the map, in the  *)
(* step in which it gets hold of the record behind it: neither a           *)
(* rollback's exchange nor the cleanup of a failed clone or rollback       *)
(* leaves a gap in which another call would see NotFound.                  *)
(***************************************************************************)
Unmaps(t, k) ==
    /\ op[t] = "delete" /\ arg[t] = k
    /\ pc[t] = "del_remove" /\ pc'[t] = "del_lock"
    /\ cur'[t] = sandboxes[k]

OnlyDeleteUnmaps ==
    [][\A k \in published :
         sandboxes[k] # NoVm /\ sandboxes'[k] = NoVm
            => \E t \in Tasks : Unmaps(t, k)]_rtVars

(***************************************************************************)
(* No set of calls waits in a circle: pause, resume, snapshot, clone,      *)
(* rollback and delete take the locks of records and artifacts in          *)
(* different orders, and a rollback holds up to three of them.             *)
(***************************************************************************)
WaitsFor(t) ==
    CASE pc[t] = "lock" -> holder[mine[t]]
      [] pc[t] \in {"repl_lock", "del_lock"} -> holder[cur[t]]
      [] pc[t] = "snap_lock" -> sholder[snp[t]]
      [] OTHER -> NoTask

NoDeadlock ==
    \A W \in (SUBSET Tasks) \ {{}} : \E t \in W : WaitsFor(t) \notin W
-----------------------------------------------------------------------------
(***************************************************************************)
(* Why NoOrphanVm and OneDriverPerVm hold, as an inductive invariant.      *)
(*                                                                         *)
(* ControlInv: which operations reach which label, with which arguments.   *)
(***************************************************************************)
RollbackLaunches(t) ==
    /\ pc[t] \in {"lookup", "lock", "snap_lookup", "snap_lock", "verify", "launch"}
            => launched[t] = {}
    /\ pc[t] \in {"boot", "repl_lock", "rekey", "swap"} => launched[t] = {cur[t]}

TaskInv(t) ==
    /\ pc[t] \in {"lookup", "lock"} => op[t] \in RecordOps
    /\ pc[t] = "lock" => mine[t] \in Ids
    /\ pc[t] = "del_remove" => op[t] = "delete"
    /\ pc[t] \in {"repl_lock", "rekey", "swap"} => op[t] = "rollback"
    /\ pc[t] \in SnapshotLabels => op[t] = "snapshot"
    /\ pc[t] \in {"try_lock", "purge", "snap_unmap"} => op[t] = "purge"
    /\ op[t] = "snapshot" => snp[t] \in Snaps
    /\ op[t] \in RecordOps \cup {"delete"} => arg[t] \in published
    /\ op[t] = "rollback" => RollbackLaunches(t)
    /\ pc[t] = "idle" => launched[t] = {}
    /\ pc[t] = "boot" => cur[t] \in launched[t]

ControlInv == \A t \in Tasks : TaskInv(t)

(***************************************************************************)
(* OwnershipInv: ids drawn by a call name no VM yet; a VM a call launched  *)
(* is behind its own id, and that id is known to nobody else.              *)
(***************************************************************************)
OwnershipInv ==
    /\ \A i \in published : vm[i] # "none"
    /\ \A t \in Tasks :
        /\ \A i \in todo[t] : vm[i] = "none"
        /\ \A i \in launched[t] :
            /\ vm[i] # "none"
            /\ i \notin published
            /\ (pc[t] = "boot" /\ i = cur[t]) \/ sandboxes[i] = i
        /\ \A u \in Tasks : t # u =>
            todo[t] \cap todo[u] = {} /\ launched[t] \cap launched[u] = {}

(***************************************************************************)
(* LockInv: the guards a task holds at each label.  A rollback holds the   *)
(* source from Lock to its end, and another record's guard at most         *)
(* besides it.                                                             *)
(***************************************************************************)
TaskLocks(t) ==
    /\ pc[t] \in DrivesMine =>
        mine[t] \in Ids /\ holder[mine[t]] = t /\ state[mine[t]] \in {"Running", "Paused"}
    /\ op[t] = "rollback" /\ pc[t] \notin {"idle", "lookup", "lock", "done"} =>
        mine[t] \in Ids /\ holder[mine[t]] = t
    /\ pc[t] \in {"rekey", "swap"} =>
        cur[t] \in Ids /\ holder[cur[t]] = t /\ cur[t] # mine[t]
    /\ pc[t] \in {"terminate", "cleanup"} =>
        cur[t] \in Ids /\ holder[cur[t]] = t
    /\ op[t] = "rollback" /\ pc[t] \in {"terminate", "cleanup"} =>
        result[t] = "ok" \/ cur[t] # mine[t]
    /\ op[t] = "rollback" /\ pc[t] = "del_lock" => result[t] = "error"

LockInv == \A t \in Tasks : TaskLocks(t)

(***************************************************************************)
(* HostInv: a record in use has a live VM, and a VM that is being launched *)
(* is alive, has no record yet and is behind no id.                        *)
(***************************************************************************)
HostInv ==
    /\ \A i \in Ids :
        /\ state[i] \in {"Running", "Paused"} => Live(i)
        /\ vm[i] = "none" => state[i] = "Creating"
        /\ sandboxes[i] # NoVm => state[sandboxes[i]] # "Creating"
    /\ \A t \in Tasks :
        /\ pc[t] = "boot" => state[cur[t]] = "Creating" /\ Live(cur[t])
        /\ pc[t] \in {"del_lock", "terminate", "cleanup"} =>
            cur[t] \in Ids /\ state[cur[t]] # "Creating"

\* The inductive invariant: every call of the trait preserves it, step by step.
RtInv == RtTypeOK /\ ControlInv /\ OwnershipInv /\ LockInv /\ HostInv
-----------------------------------------------------------------------------
(***************************************************************************)
(* Why the other properties hold.                                          *)
(*                                                                         *)
(* LabelInv: what else a label tells of the operation, its snapshot and    *)
(* its result.                                                             *)
(***************************************************************************)
Launches == {"create", "clone", "rollback"}

TaskLabels(t) ==
    /\ pc[t] = "pause" => op[t] = "pause"
    /\ pc[t] \in {"resume", "reconnect"} => op[t] = "resume"
    /\ pc[t] \in {"snap_lock", "verify"} => op[t] \in {"verify", "clone", "rollback"}
    /\ pc[t] = "snap_lookup" => op[t] \in SnapshotOps \cup {"rollback"}
    /\ pc[t] \in {"launch", "boot", "unwind"} => op[t] \in Launches
    /\ pc[t] \in {"del_lock", "terminate", "cleanup"} => op[t] \in Launches \cup {"delete"}
    /\ op[t] \in SnapshotOps \cup {"snapshot", "rollback"} => snp[t] \in Snaps
    /\ pc[t] = "idle" \/ (op[t] = "delete" /\ pc[t] # "done") => result[t] = "none"
    /\ result[t] = "ok" => pc[t] \in {"terminate", "cleanup", "done"}

LabelInv == \A t \in Tasks : TaskLabels(t)

\* MapInv: no record is behind two ids.
MapInv ==
    \A j, k \in Ids : sandboxes[j] # NoVm /\ sandboxes[j] = sandboxes[k] => j = k

(***************************************************************************)
(* GuardInv: the only guards a task can hold, the converse of LockInv; and *)
(* those of the artifacts.                                                 *)
(***************************************************************************)
MayHold(t, i) ==
    \/ i = mine[t] /\ pc[t] \in DrivesMine
    \/ i = mine[t] /\ op[t] = "rollback" /\ pc[t] \notin {"idle", "lookup", "lock", "done"}
    \/ i = cur[t] /\ pc[t] \in {"rekey", "swap", "terminate", "cleanup"}

MayHoldArtifact(t, s) ==
    /\ s = snp[t]
    /\ \/ pc[t] = "purge"
       \/ pc[t] \in {"verify", "launch", "boot", "unwind", "del_lock", "terminate", "cleanup"}
          /\ op[t] \in {"verify", "clone", "rollback"}

GuardInv ==
    \A t \in Tasks :
        /\ \A i \in Ids : holder[i] = t => MayHold(t, i)
        /\ \A s \in Snaps : sholder[s] = t => MayHoldArtifact(t, s)

(***************************************************************************)
(* ArtifactInv: who works with a snapshot's directory holds its Mutex, or  *)
(* is the one create_snapshot that makes it.                               *)
(***************************************************************************)
TaskArtifact(t) ==
    /\ pc[t] = "purge" => sholder[snp[t]] = t
    /\ pc[t] \in {"verify", "launch", "boot"} /\ op[t] # "create" => sholder[snp[t]] = t
    /\ op[t] = "snapshot" =>
        /\ artifact[snp[t]] # "none"
        /\ pc[t] \notin {"snap_insert", "done"} => artifact[snp[t]] # "published"
        /\ \A u \in Tasks : op[u] = "snapshot" /\ snp[u] = snp[t] => u = t

ArtifactInv == \A t \in Tasks : TaskArtifact(t)

(***************************************************************************)
(* CaptureInv: what the record and the VM are while they are paused for a  *)
(* capture, or resumed.                                                    *)
(***************************************************************************)
CaptureInv ==
    \A t \in Tasks :
        /\ pc[t] = "snap_capture" => state[mine[t]] = "Paused"
        /\ pc[t] \in {"snap_resume", "snap_reconnect"} => prior[t] = "Running"
        /\ pc[t] \in {"reconnect", "snap_reconnect"} => vm[mine[t]] = "running"

(***************************************************************************)
(* SecretInv: a VM that a call launches or takes back is known to no other *)
(* call, so that nobody but this call ever locks its record.               *)
(***************************************************************************)
Secret(t) ==
    launched[t] \cup (IF pc[t] = "del_lock" /\ op[t] # "delete" THEN {cur[t]} ELSE {})

SecretInv ==
    \A t \in Tasks :
        /\ mine[t] \in Ids => state[mine[t]] # "Creating"
        /\ \A i \in Secret(t) :
            /\ \A u \in Tasks : mine[u] # i
            /\ holder[i] = NoTask \/ (holder[i] = t /\ pc[t] \in {"rekey", "swap"})

\* All of it: the invariant that the theorems about this module rest on.
SafetyInv ==
    /\ RtInv
    /\ LabelInv
    /\ MapInv /\ TornDownUnreachable
    /\ GuardInv /\ SecretInv
    /\ ArtifactInv /\ SnapshotInUseIntact
    /\ CaptureInv /\ SourceInv
=============================================================================
