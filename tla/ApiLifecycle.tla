---------------------------- MODULE ApiLifecycle ----------------------------
(***************************************************************************)
(* The HTTP handlers of ferrobox-api over the Firecracker runtime: the     *)
(* API's own sandbox records with their life-cycle state and expiry, the   *)
(* snapshot tokens, and one TTL reaper per sandbox.  A handler is a task   *)
(* of the runtime: it updates the API record, calls the runtime, and       *)
(* updates the record again when the call returns; the record is not       *)
(* locked in between.                                                      *)
(*                                                                         *)
(* The `authorize` read and the `transition` write that follows it are one *)
(* action: the write re-checks the state under the lock, and the only      *)
(* other thing that may happen in between is expiry, after which the same  *)
(* request could have been taken just before it.                           *)
(***************************************************************************)
EXTENDS FirecrackerRuntime

CONSTANTS Clients,      \* HTTP requests in flight at the same time
          AuditFails    \* the audit log may fail to write

(***************************************************************************)
(* The reaper spawned for sandbox i is the task i.                         *)
(***************************************************************************)
ASSUME ApiAssumption ==
    /\ Tasks = Clients \cup Ids
    /\ Clients \cap Ids = {}
    /\ AuditFails \in BOOLEAN

VARIABLES records,  \* AppState.records: the state of each, or "None"
          tokens,   \* AppState.snapshots: ids with an API record
          expired,  \* sandboxes whose expires_at has passed
          reaper    \* the background task spawn_ttl_reaper started

apiVars == <<records, tokens, expired, reaper>>
vars == <<rtVars, apiVars>>

ReaperStates == {"unarmed", "sleeping", "deleting", "spent"}

Init ==
    /\ RtInit
    /\ records = [i \in Ids |-> "None"]
    /\ tokens = {}
    /\ expired = {}
    /\ reaper = [i \in Ids |-> "unarmed"]
-----------------------------------------------------------------------------
\* authorize(): the record exists, the token matches, and it has not expired.
Authorize(i) == records[i] # "None" /\ i \notin expired

\* Mutant of MayTransition: a pause or a resume under way refuses everything.
MayTransitionUnlessBusy(i, next) ==
    /\ records[i] \notin {"None", "Pausing", "Resuming"}
    /\ CanTransitionTo(records[i], next)

\* transition(): refused when the record is gone or the step is not legal.
MayTransition(i, next) ==
    records[i] # "None" /\ CanTransitionTo(records[i], next)

Transition(i, next) ==
    records' = IF MayTransition(i, next)
               THEN [records EXCEPT ![i] = next] ELSE records

(***************************************************************************)
(* Requests.  Rejected ones (400, 401, 404, 409, 410) change nothing.      *)
(***************************************************************************)
CreateSandbox(c) == CallCreate(c) /\ UNCHANGED apiVars

PauseSandbox(c, i) ==
    /\ Authorize(i)
    /\ records[i] = "Running"                       \* authorize_running
    /\ records' = [records EXCEPT ![i] = "Pausing"]
    /\ CallOnRecord(c, "pause", i)
    /\ UNCHANGED <<tokens, expired, reaper>>

ResumeSandbox(c, i) ==
    /\ Authorize(i)
    /\ records[i] = "Paused"
    /\ records' = [records EXCEPT ![i] = "Resuming"]
    /\ CallOnRecord(c, "resume", i)
    /\ UNCHANGED <<tokens, expired, reaper>>

CreateSnapshot(c, i) ==
    /\ Authorize(i)
    /\ CallSnapshot(c, i)
    /\ UNCHANGED apiVars

RollbackSnapshot(c, i, s) ==
    /\ Authorize(i)
    /\ s \in tokens
    /\ source[s] = i
    /\ CallRollback(c, i, s)
    /\ UNCHANGED apiVars

\* restore_snapshot is a clone of one; both hold a snapshot token.
CloneSnapshot(c, s) ==
    /\ s \in tokens
    /\ \E F \in CloneSets : CallClone(c, s, F)
    /\ UNCHANGED apiVars

DeleteSnapshot(c, s) ==
    /\ s \in tokens
    /\ CallOnSnapshot(c, "purge", s)
    /\ UNCHANGED apiVars

DeleteSandbox(c, i) ==
    /\ Authorize(i)
    /\ MayTransition(i, "Deleting")
    /\ Transition(i, "Deleting")
    /\ CallOnRecord(c, "delete", i)
    /\ UNCHANGED <<tokens, expired, reaper>>
-----------------------------------------------------------------------------
(***************************************************************************)
(* The handlers, after the runtime call returned.                          *)
(***************************************************************************)
Ok(t) == result[t] = "ok"

\* register_sandbox for every VM in S: a record, and a reaper for its TTL.
Register(S) ==
    /\ records' = [i \in Ids |-> IF i \in S THEN "Running" ELSE records[i]]
    /\ reaper' = [i \in Ids |-> IF i \in S THEN "sleeping" ELSE reaper[i]]

(***************************************************************************)
(* create registers its VM before it audits.  clone audits after each      *)
(* registration, so a failed audit write ends the loop with at least one   *)
(* VM registered and the rest not.                                         *)
(***************************************************************************)
Registered(t) ==
    {launched[t]} \cup
        (IF AuditFails THEN (SUBSET launched[t]) \ {{}} ELSE {})

NewSandboxes(t) ==
    /\ op[t] \in {"create", "clone"}
    /\ \E S \in Registered(t) : Register(S)
    /\ UNCHANGED tokens

Paused(t) ==
    /\ op[t] = "pause"
    /\ Transition(arg[t], IF Ok(t) THEN "Paused" ELSE "Failed")
    /\ UNCHANGED <<tokens, reaper>>

Resumed(t) ==
    /\ op[t] = "resume"
    /\ Transition(arg[t], IF Ok(t) THEN "Running" ELSE "Failed")
    /\ UNCHANGED <<tokens, reaper>>

Snapshotted(t) ==
    /\ op[t] = "snapshot"
    /\ tokens' = IF Ok(t) THEN tokens \cup {snp[t]} ELSE tokens
    /\ UNCHANGED <<records, reaper>>

\* Mutant of RolledBack: a missing record is inserted.
RolledBackInserts(t) ==
    /\ op[t] = "rollback"
    /\ records' = IF Ok(t) THEN [records EXCEPT ![arg[t]] = "Running"] ELSE records
    /\ UNCHANGED <<tokens, reaper>>

\* The record takes the handle's state (Running), whatever it holds now.
RolledBack(t) ==
    /\ op[t] = "rollback"
    /\ records' = IF Ok(t) /\ records[arg[t]] # "None"
                  THEN [records EXCEPT ![arg[t]] = "Running"] ELSE records
    /\ UNCHANGED <<tokens, reaper>>

SnapshotDeleted(t) ==
    /\ op[t] = "purge"
    /\ tokens' = IF Ok(t) THEN tokens \ {snp[t]} ELSE tokens
    /\ UNCHANGED <<records, reaper>>

\* delete_internal: Deleted and removed only if that transition is legal.
DeleteOutcome(i, ok) ==
    IF ok
    THEN records' = IF MayTransition(i, "Deleted")
                    THEN [records EXCEPT ![i] = "None"] ELSE records
    ELSE Transition(i, "Failed")

SandboxDeleted(t) ==
    /\ op[t] = "delete"
    /\ DeleteOutcome(arg[t], Ok(t))
    /\ UNCHANGED <<tokens, reaper>>

Respond(c) ==
    /\ RtReturn(c)
    /\ \/ NewSandboxes(c)
       \/ Paused(c) \/ Resumed(c)
       \/ Snapshotted(c) \/ RolledBack(c) \/ SnapshotDeleted(c)
       \/ SandboxDeleted(c)
    /\ UNCHANGED expired
-----------------------------------------------------------------------------
(***************************************************************************)
(* spawn_ttl_reaper: sleep for the TTL, look the record up, and delete it  *)
(* once.  Nothing starts a second attempt.                                 *)
(***************************************************************************)
Expire(i) ==
    /\ reaper[i] = "sleeping"
    /\ i \notin expired
    /\ expired' = expired \cup {i}
    /\ UNCHANGED <<rtVars, records, tokens, reaper>>

ReaperDelete(i) ==
    /\ reaper[i] = "sleeping"
    /\ i \in expired
    /\ MayTransition(i, "Deleting")
    /\ Transition(i, "Deleting")
    /\ CallOnRecord(i, "delete", i)
    /\ reaper' = [reaper EXCEPT ![i] = "deleting"]
    /\ UNCHANGED <<tokens, expired>>

\* No record any more, or a transition that is refused: the task ends.
ReaperGivesUp(i) ==
    /\ reaper[i] = "sleeping"
    /\ i \in expired
    /\ ~MayTransition(i, "Deleting")
    /\ reaper' = [reaper EXCEPT ![i] = "spent"]
    /\ UNCHANGED <<rtVars, records, tokens, expired>>

ReaperDone(i) ==
    /\ reaper[i] = "deleting"
    /\ RtReturn(i)
    /\ DeleteOutcome(i, Ok(i))
    /\ reaper' = [reaper EXCEPT ![i] = "spent"]
    /\ UNCHANGED <<tokens, expired>>
-----------------------------------------------------------------------------
(***************************************************************************)
(* The HTTP server drops the handler's future when its connection closes:  *)
(* the task ends at its suspension point, its guards are released and no   *)
(* cleanup code runs.  Only a jailer process the future itself owns dies   *)
(* with it (kill_on_drop); what was launched stays in the map.             *)
(***************************************************************************)
Disconnect(c) ==
    /\ pc[c] # "idle"
    /\ pc' = [pc EXCEPT ![c] = "idle"]
    /\ DropGuards(c)
    /\ vm' = IF pc[c] = "boot" THEN [vm EXCEPT ![cur[c]] = "stopped"] ELSE vm
    /\ op' = [op EXCEPT ![c] = "create"]
    /\ arg' = [arg EXCEPT ![c] = NoVm]
    /\ snp' = [snp EXCEPT ![c] = NoSnap]
    /\ mine' = [mine EXCEPT ![c] = NoVm]
    /\ cur' = [cur EXCEPT ![c] = NoVm]
    /\ todo' = [todo EXCEPT ![c] = {}]
    /\ launched' = [launched EXCEPT ![c] = {}]
    /\ prior' = [prior EXCEPT ![c] = "Running"]
    /\ result' = [result EXCEPT ![c] = "none"]
    /\ UNCHANGED <<maps, state, store, apiVars>>

\* The last Arc of a record that left the map is dropped, its child with it.
ReleaseRecord(i) ==
    /\ Live(i)
    /\ \A k \in Ids : sandboxes[k] # i
    /\ \A t \in Tasks : i \notin {mine[t], cur[t]}
    /\ vm' = [vm EXCEPT ![i] = "stopped"]
    /\ UNCHANGED <<maps, state, locks, store, pc, call, locals, result, apiVars>>
-----------------------------------------------------------------------------
Request(c) ==
    \/ CreateSandbox(c)
    \/ \E i \in Ids :
        \/ PauseSandbox(c, i) \/ ResumeSandbox(c, i) \/ DeleteSandbox(c, i)
        \/ CreateSnapshot(c, i)
        \/ \E s \in Snaps : RollbackSnapshot(c, i, s)
    \/ \E s \in Snaps : CloneSnapshot(c, s) \/ DeleteSnapshot(c, s)

Runtime(t) == RtStep(t) /\ UNCHANGED apiVars

Reaper(i) == ReaperDelete(i) \/ ReaperGivesUp(i) \/ ReaperDone(i)

Next ==
    \/ \E c \in Clients : Request(c) \/ Respond(c)
    \/ \E t \in Tasks : Runtime(t)
    \/ \E i \in Ids : Expire(i) \/ Reaper(i)

Spec == Init /\ [][Next]_vars

(***************************************************************************)
(* Handlers and reapers are polled when they can go on, and tokio's Mutex  *)
(* is fair; clients owe nothing, and no TTL need pass.                     *)
(***************************************************************************)
Fairness ==
    /\ \A t \in Tasks : WF_vars(Runtime(t)) /\ SF_vars(AcquireLock(t) /\ UNCHANGED apiVars)
    /\ \A c \in Clients : WF_vars(Respond(c))
    /\ \A i \in Ids : WF_vars(Reaper(i))

FairSpec == Spec /\ Fairness

\* The same with clients that may go away in the middle of a call.
Leave == (\E c \in Clients : Disconnect(c)) \/ (\E i \in Ids : ReleaseRecord(i))

LeavingSpec ==
    /\ Init
    /\ [][Next \/ Leave]_vars
    /\ Fairness
    /\ \A i \in Ids : WF_vars(ReleaseRecord(i))
-----------------------------------------------------------------------------
\* The API's variables have their types.
ApiTypeOK ==
    /\ records \in [Ids -> States \cup {"None"}]
    /\ tokens \in SUBSET Snaps
    /\ expired \in SUBSET Ids
    /\ reaper \in [Ids -> ReaperStates]

(***************************************************************************)
(* No sandbox can be forgotten: behind every id that still maps to a VM    *)
(* there is a reaper that has not fired and whose delete will be accepted  *)
(* in the record's present state, or a delete that is about to unmap it.   *)
(***************************************************************************)
EveryVmReclaimable ==
    \A i \in published : sandboxes[i] # NoVm =>
        \/ reaper[i] = "sleeping" /\ MayTransition(i, "Deleting")
        \/ \E t \in Tasks : op[t] = "delete" /\ arg[t] = i /\ pc[t] = "del_remove"

(***************************************************************************)
(* The API implements SandboxLifetime: an id is usable while it has a      *)
(* record that has not expired, and ends when the record is removed.  Once *)
(* it is overdue or has ended, no late answer of the runtime (a rollback,  *)
(* a pause, a resume), no reaper and no other request brings it back.      *)
(***************************************************************************)
Usable == {i \in Ids : Authorize(i)}
Overdue == {i \in expired : records[i] # "None"}
Ended == {i \in Ids : reaper[i] # "unarmed" /\ records[i] = "None"}

Lifetime == INSTANCE SandboxLifetime WITH
    usable <- Usable, overdue <- Overdue, ended <- Ended
ImplementsLifetime == Lifetime!LifeSpec

(***************************************************************************)
(* The TTL holds: the id of an expired sandbox leaves the runtime's map    *)
(* for good, whatever was going on with it (and by NoOrphanVm its VM is    *)
(* gone or in the hands of the call that is tearing it down).              *)
(***************************************************************************)
ExpiredVmTerminated ==
    \A i \in Ids : i \in expired ~> [](sandboxes[i] = NoVm)
-----------------------------------------------------------------------------
(***************************************************************************)
(* Why the API's properties hold, as an inductive invariant over that of   *)
(* the runtime.                                                            *)
(*                                                                         *)
(* KnownInv: the API knows only ids the runtime handed out, and whatever   *)
(* has a record or has expired was given a reaper.                         *)
(***************************************************************************)
KnownInv ==
    \A i \in Ids :
        /\ reaper[i] # "unarmed" => i \in published
        /\ records[i] # "None" \/ i \in expired => reaper[i] # "unarmed"

\* ReaperInv: a reaper's task is idle but for the one delete of its own id.
ReaperInv ==
    \A i \in Ids :
        IF reaper[i] = "deleting" THEN op[i] = "delete" /\ arg[i] = i ELSE pc[i] = "idle"

\* DeleteInv: past its first step, a delete works on an id that is unmapped.
DeleteInv ==
    \A t \in Tasks :
        op[t] = "delete" => pc[t] = "del_remove" \/ sandboxes[arg[t]] = NoVm

\* ReclaimInv: EveryVmReclaimable of the ids that were registered.
ReclaimInv ==
    \A i \in Ids : reaper[i] # "unarmed" /\ sandboxes[i] # NoVm =>
        \/ reaper[i] = "sleeping" /\ MayTransition(i, "Deleting")
        \/ \E t \in Tasks : op[t] = "delete" /\ arg[t] = i /\ pc[t] = "del_remove"

\* VMs are handed over by create and clone alone, never by a rollback.
HandOverInv ==
    \A t \in Tasks : launched[t] # {} =>
        /\ op[t] \in Launches
        /\ op[t] = "rollback" => pc[t] # "done" /\ result[t] # "ok"

\* A call that may ask for one VM has drawn at most one id.
SingleInv ==
    MaxClones = 1 => \A t \in Tasks : \A i, j \in todo[t] \cup launched[t] : i = j

\* Unless an audit failure ends a loop over clones, every id that is handed out is
\* registered.
AllRegistered == \A i \in published : reaper[i] # "unarmed"

ApiInv == ApiTypeOK /\ KnownInv /\ ReaperInv /\ DeleteInv /\ ReclaimInv
=============================================================================
