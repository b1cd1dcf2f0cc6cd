------------------------------ MODULE ReadyPool ------------------------------
(***************************************************************************)
(* The pool of prepared sandboxes on top of the boot snapshot they restore *)
(* from: the API daemon's startup and its one maintainer task, which call  *)
(* FirecrackerRuntime::prewarm for the entries that are missing, and       *)
(* `create`, which claims an entry or launches a VM of its own.            *)
(***************************************************************************)
EXTENDS TemplateCapture, Sequences, FiniteSets, SequencesExt

CONSTANTS Target,      \* --ready-pool-size; 0 is a daemon without a pool
          MaxClaims,   \* bounds for TLC: requests,
          MaxFailures, \* launches and warm-ups that fail,
          MaxRestarts  \* and restarts of the daemon

ASSUME PoolAssumption ==
    /\ {Target, MaxClaims, MaxFailures, MaxRestarts} \subseteq Nat
    /\ IsFiniteSet(Ids)

VARIABLES
    pool,       \* FirecrackerRuntime.ready_pool, a stack
    mapped,     \* VMs in the runtime's map
    batch,      \* the entries the running prewarm prepares
    ready,      \* those whose future has completed
    remaining,  \* what the running prewarm does after its first capture
    requested,  \* VMs that requests launch
    claimed,    \* handles that were given to a request
    maintainer, \* "check", "first", "batch", "sleep" or "exited"
    serving,    \* requests are accepted
    claims, failures, restarts

poolState == <<pool, mapped, batch, ready, remaining, requested, claimed, maintainer, serving>>
poolCounts == <<claims, failures, restarts>>
poolVars == <<captureVars, poolState, poolCounts>>

PoolInit ==
    /\ CaptureInit
    /\ pool = <<>> /\ remaining = 0
    /\ mapped = {} /\ batch = {} /\ ready = {} /\ requested = {} /\ claimed = {}
    /\ maintainer = IF Target = 0 THEN "exited" ELSE "check"
    /\ serving = (Target = 0)
    /\ claims = 0 /\ failures = 0 /\ restarts = 0
-----------------------------------------------------------------------------
\* SandboxId::new: n names that nothing refers to; which, is immaterial.
Unused == {i \in Ids : /\ pc[i] = "idle"
                       /\ i \notin mapped
                       /\ \A f \in FileNames : file[f] # i /\ \A j \in Ids : seen[j][f] # i}
NewIds(n) == CHOOSE F \in SUBSET Unused : Cardinality(F) = n

\* A bound of the model: the names it has are not used up.
Available(n) == \E F \in SUBSET Unused : Cardinality(F) = n

\* saturating_sub: how many entries the maintainer asks prewarm for.
Missing == IF Len(pool) < Target THEN Target - Len(pool) ELSE 0

\* prewarm: without a boot snapshot, one preparation captures it alone.
StartPrewarm ==
    /\ maintainer = "check"
    /\ Missing > 0
    /\ LET n == IF SnapshotAvailable THEN Missing ELSE 1
       IN  Available(n) /\ batch' = NewIds(n)
    /\ Replace({}, batch')
    /\ maintainer' = IF SnapshotAvailable THEN "batch" ELSE "first"
    /\ remaining' = IF SnapshotAvailable THEN 0 ELSE Missing - 1
    /\ UNCHANGED <<pool, mapped, ready, requested, claimed, serving, poolCounts>>

\* Nothing is missing: sleep, and look again.
Idle ==
    /\ maintainer = "check"
    /\ Missing = 0
    /\ maintainer' = "sleep"
    /\ UNCHANGED <<captureVars, pool, mapped, batch, ready, remaining, requested, claimed,
                   serving, poolCounts>>

Wake ==
    /\ maintainer = "sleep"
    /\ maintainer' = "check"
    /\ UNCHANGED <<captureVars, pool, mapped, batch, ready, remaining, requested, claimed,
                   serving, poolCounts>>

\* launch ends: the VM is in the runtime's map, and a request has its handle.
Launched(i) ==
    /\ pc[i] \in {"restored", "booted"}
    /\ Replace({i}, {})
    /\ mapped' = mapped \cup {i}
    /\ requested' = requested \ {i}
    /\ claimed' = claimed \cup (requested \cap {i})
    /\ UNCHANGED <<pool, batch, ready, remaining, maintainer, serving, poolCounts>>

\* warm_ready_sandbox ran its two commands.
Warmed(i) ==
    /\ i \in (batch \ ready) \cap mapped
    /\ ready' = ready \cup {i}
    /\ UNCHANGED <<captureVars, pool, mapped, batch, remaining, requested, claimed,
                   maintainer, serving, poolCounts>>

\* The first entry goes to the pool, and the others start together.
FirstDone ==
    /\ maintainer = "first"
    /\ ready = batch
    /\ Available(remaining)
    /\ pool' = pool \o SetToSeq(batch)
    /\ batch' = NewIds(remaining)
    /\ Replace({}, batch')
    /\ ready' = {}
    /\ remaining' = 0
    /\ maintainer' = "batch"
    /\ UNCHANGED <<mapped, requested, claimed, serving, poolCounts>>

\* prewarm returns; the first time, the daemon starts to serve.
BatchDone ==
    /\ maintainer = "batch"
    /\ ready = batch
    /\ pool' = pool \o SetToSeq(batch)
    /\ batch' = {}
    /\ ready' = {}
    /\ maintainer' = "sleep"
    /\ serving' = TRUE
    /\ UNCHANGED <<captureVars, mapped, remaining, requested, claimed, poolCounts>>

\* Mutant of AfterFailure: an error ends the maintainer's loop.
AfterFailureExits == "exited"

\* A failed refill is logged and tried again; a failed startup is fatal.
AfterFailure == IF serving THEN "sleep" ELSE "exited"

(***************************************************************************)
(* One preparation fails and cleans up after itself.  try_join_all then    *)
(* drops the others: a VM that is still owned by its future dies with it   *)
(* (kill_on_drop), one in the map stays there.                             *)
(***************************************************************************)
PreparationFails(i) ==
    /\ i \in batch \ ready
    /\ failures < MaxFailures
    /\ failures' = failures + 1
    /\ Replace(batch, {})
    /\ mapped' = mapped \ {i}
    /\ batch' = {}
    /\ ready' = {}
    /\ remaining' = 0
    /\ maintainer' = AfterFailure
    /\ UNCHANGED <<pool, requested, claimed, serving, claims, restarts>>
-----------------------------------------------------------------------------
\* Mutant of Claim: the entry is read and left in the pool.
ClaimPeeks ==
    /\ serving
    /\ claims < MaxClaims
    /\ pool # <<>>
    /\ claims' = claims + 1
    /\ claimed' = claimed \cup {Last(pool)}
    /\ UNCHANGED <<captureVars, pool, mapped, batch, ready, remaining, requested,
                   maintainer, serving, failures, restarts>>

\* create: a compatible request pops the pool.
Claim ==
    /\ serving
    /\ claims < MaxClaims
    /\ pool # <<>>
    /\ claims' = claims + 1
    /\ claimed' = claimed \cup {Last(pool)}
    /\ pool' = Front(pool)
    /\ UNCHANGED <<captureVars, mapped, batch, ready, remaining, requested,
                   maintainer, serving, failures, restarts>>

\* create with an empty pool: create_fresh.
CreateFresh ==
    /\ serving
    /\ claims < MaxClaims
    /\ pool = <<>>
    /\ Available(1)
    /\ claims' = claims + 1
    /\ requested' = requested \cup NewIds(1)
    /\ Replace({}, NewIds(1))
    /\ UNCHANGED <<pool, mapped, batch, ready, remaining, claimed, maintainer, serving,
                   failures, restarts>>

\* A step of launch fails, or the request's future is dropped.
RequestFails(i) ==
    /\ i \in requested
    /\ failures < MaxFailures
    /\ failures' = failures + 1
    /\ requested' = requested \ {i}
    /\ Replace({i}, {})
    /\ UNCHANGED <<pool, mapped, batch, ready, remaining, claimed, maintainer, serving,
                   claims, restarts>>

\* A claimed sandbox is deleted by its owner or its TTL.
Release(i) ==
    /\ i \in claimed
    /\ claimed' = claimed \ {i}
    /\ mapped' = mapped \ {i}
    /\ UNCHANGED <<captureVars, pool, batch, ready, remaining, requested, maintainer,
                   serving, poolCounts>>

\* The daemon ends at any moment and is started again; the files stay.
Restart ==
    /\ restarts < MaxRestarts
    /\ restarts' = restarts + 1
    /\ Replace(Ids, {})
    /\ pool' = <<>> /\ remaining' = 0
    /\ mapped' = {} /\ batch' = {} /\ ready' = {} /\ requested' = {} /\ claimed' = {}
    /\ maintainer' = IF Target = 0 THEN "exited" ELSE "check"
    /\ serving' = (Target = 0)
    /\ UNCHANGED <<claims, failures>>
-----------------------------------------------------------------------------
Launch(i) == LaunchStep(i) /\ UNCHANGED <<poolState, poolCounts>>
Prepare(i) == Launch(i) \/ Launched(i) \/ Warmed(i)
Maintain == StartPrewarm \/ Idle \/ Wake \/ FirstDone \/ BatchDone

PoolNext ==
    \/ Maintain \/ Claim \/ CreateFresh \/ Restart
    \/ \E i \in Ids : Prepare(i) \/ PreparationFails(i) \/ RequestFails(i) \/ Release(i)

PoolSpec == PoolInit /\ [][PoolNext]_poolVars

\* wait_for_guest, init or rekey, or a command of the warm-up: the answer of
\* a guest that has been connected to is awaited without a deadline.
AwaitsGuest(i) == pc[i] \in {"boot", "restored", "booted"} \/ i \in (batch \ ready) \cap mapped

(***************************************************************************)
(* The maintainer's task and the futures it polls are scheduled, and what  *)
(* they do on the host, and the requests to Firecracker, come to an end.   *)
(* No fairness makes a guest answer.                                       *)
(***************************************************************************)
PoolFairness ==
    /\ WF_poolVars(Maintain)
    /\ \A i \in Ids : WF_poolVars(~AwaitsGuest(i) /\ Prepare(i))

PoolFairSpec == PoolSpec /\ PoolFairness
-----------------------------------------------------------------------------
\* Every variable has its type, and only what is being prepared is ready.
PoolTypeOK ==
    /\ CaptureTypeOK
    /\ pool \in Seq(Ids)
    /\ ready \subseteq batch
    /\ batch \cup mapped \cup requested \cup claimed \subseteq Ids
    /\ remaining \in Nat
    /\ maintainer \in {"check", "first", "batch", "sleep", "exited"}
    /\ serving \in BOOLEAN
    /\ claims \in 0..MaxClaims /\ failures \in 0..MaxFailures /\ restarts \in 0..MaxRestarts

(***************************************************************************)
(* A handle is given out once, and works when it is: an entry of the pool  *)
(* is there once, is nobody's, and has a VM in the runtime's map.          *)
(***************************************************************************)
HandedOutOnce ==
    /\ IsInjective(pool)
    /\ \A i \in ToSet(pool) : i \in mapped \ (claimed \cup batch \cup requested)

(***************************************************************************)
(* The maintainer refills the pool after claims and after failed batches,  *)
(* once these cease, unless the daemon ends or one of the guests that it   *)
(* prepares never answers: try_join_all then waits for that one for ever.  *)
(* Guests that requests wait for do not matter.                            *)
(***************************************************************************)
PoolRefills ==
    (\A i \in Ids : []<>~(i \in batch /\ AwaitsGuest(i)))
        => (serving /\ Len(pool) < Target ~> Len(pool) = Target \/ ~serving)
-----------------------------------------------------------------------------
(***************************************************************************)
(* Why the two hold, as inductive invariants.                              *)
(*                                                                         *)
(* OwnerInv: a sandbox that is being launched is named by a batch or by a  *)
(* request, one in the map is not being launched, and an entry belongs to  *)
(* one of the pool, the batch, a request and a caller.                     *)
(***************************************************************************)
OwnerInv ==
    /\ \A i \in Ids : pc[i] # "idle" <=> i \in (batch \ mapped) \cup requested
    /\ mapped \cap requested = {}
    /\ batch \cap (requested \cup claimed) = {}
    /\ claimed \cup ready \subseteq mapped
    /\ batch # {} => maintainer \in {"first", "batch"}

PoolInv == PoolTypeOK /\ OwnerInv /\ HandedOutOnce

(***************************************************************************)
(* CaptureInv: until READY is there only one VM is being launched, which   *)
(* is the one that captures; from then on nobody writes, and the files are *)
(* of one capture.  It needs the pool: the daemon serves no request before *)
(* its first batch is done.                                                *)
(***************************************************************************)
CaptureInv ==
    /\ \A i \in Ids : CopyInv(i) /\ TakeInv(i)
    /\ marker => /\ \E d \in Ids : \A f \in FileNames : file[f] = d
                 /\ \A i \in Ids : pc[i] \notin Capturing
    /\ ~marker => /\ \A i \in Ids : pc[i] \in Capturing \cup {"idle", "check"}
                  /\ mapped = {} /\ ~serving /\ requested = {}
                  /\ maintainer \in {"check", "first", "exited"}
    /\ maintainer = "first" => \E i \in Ids : batch = {i}
==============================================================================
