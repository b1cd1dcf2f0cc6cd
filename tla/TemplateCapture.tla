--------------------------- MODULE TemplateCapture ---------------------------
(***************************************************************************)
(* The boot snapshot of the `python` template: create_fresh restores from  *)
(* it when it is complete, and captures it when it is not.  The three      *)
(* files and the READY marker are shared by every call and by every run of *)
(* the daemon, under no lock.  A copy in progress leaves a torn file.      *)
(***************************************************************************)
EXTENDS Naturals

CONSTANTS Ids,        \* sandbox ids, one for each call of create_fresh
          Torn, NoFile

ASSUME CaptureAssumption == {Torn, NoFile} \cap Ids = {} /\ Torn # NoFile

VARIABLES
    file,      \* content of each file: the call that captured it
    marker,    \* READY holds this Firecracker's version
    pc,
    seen       \* what a restoring call took from each file

captureVars == <<file, marker, pc, seen>>

FileNames == {"vmstate", "memory", "rootfs"}

\* capture_snapshot copies vmstate, memory and rootfs, then writes READY.
Writing == [vmstate |-> "write_vmstate", memory |-> "write_memory", rootfs |-> "write_rootfs"]
AfterCopy == [vmstate |-> "memory", memory |-> "rootfs", rootfs |-> "mark"]

\* launch_inner takes rootfs, vmstate and memory.
Linking == [rootfs |-> "link_rootfs", vmstate |-> "link_vmstate", memory |-> "link_memory"]
AfterLink == [rootfs |-> "link_vmstate", vmstate |-> "link_memory", memory |-> "restored"]

Labels == {"idle", "check", "boot", "mark", "resume", "restored", "booted"} \cup FileNames
          \cup {Writing[f] : f \in FileNames} \cup {Linking[f] : f \in FileNames}

NothingSeen == [f \in FileNames |-> NoFile]

CaptureInit ==
    /\ file = NothingSeen
    /\ marker = FALSE
    /\ pc = [i \in Ids |-> "idle"]
    /\ seen = [i \in Ids |-> NothingSeen]
-----------------------------------------------------------------------------
Goto(i, label) == pc' = [pc EXCEPT ![i] = label]

\* snapshot_available: READY has the right version and every file exists.
SnapshotAvailable == marker /\ \A f \in FileNames : file[f] # NoFile

Check(i) ==
    /\ pc[i] = "check"
    /\ Goto(i, IF SnapshotAvailable THEN "link_rootfs" ELSE "boot")
    /\ UNCHANGED <<file, marker, seen>>

\* Mutant of Pause: READY is written first.
PauseMarks(i) ==
    /\ pc[i] = "boot"
    /\ marker' = TRUE
    /\ Goto(i, "vmstate")
    /\ UNCHANGED <<file, seen>>

\* capture_snapshot, once the guest answers: the VM is paused and dumped.
Pause(i) ==
    /\ pc[i] = "boot"
    /\ Goto(i, "vmstate")
    /\ UNCHANGED <<file, marker, seen>>

BeginCopy(i, f) ==
    /\ pc[i] = f
    /\ file' = [file EXCEPT ![f] = Torn]
    /\ Goto(i, Writing[f])
    /\ UNCHANGED <<marker, seen>>

EndCopy(i, f) ==
    /\ pc[i] = Writing[f]
    /\ file' = [file EXCEPT ![f] = i]
    /\ Goto(i, AfterCopy[f])
    /\ UNCHANGED <<marker, seen>>

Mark(i) ==
    /\ pc[i] = "mark"
    /\ marker' = TRUE
    /\ Goto(i, "resume")
    /\ UNCHANGED <<file, seen>>

Resume(i) ==
    /\ pc[i] = "resume"
    /\ Goto(i, "booted")
    /\ UNCHANGED <<file, marker, seen>>

\* launch_inner with restore assets: the rootfs is cloned, the rest linked.
Take(i, f) ==
    /\ pc[i] = Linking[f]
    /\ seen' = [seen EXCEPT ![i][f] = file[f]]
    /\ Goto(i, AfterLink[f])
    /\ UNCHANGED <<file, marker>>

LaunchStep(i) ==
    \/ Check(i) \/ Pause(i) \/ Mark(i) \/ Resume(i)
    \/ \E f \in FileNames : BeginCopy(i, f) \/ EndCopy(i, f) \/ Take(i, f)

\* The calls of I end, and the calls of F start.
Replace(I, F) ==
    /\ pc' = [i \in Ids |-> IF i \in F THEN "check" ELSE IF i \in I THEN "idle" ELSE pc[i]]
    /\ seen' = [i \in Ids |-> IF i \in I THEN NothingSeen ELSE seen[i]]
    /\ UNCHANGED <<file, marker>>
-----------------------------------------------------------------------------
CaptureTypeOK ==
    /\ file \in [FileNames -> Ids \cup {Torn, NoFile}]
    /\ marker \in BOOLEAN
    /\ pc \in [Ids -> Labels]
    /\ seen \in [Ids -> [FileNames -> Ids \cup {Torn, NoFile}]]

(***************************************************************************)
(* A VM restored from the boot snapshot gets the state, memory and rootfs  *)
(* of one capture, all of it: READY, which docs/architecture.md says is    *)
(* written last, stands for a complete snapshot.                           *)
(***************************************************************************)
RestoreConsistent ==
    \A i \in Ids : pc[i] = "restored" =>
        \E d \in Ids : \A f \in FileNames : seen[i][f] = d
-----------------------------------------------------------------------------
\* From the boot of the VM to capture to READY.
Capturing == {"boot", "mark"} \cup FileNames \cup {Writing[f] : f \in FileNames}

\* How far a capture is: the files it has copied are its own.
CopyInv(i) ==
    /\ pc[i] \in {"memory", "write_memory", "rootfs", "write_rootfs", "mark"} => file["vmstate"] = i
    /\ pc[i] \in {"rootfs", "write_rootfs", "mark"} => file["memory"] = i
    /\ pc[i] = "mark" => file["rootfs"] = i

\* How far a restore is: what it has taken is what the files are.
TakeInv(i) ==
    /\ pc[i] \in {"link_vmstate", "link_memory", "restored"} => seen[i]["rootfs"] = file["rootfs"]
    /\ pc[i] \in {"link_memory", "restored"} => seen[i]["vmstate"] = file["vmstate"]
    /\ pc[i] = "restored" => seen[i]["memory"] = file["memory"]
==============================================================================
