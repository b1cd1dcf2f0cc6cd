---------------------------- MODULE SnapshotStore ----------------------------
(***************************************************************************)
(* SnapshotStore of ferrobox-node on a file system that may lose whatever  *)
(* was not synced.  A snapshot is one directory, staged as                 *)
(* `.<id>.partial` and renamed to `<id>`.  Every action is one call on the *)
(* file system; each may fail, the handler's future may be dropped after   *)
(* it, and the host may crash after it.                                    *)
(***************************************************************************)
EXTENDS Naturals, FiniteSets

CONSTANTS Snaps,
          Artifacts,    \* ARTIFACT_NAMES
          Fails,        \* calls may fail
          CleanupFails, \* remove_dir_all may fail halfway
          Drops,        \* the future of a request may be dropped
          Crashes       \* the host may crash

ASSUME StoreAssumption ==
    /\ {"token", "manifest"} \cap Artifacts = {}
    /\ {Fails, CleanupFails, Drops, Crashes} \subseteq BOOLEAN

VARIABLES
    step,      \* how far the request on the snapshot is
    place,     \* the directory's name: "none", "partial" or "final"
    onDisk,    \* the names it may have after a crash
    files,     \* the files in it
    kept,      \* the directory entries a sync made durable
    synced,    \* the files whose content a sync made durable
    good,      \* the files that hold what was captured
    retracted, \* snapshots whose final directory somebody began to remove
    answer     \* what the caller was told

storeVars == <<step, place, onDisk, files, kept, synced, good, retracted, answer>>

Files == Artifacts \cup {"token", "manifest"}
Places == {"none", "partial", "final"}
Working == {"mode", "copy", "sync_file", "token", "sync_token", "staged",
            "manifest", "sync_manifest", "sync_dir", "rename", "sync_root",
            "clean", "undo", "undo_sync", "delete", "delete_sync"}
Steps == Working \cup {"idle", "published", "ended", "lost"}

StoreInit ==
    /\ step = [s \in Snaps |-> "idle"]
    /\ place = [s \in Snaps |-> "none"]
    /\ onDisk = [s \in Snaps |-> {"none"}]
    /\ files = [s \in Snaps |-> {}]
    /\ kept = [s \in Snaps |-> {}]
    /\ synced = [s \in Snaps |-> {}]
    /\ good = [s \in Snaps |-> {}]
    /\ retracted = {}
    /\ answer = [s \in Snaps |-> "none"]
-----------------------------------------------------------------------------
GoTo(s, label) == step' = [step EXCEPT ![s] = label]
Answer(s, a) == GoTo(s, "ended") /\ answer' = [answer EXCEPT ![s] = a]

directory == <<place, onDisk, files, kept, synced, good, retracted>>
contents == <<files, kept, synced, good>>

\* The file system: each call as it changes what is there and what will last.
Rename(s, name) ==
    /\ place' = [place EXCEPT ![s] = name]
    /\ onDisk' = [onDisk EXCEPT ![s] = @ \cup {name}]

WriteFile(s, f) ==
    /\ files' = [files EXCEPT ![s] = @ \cup {f}]
    /\ good' = [good EXCEPT ![s] = @ \cup {f}]
    /\ UNCHANGED <<place, onDisk, kept, synced, retracted>>

SyncFiles(s, S) ==
    /\ synced' = [synced EXCEPT ![s] = @ \cup S]
    /\ UNCHANGED <<place, onDisk, files, kept, good, retracted>>

\* sync_directory on the store's root settles the name of every directory.
SyncRoot ==
    /\ onDisk' = [s \in Snaps |-> {place[s]}]
    /\ UNCHANGED <<place, contents, retracted>>

RemoveDirAll(s) ==
    \/ /\ Rename(s, "none")
       /\ files' = [files EXCEPT ![s] = {}]
       /\ good' = [good EXCEPT ![s] = {}]
       /\ UNCHANGED <<kept, synced>>
    \/ /\ CleanupFails
       /\ \E F \in SUBSET files[s] :
            /\ files' = [files EXCEPT ![s] = F]
            /\ good' = [good EXCEPT ![s] = @ \cap F]
       /\ UNCHANGED <<place, onDisk, kept, synced>>
-----------------------------------------------------------------------------
(***************************************************************************)
(* stage and stage_inner.  A failure inside stage_inner removes the        *)
(* partial directory; the set_mode before it returns at once.              *)
(***************************************************************************)
StageDir(s) ==
    /\ step[s] = "idle"
    /\ place[s] = "none"
    /\ \/ Rename(s, "partial") /\ GoTo(s, "mode") /\ UNCHANGED answer
       \/ Fails /\ Answer(s, "error") /\ UNCHANGED <<place, onDisk>>
    /\ UNCHANGED <<contents, retracted>>

StageMode(s) ==
    /\ step[s] = "mode"
    /\ \/ GoTo(s, "copy") /\ UNCHANGED answer
       \/ Fails /\ Answer(s, "error")
    /\ UNCHANGED directory

StageCopy(s) ==
    /\ step[s] = "copy"
    /\ \E f \in Artifacts \ files[s] : WriteFile(s, f)
    /\ GoTo(s, "sync_file")
    /\ UNCHANGED answer

StageSync(s) ==
    /\ step[s] = "sync_file"
    /\ SyncFiles(s, files[s])
    /\ GoTo(s, IF Artifacts \subseteq files[s] THEN "token" ELSE "copy")
    /\ UNCHANGED answer

StageToken(s) ==
    /\ step[s] = "token"
    /\ WriteFile(s, "token")
    /\ GoTo(s, "sync_token")
    /\ UNCHANGED answer

StageTokenSync(s) ==
    /\ step[s] = "sync_token"
    /\ SyncFiles(s, {"token"})
    /\ GoTo(s, "staged")
    /\ UNCHANGED answer

\* The caller goes on to finalize, or discards (the source did not resume).
Discard(s) ==
    /\ step[s] = "staged"
    /\ GoTo(s, "clean")
    /\ UNCHANGED <<directory, answer>>

\* finalize_inner: hash every artifact, write the manifest, publish.
FinalizeManifest(s) ==
    /\ step[s] = "staged"
    /\ WriteFile(s, "manifest")
    /\ GoTo(s, "sync_manifest")
    /\ UNCHANGED answer

\* Mutant of FinalizeManifestSync: the manifest is not synced.
FinalizeManifestUnsynced(s) ==
    /\ step[s] = "sync_manifest"
    /\ GoTo(s, "sync_dir")
    /\ UNCHANGED <<directory, answer>>

FinalizeManifestSync(s) ==
    /\ step[s] = "sync_manifest"
    /\ SyncFiles(s, {"manifest"})
    /\ GoTo(s, "sync_dir")
    /\ UNCHANGED answer

FinalizeDirSync(s) ==
    /\ step[s] = "sync_dir"
    /\ kept' = [kept EXCEPT ![s] = files[s]]
    /\ GoTo(s, "rename")
    /\ UNCHANGED <<place, onDisk, files, synced, good, retracted, answer>>

FinalizeRename(s) ==
    /\ step[s] = "rename"
    /\ Rename(s, "final")
    /\ GoTo(s, "sync_root")
    /\ UNCHANGED <<contents, retracted, answer>>

\* Mutant of FinalizeRootSync: the store's root is not synced.
FinalizeRootUnsynced(s) ==
    /\ step[s] = "sync_root"
    /\ GoTo(s, "published")
    /\ UNCHANGED <<directory, answer>>

FinalizeRootSync(s) ==
    /\ step[s] = "sync_root"
    /\ \/ /\ SyncRoot
          /\ GoTo(s, "published")
       \/ /\ Fails
          /\ GoTo(s, "undo")
          /\ UNCHANGED directory
    /\ UNCHANGED answer

\* create_snapshot inserts the artifact and answers.
Acknowledge(s) ==
    /\ step[s] = "published"
    /\ answer[s] = "none"
    /\ answer' = [answer EXCEPT ![s] = "created"]
    /\ UNCHANGED <<step, directory>>

\* A call of stage_inner or finalize_inner fails: remove the partial directory.
Fallible == {"copy", "sync_file", "token", "sync_token", "staged",
             "sync_manifest", "sync_dir", "rename"}
StepFails(s) ==
    /\ Fails
    /\ step[s] \in Fallible
    /\ GoTo(s, "clean")
    /\ UNCHANGED <<directory, answer>>

CleanPartial(s) ==
    /\ step[s] = "clean"
    /\ RemoveDirAll(s)
    /\ Answer(s, "error")
    /\ UNCHANGED retracted

\* The root did not sync: the published directory is taken back.
UndoPublish(s) ==
    /\ step[s] = "undo"
    /\ RemoveDirAll(s)
    /\ retracted' = retracted \cup {s}
    /\ GoTo(s, "undo_sync")
    /\ UNCHANGED answer

UndoSync(s) ==
    /\ step[s] = "undo_sync"
    /\ \/ SyncRoot
       \/ Fails /\ UNCHANGED directory
    /\ Answer(s, "error")
-----------------------------------------------------------------------------
\* delete(): remove the directory, sync the root; either failure is returned.
Delete(s) ==
    /\ step[s] = "published"
    /\ answer[s] = "created"
    /\ RemoveDirAll(s)
    /\ retracted' = retracted \cup {s}
    /\ \/ place'[s] = "none" /\ GoTo(s, "delete_sync") /\ UNCHANGED answer
       \/ place'[s] # "none" /\ Answer(s, "error")

DeleteSync(s) ==
    /\ step[s] = "delete_sync"
    /\ \/ SyncRoot /\ Answer(s, "deleted")
       \/ Fails /\ Answer(s, "error") /\ UNCHANGED directory
-----------------------------------------------------------------------------
\* The request's future is dropped: nothing runs after the call it was in.
DropFuture(s) ==
    /\ Drops
    /\ step[s] \in Working
    /\ GoTo(s, "lost")
    /\ UNCHANGED <<directory, answer>>

(***************************************************************************)
(* The host crashes and the daemon starts again, with an empty map.  Each  *)
(* directory has one of the names it may have, and of the entries that     *)
(* were added or removed since its last sync any may be there; a file that *)
(* was not synced counts as damaged.                                       *)
(***************************************************************************)
Crash ==
    /\ Crashes
    /\ \E s \in Snaps : step[s] # "idle"
    /\ place' \in {p \in [Snaps -> Places] : \A s \in Snaps : p[s] \in onDisk[s]}
    /\ files' \in {F \in [Snaps -> SUBSET Files] : \A s \in Snaps :
                     IF place'[s] = "none" THEN F[s] = {}
                     ELSE files[s] \cap kept[s] \subseteq F[s]
                            /\ F[s] \subseteq files[s] \cup kept[s]}
    /\ onDisk' = [s \in Snaps |-> {place'[s]}]
    /\ kept' = files'
    /\ synced' = [s \in Snaps |-> synced[s] \cap files'[s]]
    /\ good' = synced'
    /\ step' = [s \in Snaps |-> IF step[s] \in Working \cup {"published"}
                                THEN "lost" ELSE step[s]]
    /\ UNCHANGED <<retracted, answer>>
-----------------------------------------------------------------------------
StoreStep(s) ==
    \/ StageDir(s) \/ StageMode(s) \/ StageCopy(s) \/ StageSync(s)
    \/ StageToken(s) \/ StageTokenSync(s) \/ Discard(s)
    \/ FinalizeManifest(s) \/ FinalizeManifestSync(s) \/ FinalizeDirSync(s)
    \/ FinalizeRename(s) \/ FinalizeRootSync(s) \/ Acknowledge(s)
    \/ StepFails(s) \/ CleanPartial(s) \/ UndoPublish(s) \/ UndoSync(s)
    \/ Delete(s) \/ DeleteSync(s)

StoreNext == Crash \/ \E s \in Snaps : StoreStep(s) \/ DropFuture(s)

StoreSpec == StoreInit /\ [][StoreNext]_storeVars
-----------------------------------------------------------------------------
\* Every variable has its type.
StoreTypeOK ==
    /\ step \in [Snaps -> Steps]
    /\ place \in [Snaps -> Places]
    /\ onDisk \in [Snaps -> SUBSET Places]
    /\ files \in [Snaps -> SUBSET Files]
    /\ kept \in [Snaps -> SUBSET Files]
    /\ synced \in [Snaps -> SUBSET Files]
    /\ good \in [Snaps -> SUBSET Files]
    /\ retracted \in SUBSET Snaps
    /\ answer \in [Snaps -> {"none", "created", "deleted", "error"}]

\* verified_manifest: every file is there and holds what was captured.
VerifiedManifest(s) == place[s] = "final" /\ files[s] = Files /\ good[s] = Files

(***************************************************************************)
(* The rename publishes a whole snapshot or none: a directory under a      *)
(* final name passes verification, whenever the host crashed, unless       *)
(* somebody began to remove it.                                            *)
(***************************************************************************)
FinalIsWhole ==
    \A s \in Snaps : place[s] = "final" /\ s \notin retracted => VerifiedManifest(s)

(***************************************************************************)
(* The store implements SnapshotPublication: a snapshot is there once its  *)
(* name is durable, and gone once the removal is.                          *)
(***************************************************************************)
Visible == [s \in Snaps |->
            CASE s \in retracted -> IF onDisk[s] = {"none"} THEN "gone" ELSE "retracted"
              [] s \notin retracted ->
                   IF onDisk[s] = {"final"} /\ kept[s] = Files /\ synced[s] = Files
                   THEN "whole" ELSE "absent"]

Publication == INSTANCE SnapshotPublication WITH shown <- Visible, answer <- answer
ImplementsPublication == Publication!PubSpec
-----------------------------------------------------------------------------
(***************************************************************************)
(* Why both hold, as an inductive invariant of each snapshot.              *)
(*                                                                         *)
(* StagedSoFar: what stage_inner and finalize_inner have written and       *)
(* synced when they reach each of their calls.                             *)
(***************************************************************************)
StagedSoFar(s) ==
    /\ step[s] = "idle" => onDisk[s] = {"none"}
    /\ step[s] \in {"idle", "mode"} => files[s] = {}
    /\ step[s] \in {"copy", "sync_file"} => files[s] \subseteq Artifacts
    /\ step[s] = "token" => files[s] = Artifacts
    /\ step[s] \in {"sync_token", "staged"} => files[s] = Artifacts \cup {"token"}
    /\ step[s] \in {"sync_manifest", "sync_dir", "rename"} => files[s] = Files
    /\ step[s] \in {"idle", "mode"} \cup Fallible => good[s] = files[s]
    /\ step[s] \in {"idle", "mode", "copy", "token", "staged", "sync_dir", "rename"}
            => synced[s] = files[s]
    /\ step[s] = "sync_file" => synced[s] \subseteq files[s]
    /\ step[s] = "sync_token" => synced[s] = Artifacts
    /\ step[s] = "sync_manifest" => synced[s] = Artifacts \cup {"token"}
    /\ step[s] = "rename" => kept[s] = Files

(***************************************************************************)
(* NamesAndContents: a directory that has the final name, or may have it   *)
(* after a crash, is whole and durably so, until somebody removes it.      *)
(***************************************************************************)
MayBeFinal == {"sync_root", "published", "undo", "undo_sync", "delete_sync", "ended", "lost"}
MayBeRetracted == {"undo_sync", "delete_sync", "ended", "lost"}

NamesAndContents(s) ==
    /\ place[s] \in onDisk[s]
    /\ "final" \in onDisk[s] => step[s] \in MayBeFinal
    /\ "final" \in onDisk[s] /\ s \notin retracted =>
        files[s] = Files /\ kept[s] = Files /\ synced[s] = Files /\ good[s] = Files
    /\ s \in retracted => step[s] \in MayBeRetracted
    /\ step[s] \in {"sync_root", "undo"} => place[s] = "final"
    /\ step[s] = "published" => onDisk[s] = {"final"}
    /\ step[s] = "delete_sync" => place[s] = "none" /\ s \in retracted /\ answer[s] = "created"

StoreInv == StoreTypeOK /\ \A s \in Snaps : StagedSoFar(s) /\ NamesAndContents(s)
==============================================================================
