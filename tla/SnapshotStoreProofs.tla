--------------------------- MODULE SnapshotStoreProofs ---------------------------
(***************************************************************************)
(* Proofs about SnapshotStore: at every point of stage, finalize, discard  *)
(* and delete, whatever call fails, whenever the future is dropped or the  *)
(* host crashes, a snapshot under a final name is whole; and the store     *)
(* implements SnapshotPublication.  The steps on one snapshot leave the    *)
(* others alone, except that a sync of the root settles all their names.   *)
(***************************************************************************)
EXTENDS SnapshotStore, TLAPS

SnapInv(s) == StagedSoFar(s) /\ NamesAndContents(s)

\* The steps of requests keep the types.
LEMMA StoreTypeStep ==
    ASSUME StoreTypeOK, NEW s \in Snaps, StoreStep(s) \/ DropFuture(s)
    PROVE  StoreTypeOK'
<1> USE StoreAssumption DEF StoreTypeOK, GoTo, Answer, directory, contents, Rename, WriteFile,
        SyncFiles, SyncRoot, RemoveDirAll, Files, Places, Working, Steps
<1>1. CASE StageDir(s)
  BY <1>1 DEF StageDir
<1>2. CASE StageMode(s)
  BY <1>2 DEF StageMode
<1>3. CASE StageCopy(s)
  BY <1>3 DEF StageCopy
<1>4. CASE StageSync(s)
  BY <1>4 DEF StageSync
<1>5. CASE StageToken(s)
  BY <1>5 DEF StageToken
<1>6. CASE StageTokenSync(s)
  BY <1>6 DEF StageTokenSync
<1>7. CASE Discard(s)
  BY <1>7 DEF Discard
<1>8. CASE FinalizeManifest(s)
  BY <1>8 DEF FinalizeManifest
<1>9. CASE FinalizeManifestSync(s)
  BY <1>9 DEF FinalizeManifestSync
<1>10. CASE FinalizeDirSync(s)
  BY <1>10 DEF FinalizeDirSync
<1>11. CASE FinalizeRename(s)
  BY <1>11 DEF FinalizeRename
<1>12. CASE FinalizeRootSync(s)
  BY <1>12 DEF FinalizeRootSync
<1>13. CASE Acknowledge(s)
  BY <1>13 DEF Acknowledge
<1>14. CASE StepFails(s)
  BY <1>14 DEF StepFails
<1>15. CASE CleanPartial(s)
  BY <1>15 DEF CleanPartial
<1>16. CASE UndoPublish(s)
  BY <1>16 DEF UndoPublish
<1>17. CASE UndoSync(s)
  BY <1>17 DEF UndoSync
<1>18. CASE Delete(s)
  BY <1>18 DEF Delete
<1>19. CASE DeleteSync(s)
  BY <1>19 DEF DeleteSync
<1>20. CASE DropFuture(s)
  BY <1>20 DEF DropFuture
<1> QED BY <1>1, <1>2, <1>3, <1>4, <1>5, <1>6, <1>7, <1>8, <1>9, <1>10, <1>11, <1>12, <1>13,
        <1>14, <1>15, <1>16, <1>17, <1>18, <1>19, <1>20 DEF StoreStep

\* A request on s changes nothing of another snapshot but how durable its name is.
LEMMA OtherSnapshots ==
    ASSUME StoreTypeOK, NEW s \in Snaps, StoreStep(s) \/ DropFuture(s), NEW u \in Snaps, u # s
    PROVE  /\ step'[u] = step[u] /\ place'[u] = place[u] /\ files'[u] = files[u]
           /\ kept'[u] = kept[u] /\ synced'[u] = synced[u] /\ good'[u] = good[u]
           /\ answer'[u] = answer[u] /\ (u \in retracted' <=> u \in retracted)
           /\ onDisk'[u] \in {onDisk[u], {place[u]}}
<1> USE DEF StoreTypeOK, GoTo, Answer, directory, contents, Rename, WriteFile, SyncFiles,
        SyncRoot, RemoveDirAll
<1>1. CASE StageDir(s)
  BY <1>1 DEF StageDir
<1>2. CASE StageMode(s)
  BY <1>2 DEF StageMode
<1>3. CASE StageCopy(s)
  BY <1>3 DEF StageCopy
<1>4. CASE StageSync(s)
  BY <1>4 DEF StageSync
<1>5. CASE StageToken(s)
  BY <1>5 DEF StageToken
<1>6. CASE StageTokenSync(s)
  BY <1>6 DEF StageTokenSync
<1>7. CASE Discard(s)
  BY <1>7 DEF Discard
<1>8. CASE FinalizeManifest(s)
  BY <1>8 DEF FinalizeManifest
<1>9. CASE FinalizeManifestSync(s)
  BY <1>9 DEF FinalizeManifestSync
<1>10. CASE FinalizeDirSync(s)
  BY <1>10 DEF FinalizeDirSync
<1>11. CASE FinalizeRename(s)
  BY <1>11 DEF FinalizeRename
<1>12. CASE FinalizeRootSync(s)
  BY <1>12 DEF FinalizeRootSync
<1>13. CASE Acknowledge(s)
  BY <1>13 DEF Acknowledge
<1>14. CASE StepFails(s)
  BY <1>14 DEF StepFails
<1>15. CASE CleanPartial(s)
  BY <1>15 DEF CleanPartial
<1>16. CASE UndoPublish(s)
  BY <1>16 DEF UndoPublish
<1>17. CASE UndoSync(s)
  BY <1>17 DEF UndoSync
<1>18. CASE Delete(s)
  BY <1>18 DEF Delete
<1>19. CASE DeleteSync(s)
  BY <1>19 DEF DeleteSync
<1>20. CASE DropFuture(s)
  BY <1>20 DEF DropFuture
<1> QED BY <1>1, <1>2, <1>3, <1>4, <1>5, <1>6, <1>7, <1>8, <1>9, <1>10, <1>11, <1>12, <1>13,
        <1>14, <1>15, <1>16, <1>17, <1>18, <1>19, <1>20 DEF StoreStep

\* ... so that its invariant stays.
LEMMA OthersKeep ==
    ASSUME StoreInv, NEW s \in Snaps, StoreStep(s) \/ DropFuture(s), NEW u \in Snaps, u # s
    PROVE  SnapInv(u)'
<1>1. /\ step'[u] = step[u] /\ place'[u] = place[u] /\ files'[u] = files[u]
      /\ kept'[u] = kept[u] /\ synced'[u] = synced[u] /\ good'[u] = good[u]
      /\ answer'[u] = answer[u] /\ (u \in retracted' <=> u \in retracted)
      /\ onDisk'[u] \in {onDisk[u], {place[u]}}
  BY OtherSnapshots DEF StoreInv
<1>2. StagedSoFar(u) /\ NamesAndContents(u)
  BY DEF StoreInv
<1>3. StagedSoFar(u)'
  BY <1>1, <1>2 DEF StagedSoFar, NamesAndContents
<1>4. NamesAndContents(u)'
  BY <1>1, <1>2 DEF NamesAndContents
<1> QED BY <1>3, <1>4 DEF SnapInv

\* The step a request takes keeps what its snapshot has staged so far.
LEMMA StagedStep ==
    ASSUME StoreInv, NEW s \in Snaps, StoreStep(s) \/ DropFuture(s)
    PROVE  StagedSoFar(s)'
<1> USE StoreAssumption DEF StoreInv, StoreTypeOK, StagedSoFar, GoTo, Answer, directory,
        contents, Rename, WriteFile, SyncFiles, SyncRoot, RemoveDirAll, Files, Fallible
<1>1. CASE StageDir(s)
  BY <1>1 DEF StageDir
<1>2. CASE StageMode(s)
  BY <1>2 DEF StageMode
<1>3. CASE StageCopy(s)
  BY <1>3 DEF StageCopy
<1>4. CASE StageSync(s)
  BY <1>4, ZenonT(60) DEF StageSync
<1>5. CASE StageToken(s)
  BY <1>5 DEF StageToken
<1>6. CASE StageTokenSync(s)
  BY <1>6 DEF StageTokenSync
<1>7. CASE Discard(s)
  BY <1>7 DEF Discard
<1>8. CASE FinalizeManifest(s)
  BY <1>8 DEF FinalizeManifest
<1>9. CASE FinalizeManifestSync(s)
  BY <1>9 DEF FinalizeManifestSync
<1>10. CASE FinalizeDirSync(s)
  BY <1>10 DEF FinalizeDirSync
<1>11. CASE FinalizeRename(s)
  BY <1>11 DEF FinalizeRename
<1>12. CASE FinalizeRootSync(s)
  BY <1>12 DEF FinalizeRootSync
<1>13. CASE Acknowledge(s)
  BY <1>13 DEF Acknowledge
<1>14. CASE StepFails(s)
  BY <1>14 DEF StepFails
<1>15. CASE CleanPartial(s)
  BY <1>15 DEF CleanPartial
<1>16. CASE UndoPublish(s)
  BY <1>16 DEF UndoPublish
<1>17. CASE UndoSync(s)
  BY <1>17 DEF UndoSync
<1>18. CASE Delete(s)
  BY <1>18 DEF Delete
<1>19. CASE DeleteSync(s)
  BY <1>19 DEF DeleteSync
<1>20. CASE DropFuture(s)
  BY <1>20 DEF DropFuture
<1> QED BY <1>1, <1>2, <1>3, <1>4, <1>5, <1>6, <1>7, <1>8, <1>9, <1>10, <1>11, <1>12, <1>13,
        <1>14, <1>15, <1>16, <1>17, <1>18, <1>19, <1>20 DEF StoreStep

\* ... and what the names it has, or may have, say of its contents.
LEMMA NamesStep ==
    ASSUME StoreInv, NEW s \in Snaps, StoreStep(s) \/ DropFuture(s)
    PROVE  NamesAndContents(s)'
<1> USE StoreAssumption DEF StoreInv, StoreTypeOK, StagedSoFar, NamesAndContents, GoTo, Answer,
        directory, contents, Rename, WriteFile, SyncFiles, SyncRoot, RemoveDirAll, MayBeFinal,
        MayBeRetracted, Fallible
<1>1. CASE StageDir(s)
  BY <1>1 DEF StageDir
<1>2. CASE StageMode(s)
  BY <1>2 DEF StageMode
<1>3. CASE StageCopy(s)
  BY <1>3 DEF StageCopy
<1>4. CASE StageSync(s)
  BY <1>4 DEF StageSync
<1>5. CASE StageToken(s)
  BY <1>5 DEF StageToken
<1>6. CASE StageTokenSync(s)
  BY <1>6 DEF StageTokenSync
<1>7. CASE Discard(s)
  BY <1>7 DEF Discard
<1>8. CASE FinalizeManifest(s)
  BY <1>8 DEF FinalizeManifest
<1>9. CASE FinalizeManifestSync(s)
  BY <1>9 DEF FinalizeManifestSync
<1>10. CASE FinalizeDirSync(s)
  BY <1>10 DEF FinalizeDirSync
<1>11. CASE FinalizeRename(s)
  BY <1>11 DEF FinalizeRename
<1>12. CASE FinalizeRootSync(s)
  BY <1>12 DEF FinalizeRootSync
<1>13. CASE Acknowledge(s)
  BY <1>13 DEF Acknowledge
<1>14. CASE StepFails(s)
  BY <1>14 DEF StepFails
<1>15. CASE CleanPartial(s)
  BY <1>15 DEF CleanPartial
<1>16. CASE UndoPublish(s)
  BY <1>16 DEF UndoPublish
<1>17. CASE UndoSync(s)
  BY <1>17 DEF UndoSync
<1>18. CASE Delete(s)
  BY <1>18 DEF Delete
<1>19. CASE DeleteSync(s)
  BY <1>19 DEF DeleteSync
<1>20. CASE DropFuture(s)
  BY <1>20 DEF DropFuture, Working
<1> QED BY <1>1, <1>2, <1>3, <1>4, <1>5, <1>6, <1>7, <1>8, <1>9, <1>10, <1>11, <1>12, <1>13,
        <1>14, <1>15, <1>16, <1>17, <1>18, <1>19, <1>20 DEF StoreStep
-----------------------------------------------------------------------------
\* A crash leaves of each snapshot what its durable name and entries say.
LEMMA CrashStep ==
    ASSUME StoreInv, Crash
    PROVE  StoreInv'
<1> USE DEF StoreInv, StoreTypeOK, Crash
<1>1. StoreTypeOK'
  BY DEF Steps, Working, Places
<1>2. ASSUME NEW s \in Snaps PROVE StagedSoFar(s)'
  <2>1. step'[s] \in {"idle", "ended", "lost"} /\ (step'[s] = "idle" => step[s] = "idle")
    BY DEF Steps, Working
  <2>2. CASE step'[s] = "idle"
    <3>1. place'[s] = "none"
      BY <2>1, <2>2 DEF StagedSoFar
    <3> QED BY <2>2, <3>1 DEF StagedSoFar
  <2> QED BY <2>1, <2>2 DEF StagedSoFar, Fallible
<1>3. ASSUME NEW s \in Snaps PROVE NamesAndContents(s)'
  <2>1. /\ place'[s] \in onDisk[s] /\ onDisk'[s] = {place'[s]}
        /\ step'[s] = IF step[s] \in Working \cup {"published"} THEN "lost" ELSE step[s]
        /\ UNCHANGED retracted
    OBVIOUS
  <2>2. step'[s] \in {"idle", "ended", "lost"} /\ (step'[s] = "idle" => step[s] = "idle")
    BY <2>1 DEF Steps, Working
  <2>3. "final" \in onDisk'[s] => step'[s] \in MayBeFinal
    BY <2>1, <2>2 DEF NamesAndContents, MayBeFinal
  <2>4. s \in retracted' => step'[s] \in MayBeRetracted
    BY <2>1, <2>2 DEF NamesAndContents, MayBeRetracted
  <2>5. ASSUME "final" \in onDisk'[s], s \notin retracted'
        PROVE  files'[s] = Files /\ kept'[s] = Files /\ synced'[s] = Files /\ good'[s] = Files
    <3>1. place'[s] = "final" /\ files[s] = Files /\ kept[s] = Files /\ synced[s] = Files
      BY <2>1, <2>5 DEF NamesAndContents
    <3>2. files[s] \cap kept[s] \subseteq files'[s] /\ files'[s] \subseteq Files
      BY <3>1
    <3>3. files'[s] = Files
      BY <3>1, <3>2
    <3> QED BY <3>1, <3>3
  <2> QED BY <2>1, <2>2, <2>3, <2>4, <2>5 DEF NamesAndContents
<1> QED BY <1>1, <1>2, <1>3

\* The invariant holds of an empty store and is kept by every step.
LEMMA StoreInvInit == StoreInit => StoreInv
BY StoreAssumption DEF StoreInit, StoreInv, StoreTypeOK, StagedSoFar, NamesAndContents, Steps,
        Places, Files, Fallible, MayBeFinal

\* The induction step.
LEMMA StoreInvNext ==
    ASSUME StoreInv, [StoreNext]_storeVars
    PROVE  StoreInv'
<1>1. ASSUME NEW s \in Snaps, StoreStep(s) \/ DropFuture(s) PROVE StoreInv'
  <2>1. StoreTypeOK'
    BY <1>1, StoreTypeStep DEF StoreInv
  <2>2. ASSUME NEW u \in Snaps PROVE SnapInv(u)'
    <3>1. CASE u = s
      BY <1>1, <3>1, StagedStep, NamesStep DEF SnapInv
    <3>2. CASE u # s
      BY <1>1, <3>2, OthersKeep
    <3> QED BY <3>1, <3>2
  <2> QED BY <2>1, <2>2 DEF StoreInv, SnapInv
<1>2. CASE UNCHANGED storeVars
  BY <1>2 DEF storeVars, StoreInv, StoreTypeOK, StagedSoFar, NamesAndContents
<1> QED BY <1>1, <1>2, CrashStep DEF StoreNext

(***************************************************************************)
(* The inductive invariant of the store, its types included.               *)
(***************************************************************************)
THEOREM StoreInvariant == StoreSpec => []StoreInv
BY StoreInvInit, StoreInvNext, PTL DEF StoreSpec

(***************************************************************************)
(* A directory under a final name passes verification: finalize renames    *)
(* it only after every file and every entry is durable.                    *)
(***************************************************************************)
THEOREM WholeOrNothing == StoreSpec => []FinalIsWhole
<1>1. StoreInv => FinalIsWhole
  BY DEF StoreInv, NamesAndContents, FinalIsWhole, VerifiedManifest
<1> QED BY <1>1, StoreInvariant, PTL
-----------------------------------------------------------------------------
\* What a reader finds of one snapshot.
LEMMA VisibleIs ==
    ASSUME NEW s \in Snaps
    PROVE  Visible[s] = IF s \in retracted
                        THEN IF onDisk[s] = {"none"} THEN "gone" ELSE "retracted"
                        ELSE IF onDisk[s] = {"final"} /\ kept[s] = Files /\ synced[s] = Files
                             THEN "whole" ELSE "absent"
BY DEF Visible

\* ... and what it finds after a step.
LEMMA VisibleNext ==
    ASSUME NEW s \in Snaps
    PROVE  Visible'[s] = IF s \in retracted'
                         THEN IF onDisk'[s] = {"none"} THEN "gone" ELSE "retracted"
                         ELSE IF onDisk'[s] = {"final"} /\ kept'[s] = Files /\ synced'[s] = Files
                              THEN "whole" ELSE "absent"
BY DEF Visible

\* A step on another snapshot makes this one's name durable, or does nothing to it.
LEMMA OthersShown ==
    ASSUME StoreInv, NEW s \in Snaps, StoreStep(s) \/ DropFuture(s), NEW u \in Snaps, u # s
    PROVE  Publication!Shows(u) /\ Publication!Tells(u)
<1>1. /\ kept'[u] = kept[u] /\ synced'[u] = synced[u]
      /\ answer'[u] = answer[u] /\ (u \in retracted' <=> u \in retracted)
      /\ onDisk'[u] \in {onDisk[u], {place[u]}}
  BY OtherSnapshots DEF StoreInv
<1>2. place[u] \in onDisk[u]
  BY DEF StoreInv, NamesAndContents
<1>3. Publication!Tells(u)
  BY <1>1 DEF Publication!Tells
<1>4. Publication!Shows(u)
  BY <1>1, <1>2, VisibleIs, VisibleNext DEF Publication!Shows, Publication!Appearance
<1> QED BY <1>3, <1>4

\* A step on a snapshot moves it along, and tells the caller nothing untrue.
LEMMA OwnShown ==
    ASSUME StoreInv, NEW s \in Snaps, StoreStep(s) \/ DropFuture(s)
    PROVE  Publication!Shows(s) /\ Publication!Tells(s)
<1> USE VisibleIs, VisibleNext, StoreAssumption DEF StoreInv, StoreTypeOK, NamesAndContents,
        StagedSoFar, GoTo, Answer, directory, contents, Rename, WriteFile, SyncFiles, SyncRoot,
        RemoveDirAll, MayBeFinal, MayBeRetracted, Fallible, Publication!Shows,
        Publication!Appearance, Publication!Tells
<1>1. CASE StageDir(s)
  BY <1>1 DEF StageDir
<1>2. CASE StageMode(s)
  BY <1>2 DEF StageMode
<1>3. CASE StageCopy(s)
  BY <1>3 DEF StageCopy
<1>4. CASE StageSync(s)
  BY <1>4 DEF StageSync
<1>5. CASE StageToken(s)
  BY <1>5 DEF StageToken
<1>6. CASE StageTokenSync(s)
  BY <1>6 DEF StageTokenSync
<1>7. CASE Discard(s)
  BY <1>7 DEF Discard
<1>8. CASE FinalizeManifest(s)
  BY <1>8 DEF FinalizeManifest
<1>9. CASE FinalizeManifestSync(s)
  BY <1>9 DEF FinalizeManifestSync
<1>10. CASE FinalizeDirSync(s)
  BY <1>10 DEF FinalizeDirSync
<1>11. CASE FinalizeRename(s)
  BY <1>11 DEF FinalizeRename
<1>12. CASE FinalizeRootSync(s)
  BY <1>12 DEF FinalizeRootSync
<1>13. CASE Acknowledge(s)
  BY <1>13 DEF Acknowledge
<1>14. CASE StepFails(s)
  BY <1>14 DEF StepFails
<1>15. CASE CleanPartial(s)
  BY <1>15 DEF CleanPartial
<1>16. CASE UndoPublish(s)
  BY <1>16 DEF UndoPublish
<1>17. CASE UndoSync(s)
  BY <1>17 DEF UndoSync
<1>18. CASE Delete(s)
  BY <1>18 DEF Delete
<1>19. CASE DeleteSync(s)
  BY <1>19 DEF DeleteSync
<1>20. CASE DropFuture(s)
  BY <1>20 DEF DropFuture
<1> QED BY <1>1, <1>2, <1>3, <1>4, <1>5, <1>6, <1>7, <1>8, <1>9, <1>10, <1>11, <1>12, <1>13,
        <1>14, <1>15, <1>16, <1>17, <1>18, <1>19, <1>20 DEF StoreStep

\* A crash loses nothing that was there for good.
LEMMA CrashShown ==
    ASSUME StoreInv, Crash, NEW s \in Snaps
    PROVE  Publication!Shows(s) /\ Publication!Tells(s)
<1>1. UNCHANGED <<retracted, answer>> /\ place'[s] \in onDisk[s] /\ onDisk'[s] = {place'[s]}
  BY DEF Crash
<1>2. NamesAndContents(s) /\ NamesAndContents(s)'
  BY CrashStep DEF StoreInv
<1>3. Publication!Tells(s)
  BY <1>1 DEF Publication!Tells
<1>4. Publication!Shows(s)
  BY <1>1, <1>2, VisibleIs, VisibleNext
     DEF NamesAndContents, Publication!Shows, Publication!Appearance
<1> QED BY <1>3, <1>4

\* Every step of the store is one that SnapshotPublication allows.
LEMMA PublicationStep ==
    ASSUME StoreInv, [StoreNext]_storeVars
    PROVE  [Publication!PubNext]_<<Visible, answer>>
<1>1. CASE UNCHANGED storeVars
  BY <1>1 DEF storeVars, Visible
<1>2. CASE StoreNext
  <2>1. ASSUME NEW s \in Snaps PROVE Publication!Shows(s) /\ Publication!Tells(s)
    <3>1. ASSUME NEW u \in Snaps, StoreStep(u) \/ DropFuture(u)
          PROVE  Publication!Shows(s) /\ Publication!Tells(s)
      <4>1. CASE s = u
        BY <3>1, <4>1, OwnShown
      <4>2. CASE s # u
        BY <3>1, <4>2, OthersShown
      <4> QED BY <4>1, <4>2
    <3> QED BY <1>2, <3>1, CrashShown DEF StoreNext
  <2>2. Visible' \in [Snaps -> Publication!Shown]
    BY VisibleNext DEF Visible, Publication!Shown
  <2>3. answer' \in [Snaps -> Publication!Answers]
    BY StoreInvNext DEF StoreInv, StoreTypeOK, Publication!Answers
  <2> QED BY <2>1, <2>2, <2>3 DEF Publication!PubNext
<1> QED BY <1>1, <1>2

(***************************************************************************)
(* The store implements SnapshotPublication, failing calls, dropped        *)
(* futures and crashes included: a created snapshot was there for good     *)
(* when the answer was given, and a deleted one does not come back.        *)
(***************************************************************************)
THEOREM PublicationImplemented == StoreSpec => ImplementsPublication
<1>1. StoreInit => Publication!PubInit
  <2> SUFFICES ASSUME StoreInit PROVE Publication!PubInit
    OBVIOUS
  <2>1. ASSUME NEW s \in Snaps PROVE Visible[s] = "absent"
    BY VisibleIs DEF StoreInit
  <2>2. Visible = [s \in Snaps |-> Visible[s]]
    BY DEF Visible
  <2> QED BY <2>1, <2>2 DEF StoreInit, Publication!PubInit
<1> QED BY <1>1, StoreInvInit, StoreInvNext, PublicationStep, PTL
     DEF StoreSpec, ImplementsPublication, Publication!PubSpec
==================================================================================
