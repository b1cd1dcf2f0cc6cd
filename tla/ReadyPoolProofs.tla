---------------------------- MODULE ReadyPoolProofs ----------------------------
(***************************************************************************)
(* Proofs about ReadyPool and the boot snapshot under it, for every target *)
(* size and any number of claims, failures and restarts: an entry of the   *)
(* pool is handed out once and has its VM, and, with a pool, every restore *)
(* gets the files of one complete capture although no lock guards them.    *)
(***************************************************************************)
EXTENDS ReadyPool, FiniteSetTheorems, TLAPS

\* The labels of a launch, written out.
LEMMA LabelsAre ==
    /\ \A f \in FileNames : f \in {"vmstate", "memory", "rootfs"}
    /\ Writing["vmstate"] = "write_vmstate" /\ Writing["memory"] = "write_memory"
    /\ Writing["rootfs"] = "write_rootfs"
    /\ AfterCopy["vmstate"] = "memory" /\ AfterCopy["memory"] = "rootfs" /\ AfterCopy["rootfs"] = "mark"
    /\ Linking["vmstate"] = "link_vmstate" /\ Linking["memory"] = "link_memory"
    /\ Linking["rootfs"] = "link_rootfs"
    /\ AfterLink["rootfs"] = "link_vmstate" /\ AfterLink["vmstate"] = "link_memory"
    /\ AfterLink["memory"] = "restored"
    /\ Capturing = {"boot", "mark", "vmstate", "memory", "rootfs",
                    "write_vmstate", "write_memory", "write_rootfs"}
    /\ Labels = Capturing \cup {"idle", "check", "resume", "restored", "booted",
                                "link_rootfs", "link_vmstate", "link_memory"}
<1>1. /\ Writing["vmstate"] = "write_vmstate" /\ Writing["memory"] = "write_memory"
      /\ Writing["rootfs"] = "write_rootfs"
  BY DEF Writing
<1>2. AfterCopy["vmstate"] = "memory" /\ AfterCopy["memory"] = "rootfs" /\ AfterCopy["rootfs"] = "mark"
  BY DEF AfterCopy
<1>3. /\ Linking["vmstate"] = "link_vmstate" /\ Linking["memory"] = "link_memory"
      /\ Linking["rootfs"] = "link_rootfs"
  BY DEF Linking
<1>4. /\ AfterLink["rootfs"] = "link_vmstate" /\ AfterLink["vmstate"] = "link_memory"
      /\ AfterLink["memory"] = "restored"
  BY DEF AfterLink
<1>5. {Writing[f] : f \in FileNames} = {"write_vmstate", "write_memory", "write_rootfs"}
  BY <1>1 DEF FileNames
<1>6. {Linking[f] : f \in FileNames} = {"link_rootfs", "link_vmstate", "link_memory"}
  BY <1>3 DEF FileNames
<1>7. Capturing = {"boot", "mark", "vmstate", "memory", "rootfs",
                   "write_vmstate", "write_memory", "write_rootfs"}
  BY <1>5 DEF Capturing, FileNames
<1>8. Labels = Capturing \cup {"idle", "check", "resume", "restored", "booted",
                               "link_rootfs", "link_vmstate", "link_memory"}
  BY <1>5, <1>6, <1>7 DEF Labels, FileNames
<1> QED BY <1>1, <1>2, <1>3, <1>4, <1>7, <1>8 DEF FileNames

\* New names are unused ones.
LEMMA NewAreUnused ==
    ASSUME NEW n, Available(n)
    PROVE  NewIds(n) \in SUBSET Unused /\ Cardinality(NewIds(n)) = n
BY DEF Available, NewIds

\* A single new name.
LEMMA OneNew ==
    ASSUME Available(1)
    PROVE  \E i \in Ids : NewIds(1) = {i}
<1>1. NewIds(1) \in SUBSET Unused /\ Cardinality(NewIds(1)) = 1
  BY NewAreUnused
<1>2. Unused \subseteq Ids
  BY DEF Unused
<1>3. NewIds(1) \in SUBSET Ids
  BY <1>1, <1>2
<1>4. IsFiniteSet(NewIds(1))
  BY <1>3, PoolAssumption, FS_Subset
<1>5. \E x : NewIds(1) = {x}
  BY <1>1, <1>4, FS_Singleton
<1> QED BY <1>3, <1>5

\* The elements of a set of entries, in some order.
LEMMA InSomeOrder ==
    ASSUME NEW S \in SUBSET Ids
    PROVE  /\ SetToSeq(S) \in Seq(S) /\ IsInjective(SetToSeq(S))
<1>1. IsFiniteSet(S)
  BY PoolAssumption, FS_Subset
<1>2. Cardinality(S) \in Nat /\ ExistsBijection(1..Cardinality(S), S)
  BY <1>1, FS_CardinalityType
<1>3. \E f \in [1..Cardinality(S) -> S] : IsInjective(f)
  BY <1>2 DEF ExistsBijection, Bijection, Injection, IsInjective
<1>4. SetToSeq(S) \in [1..Cardinality(S) -> S] /\ IsInjective(SetToSeq(S))
  BY <1>3 DEF SetToSeq
<1> QED BY <1>2, <1>4

\* The pool with more entries, none of which it has.
LEMMA PoolGrows ==
    ASSUME NEW p \in Seq(Ids), NEW q \in Seq(Ids), IsInjective(p), IsInjective(q),
           NEW S, q \in Seq(S), ToSet(p) \cap S = {}
    PROVE  /\ p \o q \in Seq(Ids) /\ IsInjective(p \o q)
           /\ ToSet(p \o q) \subseteq ToSet(p) \cup S
<1> DEFINE r == p \o q
<1>1. /\ r \in Seq(Ids) /\ Len(r) = Len(p) + Len(q) /\ Len(p) \in Nat /\ Len(q) \in Nat
      /\ DOMAIN r = 1..Len(r) /\ DOMAIN p = 1..Len(p) /\ DOMAIN q = 1..Len(q)
  OBVIOUS
<1>2. \A k \in 1..Len(r) : r[k] = IF k <= Len(p) THEN p[k] ELSE q[k - Len(p)]
  OBVIOUS
<1> HIDE DEF r
<1>3. \A k \in 1..Len(r) : k <= Len(p) => k \in 1..Len(p) /\ r[k] = p[k] /\ r[k] \in ToSet(p)
  BY <1>1, <1>2 DEF ToSet
<1>4. \A k \in 1..Len(r) : ~(k <= Len(p)) =>
        k - Len(p) \in 1..Len(q) /\ r[k] = q[k - Len(p)] /\ r[k] \in S
  <2> TAKE k \in 1..Len(r)
  <2> HAVE ~(k <= Len(p))
  <2>1. k - Len(p) \in 1..Len(q) /\ r[k] = q[k - Len(p)]
    BY <1>1, <1>2
  <2>2. q[k - Len(p)] \in S
    BY <1>1, <2>1
  <2> QED BY <2>1, <2>2
<1>5. ASSUME NEW a \in DOMAIN r, NEW c \in DOMAIN r, r[a] = r[c] PROVE a = c
  <2>1. a \in 1..Len(r) /\ c \in 1..Len(r)
    BY <1>1
  <2>2. CASE a <= Len(p) /\ c <= Len(p)
    BY <1>1, <1>3, <1>5, <2>1, <2>2 DEF IsInjective
  <2>3. CASE ~(a <= Len(p)) /\ ~(c <= Len(p))
    <3>1. a - Len(p) = c - Len(p)
      BY <1>1, <1>4, <1>5, <2>1, <2>3 DEF IsInjective
    <3> QED BY <1>1, <2>1, <3>1
  <2>4. CASE a <= Len(p) /\ ~(c <= Len(p))
    BY <1>3, <1>4, <1>5, <2>1, <2>4
  <2>5. CASE ~(a <= Len(p)) /\ c <= Len(p)
    BY <1>3, <1>4, <1>5, <2>1, <2>5
  <2> QED BY <2>2, <2>3, <2>4, <2>5
<1>6. IsInjective(r)
  BY <1>5 DEF IsInjective
<1>7. ToSet(r) \subseteq ToSet(p) \cup S
  BY <1>1, <1>3, <1>4 DEF ToSet
<1> QED BY <1>1, <1>6, <1>7 DEF r

\* The pool without its last entry.
LEMMA PoolPops ==
    ASSUME NEW p \in Seq(Ids), IsInjective(p), p # <<>>
    PROVE  /\ Front(p) \in Seq(Ids) /\ IsInjective(Front(p))
           /\ Last(p) \in ToSet(p) /\ Last(p) \in Ids
           /\ ToSet(Front(p)) \subseteq ToSet(p) \ {Last(p)}
<1> DEFINE n == Len(p)
           r == Front(p)
<1>1. n \in Nat \ {0} /\ DOMAIN p = 1..n
  OBVIOUS
<1>2. r \in Seq(Ids) /\ Len(r) = n - 1 /\ DOMAIN r = 1..n - 1 /\ \A k \in 1..n - 1 : r[k] = p[k]
  BY <1>1 DEF Front
<1> HIDE DEF r
<1>3. Last(p) = p[n] /\ n \in DOMAIN p /\ p[n] \in Ids
  BY <1>1 DEF Last
<1> HIDE DEF n
<1>4. \A k \in 1..n - 1 : k \in DOMAIN p /\ r[k] = p[k] /\ p[k] # p[n]
  BY <1>1, <1>2, <1>3 DEF IsInjective
<1>5. IsInjective(r)
  BY <1>2, <1>4 DEF IsInjective
<1>6. ToSet(r) \subseteq ToSet(p) \ {Last(p)}
  BY <1>2, <1>3, <1>4 DEF ToSet
<1>7. Last(p) \in ToSet(p)
  BY <1>3 DEF ToSet
<1> QED BY <1>2, <1>3, <1>5, <1>6, <1>7 DEF r

\* A step of a launch changes that launch's label, never from or to idle.
LEMMA LaunchLabels ==
    ASSUME CaptureTypeOK, NEW i \in Ids, LaunchStep(i)
    PROVE  /\ pc[i] # "idle" /\ pc'[i] # "idle" /\ (\A j \in Ids : j # i => pc'[j] = pc[j])
           /\ CaptureTypeOK'
<1> USE LabelsAre DEF CaptureTypeOK, Goto
<1>1. CASE Check(i) \/ Pause(i) \/ Mark(i) \/ Resume(i)
  BY <1>1 DEF Check, Pause, Mark, Resume
<1>2. ASSUME NEW f \in FileNames, BeginCopy(i, f) PROVE
           /\ pc[i] # "idle" /\ pc'[i] # "idle" /\ (\A j \in Ids : j # i => pc'[j] = pc[j])
           /\ CaptureTypeOK'
  BY <1>2 DEF BeginCopy
<1>3. ASSUME NEW f \in FileNames, EndCopy(i, f) PROVE
           /\ pc[i] # "idle" /\ pc'[i] # "idle" /\ (\A j \in Ids : j # i => pc'[j] = pc[j])
           /\ CaptureTypeOK'
  BY <1>3 DEF EndCopy
<1>4. ASSUME NEW f \in FileNames, Take(i, f) PROVE
           /\ pc[i] # "idle" /\ pc'[i] # "idle" /\ (\A j \in Ids : j # i => pc'[j] = pc[j])
           /\ CaptureTypeOK'
  BY <1>4 DEF Take
<1> QED BY <1>1, <1>2, <1>3, <1>4 DEF LaunchStep

\* Ended and started calls.
LEMMA Replacing ==
    ASSUME CaptureTypeOK, NEW I, NEW F, Replace(I, F)
    PROVE  /\ CaptureTypeOK'
           /\ \A j \in Ids : pc'[j] = IF j \in F THEN "check" ELSE IF j \in I THEN "idle" ELSE pc[j]
           /\ \A j \in Ids : j \notin I => seen'[j] = seen[j]
           /\ UNCHANGED <<file, marker>>
<1>1. NothingSeen \in [FileNames -> Ids \cup {Torn, NoFile}]
  BY DEF NothingSeen
<1> QED BY <1>1, LabelsAre DEF Replace, CaptureTypeOK

\* Unused names: nobody launches, has or prepares them.
LEMMA UnusedAre ==
    ASSUME PoolInv, NEW F \in SUBSET Unused
    PROVE  /\ F \subseteq Ids /\ F \cap (mapped \cup batch \cup requested \cup claimed) = {}
           /\ F \cap ToSet(pool) = {}
           /\ \A i \in F : pc[i] = "idle"
BY DEF PoolInv, OwnerInv, HandedOutOnce, Unused

\* Every step keeps the pool and the names in order.
LEMMA PoolStep ==
    ASSUME PoolInv, PoolNext
    PROVE  PoolInv'
<1>0. PoolTypeOK /\ OwnerInv /\ HandedOutOnce /\ CaptureTypeOK
  BY DEF PoolInv, PoolTypeOK
<1> USE PoolAssumption DEF PoolInv, OwnerInv, HandedOutOnce, PoolTypeOK, captureVars, poolCounts
<1>1. CASE StartPrewarm
  <2>0. PICK F \in SUBSET Unused : batch' = F /\ Replace({}, F)
    BY <1>1, NewAreUnused DEF StartPrewarm
  <2>1. /\ CaptureTypeOK'
        /\ \A j \in Ids : pc'[j] = IF j \in F THEN "check" ELSE pc[j]
    BY <1>0, <2>0, Replacing
  <2>2. /\ F \subseteq Ids /\ F \cap (mapped \cup batch \cup requested \cup claimed) = {}
        /\ F \cap ToSet(pool) = {}
    BY <2>0, UnusedAre
  <2>3. batch = {} /\ ready = {} /\ UNCHANGED <<pool, mapped, ready, requested, claimed, serving,
                                                poolCounts>>
        /\ maintainer' \in {"first", "batch"}
    BY <1>0, <1>1 DEF StartPrewarm
  <2>4. remaining' \in Nat
    BY <1>0, <1>1 DEF StartPrewarm, Missing
  <2> QED BY <1>0, <2>0, <2>1, <2>2, <2>3, <2>4
<1>2. CASE Idle
  <2>1. CaptureTypeOK'
    BY <1>0, <1>2 DEF Idle, CaptureTypeOK
  <2> QED BY <1>0, <1>2, <2>1 DEF Idle
<1>3. CASE Wake
  <2>1. CaptureTypeOK'
    BY <1>0, <1>3 DEF Wake, CaptureTypeOK
  <2> QED BY <1>0, <1>3, <2>1 DEF Wake
<1>4. CASE FirstDone
  <2>0. PICK F \in SUBSET Unused : batch' = F /\ Replace({}, F)
    BY <1>4, NewAreUnused DEF FirstDone
  <2>1. /\ CaptureTypeOK'
        /\ \A j \in Ids : pc'[j] = IF j \in F THEN "check" ELSE pc[j]
    BY <1>0, <2>0, Replacing
  <2>2. /\ F \subseteq Ids /\ F \cap (mapped \cup batch \cup requested \cup claimed) = {}
        /\ F \cap ToSet(pool) = {}
    BY <2>0, UnusedAre
  <2>3. /\ ready = batch /\ ready' = {} /\ remaining' = 0 /\ maintainer' = "batch"
        /\ pool' = pool \o SetToSeq(batch)
        /\ UNCHANGED <<mapped, requested, claimed, serving, poolCounts>>
    BY <1>4 DEF FirstDone
  <2>4. ToSet(pool) \cap batch = {} /\ batch \subseteq mapped
    BY <1>0, <2>3
  <2>5. pool' \in Seq(Ids) /\ IsInjective(pool') /\ ToSet(pool') \subseteq ToSet(pool) \cup batch
    <3>1. SetToSeq(batch) \in Seq(batch) /\ IsInjective(SetToSeq(batch)) /\ SetToSeq(batch) \in Seq(Ids)
      BY <1>0, InSomeOrder
    <3> QED BY <1>0, <2>3, <2>4, <3>1, PoolGrows
  <2>6. HandedOutOnce'
    BY <1>0, <2>0, <2>2, <2>3, <2>4, <2>5
  <2> QED BY <1>0, <2>0, <2>1, <2>2, <2>3, <2>4, <2>5, <2>6
<1>5. CASE BatchDone
  <2>1. CaptureTypeOK' /\ UNCHANGED pc
    BY <1>0, <1>5 DEF BatchDone, CaptureTypeOK
  <2>3. /\ ready = batch /\ ready' = {} /\ batch' = {} /\ maintainer' = "sleep" /\ serving' = TRUE
        /\ pool' = pool \o SetToSeq(batch)
        /\ UNCHANGED <<mapped, remaining, requested, claimed, poolCounts>>
    BY <1>5 DEF BatchDone
  <2>4. ToSet(pool) \cap batch = {} /\ batch \subseteq mapped
    BY <1>0, <2>3
  <2>5. pool' \in Seq(Ids) /\ IsInjective(pool') /\ ToSet(pool') \subseteq ToSet(pool) \cup batch
    <3>1. SetToSeq(batch) \in Seq(batch) /\ IsInjective(SetToSeq(batch)) /\ SetToSeq(batch) \in Seq(Ids)
      BY <1>0, InSomeOrder
    <3> QED BY <1>0, <2>3, <2>4, <3>1, PoolGrows
  <2>6. HandedOutOnce'
    BY <1>0, <2>3, <2>4, <2>5
  <2> QED BY <1>0, <2>1, <2>3, <2>4, <2>5, <2>6
<1>6. CASE Claim
  <2>1. CaptureTypeOK' /\ UNCHANGED pc
    BY <1>0, <1>6 DEF Claim, CaptureTypeOK
  <2>2. /\ pool' \in Seq(Ids) /\ IsInjective(pool') /\ Last(pool) \in ToSet(pool) /\ Last(pool) \in Ids
        /\ ToSet(pool') \subseteq ToSet(pool) \ {Last(pool)}
    BY <1>0, <1>6, PoolPops DEF Claim
  <2>3. /\ claimed' = claimed \cup {Last(pool)} /\ claims' \in 0..MaxClaims
        /\ UNCHANGED <<mapped, batch, ready, remaining, requested, maintainer, serving, failures,
                       restarts>>
    BY <1>0, <1>6 DEF Claim
  <2>4. HandedOutOnce'
    BY <1>0, <2>2, <2>3
  <2> QED BY <1>0, <2>1, <2>2, <2>3, <2>4
<1>7. CASE CreateFresh
  <2>0. PICK F \in SUBSET Unused : requested' = requested \cup F /\ Replace({}, F)
    BY <1>7, NewAreUnused DEF CreateFresh
  <2>1. /\ CaptureTypeOK'
        /\ \A j \in Ids : pc'[j] = IF j \in F THEN "check" ELSE pc[j]
    BY <1>0, <2>0, Replacing
  <2>2. /\ F \subseteq Ids /\ F \cap (mapped \cup batch \cup requested \cup claimed) = {}
        /\ F \cap ToSet(pool) = {}
    BY <2>0, UnusedAre
  <2>3. /\ claims' \in 0..MaxClaims
        /\ UNCHANGED <<pool, mapped, batch, ready, remaining, claimed, maintainer, serving,
                       failures, restarts>>
    BY <1>0, <1>7 DEF CreateFresh
  <2> QED BY <1>0, <2>0, <2>1, <2>2, <2>3
<1>8. CASE Restart
  <2>1. /\ CaptureTypeOK'
        /\ \A j \in Ids : pc'[j] = "idle"
    BY <1>0, <1>8, Replacing DEF Restart
  <2>2. pool' \in Seq(Ids) /\ IsInjective(pool') /\ ToSet(pool') = {}
    BY <1>8 DEF Restart, IsInjective, ToSet
  <2>3. restarts' \in 0..MaxRestarts
    BY <1>0, <1>8 DEF Restart
  <2> QED BY <1>0, <1>8, <2>1, <2>2, <2>3 DEF Restart
<1>9. ASSUME NEW i \in Ids, Launched(i) PROVE PoolInv'
  <2>1. /\ CaptureTypeOK'
        /\ \A j \in Ids : pc'[j] = IF j = i THEN "idle" ELSE pc[j]
    BY <1>0, <1>9, Replacing DEF Launched
  <2>2. i \notin mapped /\ i \notin ToSet(pool) /\ i \in batch \cup requested
    BY <1>0, <1>9 DEF Launched
  <2>3. /\ mapped' = mapped \cup {i} /\ requested' = requested \ {i}
        /\ claimed' = claimed \cup (requested \cap {i})
        /\ UNCHANGED <<pool, batch, ready, remaining, maintainer, serving, poolCounts>>
    BY <1>9 DEF Launched
  <2> QED BY <1>0, <2>1, <2>2, <2>3
<1>10. ASSUME NEW i \in Ids, Warmed(i) PROVE PoolInv'
  <2>1. CaptureTypeOK'
    BY <1>0, <1>10 DEF Warmed, CaptureTypeOK
  <2> QED BY <1>0, <1>10, <2>1 DEF Warmed
<1>11. ASSUME NEW i \in Ids, PreparationFails(i) PROVE PoolInv'
  <2>1. /\ CaptureTypeOK'
        /\ \A j \in Ids : pc'[j] = IF j \in batch THEN "idle" ELSE pc[j]
    BY <1>0, <1>11, Replacing DEF PreparationFails
  <2>2. /\ i \in batch /\ mapped' = mapped \ {i} /\ batch' = {} /\ ready' = {} /\ remaining' = 0
        /\ maintainer' \in {"sleep", "exited"} /\ failures' \in 0..MaxFailures
        /\ UNCHANGED <<pool, requested, claimed, serving, claims, restarts>>
    BY <1>0, <1>11 DEF PreparationFails, AfterFailure
  <2> QED BY <1>0, <2>1, <2>2
<1>12. ASSUME NEW i \in Ids, RequestFails(i) PROVE PoolInv'
  <2>1. /\ CaptureTypeOK'
        /\ \A j \in Ids : pc'[j] = IF j = i THEN "idle" ELSE pc[j]
    BY <1>0, <1>12, Replacing DEF RequestFails
  <2>2. /\ i \in requested /\ requested' = requested \ {i} /\ failures' \in 0..MaxFailures
        /\ UNCHANGED <<pool, mapped, batch, ready, remaining, claimed, maintainer, serving,
                       claims, restarts>>
    BY <1>0, <1>12 DEF RequestFails
  <2> QED BY <1>0, <2>1, <2>2
<1>13. ASSUME NEW i \in Ids, Release(i) PROVE PoolInv'
  <2>1. CaptureTypeOK'
    BY <1>0, <1>13 DEF Release, CaptureTypeOK
  <2> QED BY <1>0, <1>13, <2>1 DEF Release
<1>14. ASSUME NEW i \in Ids, Launch(i) PROVE PoolInv'
  <2>1. /\ pc[i] # "idle" /\ pc'[i] # "idle" /\ (\A j \in Ids : j # i => pc'[j] = pc[j])
        /\ CaptureTypeOK'
    BY <1>0, <1>14, LaunchLabels DEF Launch
  <2>2. UNCHANGED <<poolState, poolCounts>>
    BY <1>14 DEF Launch
  <2> QED BY <1>0, <2>1, <2>2 DEF poolState
<1> QED
  BY <1>1, <1>2, <1>3, <1>4, <1>5, <1>6, <1>7, <1>8, <1>9, <1>10, <1>11, <1>12, <1>13, <1>14
          DEF PoolNext, Maintain, Prepare

\* A step that changes nothing.
LEMMA PoolStutters == PoolInv /\ UNCHANGED poolVars => PoolInv'
BY DEF PoolInv, PoolTypeOK, CaptureTypeOK, OwnerInv, HandedOutOnce, poolVars, poolState,
        poolCounts, captureVars

\* The daemon starts with nothing.
LEMMA PoolStarts == PoolInit => PoolInv
<1> SUFFICES ASSUME PoolInit PROVE PoolInv
  OBVIOUS
<1>1. CaptureTypeOK
  BY LabelsAre DEF PoolInit, CaptureInit, CaptureTypeOK, NothingSeen
<1>2. pool \in Seq(Ids) /\ IsInjective(pool) /\ ToSet(pool) = {}
  BY DEF PoolInit, IsInjective, ToSet
<1>3. \A i \in Ids : pc[i] = "idle"
  BY DEF PoolInit, CaptureInit
<1> QED BY <1>1, <1>2, <1>3, PoolAssumption DEF PoolInit, PoolInv, PoolTypeOK, OwnerInv,
        HandedOutOnce

(***************************************************************************)
(* Whoever is launched, prepared, in the pool or claimed is so once, and   *)
(* has its VM: prewarm, create, try_join_all's drops and restarts keep it. *)
(***************************************************************************)
THEOREM PoolInvariant == PoolSpec => []PoolInv
<1>1. PoolInv /\ [PoolNext]_poolVars => PoolInv'
  BY PoolStep, PoolStutters
<1> QED BY <1>1, PoolStarts, PTL DEF PoolSpec

(***************************************************************************)
(* create gives each entry of the ready pool to one request, and the entry *)
(* it gives has a VM in the runtime's map.                                 *)
(***************************************************************************)
THEOREM HandedOut == PoolSpec => []HandedOutOnce
<1>1. PoolInv => HandedOutOnce
  BY DEF PoolInv
<1> QED BY <1>1, PoolInvariant, PTL

\* The launches under way, and the files.
LaunchInv ==
    /\ \A i \in Ids : CopyInv(i) /\ TakeInv(i)
    /\ marker => /\ \E d \in Ids : \A f \in FileNames : file[f] = d
                 /\ \A i \in Ids : pc[i] \notin Capturing
    /\ ~marker => \A i \in Ids : pc[i] \in Capturing \cup {"idle", "check"}

\* The pool before READY is there.
BeforeReady ==
    /\ ~marker => /\ mapped = {} /\ ~serving /\ requested = {}
                  /\ maintainer \in {"check", "first", "exited"}
    /\ maintainer = "first" => \E i \in Ids : batch = {i}

\* The two are CaptureInv.
LEMMA CaptureParts == CaptureInv <=> LaunchInv /\ BeforeReady
BY DEF CaptureInv, LaunchInv, BeforeReady

\* Before READY is there, a launch is the only one.
LEMMA OnlyLaunch ==
    ASSUME PoolInv, CaptureInv, ~marker, NEW i \in Ids, pc[i] # "idle", NEW j \in Ids, j # i
    PROVE  pc[j] = "idle"
<1>1. i \in batch /\ maintainer = "first" /\ requested = {}
  BY DEF PoolInv, OwnerInv, CaptureInv
<1>2. PICK k \in Ids : batch = {k}
  BY <1>1 DEF CaptureInv
<1> QED BY <1>1, <1>2 DEF PoolInv, OwnerInv

\* READY stands for files that are there.
LEMMA ReadyIsAvailable ==
    ASSUME CaptureInv
    PROVE  SnapshotAvailable <=> marker
<1>1. ASSUME marker PROVE \A f \in FileNames : file[f] # NoFile
  BY <1>1, CaptureAssumption DEF CaptureInv
<1> QED BY <1>1 DEF SnapshotAvailable

\* Calls that end or start leave the others where they are.
LEMMA LaunchesKept ==
    ASSUME CaptureTypeOK, LaunchInv, NEW I, NEW F, Replace(I, F)
    PROVE  LaunchInv'
<1>1. /\ \A j \in Ids : pc'[j] = IF j \in F THEN "check" ELSE IF j \in I THEN "idle" ELSE pc[j]
      /\ \A j \in Ids : j \notin I => seen'[j] = seen[j]
      /\ UNCHANGED <<file, marker>>
  BY Replacing
<1>2. ASSUME NEW j \in Ids PROVE CopyInv(j)' /\ TakeInv(j)'
  <2>1. CASE pc'[j] \in {"check", "idle"}
    BY <2>1 DEF CopyInv, TakeInv
  <2>2. CASE pc'[j] \notin {"check", "idle"}
    <3>1. pc'[j] = pc[j] /\ seen'[j] = seen[j]
      BY <1>1, <2>2
    <3> QED BY <1>1, <3>1 DEF LaunchInv, CopyInv, TakeInv
  <2> QED BY <2>1, <2>2
<1>3. \A j \in Ids : pc'[j] \in {pc[j], "check", "idle"}
  BY <1>1
<1> QED BY <1>1, <1>2, <1>3, LabelsAre DEF LaunchInv

\* So do steps that touch no launch.
LEMMA LaunchesAlone ==
    ASSUME LaunchInv, UNCHANGED captureVars
    PROVE  LaunchInv'
BY DEF LaunchInv, CopyInv, TakeInv, captureVars

\* A step of a launch.
LEMMA LaunchKeeps ==
    ASSUME PoolInv, CaptureInv, NEW i \in Ids, LaunchStep(i)
    PROVE  LaunchInv'
<1>0. CaptureTypeOK /\ LaunchInv
  BY CaptureParts DEF PoolInv, PoolTypeOK
<1>l. /\ pc[i] # "idle" /\ \A j \in Ids : j # i => pc'[j] = pc[j]
  BY <1>0, LaunchLabels
<1>a. ASSUME ~marker, NEW j \in Ids, j # i PROVE pc'[j] = "idle"
  BY <1>a, <1>l, OnlyLaunch
<1> USE LabelsAre DEF Goto
<1>1. CASE Check(i)
  <2>1. pc'[i] = IF marker THEN "link_rootfs" ELSE "boot"
    BY <1>0, <1>1, ReadyIsAvailable DEF Check, CaptureTypeOK
  <2>2. UNCHANGED <<file, marker, seen>>
    BY <1>1 DEF Check
  <2> QED BY <1>0, <1>l, <2>1, <2>2 DEF LaunchInv, CopyInv, TakeInv
<1>2. CASE Pause(i)
  <2>1. pc[i] = "boot" /\ pc'[i] = "vmstate" /\ UNCHANGED <<file, marker, seen>>
    BY <1>0, <1>2 DEF Pause, CaptureTypeOK
  <2> QED BY <1>0, <1>l, <2>1 DEF LaunchInv, CopyInv, TakeInv
<1>3. CASE Mark(i)
  <2>1. pc[i] = "mark" /\ pc'[i] = "resume" /\ marker' /\ UNCHANGED <<file, seen>>
    BY <1>0, <1>3 DEF Mark, CaptureTypeOK
  <2>2. ~marker /\ \A f \in FileNames : file[f] = i
    BY <1>0, <2>1 DEF LaunchInv, CopyInv
  <2>3. \A j \in Ids : pc'[j] \in {"idle", "resume"}
    BY <1>a, <2>1, <2>2
  <2> QED BY <2>1, <2>2, <2>3 DEF LaunchInv, CopyInv, TakeInv
<1>4. CASE Resume(i)
  <2>1. pc[i] = "resume" /\ pc'[i] = "booted" /\ UNCHANGED <<file, marker, seen>>
    BY <1>0, <1>4 DEF Resume, CaptureTypeOK
  <2> QED BY <1>0, <1>l, <2>1 DEF LaunchInv, CopyInv, TakeInv
<1>5. ASSUME NEW f \in FileNames, BeginCopy(i, f) PROVE LaunchInv'
  <2>1. /\ pc[i] = f /\ pc'[i] = Writing[f] /\ UNCHANGED <<marker, seen>>
        /\ \A g \in FileNames : g # f => file'[g] = file[g]
    BY <1>0, <1>5 DEF BeginCopy, CaptureTypeOK
  <2>2. ~marker
    BY <1>0, <2>1 DEF LaunchInv
  <2>3. \A j \in Ids : j # i => CopyInv(j)' /\ TakeInv(j)'
    BY <1>a, <2>2 DEF CopyInv, TakeInv
  <2>4. CopyInv(i)' /\ TakeInv(i)'
    BY <1>0, <2>1 DEF LaunchInv, CopyInv, TakeInv, FileNames
  <2> QED BY <1>a, <2>1, <2>2, <2>3, <2>4 DEF LaunchInv
<1>6. ASSUME NEW f \in FileNames, EndCopy(i, f) PROVE LaunchInv'
  <2>1. /\ pc[i] = Writing[f] /\ pc'[i] = AfterCopy[f] /\ UNCHANGED <<marker, seen>>
        /\ file'[f] = i /\ \A g \in FileNames : g # f => file'[g] = file[g]
    BY <1>0, <1>6 DEF EndCopy, CaptureTypeOK
  <2>2. ~marker
    BY <1>0, <2>1 DEF LaunchInv
  <2>3. \A j \in Ids : j # i => CopyInv(j)' /\ TakeInv(j)'
    BY <1>a, <2>2 DEF CopyInv, TakeInv
  <2>4. CopyInv(i)' /\ TakeInv(i)'
    BY <1>0, <2>1 DEF LaunchInv, CopyInv, TakeInv, FileNames
  <2> QED BY <1>a, <2>1, <2>2, <2>3, <2>4 DEF LaunchInv
<1>7. ASSUME NEW f \in FileNames, Take(i, f) PROVE LaunchInv'
  <2>1. /\ pc[i] = Linking[f] /\ pc'[i] = AfterLink[f] /\ UNCHANGED <<file, marker>>
        /\ seen'[i][f] = file[f] /\ \A g \in FileNames : g # f => seen'[i][g] = seen[i][g]
        /\ \A j \in Ids : j # i => seen'[j] = seen[j]
    BY <1>0, <1>7 DEF Take, CaptureTypeOK
  <2>2. marker
    BY <1>0, <2>1 DEF LaunchInv
  <2>3. \A j \in Ids : j # i => CopyInv(j)' /\ TakeInv(j)'
    BY <1>0, <1>l, <2>1 DEF LaunchInv, CopyInv, TakeInv
  <2>4. CopyInv(i)' /\ TakeInv(i)'
    BY <1>0, <2>1 DEF LaunchInv, CopyInv, TakeInv, FileNames
  <2> QED BY <1>0, <1>l, <2>1, <2>2, <2>3, <2>4 DEF LaunchInv
<1> QED BY <1>1, <1>2, <1>3, <1>4, <1>5, <1>6, <1>7 DEF LaunchStep

\* Every step keeps the launches in order.
LEMMA LaunchInvStep ==
    ASSUME PoolInv, CaptureInv, PoolNext
    PROVE  LaunchInv'
<1>0. CaptureTypeOK /\ LaunchInv
  BY CaptureParts DEF PoolInv, PoolTypeOK
<1>1. CASE StartPrewarm
  BY <1>0, <1>1, LaunchesKept DEF StartPrewarm
<1>2. CASE Idle
  BY <1>0, <1>2, LaunchesAlone DEF Idle
<1>3. CASE Wake
  BY <1>0, <1>3, LaunchesAlone DEF Wake
<1>4. CASE FirstDone
  BY <1>0, <1>4, LaunchesKept DEF FirstDone
<1>5. CASE BatchDone
  BY <1>0, <1>5, LaunchesAlone DEF BatchDone
<1>6. CASE Claim
  BY <1>0, <1>6, LaunchesAlone DEF Claim
<1>7. CASE CreateFresh
  BY <1>0, <1>7, LaunchesKept DEF CreateFresh
<1>8. CASE Restart
  BY <1>0, <1>8, LaunchesKept DEF Restart
<1>9. ASSUME NEW i \in Ids, Launched(i) PROVE LaunchInv'
  BY <1>0, <1>9, LaunchesKept DEF Launched
<1>10. ASSUME NEW i \in Ids, Warmed(i) PROVE LaunchInv'
  BY <1>0, <1>10, LaunchesAlone DEF Warmed
<1>11. ASSUME NEW i \in Ids, PreparationFails(i) PROVE LaunchInv'
  BY <1>0, <1>11, LaunchesKept DEF PreparationFails
<1>12. ASSUME NEW i \in Ids, RequestFails(i) PROVE LaunchInv'
  BY <1>0, <1>12, LaunchesKept DEF RequestFails
<1>13. ASSUME NEW i \in Ids, Release(i) PROVE LaunchInv'
  BY <1>0, <1>13, LaunchesAlone DEF Release
<1>14. ASSUME NEW i \in Ids, Launch(i) PROVE LaunchInv'
  BY <1>14, LaunchKeeps DEF Launch
<1> QED
  BY <1>1, <1>2, <1>3, <1>4, <1>5, <1>6, <1>7, <1>8, <1>9, <1>10, <1>11, <1>12, <1>13, <1>14
          DEF PoolNext, Maintain, Prepare

\* A pool: requests are served, and batches of several start, after READY.
LEMMA BeforeReadyStep ==
    ASSUME Target # 0, PoolInv, CaptureInv, PoolNext
    PROVE  BeforeReady'
<1>0. BeforeReady /\ PoolTypeOK /\ OwnerInv /\ HandedOutOnce
  BY CaptureParts DEF PoolInv
<1> USE DEF BeforeReady, captureVars, poolState
<1>1. CASE StartPrewarm
  <2>1. /\ marker' = marker /\ UNCHANGED <<mapped, serving, requested>>
        /\ maintainer' = IF marker THEN "batch" ELSE "first"
    BY <1>1, ReadyIsAvailable DEF StartPrewarm, Replace
  <2>2. ~marker => \E i \in Ids : batch' = {i}
    BY <1>1, OneNew, ReadyIsAvailable DEF StartPrewarm
  <2> QED BY <1>0, <2>1, <2>2
<1>2. CASE Idle
  <2>1. ASSUME ~marker PROVE FALSE
    <3>1. ToSet(pool) = {} /\ pool \in Seq(Ids)
      BY <1>0, <2>1 DEF HandedOutOnce, PoolTypeOK
    <3>2. Len(pool) = 0
      <4>1. Len(pool) # 0 => 1 \in DOMAIN pool
        BY <3>1
      <4>2. 1 \in DOMAIN pool => pool[1] \in ToSet(pool)
        BY DEF ToSet
      <4> QED BY <3>1, <4>1, <4>2
    <3> QED BY <1>2, <3>2, PoolAssumption DEF Idle, Missing
  <2> QED BY <1>0, <1>2, <2>1 DEF Idle
<1>3. CASE Wake
  BY <1>0, <1>3 DEF Wake
<1>4. CASE FirstDone
  <2>1. PICK k \in Ids : batch = {k}
    BY <1>0, <1>4 DEF FirstDone
  <2>2. mapped # {}
    BY <1>0, <1>4, <2>1 DEF FirstDone, OwnerInv
  <2> QED BY <1>0, <1>4, <2>2 DEF FirstDone, Replace
<1>5. CASE BatchDone
  BY <1>0, <1>5 DEF BatchDone
<1>6. CASE Claim
  BY <1>0, <1>6 DEF Claim
<1>7. CASE CreateFresh
  BY <1>0, <1>7 DEF CreateFresh, Replace
<1>8. CASE Restart
  BY <1>0, <1>8 DEF Restart, Replace
<1>9. ASSUME NEW i \in Ids, Launched(i) PROVE BeforeReady'
  <2>1. marker
    BY <1>9, LabelsAre DEF Launched, CaptureInv
  <2> QED BY <1>0, <1>9, <2>1 DEF Launched, Replace
<1>10. ASSUME NEW i \in Ids, Warmed(i) PROVE BeforeReady'
  BY <1>0, <1>10 DEF Warmed
<1>11. ASSUME NEW i \in Ids, PreparationFails(i) PROVE BeforeReady'
  BY <1>0, <1>11 DEF PreparationFails, AfterFailure, Replace
<1>12. ASSUME NEW i \in Ids, RequestFails(i) PROVE BeforeReady'
  BY <1>0, <1>12 DEF RequestFails, Replace
<1>13. ASSUME NEW i \in Ids, Release(i) PROVE BeforeReady'
  BY <1>0, <1>13 DEF Release, OwnerInv
<1>14. ASSUME NEW i \in Ids, Launch(i) PROVE BeforeReady'
  <2>1. marker' \/ marker' = marker
    BY <1>14 DEF Launch, LaunchStep, Check, Pause, Mark, Resume, BeginCopy, EndCopy, Take
  <2> QED BY <1>0, <1>14, <2>1 DEF Launch
<1> QED
  BY <1>1, <1>2, <1>3, <1>4, <1>5, <1>6, <1>7, <1>8, <1>9, <1>10, <1>11, <1>12, <1>13, <1>14
          DEF PoolNext, Maintain, Prepare

\* Nothing is captured when the daemon starts for the first time.
LEMMA CaptureStarts == ASSUME Target # 0 PROVE PoolInit => CaptureInv
<1> SUFFICES ASSUME PoolInit PROVE CaptureInv
  OBVIOUS
<1>1. LaunchInv
  BY LabelsAre DEF PoolInit, CaptureInit, LaunchInv, CopyInv, TakeInv
<1>2. BeforeReady
  BY DEF PoolInit, CaptureInit, BeforeReady
<1> QED BY <1>1, <1>2, CaptureParts

(***************************************************************************)
(* With a ready pool the capture of the boot snapshot needs no lock: until *)
(* READY is there one launch runs, and from then on the files stay.        *)
(***************************************************************************)
THEOREM CaptureInvariant == ASSUME Target # 0 PROVE PoolSpec => []CaptureInv
<1>1. PoolInv /\ CaptureInv /\ [PoolNext]_poolVars => CaptureInv'
  <2> SUFFICES ASSUME PoolInv, CaptureInv, [PoolNext]_poolVars PROVE CaptureInv'
    OBVIOUS
  <2>1. CASE PoolNext
    <3>1. LaunchInv' /\ BeforeReady'
      BY <2>1, LaunchInvStep, BeforeReadyStep
    <3> QED BY <3>1 DEF CaptureInv, LaunchInv, BeforeReady
  <2>2. CASE UNCHANGED poolVars
    <3>1. LaunchInv'
      BY <2>2, CaptureParts, LaunchesAlone DEF poolVars
    <3>2. BeforeReady'
      BY <2>2, CaptureParts DEF poolVars, captureVars, poolState, BeforeReady
    <3> QED BY <3>1, <3>2 DEF CaptureInv, LaunchInv, BeforeReady
  <2> QED BY <2>1, <2>2
<1> QED BY <1>1, PoolInvariant, CaptureStarts, PTL DEF PoolSpec

(***************************************************************************)
(* A VM that create_fresh restores from the boot snapshot gets the vmstate,*)
(* memory and rootfs of one capture, through failures and restarts.        *)
(***************************************************************************)
THEOREM RestoreIsWhole == ASSUME Target # 0 PROVE PoolSpec => []RestoreConsistent
<1>1. ASSUME CaptureInv PROVE RestoreConsistent
  <2> SUFFICES ASSUME NEW i \in Ids, pc[i] = "restored"
               PROVE  \E d \in Ids : \A f \in FileNames : seen[i][f] = d
    BY DEF RestoreConsistent
  <2>1. marker
    BY <1>1, LabelsAre DEF CaptureInv
  <2>2. PICK d \in Ids : \A f \in FileNames : file[f] = d
    BY <1>1, <2>1 DEF CaptureInv
  <2>3. \A f \in FileNames : seen[i][f] = file[f]
    BY <1>1 DEF CaptureInv, TakeInv, FileNames
  <2> QED BY <2>2, <2>3
<1> QED BY <1>1, CaptureInvariant, PTL
================================================================================
