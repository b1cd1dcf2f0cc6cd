---------------------------- MODULE ListingProofs ----------------------------
(***************************************************************************)
(* Proofs about what a client is told of the stores: a template reference  *)
(* resolves to the template it names (TemplateCatalog), and the pages of a *)
(* listing of snapshots are complete and in order (SnapshotListing), for   *)
(* every number of processes, templates, snapshots and records, every      *)
(* clock and every limit of a page.                                        *)
(***************************************************************************)
EXTENDS SnapshotListing, TemplateCatalog, FiniteSetTheorems, SequenceTheorems, TLAPS

-----------------------------------------------------------------------------
(***************************************************************************)
(* The template catalog.                                                   *)
(***************************************************************************)
\* The catalog's invariant holds in an empty store.
LEMMA CatalogInitInv == CatalogInit => CatalogInv
  BY CatalogAssumption
  DEF CatalogInit, CatalogInv, CatalogTypeOK, WriterInv, NodeInv, WriterLabels,
      NodeLabels, Processes, Aliases

(***************************************************************************)
(* What Goto does to a process's registers, and that it leaves the others' *)
(* alone: the frame of every action below.                                 *)
(***************************************************************************)
LEMMA GotoFrame ==
  ASSUME CatalogTypeOK, NEW p \in Processes,
         NEW label \in WriterLabels \cup NodeLabels,
         NEW r \in Aliases \cup {None}, NEW i \in Ids \cup {None}, Goto(p, label, r, i)
  PROVE  /\ pc' \in [Processes -> WriterLabels \cup NodeLabels]
         /\ ref' \in [Processes -> Aliases \cup {None}]
         /\ chosen' \in [Processes -> Ids \cup {None}]
         /\ pc'[p] = label /\ ref'[p] = r /\ chosen'[p] = i
         /\ \A q \in Processes \ {p} :
              pc'[q] = pc[q] /\ ref'[q] = ref[q] /\ chosen'[q] = chosen[q]
  BY DEF CatalogTypeOK, Goto

(***************************************************************************)
(* A step of one process preserves the invariant if what it writes in its  *)
(* registers is what the invariant asks of that process.                   *)
(***************************************************************************)
LEMMA GotoInv ==
  ASSUME CatalogInv, NEW p \in Processes,
         NEW label \in WriterLabels \cup NodeLabels,
         NEW r \in Aliases \cup {None}, NEW i \in Ids \cup {None}, Goto(p, label, r, i),
         record' \in [Aliases -> Ids \cup {None}],
         artifacts' \in SUBSET Ids,
         listed' \in [Processes -> SUBSET Aliases],
         label # "idle" => r \in Aliases,
         p \in Writers => /\ label \in WriterLabels
                          /\ label \in {"temporary", "link"} => i \in Ids,
         p \in Nodes => /\ label \in NodeLabels
                        /\ label = "load" => i \in {None, r}
                        /\ label \in {"check", "verify", "selected"} => i \in Ids
                        /\ label \in {"verify", "selected"} /\ r \in Ids => i = r
  PROVE  CatalogInv'
<1>1. CatalogTypeOK
  BY DEF CatalogInv
<1>2. CatalogTypeOK'
  BY <1>1, GotoFrame DEF CatalogTypeOK
<1>3. WriterInv'
  BY <1>1, GotoFrame DEF CatalogInv, WriterInv, Processes
<1>4. NodeInv'
  BY <1>1, GotoFrame DEF CatalogInv, NodeInv, Processes
<1> QED
  BY <1>2, <1>3, <1>4 DEF CatalogInv

\* Ending a request or a command keeps the invariant.
LEMMA StopInv ==
  ASSUME CatalogInv, NEW p \in Processes, Stop(p),
         record' \in [Aliases -> Ids \cup {None}],
         artifacts' \in SUBSET Ids,
         listed' \in [Processes -> SUBSET Aliases]
  PROVE  CatalogInv'
<1>1. "idle" \in WriterLabels /\ "idle" \in NodeLabels
  BY DEF WriterLabels, NodeLabels
<1> QED
  BY <1>1, GotoInv DEF Stop

\* Each step of a `template build` or `template delete` keeps the invariant.
LEMMA WriterStepInv ==
  ASSUME CatalogInv, NEW w \in Writers, WriterStep(w)
  PROVE  CatalogInv'
<1>1. /\ w \in Processes /\ w \notin Nodes
      /\ Ids \subseteq Aliases
  BY CatalogAssumption DEF Processes, Aliases
<1>2. /\ CatalogTypeOK /\ pc[w] \in WriterLabels
      /\ pc[w] # "idle" => ref[w] \in Aliases
      /\ pc[w] \in {"temporary", "link"} => chosen[w] \in Ids
  BY DEF CatalogInv, WriterInv
<1>3. /\ record \in [Aliases -> Ids \cup {None}]
      /\ artifacts \in SUBSET Ids
      /\ listed \in [Processes -> SUBSET Aliases]
  BY <1>2 DEF CatalogTypeOK
<1>4. {"temporary", "link", "remove"} \subseteq WriterLabels
  BY DEF WriterLabels
<1>5. ASSUME NEW a \in Aliases, NEW i \in Ids, Build(w, a, i)
      PROVE  CatalogInv'
  BY <1>1, <1>3, <1>4, <1>5, GotoInv DEF Build
<1>6. ASSUME NEW r \in Aliases, Delete(w, r)
      PROVE  CatalogInv'
  <2>1. PICK a \in Aliases : Goto(w, "remove", a, None)
    BY <1>6 DEF Delete, Matches, Present
  <2> QED
    BY <1>1, <1>3, <1>4, <1>6, <2>1, GotoInv DEF Delete
<1>7. CASE WriteTemporary(w)
  BY <1>1, <1>2, <1>3, <1>4, <1>7, GotoInv DEF WriteTemporary
<1>8. CASE Persist(w)
  <2>1. record' \in [Aliases -> Ids \cup {None}]
    BY <1>2, <1>3, <1>8 DEF Persist
  <2> QED
    BY <1>1, <1>3, <1>8, <2>1, StopInv DEF Persist
<1>9. CASE RemoveFile(w)
  <2>1. record' \in [Aliases -> Ids \cup {None}]
    BY <1>3, <1>9 DEF RemoveFile
  <2> QED
    BY <1>1, <1>3, <1>9, <2>1, StopInv DEF RemoveFile
<1>10. CASE Killed(w)
  BY <1>1, <1>3, <1>10, StopInv DEF Killed
<1> QED
  BY <1>5, <1>6, <1>7, <1>8, <1>9, <1>10 DEF WriterStep

(***************************************************************************)
(* Each step of a resolution keeps the invariant: the scan remembers only  *)
(* a record of the id it looks for, and the check refuses, for an id that  *)
(* is also an alias, the template the alias names.                         *)
(***************************************************************************)
LEMMA NodeStepInv ==
  ASSUME CatalogInv, NEW n \in Nodes, NodeStep(n)
  PROVE  CatalogInv'
<1>1. /\ n \in Processes /\ n \notin Writers
      /\ Ids \subseteq Aliases /\ None \notin Aliases
  BY CatalogAssumption DEF Processes, Aliases
<1>2. /\ CatalogTypeOK /\ pc[n] \in NodeLabels
      /\ pc[n] # "idle" => ref[n] \in Aliases
      /\ pc[n] = "load" => chosen[n] \in {None, ref[n]}
      /\ pc[n] \in {"check", "verify", "selected"} => chosen[n] \in Ids
      /\ pc[n] \in {"verify", "selected"} /\ ref[n] \in Ids => chosen[n] = ref[n]
  BY DEF CatalogInv, NodeInv
<1>3. /\ record \in [Aliases -> Ids \cup {None}]
      /\ artifacts \in SUBSET Ids
      /\ listed \in [Processes -> SUBSET Aliases]
      /\ chosen[n] \in Ids \cup {None}
  BY <1>1, <1>2 DEF CatalogTypeOK
<1>4. {"open", "load", "check", "verify", "selected"} \subseteq NodeLabels
  BY DEF NodeLabels
<1>5. Present \subseteq Aliases /\ \A a \in Present : record[a] \in Ids
  BY <1>3 DEF Present
<1>6. ASSUME NEW r \in Aliases, Resolve(n, r)
      PROVE  CatalogInv'
  <2>1. listed' \in [Processes -> SUBSET Aliases]
    BY <1>3, <1>5, <1>6 DEF Resolve
  <2>2. Goto(n, "open", r, None) \/ Goto(n, "load", r, None)
    BY <1>6 DEF Resolve
  <2> QED
    BY <1>1, <1>3, <1>4, <1>6, <2>1, <2>2, GotoInv DEF Resolve
<1>7. CASE Open(n)
  <2>1. CASE ref[n] \in Present
    BY <1>1, <1>2, <1>3, <1>4, <1>5, <1>7, <2>1, GotoInv DEF Open
  <2>2. CASE ref[n] \notin Present
    BY <1>1, <1>3, <1>7, <2>2, StopInv DEF Open
  <2> QED
    BY <2>1, <2>2
<1>8. CASE Load(n)
  <2>1. PICK a \in listed[n] :
          \/ /\ a \in Present
             /\ Goto(n, "load", ref[n], IF record[a] = ref[n] THEN ref[n] ELSE chosen[n])
             /\ listed' = [listed EXCEPT ![n] = @ \ {a}]
          \/ /\ a \notin Present
             /\ Stop(n)
             /\ listed' = [listed EXCEPT ![n] = {}]
    BY <1>8 DEF Load
  <2>2. listed' \in [Processes -> SUBSET Aliases]
    BY <1>1, <1>3, <2>1
  <2>3. CASE Stop(n)
    BY <1>1, <1>3, <1>8, <2>2, <2>3, StopInv DEF Load
  <2>4. CASE a \in Present /\
             Goto(n, "load", ref[n], IF record[a] = ref[n] THEN ref[n] ELSE chosen[n])
    <3> DEFINE i == IF record[a] = ref[n] THEN ref[n] ELSE chosen[n]
    <3>1. i \in Ids \cup {None} /\ i \in {None, ref[n]}
      BY <1>2, <1>3, <1>5, <1>8, <2>4 DEF Load
    <3>2. Goto(n, "load", ref[n], i)
      BY <2>4
    <3> HIDE DEF i
    <3> QED
      BY <1>1, <1>2, <1>3, <1>4, <1>8, <2>2, <3>1, <3>2, GotoInv DEF Load
  <2> QED
    BY <2>1, <2>3, <2>4
<1>9. CASE Loaded(n)
  <2>1. CASE chosen[n] # None
    BY <1>1, <1>2, <1>3, <1>4, <1>9, <2>1, GotoInv DEF Loaded
  <2>2. CASE chosen[n] = None
    BY <1>1, <1>3, <1>9, <2>2, StopInv DEF Loaded
  <2> QED
    BY <2>1, <2>2
<1>10. CASE CheckId(n)
  <2>1. CASE ref[n] \in Ids /\ chosen[n] # ref[n]
    BY <1>1, <1>3, <1>10, <2>1, StopInv DEF CheckId
  <2>2. CASE ~(ref[n] \in Ids /\ chosen[n] # ref[n])
    BY <1>1, <1>2, <1>3, <1>4, <1>10, <2>2, GotoInv DEF CheckId
  <2> QED
    BY <2>1, <2>2
<1>11. CASE Verify(n)
  <2>1. CASE chosen[n] \in artifacts
    BY <1>1, <1>2, <1>3, <1>4, <1>11, <2>1, GotoInv DEF Verify
  <2>2. CASE chosen[n] \notin artifacts
    BY <1>1, <1>3, <1>11, <2>2, StopInv DEF Verify
  <2> QED
    BY <2>1, <2>2
<1>12. CASE Launch(n)
  BY <1>1, <1>3, <1>12, StopInv DEF Launch
<1> QED
  BY <1>6, <1>7, <1>8, <1>9, <1>10, <1>11, <1>12 DEF NodeStep

(***************************************************************************)
(* The catalog's inductive invariant, for any number of CLI processes and  *)
(* resolutions in flight.                                                  *)
(***************************************************************************)
THEOREM CatalogCorrect == CatalogSpec => []CatalogInv
<1>1. CatalogInit => CatalogInv
  BY CatalogInitInv
<1>2. CatalogInv /\ [CatalogNext]_catalogVars => CatalogInv'
  <2> SUFFICES ASSUME CatalogInv, [CatalogNext]_catalogVars
               PROVE  CatalogInv'
    OBVIOUS
  <2>1. CASE \E w \in Writers : WriterStep(w)
    BY <2>1, WriterStepInv
  <2>2. CASE \E n \in Nodes : NodeStep(n)
    BY <2>2, NodeStepInv
  <2>3. CASE \E i \in Ids : Replace(i)
    BY <2>3 DEF Replace, CatalogInv, CatalogTypeOK, WriterInv, NodeInv
  <2>4. CASE UNCHANGED catalogVars
    BY <2>4 DEF catalogVars, CatalogInv, CatalogTypeOK, WriterInv, NodeInv
  <2> QED
    BY <2>1, <2>2, <2>3, <2>4 DEF CatalogNext
<1> QED
  BY <1>1, <1>2, PTL DEF CatalogSpec

(***************************************************************************)
(* A template asked for by its id is that template or an error, whatever   *)
(* aliases the writers make, remove and replace during the resolution.     *)
(***************************************************************************)
THEOREM IdIsItself == CatalogSpec => []IdSelectsItself
<1>1. CatalogInv => IdSelectsItself
  BY DEF CatalogInv, NodeInv, IdSelectsItself
<1> QED
  BY <1>1, CatalogCorrect, PTL

(***************************************************************************)
(* No step of any process gives an alias that names a template another one *)
(* in place: persist_noclobber is enough where two writers break the       *)
(* store's single-writer contract.                                         *)
(***************************************************************************)
THEOREM AliasKept == CatalogSpec => AliasNeverRebound
<1> DEFINE Kept == \A a \in Aliases : record[a] # None /\ record'[a] # None
                                        => record'[a] = record[a]
<1>1. CatalogInv /\ [CatalogNext]_catalogVars => [Kept]_catalogVars
  <2> SUFFICES ASSUME CatalogInv, CatalogNext
               PROVE  Kept
    OBVIOUS
  <2>1. record \in [Aliases -> Ids \cup {None}]
    BY DEF CatalogInv, CatalogTypeOK
  <2>2. ASSUME NEW w \in Writers, WriterStep(w)
        PROVE  Kept
    <3>1. CASE Persist(w)
      BY <2>1, <3>1 DEF Persist
    <3>2. CASE RemoveFile(w)
      BY <2>1, <3>2 DEF RemoveFile
    <3>3. CASE UNCHANGED record
      BY <3>3
    <3> QED
      BY <2>2, <3>1, <3>2, <3>3 DEF WriterStep, Build, Delete, WriteTemporary, Killed
  <2>3. ASSUME NEW n \in Nodes, NodeStep(n)
        PROVE  UNCHANGED record
    BY <2>3 DEF NodeStep, Resolve, Open, Load, Loaded, CheckId, Verify, Launch
  <2>4. ASSUME NEW i \in Ids, Replace(i)
        PROVE  UNCHANGED record
    BY <2>4 DEF Replace
  <2> QED
    BY <2>2, <2>3, <2>4 DEF CatalogNext
<1> QED
  BY <1>1, CatalogCorrect, PTL DEF CatalogSpec, AliasNeverRebound
-----------------------------------------------------------------------------
(***************************************************************************)
(* The order of a listing: creation time, then id.                         *)
(***************************************************************************)
\* Less is a strict total order of the snapshots, whatever the clock said.
LEMMA LessOrder ==
  ASSUME stamp \in [Snaps -> Nat]
  PROVE  /\ \A s \in Snaps : ~Less(s, s)
         /\ \A s, t \in Snaps : s # t => Less(s, t) \/ Less(t, s)
         /\ \A s, t \in Snaps : Less(s, t) => ~Less(t, s)
         /\ \A s, t, u \in Snaps : Less(s, t) /\ Less(t, u) => Less(s, u)
  BY ListingAssumption DEF Less

(***************************************************************************)
(* What sort_by makes of the handles of a sandbox: each of them once, in   *)
(* the strict order of Less.                                               *)
(***************************************************************************)
LEMMA SortedList ==
  ASSUME stamp \in [Snaps -> Nat], NEW S \in SUBSET Snaps, NEW list \in Sorted(S)
  PROVE  /\ list \in Seq(S) /\ list \in Seq(Snaps)
         /\ \A s \in S : \E i \in 1..Len(list) : list[i] = s
         /\ \A i, j \in 1..Len(list) : i < j => Less(list[i], list[j])
<1> DEFINE n == Cardinality(S)
<1>1. IsFiniteSet(S)
  BY ListingAssumption, FS_Subset
<1>2. n \in Nat
  BY <1>1, FS_CardinalityType
<1>3. IsFiniteSet(1..n) /\ Cardinality(1..n) = n
  BY <1>2, FS_Interval
<1>4. /\ list \in [1..n -> S]
      /\ \A i, j \in 1..n : i # j => list[i] # list[j]
      /\ \A i, j \in 1..n : i < j => ~Less(list[j], list[i])
  BY DEF Sorted, SetToSeqs
<1> HIDE DEF n
<1>5. list \in Seq(S) /\ list \in Seq(Snaps) /\ Len(list) = n
  BY <1>2, <1>4
<1>6. list \in Injection(1..n, S)
  BY <1>4 DEF Injection, IsInjective
<1>7. list \in Surjection(1..n, S)
  BY <1>1, <1>3, <1>6, FS_Injection DEF n
<1>8. \A s \in S : \E i \in 1..n : list[i] = s
  BY <1>7 DEF Surjection
<1>9. \A i, j \in 1..n : i < j => Less(list[i], list[j])
  BY <1>2, <1>4, LessOrder
<1> QED
  BY <1>5, <1>8, <1>9

\* The elements of a sequence, and its last one.
LEMMA SeqElements ==
  ASSUME NEW S, NEW seq \in Seq(S)
  PROVE  /\ Len(seq) \in Nat
         /\ \A i \in 1..Len(seq) : seq[i] \in S
         /\ seq # <<>> => Len(seq) \in 1..Len(seq)
<1>1. Len(seq) \in Nat /\ \A i \in 1..Len(seq) : seq[i] \in S
  OBVIOUS
<1>2. seq # <<>> => Len(seq) # 0
  BY EmptySeq
<1> QED
  BY <1>1, <1>2

\* A page is the stretch of the list from behind start to end.
LEMMA PagePiece ==
  ASSUME NEW list \in Seq(Snaps), NEW start \in 0..Len(list),
         NEW end \in start..Len(list)
  PROVE  /\ SubSeq(list, start + 1, end) \in Seq(Snaps)
         /\ Len(SubSeq(list, start + 1, end)) = end - start
         /\ \A k \in 1..(end - start) : SubSeq(list, start + 1, end)[k] = list[start + k]
  OBVIOUS
-----------------------------------------------------------------------------
(***************************************************************************)
(* The listing's invariant is kept by every action.                        *)
(***************************************************************************)
LEMMA ListInitInv == Init => ListInv
  BY ListingAssumption
  DEF Init, ListInv, ListTypeOK, MappedInv, SeenInv, SteadyInv, OrderInv, CursorInv,
      PagesComplete, Mapped

(***************************************************************************)
(* Steps of the snapshots, with the listing as it was: what the listing    *)
(* has met keeps its time, and what is gone stays so.                      *)
(***************************************************************************)
LEMMA SnapStepInv ==
  ASSUME ListInv, NEW s \in Snaps,
         Stage(s) \/ Publish(s) \/ StartDelete(s) \/ Unlock(s) \/ Unmap(s)
  PROVE  ListInv'
<1> DEFINE Seen == Mapped \cup {"gone"}
<1>1. UNCHANGED listVars
  BY DEF Stage, Publish, StartDelete, Unlock, Unmap
<1>2. UNCHANGED <<client, toLock, handles, cursor, pages>>
  BY <1>1 DEF listVars
<1>3. ListTypeOK'
  BY <1>2, ListingAssumption
  DEF ListInv, ListTypeOK, Mapped, Stage, Publish, StartDelete, Unlock, Unmap, Step
<1>4. MappedInv'
  BY DEF ListInv, ListTypeOK, MappedInv, Mapped, Stage, Publish, StartDelete, Unlock,
         Unmap, Step
<1>5. \A t \in Snaps : step[t] \in Seen => step'[t] \in Seen /\ stamp'[t] = stamp[t]
  BY DEF ListInv, ListTypeOK, Mapped, Stage, Publish, StartDelete, Unlock, Unmap, Step
<1>6. \A t \in Snaps : step[t] = "gone" => step'[t] = "gone"
  BY DEF ListInv, ListTypeOK, Mapped, Stage, Publish, StartDelete, Unlock, Unmap, Step
<1>7. steady' \subseteq steady /\ \A t \in steady' : step'[t] = "there"
  BY DEF ListInv, ListTypeOK, SteadyInv, Stage, Publish, StartDelete, Unlock, Unmap, Step
<1>8. \A i \in 1..Len(pages) : pages[i] \in Snaps /\ step[pages[i]] \in Seen
  BY SeqElements DEF ListInv, ListTypeOK, SeenInv
<1>9. \A t \in steady : t \in Snaps /\ step[t] \in Seen
  BY DEF ListInv, ListTypeOK, SteadyInv, Mapped
<1>10. \A t, u \in Snaps : step[t] \in Seen /\ step[u] \in Seen =>
         (Less(t, u) <=> Less(t, u)')
  BY <1>5 DEF Less
<1>11. SeenInv'
  BY <1>2, <1>5, <1>8 DEF ListInv, SeenInv, ListTypeOK
<1>12. SteadyInv'
  BY <1>2, <1>7 DEF ListInv, SteadyInv
<1>13. OrderInv'
  <2> SUFFICES ASSUME NEW i \in 1..Len(pages), NEW j \in 1..Len(pages), i < j
               PROVE  Less(pages[i], pages[j])'
    BY <1>2 DEF OrderInv
  <2>1. Less(pages[i], pages[j])
    BY DEF ListInv, OrderInv
  <2> QED
    BY <1>2, <1>8, <1>10, <2>1 DEF Less
<1>14. CursorInv'
  <2>1. ASSUME client \in {"more", "locking"}, cursor # 0
        PROVE  /\ pages # <<>> /\ pages[Len(pages)] = cursor
               /\ \A t \in steady' : Less(cursor, t)' \/ Contains(pages, t)
    <3>1. /\ pages # <<>> /\ pages[Len(pages)] = cursor
          /\ \A t \in steady : Less(cursor, t) \/ Contains(pages, t)
      BY <2>1 DEF ListInv, CursorInv
    <3>2. Len(pages) \in 1..Len(pages)
      BY <3>1, SeqElements DEF ListInv, ListTypeOK
    <3>3. cursor \in Snaps /\ step[cursor] \in Seen
      BY <1>8, <3>1, <3>2
    <3>4. \A t \in steady' : Less(cursor, t) => Less(cursor, t)'
      BY <1>2, <1>7, <1>9, <1>10, <3>3 DEF Less
    <3> QED
      BY <1>7, <3>1, <3>4
  <2>2. client = "locking" /\ cursor # 0 /\ cursor \notin toLock \cup handles =>
          step'[cursor] = "gone"
    BY <1>6 DEF ListInv, ListTypeOK, CursorInv
  <2> QED
    BY <1>2, <2>1, <2>2 DEF ListInv, CursorInv, Contains
<1>15. PagesComplete'
  <2>1. client = "refused" => step'[cursor] = "gone"
    BY <1>6 DEF ListInv, ListTypeOK, CursorInv, PagesComplete
  <2>2. client = "done" => \A t \in steady' : Contains(pages, t)
    BY <1>7 DEF ListInv, PagesComplete
  <2> QED
    BY <1>2, <2>1, <2>2 DEF PagesComplete, Contains
<1> QED
  BY <1>3, <1>4, <1>11, <1>12, <1>13, <1>14, <1>15 DEF ListInv

\* Steps that touch neither the snapshots nor the listing.
LEMMA ListFrame ==
  ASSUME ListInv, UNCHANGED <<snapVars, listVars, steady>>
  PROVE  ListInv'
<1>1. UNCHANGED <<step, stamp, records, client, toLock, handles, cursor, pages, steady>>
  BY DEF snapVars, listVars
<1>2. ListTypeOK' /\ MappedInv' /\ SeenInv' /\ SteadyInv'
  BY <1>1 DEF ListInv, ListTypeOK, MappedInv, SeenInv, SteadyInv
<1>3. OrderInv' /\ CursorInv' /\ PagesComplete'
  BY <1>1 DEF ListInv, OrderInv, CursorInv, PagesComplete, Less, Contains
<1> QED
  BY <1>2, <1>3 DEF ListInv

\* A request begins: every record of the map is still to be locked.
LEMMA RequestInv ==
  ASSUME ListInv, Request
  PROVE  ListInv'
<1>1. /\ UNCHANGED <<step, stamp, records, cursor, pages>>
      /\ client' = "locking" /\ toLock' = records /\ handles' = {}
      /\ client \in {"idle", "more"}
  BY DEF Request, snapVars
<1>2. steady' \in SUBSET Snaps /\ \A s \in steady' : step[s] = "there"
  BY DEF Request, ListInv, ListTypeOK, SteadyInv
<1>3. \A s \in steady' : s \in records
  BY <1>2 DEF ListInv, MappedInv, Mapped
<1>4. ListTypeOK'
  BY <1>1, <1>2 DEF ListInv, ListTypeOK
<1>5. MappedInv' /\ OrderInv' /\ PagesComplete'
  BY <1>1 DEF ListInv, MappedInv, OrderInv, PagesComplete, Less
<1>6. SeenInv' /\ SteadyInv'
  BY <1>1, <1>2, <1>3 DEF ListInv, MappedInv, SeenInv, SteadyInv
<1>7. CursorInv'
  <2>1. CASE client = "idle"
    BY <1>1, <2>1 DEF ListInv, CursorInv
  <2>2. CASE client = "more"
    <3>1. steady' = steady
      BY <2>2 DEF Request
    <3>2. /\ cursor # 0 /\ pages # <<>> /\ pages[Len(pages)] = cursor
          /\ \A s \in steady : Less(cursor, s) \/ Contains(pages, s)
      BY <2>2 DEF ListInv, CursorInv
    <3>3. Len(pages) \in 1..Len(pages) /\ cursor \in Snaps
      BY <3>2, SeqElements DEF ListInv, ListTypeOK
    <3>4. cursor \notin records => step[cursor] = "gone"
      BY <3>2, <3>3 DEF ListInv, SeenInv, MappedInv
    <3> QED
      BY <1>1, <3>1, <3>2, <3>4 DEF CursorInv, Less, Contains
  <2> QED
    BY <1>1, <2>1, <2>2
<1> QED
  BY <1>4, <1>6, <1>7, <1>5 DEF ListInv

\* A record's lock is had for a moment.
LEMMA CollectInv ==
  ASSUME ListInv, NEW s \in Snaps \cup Foreign, Collect(s)
  PROVE  ListInv'
<1>1. /\ UNCHANGED <<step, stamp, records, client, cursor, pages, steady>>
      /\ client = "locking" /\ s \in toLock /\ toLock' = toLock \ {s}
      /\ handles' = IF s \in Snaps THEN handles \cup {s} ELSE handles
  BY DEF Collect, snapVars
<1>2. (toLock' \cup handles') \cap Snaps = (toLock \cup handles) \cap Snaps
  BY <1>1 DEF ListInv, ListTypeOK
<1>3. ListTypeOK' /\ MappedInv' /\ OrderInv' /\ PagesComplete'
  BY <1>1 DEF ListInv, ListTypeOK, MappedInv, OrderInv, PagesComplete, Less
<1>4. SeenInv' /\ SteadyInv'
  BY <1>1, <1>2 DEF ListInv, ListTypeOK, SeenInv, SteadyInv
<1>5. CursorInv'
  BY <1>1, <1>2 DEF ListInv, ListTypeOK, CursorInv, Less, Contains
<1> QED
  BY <1>3, <1>4, <1>5 DEF ListInv

(***************************************************************************)
(* What an answer is: the stretch of the sorted list from behind start to  *)
(* end is appended to the pages, where start is the cursor's place, and    *)
(* the cursor that is sent is the last of the page if more is behind it.   *)
(***************************************************************************)
Page(list, start, end) ==
  /\ list \in Seq(handles)
  /\ \A s \in handles : \E i \in 1..Len(list) : list[i] = s
  /\ \A i, j \in 1..Len(list) : i < j => Less(list[i], list[j])
  /\ start \in 0..Len(list) /\ end \in start..Len(list)
  /\ cursor = 0 => start = 0 /\ pages = <<>>
  /\ cursor # 0 => /\ start \in 1..Len(list) /\ list[start] = cursor
                   /\ pages # <<>> /\ pages[Len(pages)] = cursor
                   /\ \A s \in steady : Less(cursor, s) \/ Contains(pages, s)
  /\ pages' \in Seq(Snaps) /\ Len(pages') = Len(pages) + (end - start)
  /\ \A i \in 1..Len(pages) : pages'[i] = pages[i]
  /\ \A k \in 1..(end - start) : pages'[Len(pages) + k] = list[start + k]
  /\ end < Len(list) => /\ end \in (start + 1)..Len(list)
                        /\ cursor' = list[end] /\ client' = "more"
  /\ ~(end < Len(list)) => cursor' = 0 /\ client' = "done"

\* Every answer is such a page, whatever the limit.
LEMMA AnswerPage ==
  ASSUME ListInv, Answer
  PROVE  \E list \in Seq(Snaps), start \in Nat, end \in Nat : Page(list, start, end)
<1>1. PICK list \in Sorted(handles), limit \in 1..MaxLimit :
        LET start == Start(list)
            end   == Min2(start + limit, Len(list))
            more  == More(list, end)
        IN  /\ pages' = pages \o SubSeq(list, start + 1, end)
            /\ cursor' = IF more THEN list[end] ELSE 0
            /\ client' = IF more THEN "more" ELSE "done"
  BY DEF Answer
<1> DEFINE start == Start(list)
           end   == Min2(start + limit, Len(list))
           piece == SubSeq(list, start + 1, end)
<1>2. /\ pages' = pages \o piece
      /\ end < Len(list) => cursor' = list[end] /\ client' = "more"
      /\ ~(end < Len(list)) => cursor' = 0 /\ client' = "done"
  BY <1>1 DEF More
<1>3. /\ UNCHANGED <<step, stamp, records, toLock, steady>>
      /\ handles' = {} /\ toLock = {} /\ client = "locking"
      /\ cursor = 0 \/ cursor \in handles
  BY DEF Answer, snapVars
<1>4. /\ stamp \in [Snaps -> Nat] /\ handles \in SUBSET Snaps
      /\ pages \in Seq(Snaps) /\ 0 \notin Snaps
  BY ListingAssumption DEF ListInv, ListTypeOK
<1>5. /\ list \in Seq(handles) /\ list \in Seq(Snaps)
      /\ \A s \in handles : \E i \in 1..Len(list) : list[i] = s
      /\ \A i, j \in 1..Len(list) : i < j => Less(list[i], list[j])
  BY <1>4, SortedList
<1>6. /\ start \in 0..Len(list)
      /\ cursor = 0 => start = 0 /\ pages = <<>>
      /\ cursor # 0 => /\ start \in 1..Len(list) /\ list[start] = cursor
                       /\ pages # <<>> /\ pages[Len(pages)] = cursor
                       /\ \A s \in steady : Less(cursor, s) \/ Contains(pages, s)
  <2>1. CASE cursor = 0
    BY <1>3, <1>5, <2>1 DEF Start, ListInv, CursorInv
  <2>2. CASE cursor # 0
    <3>1. \E i \in DOMAIN list : list[i] = cursor
      BY <1>3, <1>5, <2>2
    <3>2. start \in DOMAIN list /\ list[start] = cursor
      BY <2>2, <3>1 DEF Start
    <3> QED
      BY <1>3, <1>5, <2>2, <3>2 DEF ListInv, CursorInv
  <2> QED
    BY <2>1, <2>2
<1> HIDE DEF start
<1>7. /\ end \in start..Len(list)
      /\ end < Len(list) => end \in (start + 1)..Len(list)
  BY <1>5, <1>6, ListingAssumption DEF Min2
<1> HIDE DEF end
<1>8. /\ piece \in Seq(Snaps) /\ Len(piece) = end - start
      /\ \A k \in 1..(end - start) : piece[k] = list[start + k]
  BY <1>5, <1>6, <1>7, PagePiece
<1> HIDE DEF piece
<1>9. /\ pages' \in Seq(Snaps) /\ Len(pages') = Len(pages) + (end - start)
      /\ \A i \in 1..Len(pages) : pages'[i] = pages[i]
      /\ \A k \in 1..(end - start) : pages'[Len(pages) + k] = list[start + k]
  <2>1. pages \in Seq(Snaps) /\ piece \in Seq(Snaps)
    BY <1>4, <1>8
  <2>2. pages \o piece \in Seq(Snaps)
    BY <2>1
  <2>3. Len(pages \o piece) = Len(pages) + Len(piece)
    BY <2>1
  <2>4. \A i \in 1..Len(pages) : (pages \o piece)[i] = pages[i]
    BY <2>1
  <2>5. \A k \in 1..Len(piece) : (pages \o piece)[Len(pages) + k] = piece[k]
    BY <2>1
  <2> QED
    BY <1>2, <1>8, <2>2, <2>3, <2>4, <2>5
<1>10. start \in Nat /\ end \in Nat
  BY <1>5, <1>6, <1>7
<1>11. Page(list, start, end)
  BY <1>2, <1>5, <1>6, <1>7, <1>9 DEF Page
<1> QED
  BY <1>5, <1>10, <1>11

(***************************************************************************)
(* The page.  What stays has been collected, so it is in the sorted list:  *)
(* it was given before, or it is on this page, or it is behind the cursor  *)
(* that is sent.                                                           *)
(***************************************************************************)
LEMMA AnswerInv ==
  ASSUME ListInv, Answer
  PROVE  ListInv'
<1>1. PICK list \in Seq(Snaps), start \in Nat, end \in Nat : Page(list, start, end)
  BY AnswerPage
<1>2. /\ end < Len(list) => cursor' = list[end] /\ client' = "more"
      /\ ~(end < Len(list)) => cursor' = 0 /\ client' = "done"
  BY <1>1 DEF Page
<1>3. /\ UNCHANGED <<step, stamp, records, toLock, steady>>
      /\ handles' = {} /\ toLock = {}
  BY DEF Answer, snapVars
<1>4. /\ stamp \in [Snaps -> Nat] /\ handles \in SUBSET Snaps
      /\ pages \in Seq(Snaps) /\ 0 \notin Snaps
  BY ListingAssumption DEF ListInv, ListTypeOK
<1>5. /\ list \in Seq(handles) /\ list \in Seq(Snaps)
      /\ \A s \in handles : \E i \in 1..Len(list) : list[i] = s
      /\ \A i, j \in 1..Len(list) : i < j => Less(list[i], list[j])
  BY <1>1 DEF Page
<1>6. /\ start \in 0..Len(list)
      /\ cursor = 0 => start = 0 /\ pages = <<>>
      /\ cursor # 0 => /\ start \in 1..Len(list) /\ list[start] = cursor
                       /\ pages # <<>> /\ pages[Len(pages)] = cursor
                       /\ \A s \in steady : Less(cursor, s) \/ Contains(pages, s)
  BY <1>1 DEF Page
<1>7. /\ end \in start..Len(list)
      /\ end < Len(list) => end \in (start + 1)..Len(list)
  BY <1>1 DEF Page
<1>8. client = "locking"
  BY DEF Answer
<1>9. /\ pages' \in Seq(Snaps) /\ Len(pages') = Len(pages) + (end - start)
      /\ \A i \in 1..Len(pages) : pages'[i] = pages[i]
      /\ \A k \in 1..(end - start) : pages'[Len(pages) + k] = list[start + k]
  BY <1>1 DEF Page
<1>10. /\ Len(pages) \in Nat /\ Len(list) \in Nat /\ Len(pages') \in Nat
       /\ start \in Nat /\ end \in Nat /\ start <= end /\ end <= Len(list)
       /\ \A i \in 1..Len(list) : list[i] \in Snaps
       /\ \A i \in 1..Len(pages) : pages[i] \in Snaps
  <2>1. /\ Len(pages) \in Nat /\ Len(list) \in Nat /\ Len(pages') \in Nat
        /\ \A i \in 1..Len(list) : list[i] \in Snaps
        /\ \A i \in 1..Len(pages) : pages[i] \in Snaps
    BY <1>4, <1>5, <1>9, SeqElements
  <2>2. start \in Nat /\ end \in Nat /\ start <= end /\ end <= Len(list)
    BY <1>6, <1>7, <2>1
  <2> QED
    BY <2>1, <2>2
<1>11. \A i \in (Len(pages) + 1)..Len(pages') :
         /\ i - Len(pages) \in 1..(end - start)
         /\ pages'[i] = list[start + (i - Len(pages))]
         /\ start + (i - Len(pages)) \in (start + 1)..end
  <2> SUFFICES ASSUME NEW i \in (Len(pages) + 1)..Len(pages')
               PROVE  /\ i - Len(pages) \in 1..(end - start)
                      /\ pages'[i] = list[start + (i - Len(pages))]
                      /\ start + (i - Len(pages)) \in (start + 1)..end
    OBVIOUS
  <2>1. /\ Len(pages) \in Nat /\ Len(list) \in Nat /\ start \in Nat /\ end \in Nat
        /\ i \in Nat
    BY <1>10
  <2>2. i - Len(pages) \in 1..(end - start)
    BY <1>7, <1>9, <2>1
  <2>3. Len(pages) + (i - Len(pages)) = i
    BY <2>1
  <2>4. pages'[i] = list[start + (i - Len(pages))]
    BY <1>9, <2>2, <2>3
  <2>5. start + (i - Len(pages)) \in (start + 1)..end
    BY <2>1, <2>2
  <2> QED
    BY <2>2, <2>4, <2>5
<1>12. ListTypeOK' /\ MappedInv'
  <2>1. cursor' \in Snaps \cup {0}
    BY <1>2, <1>5, <1>6, <1>7
  <2> QED
    BY <1>2, <1>3, <1>9, <2>1 DEF ListInv, ListTypeOK, MappedInv
<1>13. SeenInv' /\ SteadyInv'
  <2>1. \A s \in handles : step[s] \in Mapped \cup {"gone"}
    BY <1>4 DEF ListInv, SeenInv
  <2>2. \A i \in 1..Len(list) : step[list[i]] \in Mapped \cup {"gone"}
    BY <1>5, <2>1
  <2>3. ASSUME NEW i \in 1..Len(pages')
        PROVE  step[pages'[i]] \in Mapped \cup {"gone"}
    <3>1. CASE i \in 1..Len(pages)
      BY <1>9, <3>1 DEF ListInv, SeenInv
    <3>2. CASE i \notin 1..Len(pages)
      <4>1. i \in (Len(pages) + 1)..Len(pages')
        BY <1>4, <1>9, <3>2
      <4>2. start + (i - Len(pages)) \in 1..Len(list)
        BY <1>10, <1>11, <4>1
      <4> QED
        BY <1>11, <2>2, <4>1, <4>2
    <3> QED
      BY <3>1, <3>2
  <2> QED
    BY <1>2, <1>3, <2>3 DEF ListInv, SeenInv, SteadyInv
<1>14. OrderInv'
  <2> SUFFICES ASSUME NEW i \in 1..Len(pages'), NEW j \in 1..Len(pages'), i < j
               PROVE  Less(pages'[i], pages'[j])
    BY <1>3 DEF OrderInv, Less
  <2>1. CASE j \in 1..Len(pages)
    <3>1. i \in 1..Len(pages)
      BY <1>4, <1>9, <2>1
    <3> QED
      BY <1>9, <2>1, <3>1 DEF ListInv, OrderInv
  <2>2. CASE j \notin 1..Len(pages)
    <3>1. j \in (Len(pages) + 1)..Len(pages')
      BY <1>4, <1>9, <2>2
    <3> DEFINE y == start + (j - Len(pages))
    <3>2. pages'[j] = list[y] /\ y \in (start + 1)..end
      BY <1>11, <3>1
    <3> HIDE DEF y
    <3>3. CASE i \in 1..Len(pages)
      <4>1. cursor # 0 /\ start \in 1..Len(list) /\ list[start] = cursor
        BY <1>6, <3>3
      <4>2. y \in 1..Len(list) /\ start < y
        BY <1>5, <1>6, <1>7, <3>2
      <4>3. Less(cursor, list[y])
        BY <1>5, <4>1, <4>2
      <4>4. pages[Len(pages)] = cursor /\ Len(pages) \in 1..Len(pages)
        BY <1>4, <1>6, <4>1, <3>3
      <4>5. pages[i] = cursor \/ Less(pages[i], cursor)
        <5>1. i = Len(pages) \/ i < Len(pages)
          BY <1>10, <3>3
        <5> QED
          BY <3>3, <4>4, <5>1 DEF ListInv, OrderInv
      <4>6. pages[i] \in Snaps /\ cursor \in Snaps /\ list[y] \in Snaps
        BY <1>10, <3>3, <4>2, <4>4
      <4> QED
        BY <1>4, <1>9, <3>2, <3>3, <4>3, <4>5, <4>6, LessOrder
    <3>4. CASE i \notin 1..Len(pages)
      <4>1. i \in (Len(pages) + 1)..Len(pages')
        BY <1>4, <1>9, <3>4
      <4> DEFINE x == start + (i - Len(pages))
      <4>2. pages'[i] = list[x] /\ x \in (start + 1)..end
        BY <1>11, <4>1
      <4>3. x < y
        BY <1>4, <1>6, <1>9 DEF y
      <4> HIDE DEF x
      <4>4. x \in 1..Len(list) /\ y \in 1..Len(list)
        BY <1>10, <3>2, <4>2
      <4> QED
        BY <1>5, <3>2, <4>2, <4>3, <4>4
    <3> QED
      BY <3>3, <3>4
  <2> QED
    BY <2>1, <2>2
<1>15. ASSUME NEW s \in steady
       PROVE  Contains(pages', s) \/ (end < Len(list) /\ Less(list[end], s))
  <2>1. s \in handles
    BY <1>3, <1>8 DEF ListInv, SteadyInv
  <2>2. PICK i \in 1..Len(list) : list[i] = s
    BY <1>5, <2>1
  <2>3. s \in Snaps
    BY <1>4, <2>1
  <2>4. Contains(pages, s) => Contains(pages', s)
    <3>1. \A k \in 1..Len(pages) : k \in 1..Len(pages') /\ pages'[k] = pages[k]
      BY <1>9, <1>10
    <3> QED
      BY <3>1 DEF Contains
  <2>5. CASE i <= start
    <3>1. cursor # 0 /\ start \in 1..Len(list) /\ list[start] = cursor
      BY <1>6, <2>5
    <3>2. cursor \in Snaps
      BY <1>5, <3>1
    <3>3. i = start \/ i < start
      BY <1>6, <2>5
    <3>4. s = cursor \/ Less(s, cursor)
      BY <1>5, <2>2, <3>1, <3>3
    <3>5. ~Less(cursor, s)
      BY <1>4, <2>3, <3>2, <3>4, LessOrder
    <3> QED
      BY <1>6, <2>4, <3>1, <3>5
  <2>6. CASE i > start /\ i <= end
    <3>1. i - start \in 1..(end - start) /\ start + (i - start) = i
      BY <1>5, <1>6, <1>7, <2>6
    <3>2. Len(pages) + (i - start) \in 1..Len(pages')
      BY <1>10, <1>9, <3>1
    <3>3. pages'[Len(pages) + (i - start)] = s
      BY <1>9, <2>2, <3>1
    <3> QED
      BY <3>2, <3>3 DEF Contains
  <2>7. CASE i > end
    <3>1. end < Len(list) /\ end \in 1..Len(list)
      BY <1>5, <1>6, <1>7, <2>7
    <3> QED
      BY <1>5, <2>2, <2>7, <3>1
  <2> QED
    BY <1>5, <1>6, <1>7, <2>5, <2>6, <2>7
<1>16. CursorInv'
  <2>1. CASE end < Len(list)
    <3>1. cursor' = list[end] /\ client' = "more"
      BY <1>2, <2>1
    <3>2. end \in (start + 1)..Len(list) /\ end \in 1..Len(list)
      BY <1>5, <1>6, <1>7, <2>1
    <3>3. cursor' # 0
      BY <1>4, <1>10, <3>1, <3>2
    <3>4. end - start \in 1..(end - start) /\ start + (end - start) = end
      BY <1>5, <1>6, <3>2
    <3>5. pages'[Len(pages')] = list[end] /\ pages' # <<>>
      <4>1. pages'[Len(pages) + (end - start)] = list[end]
        BY <1>9, <3>4
      <4>2. Len(pages') # 0
        BY <1>9, <1>10, <3>4
      <4>3. pages' # <<>>
        BY <1>9, <4>2, EmptySeq
      <4> QED
        BY <1>9, <4>1, <4>3
    <3>6. \A s \in steady' : Less(cursor, s)' \/ Contains(pages', s)
      BY <1>3, <1>15, <3>1 DEF Less
    <3> QED
      BY <3>1, <3>3, <3>5, <3>6 DEF CursorInv, Contains
  <2>2. CASE ~(end < Len(list))
    BY <1>2, <2>2 DEF CursorInv
  <2> QED
    BY <2>1, <2>2
<1>17. PagesComplete'
  BY <1>2, <1>3, <1>15 DEF PagesComplete, Contains
<1> QED
  BY <1>12, <1>13, <1>14, <1>16, <1>17 DEF ListInv

\* The listing ends without a page: the sandbox, or the cursor, is gone.
LEMMA ListEndsInv ==
  ASSUME ListInv, RequestNotFound \/ BadCursor
  PROVE  ListInv'
<1>1. /\ UNCHANGED <<step, stamp, records, toLock, cursor, pages, steady>>
      /\ handles' \in {handles, {}} /\ client' \in {"not found", "refused"}
      /\ client' = "refused" => /\ client = "locking" /\ toLock = {}
                                /\ cursor # 0 /\ cursor \notin handles
  BY DEF RequestNotFound, BadCursor, snapVars
<1>2. ListTypeOK' /\ MappedInv'
  BY <1>1 DEF ListInv, ListTypeOK, MappedInv
<1>3. SeenInv' /\ SteadyInv'
  BY <1>1 DEF ListInv, SeenInv, SteadyInv
<1>4. OrderInv'
  BY <1>1 DEF ListInv, OrderInv, Less
<1>5. CursorInv' /\ PagesComplete'
  BY <1>1 DEF ListInv, CursorInv, PagesComplete
<1> QED
  BY <1>2, <1>3, <1>4, <1>5 DEF ListInv

(***************************************************************************)
(* The listing's inductive invariant, for any number of snapshots of this  *)
(* and of other sandboxes, any clock and any limits of the pages.          *)
(***************************************************************************)
THEOREM ListingCorrect == FairSpec => []ListInv
<1>1. Init => ListInv
  BY ListInitInv
<1>2. ListInv /\ [Next]_vars => ListInv'
  <2> SUFFICES ASSUME ListInv, [Next]_vars
               PROVE  ListInv'
    OBVIOUS
  <2>1. ASSUME NEW s \in Snaps,
               Stage(s) \/ Publish(s) \/ StartDelete(s) \/ Unlock(s) \/ Unmap(s)
        PROVE  ListInv'
    BY <2>1, SnapStepInv
  <2>2. ASSUME NEW s \in Snaps \cup Foreign, Use(s) \/ Used(s) \/ Collect(s)
        PROVE  ListInv'
    <3>1. CASE Collect(s)
      BY <3>1, CollectInv
    <3>2. CASE Use(s) \/ Used(s)
      BY <3>2, ListFrame DEF Use, Used
    <3> QED
      BY <2>2, <3>1, <3>2
  <2>3. CASE DeleteSandbox
    BY <2>3, ListFrame DEF DeleteSandbox
  <2>4. CASE ListStep
    BY <2>4, RequestInv, AnswerInv, ListEndsInv DEF ListStep
  <2>5. CASE UNCHANGED vars
    BY <2>5, ListFrame DEF vars
  <2> QED
    BY <2>1, <2>2, <2>3, <2>4, <2>5 DEF Next
<1> QED
  BY <1>1, <1>2, PTL DEF FairSpec

(***************************************************************************)
(* A listing that ends has given every snapshot that was there throughout, *)
(* and one that is refused had its cursor's snapshot deleted.              *)
(***************************************************************************)
THEOREM PagesAreComplete == FairSpec => []PagesComplete
<1>1. ListInv => PagesComplete
  BY DEF ListInv
<1> QED
  BY <1>1, ListingCorrect, PTL

(***************************************************************************)
(* The pages of a listing are in the order of creation, with no snapshot   *)
(* twice and none of another sandbox.                                      *)
(***************************************************************************)
THEOREM PagesAreOrdered == FairSpec => []PagesOrdered
<1>1. ListInv => PagesOrdered
  <2> SUFFICES ASSUME ListInv
               PROVE  PagesOrdered
    OBVIOUS
  <2>1. pages \in Seq(Snaps) /\ stamp \in [Snaps -> Nat]
    BY DEF ListInv, ListTypeOK
  <2>2. \A i \in DOMAIN pages : i \in 1..Len(pages) /\ pages[i] \in Snaps
    BY <2>1
  <2>3. ASSUME NEW i \in DOMAIN pages, NEW j \in DOMAIN pages, i < j
        PROVE  pages[i] # pages[j] /\ stamp[pages[i]] <= stamp[pages[j]]
    <3>1. Less(pages[i], pages[j])
      BY <2>2, <2>3 DEF ListInv, OrderInv
    <3>2. pages[i] # pages[j]
      BY <2>1, <2>2, <3>1, LessOrder
    <3>3. stamp[pages[i]] <= stamp[pages[j]]
      BY <2>1, <2>2, <3>1 DEF Less
    <3> QED
      BY <3>2, <3>3
  <2> QED
    BY <2>2, <2>3 DEF PagesOrdered
<1> QED
  BY <1>1, ListingCorrect, PTL

(***************************************************************************)
(* Why a listing comes to an end, as far as safety goes: a page with a     *)
(* cursor gives at least one snapshot, ...                                 *)
(***************************************************************************)
THEOREM PagesAdvance ==
  FairSpec => [][client = "locking" /\ client' = "more" => Len(pages') > Len(pages)]_vars
<1> DEFINE Advance == client = "locking" /\ client' = "more" => Len(pages') > Len(pages)
<1>1. ListInv /\ [Next]_vars => [Advance]_vars
  <2> SUFFICES ASSUME ListInv, Next, client = "locking", client' = "more"
               PROVE  Len(pages') > Len(pages)
    OBVIOUS
  <2>1. Answer
    BY DEF Next, Stage, Publish, StartDelete, Unlock, Unmap, Use, Used, Collect,
           DeleteSandbox, ListStep, Request, RequestNotFound, BadCursor, listVars
  <2>2. PICK list \in Seq(Snaps), start \in Nat, end \in Nat : Page(list, start, end)
    BY <2>1, AnswerPage
  <2>3. /\ end \in (start + 1)..Len(list) /\ Len(pages') = Len(pages) + (end - start)
    BY <2>2 DEF Page
  <2>4. Len(pages) \in Nat /\ Len(list) \in Nat
    BY SeqElements DEF ListInv, ListTypeOK
  <2> QED
    BY <2>3, <2>4
<1> QED
  BY <1>1, ListingCorrect, PTL DEF FairSpec

(***************************************************************************)
(* ... and there are never more of them than snapshots of the sandbox,     *)
(* however many are created and deleted while the client pages.            *)
(***************************************************************************)
THEOREM PagesBounded == FairSpec => [](Len(pages) <= Cardinality(Snaps))
<1>1. ListInv => Len(pages) <= Cardinality(Snaps)
  <2> SUFFICES ASSUME ListInv
               PROVE  Len(pages) <= Cardinality(Snaps)
    OBVIOUS
  <2>1. PICK n \in Nat : n = Len(pages)
    BY SeqElements DEF ListInv, ListTypeOK
  <2>2. pages \in [1..n -> Snaps]
    <3>1. pages \in Seq(Snaps)
      BY DEF ListInv, ListTypeOK
    <3> QED
      BY <2>1, <3>1, LenProperties
  <2>3. \A i, j \in 1..n : i < j => pages[i] # pages[j]
    BY <2>1, <2>2, LessOrder DEF ListInv, ListTypeOK, OrderInv
  <2>4. pages \in Injection(1..n, Snaps)
    BY <2>2, <2>3 DEF Injection, IsInjective
  <2>5. Cardinality(1..n) <= Cardinality(Snaps)
    BY <2>4, FS_Injection, ListingAssumption
  <2>6. Cardinality(1..n) = n
    BY FS_Interval
  <2> QED
    BY <2>1, <2>5, <2>6
<1> QED
  BY <1>1, ListingCorrect, PTL
=============================================================================
