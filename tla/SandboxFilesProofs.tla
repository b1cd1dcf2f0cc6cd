------------------------- MODULE SandboxFilesProofs -------------------------
(***************************************************************************)
(* Proofs about the files of a sandbox (SandboxFiles), for every number    *)
(* and size of the uploads, every choice of those that may overwrite, and  *)
(* every limit of a page and of a read.                                    *)
(***************************************************************************)
EXTENDS SandboxFiles, SequenceTheorems, TLAPS

\* The three kinds of call are told apart.
LEMMA CallsDistinct ==
  /\ Download \in Calls /\ Execute \in Calls /\ Uploads \subseteq Calls
  /\ Download # Execute /\ Download \notin Uploads /\ Execute \notin Uploads
  /\ Uploads \subseteq Files /\ Execute \in Files /\ Files \subseteq Calls
  /\ NoFile \notin Files /\ Download \notin Files
  BY FilesAssumption DEF Calls, Files, Download, Execute

\* The elements of a sequence, and its last one.
LEMMA SeqElements ==
  ASSUME NEW S, NEW seq \in Seq(S)
  PROVE  /\ Len(seq) \in Nat
         /\ \A i \in 1..Len(seq) : seq[i] \in S
         /\ Len(seq) = 0 <=> seq = <<>>
<1>1. Len(seq) \in Nat /\ \A i \in 1..Len(seq) : seq[i] \in S
  OBVIOUS
<1>2. Len(seq) = 0 <=> seq = <<>>
  BY EmptySeq
<1> QED
  BY <1>1, <1>2

\* The invariant holds of a new sandbox.
LEMMA FilesInitInv == Init => FilesInv
<1> SUFFICES ASSUME Init
             PROVE  FilesInv
  OBVIOUS
<1>1. FilesTypeOK
  <2>1. overwrite \in [Uploads -> BOOLEAN] /\ "new" \in Labels /\ <<>> \in Seq(Byte)
    BY FilesAssumption DEF Init, Labels
  <2>2. /\ data \in [Files -> Seq(Byte)] /\ page \in Seq(Byte) /\ got \in Seq(Byte)
    BY <2>1 DEF Init
  <2>3. /\ call \in [Calls -> Labels] /\ fd \in [Calls -> Files \cup {NoFile}]
        /\ pos \in [Uploads -> Nat]
    BY <2>1 DEF Init
  <2>4. /\ backend \in {"process", "microvm"} /\ box = "running"
        /\ depth \in 0..Whole /\ node = NoFile /\ limit = 0 /\ length = 0
        /\ quiet = FALSE /\ alone = {} /\ level \in 0..Whole + 1 /\ overlap = {}
    BY DEF Init, Whole
  <2> QED
    BY <2>1, <2>2, <2>3, <2>4 DEF FilesTypeOK
<1>2. OpenedInv
  BY CallsDistinct DEF Init, OpenedInv
<1>3. AloneInv /\ PageInv /\ DeleteInv
  BY CallsDistinct DEF Init, AloneInv, PageInv, DeleteInv
<1> QED
  BY <1>1, <1>2, <1>3 DEF FilesInv
-----------------------------------------------------------------------------
(***************************************************************************)
(* Steps that move one call and touch no file: a call is refused, lost or  *)
(* begun, a directory is made, a command begins and ends.  What remains to *)
(* be shown of each is that it fits the state of the deletion.             *)
(***************************************************************************)
LEMMA LabelInv ==
  ASSUME FilesInv, NEW c \in Calls, NEW label \in Labels, Becomes(c, label),
         UNCHANGED <<boxVars, node, data, fd, pos, pageVars, quiet, alone>>,
         depth' \in 0..Whole, DeleteInv',
         c \in Uploads => /\ label \in {"parents", "open", "failed"}
                          /\ label # "failed" => call[c] \in {"new", "parents"},
         c = Download => label = "failed"
  PROVE  FilesInv'
<1>1. UNCHANGED <<backend, overwrite, box, level, overlap, node, data, fd, pos,
                  limit, length, page, got, quiet, alone>>
  BY DEF boxVars, pageVars
<1>2. /\ call' = [call EXCEPT ![c] = label] /\ call \in [Calls -> Labels]
      /\ call'[c] = label /\ \A d \in Calls \ {c} : call'[d] = call[d]
  BY DEF Becomes, FilesInv, FilesTypeOK
<1>3. FilesTypeOK'
  BY <1>1, <1>2 DEF FilesInv, FilesTypeOK
<1>4. OpenedInv'
  BY <1>1, <1>2, CallsDistinct DEF FilesInv, OpenedInv
<1>5. AloneInv'
  <2> SUFFICES ASSUME NEW u \in alone
               PROVE  /\ call'[u] \in {"write", "ok", "failed"}
                      /\ call'[u] = "write" =>
                           Writers(fd[u])' = {u} /\ Holds(data[fd[u]], u, pos[u])
                      /\ call'[u] = "ok" =>
                           Writers(fd[u])' = {} /\ Holds(data[fd[u]], u, Size[u])
    BY <1>1 DEF AloneInv, Holds, Writers
  <2>1. /\ u \in Uploads /\ call[u] \in {"write", "ok", "failed"}
        /\ call[u] = "write" => Writers(fd[u]) = {u} /\ Holds(data[fd[u]], u, pos[u])
        /\ call[u] = "ok" => Writers(fd[u]) = {} /\ Holds(data[fd[u]], u, Size[u])
    BY DEF FilesInv, FilesTypeOK, AloneInv
  <2>2. CASE c = u
    BY <1>2, <2>1, <2>2
  <2>3. CASE c # u
    <3>1. call'[u] = call[u]
      BY <1>2, <2>1, <2>3, CallsDistinct
    <3>2. Writers(fd[u])' = Writers(fd[u]) \ {c}
      BY <1>1, <1>2, CallsDistinct DEF Writers
    <3> QED
      BY <2>1, <2>3, <3>1, <3>2
  <2> QED
    BY <2>2, <2>3
<1>6. PageInv'
  <2>1. CASE c = Download
    BY <1>1, <1>2, <2>1, CallsDistinct DEF FilesInv, PageInv
  <2>2. CASE c # Download
    BY <1>1, <1>2, <2>2, CallsDistinct DEF FilesInv, PageInv, BeginsWith
  <2> QED
    BY <2>1, <2>2
<1> QED
  BY <1>3, <1>4, <1>5, <1>6 DEF FilesInv

\* With the directories as they were, such a step fits the deletion if no
\* upload begins.
LEMMA LabelDeleteInv ==
  ASSUME FilesInv, NEW c \in Calls, NEW label \in Labels, Becomes(c, label),
         UNCHANGED <<boxVars, fileVars>>,
         c \in Files /\ label \in InProgress => box \in {"running", "paused"}
                                                \/ call[c] \in InProgress
  PROVE  DeleteInv'
<1>1. /\ UNCHANGED <<backend, overwrite, box, level, overlap, depth, node>>
  BY DEF boxVars, fileVars
<1>2. call'[c] = label /\ \A d \in Calls \ {c} : call'[d] = call[d]
  BY DEF Becomes, FilesInv, FilesTypeOK
<1> QED
  BY <1>1, <1>2, CallsDistinct DEF FilesInv, DeleteInv

\* A call is refused, or lost with the VM.
LEMMA CallStepInv ==
  ASSUME FilesInv, NEW c \in Calls, Refused(c) \/ Lost(c)
  PROVE  FilesInv'
<1>1. /\ Becomes(c, "failed") /\ UNCHANGED <<boxVars, fileVars>>
      /\ UNCHANGED <<fd, pos, pageVars, quiet, alone>>
  BY DEF Refused, Lost
<1>2. "failed" \in Labels /\ "failed" \notin InProgress
  BY DEF Labels, Finished, InProgress
<1>3. DeleteInv'
  BY <1>1, <1>2, LabelDeleteInv
<1>4. UNCHANGED <<node, data>> /\ depth' \in 0..Whole
  BY <1>1 DEF fileVars, FilesInv, FilesTypeOK
<1> QED
  BY <1>1, <1>2, <1>3, <1>4, LabelInv

\* write begins: the record was found, so no deletion has begun.
LEMMA StartUploadInv ==
  ASSUME FilesInv, NEW u \in Uploads, StartUpload(u)
  PROVE  FilesInv'
<1>1. /\ Becomes(u, "parents") /\ UNCHANGED <<boxVars, fileVars>>
      /\ UNCHANGED <<fd, pos, pageVars, quiet, alone>>
      /\ call[u] = "new" /\ box \in {"running", "paused"}
  BY DEF StartUpload, Found
<1>2. "parents" \in Labels /\ u \in Calls /\ u # Download
  BY CallsDistinct DEF Labels, InProgress
<1>3. DeleteInv'
  BY <1>1, <1>2, LabelDeleteInv
<1>4. UNCHANGED <<node, data>> /\ depth' \in 0..Whole
  BY <1>1 DEF fileVars, FilesInv, FilesTypeOK
<1> QED
  BY <1>1, <1>2, <1>3, <1>4, LabelInv

\* create_dir_all: while an upload is in progress, the deletion claims nothing.
LEMMA MakeParentsInv ==
  ASSUME FilesInv, NEW u \in Uploads, MakeParents(u)
  PROVE  FilesInv'
<1>1. /\ call[u] = "parents" /\ UNCHANGED <<boxVars, node, data>>
      /\ UNCHANGED <<fd, pos, pageVars, quiet, alone>>
      /\ depth' = depth \/ (depth # Whole /\ depth' = depth + 1)
      /\ Becomes(u, "open") \/ Becomes(u, "failed") \/ UNCHANGED call
  BY DEF MakeParents, Resolves
<1>2. depth' \in 0..Whole
  BY <1>1 DEF FilesInv, FilesTypeOK, Whole
<1>3. DeleteInv'
  <2>1. UNCHANGED <<box, level, overlap>>
    BY <1>1 DEF boxVars
  <2>2. box \notin {"running", "paused"} => u \in overlap
    BY <1>1, CallsDistinct DEF FilesInv, DeleteInv, InProgress
  <2>3. box \in {"running", "paused"} => depth' = depth
    BY <1>1 DEF FilesInv, DeleteInv
  <2>4. \A f \in Files : call'[f] = call[f] \/ f = u
    BY <1>1, CallsDistinct DEF Becomes, FilesInv, FilesTypeOK
  <2> QED
    BY <1>1, <2>1, <2>2, <2>3, <2>4 DEF FilesInv, DeleteInv
<1>4. {"open", "failed", "parents"} \subseteq Labels /\ u \in Calls /\ u # Download
  BY CallsDistinct DEF Labels, InProgress, Finished
<1>5. UNCHANGED call => Becomes(u, "parents")
  BY <1>1, <1>4 DEF Becomes, FilesInv, FilesTypeOK
<1> QED
  BY <1>1, <1>2, <1>3, <1>4, <1>5, LabelInv

\* open fails: the upload ends and the files are as they were.
LEMMA OpenFailsInv ==
  ASSUME FilesInv, NEW u \in Uploads, OpenFails(u)
  PROVE  FilesInv'
<1>1. /\ Becomes(u, "failed") /\ UNCHANGED <<boxVars, fileVars>>
      /\ UNCHANGED <<fd, pos, pageVars, quiet, alone>>
  BY DEF OpenFails
<1>2. "failed" \in Labels /\ "failed" \notin InProgress /\ u \in Calls /\ u # Download
  BY CallsDistinct DEF Labels, Finished, InProgress
<1>3. DeleteInv'
  BY <1>1, <1>2, LabelDeleteInv
<1>4. UNCHANGED <<node, data>> /\ depth' \in 0..Whole
  BY <1>1 DEF fileVars, FilesInv, FilesTypeOK
<1> QED
  BY <1>1, <1>2, <1>3, <1>4, LabelInv

\* execute: a command begins or ends.
LEMMA CommandInv ==
  ASSUME FilesInv, Spawn \/ CommandEnds
  PROVE  FilesInv'
<1>1. /\ \/ Becomes(Execute, "running") /\ box = "running"
         \/ Becomes(Execute, "ok")
      /\ UNCHANGED <<boxVars, fileVars>>
      /\ UNCHANGED <<fd, pos, pageVars, quiet, alone>>
  BY DEF Spawn, CommandEnds, Found
<1>2. "running" \in Labels /\ "ok" \in Labels /\ "ok" \notin InProgress
  BY DEF Labels, Finished, InProgress
<1>3. DeleteInv'
  BY <1>1, <1>2, CallsDistinct, LabelDeleteInv
<1>4. UNCHANGED <<node, data>> /\ depth' \in 0..Whole
  BY <1>1 DEF fileVars, FilesInv, FilesTypeOK
<1> QED
  BY <1>1, <1>2, <1>3, <1>4, CallsDistinct, LabelInv
-----------------------------------------------------------------------------
(***************************************************************************)
(* Uploads.                                                                *)
(***************************************************************************)
\* The next byte of an upload at the end of those it has written.
LEMMA PutNext ==
  ASSUME NEW u \in Uploads, NEW n \in Nat, NEW bytes \in Seq(Byte), Holds(bytes, u, n)
  PROVE  Holds(Put(bytes, u, n + 1), u, n + 1)
<1>1. Len(bytes) = n /\ \A k \in 1..n : bytes[k] = <<u, k>>
  BY DEF Holds
<1>2. Larger(Len(bytes), n + 1) = n + 1
  BY <1>1 DEF Larger
<1>3. Put(bytes, u, n + 1) =
        [i \in 1..n + 1 |-> IF i = n + 1 THEN <<u, n + 1>>
                            ELSE IF i <= Len(bytes) THEN bytes[i] ELSE <<u, 0>>]
  BY <1>2 DEF Put
<1>4. Len(Put(bytes, u, n + 1)) = n + 1
  BY <1>3
<1>5. ASSUME NEW k \in 1..n + 1
      PROVE  Put(bytes, u, n + 1)[k] = <<u, k>>
  BY <1>1, <1>3
<1> QED
  BY <1>4, <1>5 DEF Holds

\* A byte put anywhere leaves a sequence of bytes.
LEMMA PutType ==
  ASSUME NEW u \in Uploads, NEW k \in Nat \ {0}, NEW bytes \in Seq(Byte)
  PROVE  Put(bytes, u, k) \in Seq(Byte)
<1>1. Len(bytes) \in Nat /\ \A i \in 1..Len(bytes) : bytes[i] \in Byte
  BY SeqElements
<1>2. Larger(Len(bytes), k) \in Nat
  BY <1>1 DEF Larger
<1>3. <<u, k>> \in Byte /\ <<u, 0>> \in Byte
  BY DEF Byte
<1>4. \A i \in 1..Larger(Len(bytes), k) :
        (IF i = k THEN <<u, k>> ELSE IF i <= Len(bytes) THEN bytes[i] ELSE <<u, 0>>) \in Byte
  BY <1>1, <1>3
<1>5. Put(bytes, u, k) \in [1..Larger(Len(bytes), k) -> Byte]
  BY <1>4 DEF Put
<1> QED
  BY <1>2, <1>5

\* An upload that may not overwrite opens a file of its own.
LEMMA OpensOwn ==
  ASSUME FilesInv, NEW u \in Uploads, OpenFile(u)
  PROVE  /\ Opens(u) \in Files
         /\ ~overwrite[u] => Opens(u) = u
         /\ \A w \in Uploads : call[w] \in {"new", "parents", "open"} /\ w # u => Opens(u) # w
  BY CallsDistinct DEF FilesInv, FilesTypeOK, OpenedInv, OpenFile, Opens, CreatesNew, Exists

(***************************************************************************)
(* open: an upload that stays alone has another file, since this one       *)
(* either created its own or overwrites, and then takes the file from      *)
(* whoever had it.                                                         *)
(***************************************************************************)
LEMMA OpenFileInv ==
  ASSUME FilesInv, NEW u \in Uploads, OpenFile(u)
  PROVE  FilesInv'
<1>1. PICK file \in Files :
      /\ file = Opens(u)
      /\ ~overwrite[u] => file = u
      /\ \A w \in Uploads : call[w] \in {"new", "parents", "open"} /\ w # u => file # w
  BY OpensOwn
<1>2. /\ UNCHANGED <<backend, overwrite, box, level, overlap, depth, pos,
                     limit, length, page, got>>
      /\ call[u] = "open" /\ call' = [call EXCEPT ![u] = "write"]
      /\ node' = file /\ fd' = [fd EXCEPT ![u] = file]
      /\ data' = IF overwrite[u] THEN [data EXCEPT ![file] = <<>>] ELSE data
      /\ quiet' = FALSE
      /\ alone' = {w \in alone : fd[w] = file => ~overwrite[u]} \cup
                  {w \in {u} : overwrite[u] => Writers(file) = {}}
  BY <1>1 DEF OpenFile, boxVars, pageVars, Becomes, Truncates
<1>3. /\ data \in [Files -> Seq(Byte)] /\ call \in [Calls -> Labels]
      /\ fd \in [Calls -> Files \cup {NoFile}] /\ "write" \in Labels
      /\ alone \subseteq Uploads
  BY DEF FilesInv, FilesTypeOK, Labels, InProgress
<1>4. /\ call'[u] = "write" /\ \A c \in Calls \ {u} : call'[c] = call[c]
      /\ fd'[u] = file /\ \A c \in Calls \ {u} : fd'[c] = fd[c]
  BY <1>2, <1>3, CallsDistinct
<1>5. data' \in [Files -> Seq(Byte)]
  <2>1. <<>> \in Seq(Byte)
    OBVIOUS
  <2> QED
    BY <1>1, <1>2, <1>3, <2>1
<1>6. \A f \in Files : f # file => data'[f] = data[f]
  BY <1>1, <1>2, <1>3
<1>7. /\ node # u /\ data[u] = <<>> /\ pos[u] = 0
      /\ \A c \in Calls : fd[c] # u
  BY <1>2 DEF FilesInv, OpenedInv
<1>8. data'[file] = <<>>
  BY <1>1, <1>2, <1>3, <1>7
<1>9. FilesTypeOK'
  BY <1>1, <1>2, <1>3, <1>5, CallsDistinct DEF FilesInv, FilesTypeOK
<1>10. OpenedInv'
  <2>1. \A w \in Uploads : call'[w] \in {"write", "ok"} => fd'[w] \in Files
    BY <1>1, <1>4, CallsDistinct DEF FilesInv, OpenedInv
  <2>2. call'[Download] = "read" => fd'[Download] \in Files
    BY <1>4, CallsDistinct DEF FilesInv, OpenedInv
  <2>3. ASSUME NEW w \in Uploads, call'[w] \in {"new", "parents", "open"}
        PROVE  /\ node' # w /\ data'[w] = <<>> /\ pos'[w] = 0
               /\ \A c \in Calls : fd'[c] # w
    <3>1. w # u /\ call[w] \in {"new", "parents", "open"}
      BY <1>4, <2>3, CallsDistinct
    <3>2. file # w /\ data[w] = <<>> /\ pos[w] = 0 /\ \A c \in Calls : fd[c] # w
      BY <1>1, <3>1 DEF FilesInv, OpenedInv
    <3> QED
      BY <1>2, <1>4, <1>6, <3>2
  <2> QED
    BY <2>1, <2>2, <2>3 DEF OpenedInv
<1>11. AloneInv'
  <2>1. \A w \in Uploads : fd'[w] = fd[w] \/ w = u
    BY <1>4, CallsDistinct
  <2>2. \A f \in Files : f # file => Writers(f)' = Writers(f)
    BY <1>2, <1>4, CallsDistinct DEF Writers
  <2>3. Writers(file)' = Writers(file) \cup {u}
    BY <1>4, CallsDistinct DEF Writers
  <2>4. ASSUME NEW w \in alone'
        PROVE  /\ call'[w] \in {"write", "ok", "failed"}
               /\ call'[w] = "write" =>
                    Writers(fd[w])' = {w} /\ Holds(data'[fd'[w]], w, pos'[w])
               /\ call'[w] = "ok" =>
                    Writers(fd[w])' = {} /\ Holds(data'[fd'[w]], w, Size[w])
    <3>1. CASE w = u
      <4>1. Writers(file) = {}
        <5>1. CASE overwrite[u]
          BY <1>2, <2>4, <3>1, <5>1 DEF FilesInv, AloneInv
        <5>2. CASE ~overwrite[u]
          BY <1>1, <1>7, <5>2, CallsDistinct DEF Writers
        <5> QED
          BY <5>1, <5>2
      <4>2. Writers(fd[u])' = {u}
        BY <1>4, <2>3, <4>1 DEF Writers
      <4>3. Holds(data'[fd'[u]], u, pos'[u])
        BY <1>2, <1>4, <1>7, <1>8 DEF Holds
      <4> QED
        BY <1>4, <3>1, <4>2, <4>3
    <3>2. CASE w # u
      <4>1. w \in alone /\ w \in Uploads /\ fd[w] = file => ~overwrite[u]
        BY <1>2, <1>3, <2>4, <3>2
      <4>2. w \in alone /\ w \in Uploads
        BY <1>2, <1>3, <2>4, <3>2
      <4>3. fd[w] # file
        BY <1>1, <1>7, <4>1, <4>2, CallsDistinct
      <4>4. /\ call[w] \in {"write", "ok", "failed"}
            /\ call[w] = "write" => Writers(fd[w]) = {w} /\ Holds(data[fd[w]], w, pos[w])
            /\ call[w] = "ok" => Writers(fd[w]) = {} /\ Holds(data[fd[w]], w, Size[w])
        BY <4>2 DEF FilesInv, AloneInv
      <4>5. call'[w] = call[w] /\ fd'[w] = fd[w] /\ pos'[w] = pos[w]
        BY <1>2, <1>4, <3>2, <4>2, CallsDistinct
      <4>6. CASE call[w] = "failed"
        BY <4>5, <4>6
      <4>7. CASE call[w] # "failed"
        <5>1. fd[w] \in Files
          BY <4>2, <4>4, <4>7 DEF FilesInv, OpenedInv
        <5>2. data'[fd'[w]] = data[fd[w]] /\ Writers(fd[w])' = Writers(fd[w])
          BY <1>6, <2>2, <4>3, <4>5, <5>1 DEF Writers
        <5> QED
          BY <4>4, <4>5, <5>2
      <4> QED
        BY <4>6, <4>7
    <3> QED
      BY <3>1, <3>2
  <2> QED
    BY <2>4 DEF AloneInv, Holds
<1>12. PageInv'
  BY <1>2, <1>4, CallsDistinct DEF FilesInv, PageInv
<1>13. DeleteInv'
  <2>1. box \notin {"running", "paused"} => u \in overlap
    BY <1>2, CallsDistinct DEF FilesInv, DeleteInv, InProgress
  <2>2. file = u \/ file = node
    BY <1>1 DEF Opens
  <2>3. \A f \in Files : call'[f] = call[f] \/ f = u
    BY <1>4, CallsDistinct
  <2> QED
    BY <1>2, <2>1, <2>2, <2>3 DEF FilesInv, DeleteInv
<1> QED
  BY <1>9, <1>10, <1>11, <1>12, <1>13 DEF FilesInv

\* write: no upload that is alone shares its file with the one that writes.
LEMMA WriteByteInv ==
  ASSUME FilesInv, NEW u \in Uploads, WriteByte(u)
  PROVE  FilesInv'
<1>1. /\ UNCHANGED <<backend, overwrite, box, level, overlap, depth, node, call, fd,
                     limit, length, page, got, alone>>
      /\ call[u] = "write"
      /\ data' = [data EXCEPT ![fd[u]] = Put(@, u, pos[u] + 1)]
      /\ pos' = [pos EXCEPT ![u] = @ + 1]
      /\ quiet' = FALSE
  BY DEF WriteByte, boxVars, pageVars
<1>2. /\ fd[u] \in Files /\ data \in [Files -> Seq(Byte)] /\ pos \in [Uploads -> Nat]
      /\ data[fd[u]] \in Seq(Byte)
  BY <1>1 DEF FilesInv, FilesTypeOK, OpenedInv
<1>3. data'[fd[u]] = Put(data[fd[u]], u, pos[u] + 1) /\ pos'[u] = pos[u] + 1
  BY <1>1, <1>2
<1>4. data' \in [Files -> Seq(Byte)] /\ pos' \in [Uploads -> Nat]
  <2>1. Put(data[fd[u]], u, pos[u] + 1) \in Seq(Byte)
    BY <1>2, PutType
  <2> QED
    BY <1>1, <1>2, <2>1
<1>5. FilesTypeOK'
  BY <1>1, <1>4 DEF FilesInv, FilesTypeOK
<1>6. OpenedInv'
  <2>1. ASSUME NEW w \in Uploads, call[w] \in {"new", "parents", "open"}
        PROVE  data'[w] = <<>> /\ pos'[w] = 0
    <3>1. data[w] = <<>> /\ pos[w] = 0 /\ fd[u] # w /\ w # u
      BY <1>1, <2>1, CallsDistinct DEF FilesInv, OpenedInv
    <3> QED
      BY <1>1, <1>2, <3>1
  <2> QED
    BY <1>1, <2>1 DEF FilesInv, OpenedInv
<1>7. UNCHANGED <<call, fd, alone>>
  BY <1>1
<1>8. AloneInv'
  <2> SUFFICES ASSUME NEW w \in alone
               PROVE  /\ call[w] \in {"write", "ok", "failed"}
                      /\ call[w] = "write" =>
                           Writers(fd[w]) = {w} /\ Holds(data'[fd[w]], w, pos'[w])
                      /\ call[w] = "ok" =>
                           Writers(fd[w]) = {} /\ Holds(data'[fd[w]], w, Size[w])
    BY <1>7 DEF AloneInv, Holds, Writers
  <2>1. /\ w \in Uploads /\ call[w] \in {"write", "ok", "failed"}
        /\ call[w] = "write" => Writers(fd[w]) = {w} /\ Holds(data[fd[w]], w, pos[w])
        /\ call[w] = "ok" => Writers(fd[w]) = {} /\ Holds(data[fd[w]], w, Size[w])
    BY DEF FilesInv, FilesTypeOK, AloneInv
  <2>2. CASE w = u
    <3>1. Holds(Put(data[fd[u]], u, pos[u] + 1), u, pos[u] + 1)
      BY <1>1, <1>2, <2>1, <2>2, PutNext
    <3> QED
      BY <1>1, <1>3, <2>1, <2>2, <3>1
  <2>3. CASE w # u /\ call[w] # "failed"
    <3>1. fd[w] \in Files
      BY <2>1, <2>3 DEF FilesInv, OpenedInv
    <3>2. u \in Writers(fd[u])
      BY <1>1 DEF Writers
    <3>3. fd[w] # fd[u]
      BY <2>1, <2>3, <3>2
    <3>4. data'[fd[w]] = data[fd[w]] /\ pos'[w] = pos[w]
      BY <1>1, <1>2, <2>1, <2>3, <3>1, <3>3
    <3> QED
      BY <2>1, <3>4
  <2> QED
    BY <2>1, <2>2, <2>3
<1>9. PageInv'
  BY <1>1 DEF FilesInv, PageInv
<1>10. DeleteInv'
  BY <1>1 DEF FilesInv, DeleteInv
<1> QED
  BY <1>5, <1>6, <1>8, <1>9, <1>10 DEF FilesInv

\* The upload ends: with all its bytes written if it says ok.
LEMMA WriteEndsInv ==
  ASSUME FilesInv, NEW u \in Uploads, WriteEnds(u)
  PROVE  FilesInv'
<1>1. /\ UNCHANGED <<backend, overwrite, box, level, overlap, depth, node, data, fd,
                     limit, length, page, got, quiet>>
      /\ call[u] = "write"
      /\ pos' = [pos EXCEPT ![u] = 0]
      /\ \/ pos[u] = Size[u] /\ call' = [call EXCEPT ![u] = "ok"] /\ alone' = alone
         \/ call' = [call EXCEPT ![u] = "failed"] /\ alone' = alone \ {u}
  BY DEF WriteEnds, boxVars, fileVars, pageVars, Becomes
<1>2. /\ call \in [Calls -> Labels] /\ pos \in [Uploads -> Nat]
      /\ {"ok", "failed"} \subseteq Labels
  BY DEF FilesInv, FilesTypeOK, Labels, Finished
<1>3. /\ call'[u] \in {"ok", "failed"} /\ \A c \in Calls \ {u} : call'[c] = call[c]
      /\ \A w \in Uploads \ {u} : pos'[w] = pos[w]
  BY <1>1, <1>2, CallsDistinct
<1>4. FilesTypeOK'
  BY <1>1, <1>2 DEF FilesInv, FilesTypeOK
<1>5. OpenedInv'
  BY <1>1, <1>3, CallsDistinct DEF FilesInv, OpenedInv
<1>6. AloneInv'
  <2> SUFFICES ASSUME NEW w \in alone'
               PROVE  /\ call'[w] \in {"write", "ok", "failed"}
                      /\ call'[w] = "write" =>
                           Writers(fd[w])' = {w} /\ Holds(data[fd[w]], w, pos'[w])
                      /\ call'[w] = "ok" =>
                           Writers(fd[w])' = {} /\ Holds(data[fd[w]], w, Size[w])
    BY <1>1 DEF AloneInv, Holds, Writers
  <2>1. /\ w \in alone
        /\ w \in Uploads /\ call[w] \in {"write", "ok", "failed"}
        /\ call[w] = "write" => Writers(fd[w]) = {w} /\ Holds(data[fd[w]], w, pos[w])
        /\ call[w] = "ok" => Writers(fd[w]) = {} /\ Holds(data[fd[w]], w, Size[w])
    BY <1>1 DEF FilesInv, FilesTypeOK, AloneInv
  <2>2. Writers(fd[w])' = Writers(fd[w]) \ {u}
    BY <1>1, <1>3, CallsDistinct DEF Writers
  <2>3. CASE w = u
    <3>1. pos[u] = Size[u] /\ call'[u] = "ok"
      BY <1>1, <1>2, <2>3, CallsDistinct
    <3> QED
      BY <1>1, <2>1, <2>2, <2>3, <3>1
  <2>4. CASE w # u
    BY <1>3, <2>1, <2>2, <2>4, CallsDistinct
  <2> QED
    BY <2>3, <2>4
<1>7. PageInv'
  BY <1>1, <1>3, CallsDistinct DEF FilesInv, PageInv, BeginsWith
<1>8. DeleteInv'
  <2>1. \A f \in Files : call'[f] \in InProgress => call[f] \in InProgress
    BY <1>3, CallsDistinct DEF InProgress
  <2> QED
    BY <1>1, <2>1 DEF FilesInv, DeleteInv
<1> QED
  BY <1>4, <1>5, <1>6, <1>7, <1>8 DEF FilesInv
-----------------------------------------------------------------------------
(***************************************************************************)
(* The download.                                                           *)
(***************************************************************************)
(***************************************************************************)
(* A step of the download that leaves the files and the uploads alone      *)
(* keeps the invariant if the page it leaves behind is right.              *)
(***************************************************************************)
LEMMA DownloadFrame ==
  ASSUME FilesInv, UNCHANGED <<boxVars, fileVars, pos, alone>>,
         NEW label \in Labels, Becomes(Download, label),
         NEW f \in Files \cup {NoFile}, fd' = [fd EXCEPT ![Download] = f],
         label = "read" => f \in Files, f # NoFile => f = fd[Download] \/ f = node,
         limit' \in Nat, length' \in Nat, page' \in Seq(Byte), got' \in Seq(Byte),
         quiet' \in BOOLEAN, PageInv'
  PROVE  FilesInv'
<1>1. UNCHANGED <<backend, overwrite, box, level, overlap, depth, node, data, pos, alone>>
  BY DEF boxVars, fileVars
<1>2. /\ call' = [call EXCEPT ![Download] = label] /\ call \in [Calls -> Labels]
      /\ fd \in [Calls -> Files \cup {NoFile}]
  BY DEF Becomes, FilesInv, FilesTypeOK
<1>3. /\ call'[Download] = label /\ \A c \in Calls \ {Download} : call'[c] = call[c]
      /\ fd'[Download] = f /\ \A c \in Calls \ {Download} : fd'[c] = fd[c]
  BY <1>2, CallsDistinct
<1>4. FilesTypeOK'
  BY <1>1, <1>2, CallsDistinct DEF FilesInv, FilesTypeOK
<1>5. OpenedInv'
  <2>1. ASSUME NEW u \in Uploads, call'[u] \in {"new", "parents", "open"}
        PROVE  /\ node # u /\ data[u] = <<>> /\ pos[u] = 0
               /\ \A c \in Calls : fd'[c] # u
    <3>1. call[u] \in {"new", "parents", "open"}
      BY <1>3, <2>1, CallsDistinct
    <3>2. /\ node # u /\ data[u] = <<>> /\ pos[u] = 0
          /\ \A c \in Calls : fd[c] # u
      BY <3>1 DEF FilesInv, OpenedInv
    <3>3. f # u
      BY <3>2, CallsDistinct
    <3> QED
      BY <1>3, <3>2, <3>3
  <2>2. \A u \in Uploads : call'[u] \in {"write", "ok"} => fd'[u] \in Files
    BY <1>3, CallsDistinct DEF FilesInv, OpenedInv
  <2> QED
    BY <1>1, <1>3, <2>1, <2>2 DEF OpenedInv
<1>6. AloneInv'
  <2>1. \A u \in Uploads : call'[u] = call[u] /\ fd'[u] = fd[u]
    BY <1>3, CallsDistinct
  <2>2. ASSUME NEW u \in alone
        PROVE  /\ call'[u] \in {"write", "ok", "failed"}
               /\ call'[u] = "write" =>
                    Writers(fd[u])' = {u} /\ Holds(data'[fd'[u]], u, pos'[u])
               /\ call'[u] = "ok" =>
                    Writers(fd[u])' = {} /\ Holds(data'[fd'[u]], u, Size[u])
    <3>1. u \in Uploads
      BY DEF FilesInv, FilesTypeOK
    <3>2. Writers(fd[u])' = Writers(fd[u])
      BY <2>1, <3>1 DEF Writers
    <3> QED
      BY <1>1, <2>1, <3>1, <3>2 DEF FilesInv, AloneInv
  <2> QED
    BY <1>1, <2>2 DEF AloneInv, Holds
<1>7. DeleteInv'
  <2>1. \A g \in Files : call'[g] = call[g]
    BY <1>3, CallsDistinct
  <2> QED
    BY <1>1, <2>1 DEF FilesInv, DeleteInv
<1> QED
  BY <1>4, <1>5, <1>6, <1>7 DEF FilesInv

\* A sequence and what is appended to it.
LEMMA Appended ==
  ASSUME NEW seq \in Seq(Byte), NEW more \in Seq(Byte)
  PROVE  /\ seq \o more \in Seq(Byte) /\ Len(seq \o more) = Len(seq) + Len(more)
         /\ \A i \in 1..Len(seq) : (seq \o more)[i] = seq[i]
         /\ \A k \in 1..Len(more) : (seq \o more)[Len(seq) + k] = more[k]
<1>1. seq \o more \in Seq(Byte)
  OBVIOUS
<1>2. Len(seq \o more) = Len(seq) + Len(more)
  OBVIOUS
<1>3. \A i \in 1..Len(seq) : (seq \o more)[i] = seq[i]
  OBVIOUS
<1>4. \A k \in 1..Len(more) : (seq \o more)[Len(seq) + k] = more[k]
  OBVIOUS
<1> QED
  BY <1>1, <1>2, <1>3, <1>4

\* What is read joins the page as it joins all that the client has.
LEMMA JoinPage ==
  ASSUME FilesInv, NEW piece \in Seq(Byte)
  PROVE  got \o (page \o piece) = (got \o page) \o piece
<1>1. PICK a \in Seq(Byte), b \in Seq(Byte) : a = got /\ b = page
  BY DEF FilesInv, FilesTypeOK
<1>2. (a \o b) \o piece = a \o (b \o piece)
  BY ConcatAssociative
<1> QED
  BY <1>1, <1>2, Zenon

\* The empty page, appended to what the client has.
LEMMA EmptyPage ==
  ASSUME NEW seq \in Seq(Byte)
  PROVE  seq \o <<>> = seq
  OBVIOUS

\* A page begins: the file's length is read.
LEMMA StartPageInv ==
  ASSUME FilesInv, StartPage
  PROVE  FilesInv'
<1>1. /\ UNCHANGED <<boxVars, fileVars, fd, pos, page, got, alone>>
      /\ call[Download] = "new" /\ box \in {"running", "paused"}
      /\ quiet' = IF got = <<>> THEN \A u \in Uploads : call[u] # "write" ELSE quiet
  BY DEF StartPage, Found
<1>2. UNCHANGED <<box, node, data>> /\ fd' = [fd EXCEPT ![Download] = fd[Download]]
  BY <1>1 DEF boxVars, fileVars, FilesInv, FilesTypeOK
<1>3. /\ call \in [Calls -> Labels] /\ {"opening", "failed"} \subseteq Labels
      /\ fd[Download] \in Files \cup {NoFile} /\ data \in [Files -> Seq(Byte)]
      /\ page = <<>> /\ page \in Seq(Byte) /\ got \in Seq(Byte)
      /\ quiet \in BOOLEAN /\ limit \in Nat /\ length \in Nat
  BY <1>1, CallsDistinct DEF FilesInv, FilesTypeOK, PageInv, Labels, Finished
<1>4. quiet' \in BOOLEAN
  BY <1>1, <1>3
<1>5. quiet' => \A u \in Uploads : call[u] # "write"
  BY <1>1 DEF FilesInv, PageInv
<1>6. CASE Exists /\ (\E n \in 1..MaxLimit : limit' = n) /\ length' = Len(data[node])
              /\ Becomes(Download, "opening")
  <2>1. node \in Files /\ data[node] \in Seq(Byte)
    BY <1>3, <1>6 DEF Exists, FilesInv, FilesTypeOK
  <2>2. limit' \in Nat /\ limit' > 0 /\ length' \in Nat
    BY <1>6, <2>1, FilesAssumption, SeqElements
  <2>3. call'[Download] = "opening" /\ \A u \in Uploads : call'[u] = call[u]
    BY <1>3, <1>6, CallsDistinct DEF Becomes
  <2>4. quiet' => BeginsWith(data[node], got)
    <3>1. CASE got = <<>>
      BY <2>1, <3>1, SeqElements DEF BeginsWith
    <3>2. CASE got # <<>>
      BY <1>1, <3>2 DEF FilesInv, PageInv
    <3> QED
      BY <3>1, <3>2
  <2>5. got' \o page' = got
    BY <1>1, <1>3, EmptyPage
  <2>6. quiet' => BeginsWith(data[node]', (got \o page)')
    BY <1>2, <2>4, <2>5
  <2>7. PageInv'
    BY <1>1, <1>2, <1>3, <1>5, <1>6, <2>1, <2>2, <2>3, <2>6, CallsDistinct DEF PageInv
  <2>8. page' \in Seq(Byte) /\ got' \in Seq(Byte)
    BY <1>1, <1>3
  <2> QED
    BY <1>1, <1>2, <1>3, <1>4, <1>6, <2>2, <2>7, <2>8, DownloadFrame
<1>7. CASE Becomes(Download, "failed") /\ UNCHANGED <<limit, length>>
  <2>1. call'[Download] = "failed" /\ \A u \in Uploads : call'[u] = call[u]
    BY <1>3, <1>7, CallsDistinct DEF Becomes
  <2>2. PageInv'
    BY <1>1, <1>2, <1>5, <2>1 DEF PageInv
  <2>3. page' \in Seq(Byte) /\ got' \in Seq(Byte) /\ limit' \in Nat /\ length' \in Nat
    BY <1>1, <1>3, <1>7
  <2> QED
    BY <1>1, <1>2, <1>3, <1>4, <1>7, <2>2, <2>3, DownloadFrame
<1> QED
  BY <1>6, <1>7 DEF StartPage

\* The file is opened: while it is quiet, it is the one whose length was read.
LEMMA OpenToReadInv ==
  ASSUME FilesInv, OpenToRead
  PROVE  FilesInv'
<1>1. /\ UNCHANGED <<boxVars, fileVars, pos, pageVars, quiet, alone>>
      /\ call[Download] = "opening"
  BY DEF OpenToRead
<1>2. UNCHANGED <<box, node, data, limit, length, page, got, quiet>>
  BY <1>1 DEF boxVars, fileVars, pageVars
<1>3. /\ call \in [Calls -> Labels] /\ {"read", "failed"} \subseteq Labels
      /\ fd \in [Calls -> Files \cup {NoFile}] /\ fd[Download] \in Files \cup {NoFile}
      /\ page = <<>> /\ page \in Seq(Byte) /\ got \in Seq(Byte)
      /\ quiet \in BOOLEAN /\ limit \in Nat /\ length \in Nat /\ limit > 0
  BY <1>1, CallsDistinct DEF FilesInv, FilesTypeOK, PageInv, Labels, Finished
<1>4. /\ page' \in Seq(Byte) /\ got' \in Seq(Byte) /\ limit' \in Nat /\ length' \in Nat
      /\ quiet' \in BOOLEAN
  BY <1>2, <1>3
<1>5. CASE Exists /\ fd' = [fd EXCEPT ![Download] = node] /\ Becomes(Download, "read")
  <2>1. node \in Files
    BY <1>5 DEF Exists, FilesInv, FilesTypeOK
  <2>2. /\ call'[Download] = "read" /\ \A u \in Uploads : call'[u] = call[u]
        /\ fd'[Download] = node
    BY <1>3, <1>5, CallsDistinct DEF Becomes
  <2>3. Len(page) = 0
    BY <1>3
  <2>4. PageInv'
    BY <1>1, <1>2, <1>3, <2>2, <2>3 DEF FilesInv, PageInv, BeginsWith
  <2> QED
    BY <1>1, <1>3, <1>4, <1>5, <2>1, <2>4, DownloadFrame
<1>6. CASE Becomes(Download, "failed") /\ UNCHANGED fd
  <2>1. call'[Download] = "failed" /\ \A u \in Uploads : call'[u] = call[u]
    BY <1>3, <1>6, CallsDistinct DEF Becomes
  <2>2. fd' = [fd EXCEPT ![Download] = fd[Download]]
    BY <1>3, <1>6
  <2>3. PageInv'
    BY <1>2, <2>1 DEF FilesInv, PageInv
  <2> QED
    BY <1>1, <1>3, <1>4, <1>6, <2>2, <2>3, DownloadFrame
<1> QED
  BY <1>5, <1>6 DEF OpenToRead

(***************************************************************************)
(* What one read gives: no more than the page has room for, and, where the *)
(* file is as long as what was read, the bytes behind that; it is empty    *)
(* only at the end of the file.                                            *)
(***************************************************************************)
LEMMA PieceFacts ==
  ASSUME FilesInv, call[Download] = "read",
         NEW bytes, bytes = data[fd[Download]], NEW from, from = Len(got) + Len(page)
  PROVE  /\ Piece \in Seq(Byte) /\ Len(page) + Len(Piece) <= limit
         /\ from <= Len(bytes) =>
              /\ from + Len(Piece) <= Len(bytes)
              /\ \A k \in 1..Len(Piece) : Piece[k] = bytes[from + k]
              /\ Len(Piece) = 0 => from = Len(bytes)
<1>1. /\ bytes \in Seq(Byte) /\ got \in Seq(Byte) /\ page \in Seq(Byte)
      /\ limit \in Nat /\ Len(page) < limit
  BY DEF FilesInv, FilesTypeOK, OpenedInv, PageInv
<1>2. /\ Len(bytes) \in Nat /\ Len(page) \in Nat /\ Len(got) \in Nat /\ from \in Nat
      /\ \A i \in 1..Len(bytes) : bytes[i] \in Byte
  BY <1>1, SeqElements
<1>3. PICK room \in 1..(limit - Len(page)) : room = Smaller(Chunk, limit - Len(page))
  BY <1>1, <1>2, FilesAssumption DEF Smaller
<1>4. PICK end \in Nat : end = Smaller(from + room, Len(bytes))
  <2>1. room \in Nat /\ from + room \in Nat
    BY <1>1, <1>2, <1>3
  <2> QED
    BY <1>2, <2>1 DEF Smaller
<1>5. end <= from + room /\ end <= Len(bytes) /\ (end = from + room \/ end = Len(bytes))
  <2>1. room \in Nat /\ from + room \in Nat
    BY <1>1, <1>2, <1>3
  <2> QED
    BY <1>2, <1>4, <2>1 DEF Smaller
<1>6. Piece = SubSeq(bytes, from + 1, end)
  BY <1>3, <1>4 DEF Piece
<1>7. \A i \in from + 1 .. end : bytes[i] \in Byte
  BY <1>2, <1>5
<1>8. /\ Piece \in Seq(Byte)
      /\ Len(Piece) = IF from + 1 <= end THEN end - (from + 1) + 1 ELSE 0
      /\ \A k \in 1 .. end - (from + 1) + 1 : Piece[k] = bytes[from + 1 + k - 1]
  <2>1. from + 1 \in Int /\ end \in Int
    BY <1>2, <1>4
  <2>2. /\ SubSeq(bytes, from + 1, end) \in Seq(Byte)
        /\ Len(SubSeq(bytes, from + 1, end)) =
             IF from + 1 <= end THEN end - (from + 1) + 1 ELSE 0
        /\ \A k \in 1 .. end - (from + 1) + 1 :
             SubSeq(bytes, from + 1, end)[k] = bytes[from + 1 + k - 1]
    BY <1>7, <2>1, SubSeqProperties
  <2> QED
    BY <1>6, <2>2
<1>9. Len(page) + Len(Piece) <= limit
  <2>1. room \in Nat /\ Len(page) + room <= limit
    BY <1>1, <1>2, <1>3
  <2>2. Len(Piece) = 0 \/ Len(Piece) = end - from
    BY <1>2, <1>8
  <2>3. Len(Piece) \in Nat /\ Len(Piece) <= room
    BY <1>2, <1>5, <2>1, <2>2, <1>8, SeqElements
  <2> QED
    BY <1>1, <1>2, <2>1, <2>3
<1>10. ASSUME from <= Len(bytes)
       PROVE  /\ from + Len(Piece) <= Len(bytes)
              /\ \A k \in 1..Len(Piece) : Piece[k] = bytes[from + k]
              /\ Len(Piece) = 0 => from = Len(bytes)
  <2>1. from <= end /\ Len(Piece) = end - from
    BY <1>2, <1>3, <1>5, <1>8, <1>10
  <2>2. ASSUME NEW k \in 1..Len(Piece)
        PROVE  Piece[k] = bytes[from + k]
    <3>1. k \in 1 .. end - (from + 1) + 1 /\ from + 1 + k - 1 = from + k
      BY <1>2, <2>1
    <3> QED
      BY <1>8, <3>1
  <2>3. Len(Piece) = 0 => from = Len(bytes)
    BY <1>2, <1>3, <1>5, <2>1
  <2>4. from + Len(Piece) <= Len(bytes)
    BY <1>2, <1>5, <2>1
  <2> QED
    BY <2>2, <2>3, <2>4
<1> QED
  BY <1>8, <1>9, <1>10

(***************************************************************************)
(* A read.  While the file is quiet, what the client has is its beginning; *)
(* the answer that says it is the last is given at the length of the file, *)
(* whichever of the backends' two conditions ended the page.               *)
(***************************************************************************)
LEMMA ReadPieceInv ==
  ASSUME FilesInv, ReadPiece
  PROVE  FilesInv'
<1>1. PICK piece \in Seq(Byte) : piece = Piece
  BY PieceFacts DEF ReadPiece
<1>2. /\ UNCHANGED <<boxVars, fileVars, fd, pos, quiet, alone>>
      /\ call[Download] = "read"
      /\ IF LastRead(piece)
         THEN /\ got' = got \o page \o piece
              /\ page' = <<>> /\ limit' = 0 /\ length' = 0
              /\ Becomes(Download, IF Eof(piece) THEN "ok" ELSE "new")
         ELSE /\ page' = page \o piece
              /\ UNCHANGED <<call, got, limit, length>>
  BY <1>1 DEF ReadPiece
<1>3. UNCHANGED <<box, node, data>>
  BY <1>2 DEF boxVars, fileVars
<1>4. /\ call \in [Calls -> Labels] /\ {"ok", "new", "read"} \subseteq Labels
      /\ fd \in [Calls -> Files \cup {NoFile}] /\ fd[Download] \in Files
      /\ page \in Seq(Byte) /\ got \in Seq(Byte) /\ data[fd[Download]] \in Seq(Byte)
      /\ quiet \in BOOLEAN /\ limit \in Nat /\ length \in Nat
  BY <1>2, CallsDistinct DEF FilesInv, FilesTypeOK, OpenedInv, Labels, Finished
<1>5. PICK bytes \in Seq(Byte) : bytes = data[fd[Download]]
  BY <1>4
<1>6. PICK from \in Nat : from = Len(got) + Len(page)
  BY <1>4, SeqElements
<1>7. /\ piece \in Seq(Byte) /\ Len(page) + Len(piece) <= limit
      /\ from <= Len(bytes) =>
           /\ from + Len(piece) <= Len(bytes)
           /\ \A k \in 1..Len(piece) : piece[k] = bytes[from + k]
           /\ Len(piece) = 0 => from = Len(bytes)
  BY <1>1, <1>2, <1>5, <1>6, PieceFacts
<1>8. /\ Len(bytes) \in Nat /\ Len(piece) \in Nat /\ Len(page) \in Nat /\ Len(got) \in Nat
  BY <1>4, <1>5, <1>7, SeqElements
<1>9. PICK sofar \in Seq(Byte) :
        /\ sofar = got \o page /\ Len(sofar) = from
  <2>1. got \o page \in Seq(Byte)
    BY <1>4
  <2>2. Len(got \o page) = Len(got) + Len(page)
    BY <1>4
  <2> QED
    BY <1>6, <2>1, <2>2
<1>10. PICK all \in Seq(Byte) :
         /\ all = sofar \o piece /\ Len(all) = from + Len(piece)
         /\ \A i \in 1..from : all[i] = sofar[i]
         /\ \A k \in 1..Len(piece) : all[from + k] = piece[k]
  <2>1. Len(sofar) = from
    BY <1>9
  <2>2. /\ sofar \o piece \in Seq(Byte) /\ Len(sofar \o piece) = Len(sofar) + Len(piece)
        /\ \A i \in 1..Len(sofar) : (sofar \o piece)[i] = sofar[i]
        /\ \A k \in 1..Len(piece) : (sofar \o piece)[Len(sofar) + k] = piece[k]
    BY Appended
  <2>3. PICK all \in Seq(Byte) : all = sofar \o piece
    BY <2>2
  <2> QED
    BY <2>1, <2>2, <2>3
<1>11. ASSUME quiet
       PROVE  /\ node = fd[Download] /\ length = Len(bytes) /\ BeginsWith(bytes, sofar)
              /\ box \in {"running", "paused"} /\ \A u \in Uploads : call[u] # "write"
  BY <1>2, <1>5, <1>9, <1>11 DEF FilesInv, PageInv
<1>12. quiet => BeginsWith(bytes, all)
  <2> SUFFICES ASSUME quiet
               PROVE  BeginsWith(bytes, all)
    OBVIOUS
  <2>1. from <= Len(bytes) /\ \A i \in 1..from : sofar[i] = bytes[i]
    BY <1>9, <1>11 DEF BeginsWith
  <2>2. ASSUME NEW i \in 1..Len(all)
        PROVE  all[i] = bytes[i]
    <3>1. CASE i <= from
      BY <1>6, <1>10, <2>1, <3>1
    <3>2. CASE i > from
      <4>1. i - from \in 1..Len(piece) /\ from + (i - from) = i
        BY <1>6, <1>8, <1>10, <3>2
      <4> QED
        BY <1>7, <1>10, <2>1, <4>1
    <3> QED
      BY <1>6, <1>8, <1>10, <3>1, <3>2
  <2> QED
    BY <1>7, <1>10, <2>1, <2>2 DEF BeginsWith
<1>13. \A u \in Uploads : Becomes(Download, "ok") \/ Becomes(Download, "new")
         \/ UNCHANGED call => call'[u] = call[u]
  BY <1>4, CallsDistinct DEF Becomes
<1>14. fd' = [fd EXCEPT ![Download] = fd[Download]]
  BY <1>2, <1>4
<1>15. CASE LastRead(piece)
  <2>1. /\ got' = all /\ page' = <<>> /\ limit' = 0 /\ length' = 0
        /\ Becomes(Download, IF Eof(piece) THEN "ok" ELSE "new")
    BY <1>2, <1>9, <1>10, <1>15
  <2>2. /\ call'[Download] = IF Eof(piece) THEN "ok" ELSE "new"
        /\ \A u \in Uploads : call'[u] = call[u]
    BY <1>4, <2>1, CallsDistinct DEF Becomes
  <2>3. ASSUME quiet, Eof(piece)
        PROVE  all = bytes
    <3>1. BeginsWith(bytes, all) /\ length = Len(bytes) /\ from <= Len(bytes)
      BY <1>9, <1>11, <1>12, <2>3 DEF BeginsWith
    <3>2. Len(page \o piece) = Len(page) + Len(piece)
      BY <1>4, <1>7
    <3>3. Len(all) = Len(bytes)
      <4>1. CASE AtEnd(page \o piece)
        BY <1>6, <1>7, <1>8, <1>10, <3>1, <3>2, <4>1 DEF AtEnd
      <4>2. CASE piece = <<>>
        BY <1>7, <1>8, <1>10, <3>1, <4>2, SeqElements
      <4> QED
        BY <2>3, <4>1, <4>2 DEF Eof
    <3>4. \A i \in 1..Len(all) : all[i] = bytes[i]
      BY <3>1 DEF BeginsWith
    <3> QED
      BY <1>5, <1>10, <3>3, <3>4, SeqEqual
  <2>4. PageInv'
    BY <1>2, <1>3, <1>4, <1>5, <1>11, <1>12, <2>1, <2>2, <2>3 DEF PageInv, BeginsWith
  <2>5. (IF Eof(piece) THEN "ok" ELSE "new") \in {"ok", "new"}
    OBVIOUS
  <2>6. /\ page' \in Seq(Byte) /\ got' \in Seq(Byte) /\ limit' \in Nat /\ length' \in Nat
        /\ quiet' \in BOOLEAN
    BY <1>2, <1>4, <1>10, <2>1
  <2>7. PICK label \in {"ok", "new"} : Becomes(Download, label)
    BY <2>1, <2>5
  <2>8. label \in Labels /\ label # "read"
    BY <1>4
  <2> QED
    BY <1>2, <1>4, <1>14, <2>4, <2>6, <2>7, <2>8, DownloadFrame
<1>16. CASE ~LastRead(piece)
  <2>1. page' = page \o piece /\ UNCHANGED <<call, got, limit, length>>
    BY <1>2, <1>16
  <2>2. page \o piece \in Seq(Byte) /\ Len(page \o piece) = Len(page) + Len(piece)
    BY <1>4, <1>7
  <2>3. Len(page) + Len(piece) < limit
    <3>1. Len(page) + Len(piece) # limit
      BY <1>16 DEF LastRead
    <3>2. Len(page) + Len(piece) <= limit /\ limit \in Nat
      BY <1>4, <1>7
    <3>3. PICK n \in Nat : n = Len(page) + Len(piece)
      BY <1>8
    <3> QED
      BY <3>1, <3>2, <3>3
  <2>4. got \o (page \o piece) = all
    <3>1. got \o (page \o piece) = (got \o page) \o piece
      BY JoinPage, Zenon
    <3>2. all = sofar \o piece /\ sofar = got \o page
      BY <1>9, <1>10
    <3> QED
      BY <3>1, <3>2, Zenon
  <2>5. PageInv'
    <3>1. quiet' => BeginsWith(data[node], got \o page)'
      BY <1>2, <1>3, <1>5, <1>11, <1>12, <2>1, <2>4
    <3> QED
      BY <1>2, <1>3, <1>4, <1>5, <1>11, <2>1, <2>2, <2>3, <3>1 DEF PageInv
  <2>6. Becomes(Download, "read")
    BY <1>2, <1>4, <2>1 DEF Becomes
  <2>7. /\ page' \in Seq(Byte) /\ got' \in Seq(Byte) /\ limit' \in Nat /\ length' \in Nat
        /\ quiet' \in BOOLEAN
    BY <1>2, <1>4, <2>1, <2>2
  <2> QED
    BY <1>2, <1>4, <1>14, <2>5, <2>6, <2>7, DownloadFrame
<1> QED
  BY <1>15, <1>16
-----------------------------------------------------------------------------
(***************************************************************************)
(* The sandbox: the steps that move no call and write no bytes.            *)
(***************************************************************************)
\* Such a step keeps the invariant if it fits the page and the deletion.
LEMMA BoxFrame ==
  ASSUME FilesInv, UNCHANGED <<backend, overwrite, data, call, fd, pos, pageVars, alone>>,
         box' \in {"running", "paused", "deleting", "gone", "stuck"},
         depth' \in 0..Whole, level' \in 0..Whole + 1, overlap' \in SUBSET Files,
         node' \in {node, NoFile}, quiet' \in BOOLEAN,
         quiet' => quiet /\ box' \in {"running", "paused"} /\ node' = node,
         DeleteInv'
  PROVE  FilesInv'
<1>1. UNCHANGED <<backend, overwrite, data, call, fd, pos, limit, length, page, got, alone>>
  BY DEF pageVars
<1>2. FilesTypeOK'
  BY <1>1 DEF FilesInv, FilesTypeOK
<1>3. OpenedInv'
  BY <1>1, CallsDistinct DEF FilesInv, OpenedInv
<1>4. AloneInv'
  BY <1>1 DEF FilesInv, AloneInv, Writers, Holds
<1>5. PageInv'
  BY <1>1 DEF FilesInv, PageInv, BeginsWith
<1> QED
  BY <1>2, <1>3, <1>4, <1>5 DEF FilesInv

\* The sandbox is paused or resumed.
LEMMA PauseInv ==
  ASSUME FilesInv, Pause \/ Resume
  PROVE  FilesInv'
<1>1. /\ UNCHANGED <<backend, overwrite, data, call, fd, pos, pageVars, alone>>
      /\ UNCHANGED <<depth, level, overlap, node, quiet>>
      /\ box' \in {"running", "paused"} /\ box \in {"running", "paused"}
  BY DEF Pause, Resume, fileVars
<1>2. /\ depth \in 0..Whole /\ level \in 0..Whole + 1 /\ overlap \in SUBSET Files
      /\ quiet \in BOOLEAN
  BY DEF FilesInv, FilesTypeOK
<1>3. DeleteInv'
  BY <1>1 DEF FilesInv, DeleteInv
<1> QED
  BY <1>1, <1>2, <1>3, BoxFrame

(***************************************************************************)
(* A command makes a directory: while it runs, the deletion claims nothing *)
(* of the directories.                                                     *)
(***************************************************************************)
LEMMA CommandMakesDirInv ==
  ASSUME FilesInv, CommandMakesDir
  PROVE  FilesInv'
<1>1. /\ call[Execute] = "running" /\ depth # Whole /\ depth' = depth + 1
      /\ UNCHANGED <<boxVars, node, data, call>>
      /\ UNCHANGED <<fd, pos, pageVars, quiet, alone>>
  BY DEF CommandMakesDir, Resolves
<1>2. depth' \in 0..Whole
  BY <1>1 DEF FilesInv, FilesTypeOK, Whole
<1>3. DeleteInv'
  <2>1. UNCHANGED <<box, level, overlap>>
    BY <1>1 DEF boxVars
  <2>2. box \notin {"running", "paused"} /\ Execute \in overlap
    BY <1>1, CallsDistinct DEF FilesInv, DeleteInv, InProgress
  <2> QED
    BY <1>1, <2>1, <2>2 DEF FilesInv, DeleteInv
<1>4. "running" \in Labels /\ Becomes(Execute, "running")
  BY <1>1 DEF Labels, InProgress, Becomes, FilesInv, FilesTypeOK
<1> QED
  BY <1>1, <1>2, <1>3, <1>4, CallsDistinct, LabelInv

(***************************************************************************)
(* A command changes the file: whoever had it open is not alone any more,  *)
(* and a file it creates during a deletion is one of a call in progress.   *)
(***************************************************************************)
LEMMA CommandChangesInv ==
  ASSUME FilesInv, CommandRemoves \/ CommandWrites
  PROVE  FilesInv'
<1>1. PICK file \in Files : file = Opens(Execute)
  BY CallsDistinct DEF Opens, FilesInv, FilesTypeOK
<1>2. /\ UNCHANGED <<backend, overwrite, box, level, overlap, depth, fd, pos,
                     limit, length, page, got>>
      /\ call[Execute] = "running" /\ call' = [call EXCEPT ![Execute] = "ok"]
      /\ quiet' = FALSE
      /\ \/ node' = NoFile /\ UNCHANGED <<data, alone>>
         \/ /\ node' = file
            /\ data' = [data EXCEPT ![file] = <<>>]
            /\ alone' = {u \in alone : fd[u] # file}
  BY <1>1 DEF CommandRemoves, CommandWrites, boxVars, pageVars, Becomes
<1>3. /\ call \in [Calls -> Labels] /\ "ok" \in Labels /\ <<>> \in Seq(Byte)
      /\ data \in [Files -> Seq(Byte)] /\ alone \subseteq Uploads
  BY DEF FilesInv, FilesTypeOK, Labels, Finished
<1>4. /\ call'[Execute] = "ok" /\ \A c \in Calls \ {Execute} : call'[c] = call[c]
      /\ \A u \in Uploads : call'[u] = call[u]
  BY <1>2, <1>3, CallsDistinct
<1>5. /\ data' \in [Files -> Seq(Byte)]
      /\ \A f \in Files : data'[f] = data[f] \/ (f = file /\ data'[f] = <<>>)
  BY <1>2, <1>3
<1>6. alone' \subseteq alone /\ \A u \in alone' : fd[u] \in Files => data'[fd[u]] = data[fd[u]]
  BY <1>2, <1>3
<1>7. FilesTypeOK'
  BY <1>1, <1>2, <1>3, <1>5, <1>6 DEF FilesInv, FilesTypeOK
<1>8. OpenedInv'
  <2>1. ASSUME NEW u \in Uploads, call[u] \in {"new", "parents", "open"}
        PROVE  node' # u /\ data'[u] = <<>>
    <3>1. node # u /\ data[u] = <<>>
      BY <2>1 DEF FilesInv, OpenedInv
    <3>2. file # u
      BY <1>1, <3>1, CallsDistinct DEF Opens
    <3> QED
      BY <1>2, <1>5, <3>1, <3>2, CallsDistinct
  <2> QED
    BY <1>2, <1>4, <2>1, CallsDistinct DEF FilesInv, OpenedInv
<1>9. AloneInv'
  <2> SUFFICES ASSUME NEW u \in alone'
               PROVE  /\ call'[u] \in {"write", "ok", "failed"}
                      /\ call'[u] = "write" =>
                           Writers(fd[u])' = {u} /\ Holds(data'[fd[u]], u, pos[u])
                      /\ call'[u] = "ok" =>
                           Writers(fd[u])' = {} /\ Holds(data'[fd[u]], u, Size[u])
    BY <1>2 DEF AloneInv, Holds, Writers
  <2>1. u \in alone /\ u \in Uploads /\ call'[u] = call[u]
    BY <1>3, <1>4, <1>6
  <2>2. Writers(fd[u])' = Writers(fd[u])
    BY <1>2, <1>4 DEF Writers
  <2>3. call[u] \in {"write", "ok"} => data'[fd[u]] = data[fd[u]]
    BY <1>6, <2>1 DEF FilesInv, OpenedInv
  <2> QED
    BY <2>1, <2>2, <2>3 DEF FilesInv, AloneInv
<1>10. PageInv'
  BY <1>2, <1>4, CallsDistinct DEF FilesInv, PageInv
<1>11. DeleteInv'
  <2>1. \A f \in Files : call'[f] \in InProgress => call[f] \in InProgress
    BY <1>4, CallsDistinct DEF InProgress
  <2>2. /\ box \notin {"running", "paused"} => Execute \in overlap
        /\ node' \in {NoFile, Execute, node}
    BY <1>1, <1>2, CallsDistinct DEF FilesInv, DeleteInv, InProgress, Opens
  <2> QED
    BY <1>2, <2>1, <2>2 DEF FilesInv, DeleteInv
<1> QED
  BY <1>7, <1>8, <1>9, <1>10, <1>11 DEF FilesInv

\* delete: the record leaves the table, and a microVM goes with its files.
LEMMA StartDeleteInv ==
  ASSUME FilesInv, StartDelete
  PROVE  FilesInv'
<1>1. /\ UNCHANGED <<backend, overwrite, data, call, fd, pos, pageVars, alone, level>>
      /\ box \in {"running", "paused"} /\ quiet' = FALSE
      /\ overlap' = {f \in Files : call[f] \in InProgress}
      /\ \/ box' = "deleting" /\ UNCHANGED <<depth, node>>
         \/ box' = "gone" /\ depth' = 0 /\ node' = NoFile
  BY DEF StartDelete, fileVars
<1>2. /\ depth \in 0..Whole /\ level \in 0..Whole + 1 /\ 0 \in 0..Whole
  BY DEF FilesInv, FilesTypeOK, Whole
<1>3. depth = Whole /\ level = Whole + 1
  BY <1>1 DEF FilesInv, DeleteInv
<1>4. \A f \in Files : call'[f] \in InProgress => f \in overlap'
  BY <1>1
<1>5. DeleteInv'
  BY <1>1, <1>3, <1>4 DEF DeleteInv, Whole
<1>6. overlap' \in SUBSET Files
  BY <1>1
<1> QED
  BY <1>1, <1>2, <1>5, <1>6, BoxFrame

\* remove_dir_all, one system call at a time.
LEMMA RemoveDirAllInv ==
  ASSUME FilesInv, RemoveDirAll
  PROVE  FilesInv'
<1>1. /\ UNCHANGED <<backend, overwrite, data, call, fd, pos, pageVars, alone>>
      /\ UNCHANGED <<overlap, quiet>> /\ box = "deleting"
  BY DEF RemoveDirAll
<1>2. /\ depth \in 0..Whole /\ level \in 0..Whole + 1 /\ overlap \in SUBSET Files
      /\ quiet \in BOOLEAN /\ ~quiet
  BY <1>1 DEF FilesInv, FilesTypeOK, PageInv
<1>3. /\ box' \in {"deleting", "gone", "stuck"} /\ node' \in {node, NoFile}
      /\ depth' \in 0..Whole /\ level' \in 0..Whole + 1
  BY <1>1, <1>2 DEF RemoveDirAll, LastLevel, Whole
<1>4. DeleteInv'
  <2>1. /\ \A f \in Files : call[f] \in InProgress => f \in overlap
        /\ level <= Whole => node \in overlap \cup {NoFile}
        /\ overlap = {} => depth = IF level > Whole THEN Whole ELSE level
    BY <1>1 DEF FilesInv, DeleteInv
  <2>2. \/ level > Whole /\ node' = NoFile /\ UNCHANGED <<depth, box>>
           /\ level' = IF node = NoFile THEN Whole ELSE level
        \/ level \in 1..Whole /\ depth = level /\ depth' = depth - 1
           /\ level' = level - 1 /\ UNCHANGED <<node, box>>
        \/ box' = "stuck" /\ UNCHANGED <<node, depth, level>>
        \/ level = 0 /\ box' = "gone" /\ UNCHANGED <<node, depth, level>>
    BY DEF RemoveDirAll, LastLevel
  <2>3. box' = "gone" \/ level' <= Whole => node' \in overlap \cup {NoFile}
    BY <1>1, <1>2, <2>1, <2>2 DEF Whole
  <2>4. overlap = {} =>
          /\ box' = "deleting" => depth' = IF level' > Whole THEN Whole ELSE level'
          /\ box' = "gone" => depth' = 0
    BY <1>1, <1>2, <2>1, <2>2 DEF Whole
  <2> QED
    BY <1>1, <1>3, <2>1, <2>3, <2>4 DEF DeleteInv
<1> QED
  BY <1>1, <1>2, <1>3, <1>4, BoxFrame
-----------------------------------------------------------------------------
(***************************************************************************)
(* The inductive invariant of a sandbox's files, with either backend.      *)
(***************************************************************************)
THEOREM FilesCorrect == FairSpec => []FilesInv
<1>1. Init => FilesInv
  BY FilesInitInv
<1>2. FilesInv /\ [Next]_vars => FilesInv'
  <2> SUFFICES ASSUME FilesInv, [Next]_vars
               PROVE  FilesInv'
    OBVIOUS
  <2>1. CASE \E c \in Calls : Refused(c) \/ Lost(c)
    BY <2>1, CallStepInv
  <2>2. ASSUME NEW u \in Uploads,
               \/ StartUpload(u) \/ MakeParents(u) \/ OpenFile(u) \/ OpenFails(u)
               \/ WriteByte(u) \/ WriteEnds(u)
        PROVE  FilesInv'
    BY <2>2, StartUploadInv, MakeParentsInv, OpenFileInv, OpenFailsInv, WriteByteInv,
       WriteEndsInv
  <2>3. CASE DownloadStep
    BY <2>3, StartPageInv, OpenToReadInv, ReadPieceInv DEF DownloadStep
  <2>4. CASE Spawn \/ CommandEnds
    BY <2>4, CommandInv
  <2>5. CASE CommandRemoves \/ CommandWrites \/ CommandMakesDir \/ Pause \/ Resume
    BY <2>5, CommandChangesInv, CommandMakesDirInv, PauseInv
  <2>6. CASE StartDelete
    BY <2>6, StartDeleteInv
  <2>7. CASE RemoveDirAll
    BY <2>7, RemoveDirAllInv
  <2>8. CASE UNCHANGED vars
    <3>1. /\ UNCHANGED <<backend, overwrite, data, call, fd, pos, pageVars, alone>>
          /\ UNCHANGED <<box, depth, level, overlap, node, quiet>>
      BY <2>8 DEF vars, boxVars, fileVars
    <3>2. DeleteInv'
      BY <3>1 DEF FilesInv, DeleteInv
    <3>3. /\ box \in {"running", "paused", "deleting", "gone", "stuck"}
          /\ depth \in 0..Whole /\ level \in 0..Whole + 1 /\ overlap \in SUBSET Files
          /\ quiet \in BOOLEAN /\ (quiet => box \in {"running", "paused"})
      BY DEF FilesInv, FilesTypeOK, PageInv
    <3> QED
      BY <3>1, <3>2, <3>3, BoxFrame
  <2> QED
    BY <2>1, <2>2, <2>3, <2>4, <2>5, <2>6, <2>7, <2>8 DEF Next
<1> QED
  BY <1>1, <1>2, PTL DEF FairSpec

(***************************************************************************)
(* An upload answered with success is the file, byte for byte, unless one  *)
(* that may overwrite came after or was being written when it began.       *)
(***************************************************************************)
THEOREM UploadsAreWhole == FairSpec => []UploadIsWhole
<1>1. FilesInv => UploadIsWhole
  <2> SUFFICES ASSUME FilesInv, NEW u \in alone, call[u] = "ok", node = fd[u]
               PROVE  data[node] = Bytes(u)
    BY DEF UploadIsWhole
  <2>1. /\ u \in Uploads /\ node \in Files /\ data[node] \in Seq(Byte)
        /\ Size[u] \in Nat
    BY FilesAssumption DEF FilesInv, FilesTypeOK, OpenedInv
  <2>2. Len(data[node]) = Size[u] /\ \A k \in 1..Size[u] : data[node][k] = <<u, k>>
    BY DEF FilesInv, AloneInv, Holds
  <2>3. Bytes(u) \in Seq(Byte)
    <3>1. Bytes(u) \in [1..Size[u] -> Byte]
      BY <2>1 DEF Bytes, Byte
    <3> QED
      BY <2>1, <3>1
  <2>4. Len(Bytes(u)) = Size[u] /\ \A k \in 1..Size[u] : Bytes(u)[k] = <<u, k>>
    BY <2>1 DEF Bytes
  <2>5. PICK a \in Seq(Byte), b \in Seq(Byte) : a = data[node] /\ b = Bytes(u)
    BY <2>1, <2>3
  <2>6. Len(a) = Len(b) /\ \A k \in 1..Len(a) : a[k] = b[k]
    BY <2>2, <2>4, <2>5
  <2>7. a = b
    BY <2>6, SeqEqual
  <2> QED
    BY <2>5, <2>7
<1> QED
  BY <1>1, FilesCorrect, PTL

(***************************************************************************)
(* A download of a file that does not change meanwhile is the whole file,  *)
(* whatever the sizes of its pages and reads.                              *)
(***************************************************************************)
THEOREM DownloadsAreWhole == FairSpec => []DownloadIsWhole
<1>1. FilesInv => DownloadIsWhole
  BY DEF FilesInv, PageInv, DownloadIsWhole
<1> QED
  BY <1>1, FilesCorrect, PTL

(***************************************************************************)
(* A deletion that succeeds leaves nothing but what uploads and commands   *)
(* that it overlapped have made since.                                     *)
(***************************************************************************)
THEOREM DeletionsAreComplete == FairSpec => []DeleteLeavesNothingOld
<1>1. FilesInv => DeleteLeavesNothingOld
  BY DEF FilesInv, DeleteInv, DeleteLeavesNothingOld
<1> QED
  BY <1>1, FilesCorrect, PTL
=============================================================================
