---------------------------- MODULE SandboxFiles ----------------------------
(***************************************************************************)
(* Files of a sandbox through the API, with either backend: the process    *)
(* runtime, whose files are in a directory of the host, and the microVM,   *)
(* whose guest serves them.  Uploads of one path, a download of it in      *)
(* pages, a command that creates, writes and removes it, pause, resume and *)
(* delete interleave between any two system calls.  Symbolic links are     *)
(* left out, and so is a command that removes the directories.             *)
(***************************************************************************)
EXTENDS Naturals, Sequences

CONSTANTS Uploads,   \* write calls, all of the same path
          Size,      \* the number of bytes each has
          Modes,     \* which of them may set overwrite
          Chunk,     \* most bytes of one read, FILE_CHUNK_BYTES in the guest
          MaxLimit,  \* most bytes the client asks for at a time
          NoFile     \* the path is free

Download == "download"
Execute == "execute"
Calls == Uploads \cup {Download, Execute}

\* A file is named by who created it.
Files == Uploads \cup {Execute}

ASSUME FilesAssumption ==
    /\ {Download, Execute} \cap Uploads = {} /\ NoFile \notin Calls
    /\ Size \in [Uploads -> Nat]
    /\ Modes \subseteq [Uploads -> BOOLEAN]
    /\ {Chunk, MaxLimit} \subseteq Nat \ {0}

\* The sandbox's root, home in it and the workspace, sandbox, in that.
Whole == 3

VARIABLES
    backend,   \* "process" or "microvm"
    overwrite, \* of each upload
    box,       \* the sandbox in the runtime's table
    depth,     \* how many of the directories exist
    node,      \* the file at the path: the call that created it
    data,      \* the bytes of each file ever created, and who wrote them
    call,      \* what each call is at
    fd,        \* the file it has opened
    pos,       \* bytes an upload has written
    limit,     \* of the page the client asks for
    length,    \* of the file, when its metadata was read
    page,      \* bytes read for it
    got,       \* bytes of the pages before
    quiet,     \* the file has not changed since the download began
    alone,     \* uploads whose file nobody else has changed since they opened it
    level,     \* the directory remove_dir_all is at, one more while it reads the lowest
    overlap    \* uploads and commands in progress when the deletion began

boxVars == <<backend, overwrite, box, level, overlap>>
fileVars == <<depth, node, data>>
pageVars == <<limit, length, page, got>>
vars == <<boxVars, fileVars, call, fd, pos, pageVars, quiet, alone>>

\* create: both backends begin with an empty workspace.
Init ==
    /\ backend \in {"process", "microvm"}
    /\ overwrite \in Modes
    /\ box = "running"
    /\ depth = Whole /\ node = NoFile
    /\ data = [f \in Files |-> <<>>]
    /\ call = [c \in Calls |-> "new"]
    /\ fd = [c \in Calls |-> NoFile]
    /\ pos = [u \in Uploads |-> 0]
    /\ limit = 0 /\ length = 0 /\ page = <<>> /\ got = <<>>
    /\ quiet = FALSE /\ alone = {}
    /\ level = Whole + 1 /\ overlap = {}
-----------------------------------------------------------------------------
Becomes(c, label) == call' = [call EXCEPT ![c] = label]

Finished == {"ok", "failed"}

\* The process runtime's calls run on the host; the guest's only in a VM that runs.
Runs == backend = "process" \/ box = "running"

\* guest_client wants a box that runs, the process runtime only to execute:
\* another call may find it paused since authorize_running looked.
Found(c) == box = "running" \/ (box = "paused" /\ backend = "process" /\ c # Execute)

\* The call is refused: by the API, or since the record is gone.
Refused(c) ==
    /\ call[c] = "new" /\ c # Execute
    /\ box # "running"
    /\ Becomes(c, "failed")
    /\ UNCHANGED <<boxVars, fileVars, fd, pos, pageVars, quiet, alone>>

\* safe_path and verify_components: what lies above the leaf must be there,
\* and the leaf itself when it is to be read.
Resolves == depth = Whole
Exists == Resolves /\ node # NoFile

\* The connection to the guest ends with the VM.
Lost(c) ==
    /\ backend = "microvm" /\ box = "gone"
    /\ call[c] \notin {"new"} \cup Finished
    /\ Becomes(c, "failed")
    /\ UNCHANGED <<boxVars, fileVars, fd, pos, pageVars, quiet, alone>>
-----------------------------------------------------------------------------
StartUpload(u) ==
    /\ call[u] = "new" /\ Found(u)
    /\ Resolves
    /\ Becomes(u, "parents")
    /\ UNCHANGED <<boxVars, fileVars, fd, pos, pageVars, quiet, alone>>

\* create_dir_all, which may find that what it has made is removed again.
MakeParents(u) ==
    /\ call[u] = "parents" /\ Runs
    /\ \/ Resolves /\ Becomes(u, "open") /\ UNCHANGED depth
       \/ ~Resolves /\ depth' = depth + 1 /\ UNCHANGED call
       \/ ~Resolves /\ Becomes(u, "failed") /\ UNCHANGED depth
    /\ UNCHANGED <<boxVars, node, data, fd, pos, pageVars, quiet, alone>>

\* Mutant of CreatesNew: create instead of create_new.
CreatesOrOpens(u) == FALSE

\* The options of open: truncate, and create_new.
Truncates(u) == overwrite[u]
CreatesNew(u) == ~overwrite[u]

\* A file is created, or the one that is there is opened.
Opens(u) == IF node = NoFile THEN u ELSE node

Writers(file) == {w \in Uploads : call[w] = "write" /\ fd[w] = file}

OpenFile(u) ==
    /\ call[u] = "open" /\ Runs
    /\ Resolves
    /\ CreatesNew(u) => ~Exists
    /\ node' = Opens(u)
    /\ data' = IF Truncates(u) THEN [data EXCEPT ![Opens(u)] = <<>>] ELSE data
    /\ fd' = [fd EXCEPT ![u] = Opens(u)]
    /\ Becomes(u, "write")
    /\ quiet' = FALSE
    /\ alone' = {w \in alone : fd[w] = Opens(u) => ~overwrite[u]} \cup
                {w \in {u} : overwrite[u] => Writers(Opens(u)) = {}}
    /\ UNCHANGED <<boxVars, depth, pos, pageVars>>

\* The file exists and shall not be overwritten, or the directory is gone.
OpenFails(u) ==
    /\ call[u] = "open" /\ Runs
    /\ ~Resolves \/ (Exists /\ CreatesNew(u))
    /\ Becomes(u, "failed")
    /\ UNCHANGED <<boxVars, fileVars, fd, pos, pageVars, quiet, alone>>

Larger(m, n) == IF m > n THEN m ELSE n

\* Byte k of upload u, at its place; what lies before it may be a hole.
Put(bytes, u, k) ==
    [i \in 1..Larger(Len(bytes), k) |->
        IF i = k THEN <<u, k>> ELSE IF i <= Len(bytes) THEN bytes[i] ELSE <<u, 0>>]

WriteByte(u) ==
    /\ call[u] = "write" /\ Runs
    /\ pos[u] < Size[u]
    /\ data' = [data EXCEPT ![fd[u]] = Put(@, u, pos[u] + 1)]
    /\ pos' = [pos EXCEPT ![u] = @ + 1]
    /\ quiet' = FALSE
    /\ UNCHANGED <<boxVars, depth, node, call, fd, pageVars, alone>>

\* All is written, or write_all or flush fails and leaves what there is.
WriteEnds(u) ==
    /\ call[u] = "write" /\ Runs
    /\ \/ pos[u] = Size[u] /\ Becomes(u, "ok") /\ UNCHANGED alone
       \/ Becomes(u, "failed") /\ alone' = alone \ {u}
    /\ pos' = [pos EXCEPT ![u] = 0]
    /\ UNCHANGED <<boxVars, fileVars, fd, pageVars, quiet>>
-----------------------------------------------------------------------------
(***************************************************************************)
(* The client asks for what follows the bytes it has; the path is checked  *)
(* as for an upload, and the file's metadata is read.                      *)
(***************************************************************************)
StartPage ==
    /\ call[Download] = "new" /\ Found(Download)
    /\ \/ /\ Exists
          /\ \E n \in 1..MaxLimit : limit' = n
          /\ length' = Len(data[node])
          /\ Becomes(Download, "opening")
       \/ /\ ~Exists
          /\ Becomes(Download, "failed")
          /\ UNCHANGED <<limit, length>>
    /\ quiet' = IF got = <<>> THEN \A u \in Uploads : call[u] # "write" ELSE quiet
    /\ UNCHANGED <<boxVars, fileVars, fd, pos, page, got, alone>>

\* The file may have been removed, or replaced, since.
OpenToRead ==
    /\ call[Download] = "opening" /\ Runs
    /\ \/ /\ Exists
          /\ fd' = [fd EXCEPT ![Download] = node]
          /\ Becomes(Download, "read")
       \/ /\ ~Exists
          /\ Becomes(Download, "failed")
          /\ UNCHANGED fd
    /\ UNCHANGED <<boxVars, fileVars, pos, pageVars, quiet, alone>>

Smaller(m, n) == IF m < n THEN m ELSE n

\* What one read gives: from behind the offset and what the page has.
Piece ==
    LET bytes == data[fd[Download]]
        from  == Len(got) + Len(page)
    IN  SubSeq(bytes, from + 1,
               Smaller(from + Smaller(Chunk, limit - Len(page)), Len(bytes)))

\* Mutant of AtEnd: the end is behind the length.
AtEndStrict(bytes) == Len(got) + Len(bytes) > length

\* Mutant of AtEnd: a full page is the last.
AtEndFull(bytes) == Len(got) + Len(bytes) >= length \/ Len(bytes) = limit

\* offset and what was read reach the length the metadata gave.
AtEnd(bytes) == Len(got) + Len(bytes) >= length

\* The guest stops at the end, the process runtime at an empty read.
LastRead(piece) ==
    \/ piece = <<>>
    \/ Len(page) + Len(piece) = limit
    \/ backend = "microvm" /\ AtEnd(page \o piece)

\* In the guest an empty read is the end too.
Eof(piece) == AtEnd(page \o piece) \/ (backend = "microvm" /\ piece = <<>>)

\* read, and with the last one the answer; until the end, the client sends
\* another request.
ReadPiece ==
    /\ call[Download] = "read" /\ Runs
    /\ LET piece == Piece
       IN  IF LastRead(piece)
           THEN /\ got' = got \o page \o piece
                /\ page' = <<>> /\ limit' = 0 /\ length' = 0
                /\ Becomes(Download, IF Eof(piece) THEN "ok" ELSE "new")
           ELSE /\ page' = page \o piece
                /\ UNCHANGED <<call, got, limit, length>>
    /\ UNCHANGED <<boxVars, fileVars, fd, pos, quiet, alone>>

-----------------------------------------------------------------------------
\* execute: the box must run, and the working directory must be there.
Spawn ==
    /\ call[Execute] = "new" /\ Found(Execute)
    /\ Resolves
    /\ Becomes(Execute, "running")
    /\ UNCHANGED <<boxVars, fileVars, fd, pos, pageVars, quiet, alone>>

(***************************************************************************)
(* A command changes the file once, as a bound: it removes it, or opens    *)
(* the one that is there and truncates it, or creates one.  What bytes it  *)
(* writes, no property tells apart.                                        *)
(***************************************************************************)
CommandRemoves ==
    /\ call[Execute] = "running" /\ Runs
    /\ node # NoFile
    /\ Becomes(Execute, "ok")
    /\ node' = NoFile
    /\ quiet' = FALSE
    /\ UNCHANGED <<boxVars, depth, data, fd, pos, pageVars, alone>>

CommandWrites ==
    /\ call[Execute] = "running" /\ Runs
    /\ Resolves
    /\ Becomes(Execute, "ok")
    /\ node' = Opens(Execute)
    /\ data' = [data EXCEPT ![Opens(Execute)] = <<>>]
    /\ quiet' = FALSE
    /\ alone' = {u \in alone : fd[u] # Opens(Execute)}
    /\ UNCHANGED <<boxVars, depth, fd, pos, pageVars>>

\* It makes the directories that the path needs.
CommandMakesDir ==
    /\ call[Execute] = "running" /\ Runs
    /\ ~Resolves
    /\ depth' = depth + 1
    /\ UNCHANGED <<boxVars, node, data, call, fd, pos, pageVars, quiet, alone>>

(***************************************************************************)
(* The last of its processes ends: the call may be over since its time ran *)
(* out, as kill_on_drop reaches only the one it has started, and delete    *)
(* stops none of the process runtime's.                                    *)
(***************************************************************************)
CommandEnds ==
    /\ call[Execute] = "running" /\ Runs
    /\ Becomes(Execute, "ok")
    /\ UNCHANGED <<boxVars, fileVars, fd, pos, pageVars, quiet, alone>>
-----------------------------------------------------------------------------
Pause ==
    /\ box = "running"
    /\ box' = "paused"
    /\ UNCHANGED <<backend, overwrite, level, overlap, fileVars, call, fd, pos, pageVars, quiet, alone>>

Resume ==
    /\ box = "paused"
    /\ box' = "running"
    /\ UNCHANGED <<backend, overwrite, level, overlap, fileVars, call, fd, pos, pageVars, quiet, alone>>

InProgress == {"parents", "open", "write", "running"}

\* The record leaves the table; uploads that have found it go on, and commands.
StartDelete ==
    /\ box \in {"running", "paused"}
    /\ box' = IF backend = "process" THEN "deleting" ELSE "gone"
    /\ overlap' = {f \in Files : call[f] \in InProgress}
    /\ IF backend = "process" THEN UNCHANGED fileVars
       ELSE depth' = 0 /\ node' = NoFile /\ UNCHANGED data
    /\ quiet' = FALSE
    /\ UNCHANGED <<backend, overwrite, level, call, fd, pos, pageVars, alone>>

\* Mutant of LastLevel: the sandbox's own directory stays.
LastLevelHome == 1

\* remove_dir_all takes the sandbox's root: no directory is to be left.
LastLevel == 0

(***************************************************************************)
(* remove_dir_all: the workspace is read and the file removed, then the    *)
(* directories from below.  One that has been filled again since it was    *)
(* read is an error, as is any failure of the file system; the record is   *)
(* gone then too.                                                          *)
(***************************************************************************)
RemoveDirAll ==
    /\ box = "deleting"
    /\ \/ /\ level > Whole
          /\ node' = NoFile
          /\ level' = IF node = NoFile THEN Whole ELSE level
          /\ UNCHANGED <<depth, box>>
       \/ /\ level \in LastLevel + 1..Whole /\ depth = level /\ node = NoFile
          /\ depth' = depth - 1 /\ level' = level - 1
          /\ UNCHANGED <<node, box>>
       \/ /\ box' = "stuck"
          /\ UNCHANGED <<node, depth, level>>
       \/ /\ level = LastLevel
          /\ box' = "gone"
          /\ UNCHANGED <<node, depth, level>>
    /\ UNCHANGED <<backend, overwrite, overlap, data, call, fd, pos, pageVars, quiet, alone>>
-----------------------------------------------------------------------------
DownloadStep == StartPage \/ OpenToRead \/ ReadPiece

Next ==
    \/ \E c \in Calls : Refused(c) \/ Lost(c)
    \/ \E u \in Uploads :
        \/ StartUpload(u) \/ MakeParents(u) \/ OpenFile(u) \/ OpenFails(u)
        \/ WriteByte(u) \/ WriteEnds(u)
    \/ DownloadStep
    \/ Spawn \/ CommandRemoves \/ CommandWrites \/ CommandMakesDir \/ CommandEnds
    \/ Pause \/ Resume \/ StartDelete \/ RemoveDirAll

\* The client sends its next request and its calls are served.
Fairness ==
    WF_vars(Refused(Download) \/ Lost(Download) \/ DownloadStep)

FairSpec == Init /\ [][Next]_vars /\ Fairness
-----------------------------------------------------------------------------
Bytes(u) == [k \in 1..Size[u] |-> <<u, k>>]

(***************************************************************************)
(* An upload that was answered with success is the file, byte for byte,    *)
(* unless an upload that may overwrite it came after, it overwrote one     *)
(* that was still being written, or a command wrote to it.  Uploads that   *)
(* may not overwrite never disturb another, however they interleave.       *)
(***************************************************************************)
UploadIsWhole ==
    \A u \in alone : call[u] = "ok" /\ node = fd[u] => data[node] = Bytes(u)

(***************************************************************************)
(* A download of a file that does not change gives the whole of it, with   *)
(* either backend, whatever the limits of its pages, the chunks they are   *)
(* read in, and whatever happens to the sandbox between two pages.         *)
(***************************************************************************)
DownloadIsWhole ==
    call[Download] = "ok" /\ quiet => got = data[fd[Download]]

(***************************************************************************)
(* A deletion that is answered with success has left nothing that was      *)
(* there before: a file that is still there was created by an upload or a  *)
(* command that was in progress when it began, and without one of these no *)
(* directory is left either.                                               *)
(***************************************************************************)
DeleteLeavesNothingOld ==
    box = "gone" =>
        /\ node \in overlap \cup {NoFile}
        /\ overlap = {} => depth = 0

(***************************************************************************)
(* A client that asks until a page says it is the last comes to that page  *)
(* or to an error, although the length a page is compared with may be out  *)
(* of date by then; while a microVM is paused, its guest answers nothing.  *)
(***************************************************************************)
DownloadEnds ==
    call[Download] = "opening" ~> call[Download] \in Finished \/ box = "paused"
-----------------------------------------------------------------------------
(***************************************************************************)
(* Why uploads and downloads are whole and a deletion leaves nothing, as   *)
(* an inductive invariant.                                                 *)
(***************************************************************************)
Byte == Uploads \X Nat
Labels == {"new", "opening", "read"} \cup InProgress \cup Finished

FilesTypeOK ==
    /\ backend \in {"process", "microvm"}
    /\ overwrite \in [Uploads -> BOOLEAN]
    /\ box \in {"running", "paused", "deleting", "gone", "stuck"}
    /\ depth \in 0..Whole
    /\ node \in Files \cup {NoFile}
    /\ data \in [Files -> Seq(Byte)]
    /\ call \in [Calls -> Labels]
    /\ fd \in [Calls -> Files \cup {NoFile}]
    /\ pos \in [Uploads -> Nat]
    /\ limit \in Nat /\ length \in Nat
    /\ page \in Seq(Byte) /\ got \in Seq(Byte)
    /\ quiet \in BOOLEAN
    /\ alone \in SUBSET Uploads
    /\ level \in 0..Whole + 1
    /\ overlap \in SUBSET Files

\* OpenedInv: who writes or reads has a file; no file is older than its upload.
OpenedInv ==
    /\ \A u \in Uploads : call[u] \in {"write", "ok"} => fd[u] \in Files
    /\ call[Download] = "read" => fd[Download] \in Files
    /\ \A u \in Uploads : call[u] \in {"new", "parents", "open"} =>
        /\ node # u /\ data[u] = <<>> /\ pos[u] = 0
        /\ \A c \in Calls : fd[c] # u

\* The bytes are the first n of upload u.
Holds(bytes, u, n) == Len(bytes) = n /\ \A k \in 1..n : bytes[k] = <<u, k>>

\* AloneInv: nobody else writes to the file of an upload that is alone.
AloneInv ==
    \A u \in alone :
        /\ call[u] \in {"write", "ok", "failed"}
        /\ call[u] = "write" => Writers(fd[u]) = {u} /\ Holds(data[fd[u]], u, pos[u])
        /\ call[u] = "ok" => Writers(fd[u]) = {} /\ Holds(data[fd[u]], u, Size[u])

BeginsWith(bytes, part) ==
    Len(part) <= Len(bytes) /\ \A i \in 1..Len(part) : part[i] = bytes[i]

(***************************************************************************)
(* PageInv: the page is not full yet; while the file is quiet, what was    *)
(* read is its beginning, and the metadata's length is right.              *)
(***************************************************************************)
PageInv ==
    /\ call[Download] \in {"new", "opening"} => page = <<>>
    /\ call[Download] = "opening" => limit > 0
    /\ call[Download] = "read" => Len(page) < limit
    /\ quiet =>
        /\ box \in {"running", "paused"}
        /\ \A u \in Uploads : call[u] # "write"
        /\ call[Download] = "new" /\ got # <<>> =>
            node \in Files /\ BeginsWith(data[node], got)
        /\ call[Download] \in {"opening", "read"} =>
            /\ node \in Files /\ length = Len(data[node])
            /\ BeginsWith(data[node], got \o page)
        /\ call[Download] = "read" => fd[Download] = node
        /\ call[Download] = "ok" => got = data[fd[Download]]

(***************************************************************************)
(* DeleteInv: what is in progress was so when the deletion began; once the *)
(* workspace has been read, what is in it is theirs, and without them the  *)
(* tree is as remove_dir_all left it.                                      *)
(***************************************************************************)
DeleteInv ==
    /\ box \in {"running", "paused"} => depth = Whole /\ level = Whole + 1
    /\ box \notin {"running", "paused"} =>
        /\ \A f \in Files : call[f] \in InProgress => f \in overlap
        /\ box = "gone" \/ level <= Whole => node \in overlap \cup {NoFile}
        /\ overlap = {} =>
            /\ box = "deleting" => depth = IF level > Whole THEN Whole ELSE level
            /\ box = "gone" => depth = 0

FilesInv == FilesTypeOK /\ OpenedInv /\ AloneInv /\ PageInv /\ DeleteInv
=============================================================================
