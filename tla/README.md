# Verification of ferrobox

TLA+ modules, TLC configurations and TLAPS proofs for ferrobox, a service that
runs untrusted code in Firecracker microVMs. Every definition follows the source;
`PROJECT.json` gives the lines of each one under `map`. Below, FC is
`crates/ferrobox-node/src/firecracker_runtime.rs`, API is
`crates/ferrobox-api/src/lib.rs`, SVC is `crates/ferrobox-guest/src/service.rs`,
SNAP, NET, TR and PROC are `snapshot.rs`, `network.rs`, `template_runtime.rs` and
`process_runtime.rs` of ferrobox-node, TPL is `crates/ferrobox-template/src/lib.rs`.

## 1. Inventory

| Component | State | Operations | Interacts with | What is hard | What makes it correct |
|---|---|---|---|---|---|
| Life-cycle table (ferrobox-core) | none | `can_transition_to` | used by API records and runtime records | two users of one table that do not see each other | terminal states are final |
| HTTP API (API) | `AppState`: records, snapshot tokens, one reaper task per sandbox | create, pause, resume, delete, snapshot create/clone/rollback/delete, files, pages, reaper | calls the runtime, in the request's own future | late answers, TTL against requests, clients that leave, a failing audit log | no VM is forgotten; the TTL ends it; what has ended never returns |
| Firecracker runtime (FC) | `sandboxes` and `snapshots` maps, a Mutex in each entry, jailed VM processes | the `SandboxRuntime` trait | API above; Firecracker, guest, snapshot store, network below | rollback takes two records and a snapshot; delete unmaps before it locks; any step may fail or time out | no orphaned VM, one driver per VM, no deadlock, failed operations leave the source as it was, no silent wrong state |
| Listing of snapshots (API, FC) | none of its own; a cursor in the client | list_snapshots | runtime's snapshot records and their locks | the map is read once, records are locked one by one, snapshots come and go between pages; equal time stamps | nothing that stays is missed or given twice; the listing ends |
| Files (SVC, PROC) | the workspace | write, read in pages, a command in the same directory | API; pause, resume, delete | several system calls per request, a length read before the bytes, deletion beside an upload or a command | acknowledged uploads and undisturbed downloads are whole |
| Process runtime (PROC) | table of sandboxes, a directory each | create, execute, write, read, pause, resume, delete | API, in place of Firecracker | the table is unlocked before the work is done; a command outlives the delete | deletion leaves nothing that was there before |
| Snapshot store (SNAP) | directories, partial and final; the manifest | stage, finalize, discard, verify, delete | runtime | crash between any two file-system calls | a final name is a whole snapshot; answers are durable |
| Boot snapshot (FC) | three files and READY | capture, restore | every `create_fresh`, every daemon run | no lock; a crash during the capture | a restore is of one complete capture |
| Ready pool (FC, API's `main.rs`) | stack of handles, maintainer task | prewarm, claim | runtime, boot snapshot | claims and failures during a batch | handed out once, refilled |
| Guest commands (SVC, FC) | child, two readers, byte budget, event channel | start_process, signal_process, execute | host over vsock | readers, deadline, descendants and a departing host | limit, no silent loss, an exit event, an end |
| Guest identity (SVC, FC) | sandbox id, token and address in the guest; token in the host's record | init, rekey, authorized | launch, clone, rollback | lost answers, abandoned handlers that hold a lock, clones that share a token | guest and record agree; captured tokens are retired |
| Network (NET) | namespace, veth, nft table, forward rules, relay | create, delete | launch, terminate, relay | a failure or a dropped future between commands; names and subnet from the id | a lease is whole; what is left behind is what a command failed on; an address has one user |
| DNS relay (NET) | permits, tasks, socket | UDP and TCP exchanges, abort | network | permits, upstream timeouts, tasks that outlive the abort | SERVFAIL last, every query answered, the address freed |
| Template catalog (TPL, TR) | one record file per alias, artifacts | build, delete, resolve, verify | CLI writes, node reads | separate processes, no lock | an id selects itself, an alias is not rebound |
| Audit records, tokens, Firecracker client, CLI, protocol | see `PROJECT.json` | | | | not modelled (section 7) |

`PROJECT.json` lists the hazards at their lines, with the properties that cover each.

## 2. Modules

```
SandboxState <- FirecrackerRuntime <- ApiLifecycle <- MCApiLifecycle
                        ^-- MCFirecrackerRuntime
SandboxLifetime <- ApiLifecycle                             (refinement)
SnapshotPublication <- SnapshotStore <- MCSnapshotStore     (refinement)
TemplateCapture <- ReadyPool                                (composition)
NetworkLease, DnsRelay <- SandboxNetwork <- MCSandboxNetwork (composition)
NetworkLease <- MCNetworkLease
SandboxFiles <- MCSandboxFiles
SnapshotListing, GuestExec, GuestIdentity, TemplateCatalog

ApiLifecycle <- SandboxLifecycleProofs     (the runtime and the API)
SnapshotListing, TemplateCatalog <- ListingProofs
SandboxFilesProofs, SnapshotStoreProofs, SandboxNetworkProofs, GuestIdentityProofs,
GuestExecProofs, ReadyPoolProofs
```

* **FirecrackerRuntime** is the core. A task is one call of the trait; `op` is the
  method, `pc` the await it is suspended at, and an action is the code from one
  await to the next. `sandboxes` is the map from id to record (records are named
  by the VM they were made with, so a rollback's exchange is visible),
  `state`/`holder` are the record and its Mutex, `vm` the process, `snapshots`,
  `sholder`, `artifact` the same for snapshots. `published` holds the ids callers
  know. `Faults` says which external steps may fail: a launch, a request that
  Firecracker refuses or obeys too late, the guest connection, staging,
  publishing, verification, rekey, cleanup, removal of a snapshot.
* **ApiLifecycle** extends it: a client's handler makes a runtime call and applies
  its outcome to `records`; every id has a reaper, which is a task of the runtime
  too. `Disconnect` drops a handler between any two awaits, with its guards.
  **SandboxLifetime** is the promise to clients: an id is handed out once, is
  usable, then perhaps overdue, and ended for ever. The mapping makes usable the
  ids with an unexpired record, overdue those with an expired one, and ended those
  with a reaper and no record.
* **SnapshotListing** is one client that pages through a sandbox's snapshots:
  `Request` reads the map, `Collect` locks one record of it, `Answer` sorts, finds
  the cursor and cuts the page. Snapshots have a time stamp that may tie or go back
  and an id; snapshots of other sandboxes are in the same map and are locked too.
* **SandboxFiles** has both backends behind the API. One path, uploads with and
  without `overwrite`, a download in pages, a command that creates, truncates or
  removes the file and makes directories, pause, resume and delete, which stops no
  command of the process runtime; `remove_dir_all` may fail at any of its steps
  (`box` is "stuck" then). A byte is a pair of upload and position, so mixtures
  are visible. `data` outlives `node`: an open file can be unlinked. `alone`,
  `quiet` and `overlap` record what happened to a file during a call, for the
  properties.
* **SnapshotStore** is one action per file-system call. `place` and `files` are
  what the process sees, `onDisk` and `kept` the outcomes a crash may leave, and
  `synced` what is safe. `SnapshotPublication` is the promise it is shown to keep.
* **TemplateCapture** and **ReadyPool**: a call of `create_fresh` checks READY and
  captures or restores file by file; the pool adds startup, the maintainer,
  requests and restarts of the daemon. `AwaitsGuest` says where a preparation waits
  for its guest.
* **GuestExec** models one command: the child and what it forks, the shared byte
  budget (the `fetch_add` of each reader is an action), the bounded channel, the
  deadline, and the host's side of the stream.
* **GuestIdentity** models several VMs, each with the host's launch, the guest's
  `init`/`rekey` handler and the connection between; answers may be lost and
  handlers abandoned or dropped.
* **NetworkLease** runs one host command per action, with objects found by name, as
  the commands find them. Commands of creation fail and are undone; commands of
  deletion fail and are passed over, and `kept` records which. `clashed` records the
  leases that had the same eight digits as another one in use. A veth whose removal
  failed may go with its namespace in the kernel; here it stays, which leaves more
  behind than the code does. **DnsRelay** is the relays, each with its permits and
  exchanges; a write to a connection may stall until the guest reads.
  **SandboxNetwork** joins them: the command "relay" of a lease starts its relay,
  delete aborts it, a dropped owner leaves the host as it is but aborts the relay,
  and the bound address is freed when the last UDP task that holds the socket is
  gone.
* **TemplateCatalog** has CLI writers and node resolutions as processes over the
  record files. A writer's scan of the records is one step, which only the
  documented single writer makes exact; what is checked does not depend on it.

Definitions called "Mutant of X" stand before X and are not part of a
specification: they are the plausible bugs that show that a property can fail.
The type invariants and the `...Inv` after a module's properties are the inductive
invariants of the proofs (section 4).

## 3. Runs

| Run | Shows | Bounds |
|---|---|---|
| FirecrackerRuntime_safety | SafetyInv, NoDeadlock, NoOrphanVm, OneDriverPerVm, TornDownUnreachable, SnapshotInUseIntact, RollbackKeepsSource, OnlyDeleteUnmaps, NoSilentLie | 2 calls at a time, 3 ids, 1 snapshot, clones of 2, all faults. Three ids allow a rollback (source and replacement) beside a third VM; every property relates at most two calls. Tasks and ids are interchangeable. |
| ApiLifecycle_expiry | EveryVmReclaimable, ImplementsLifetime, ExpiredVmTerminated | 1 client, 2 ids with their reapers, 1 snapshot, clones of 1, failing audit log. Client and reaper is the pair that races. Faults inside the snapshot store end a call early, as a refused request does, and are left to the runtime's run. |
| ApiLifecycle_drop | ExpiredVmTerminated fails when clients leave | as above, without faults |
| SnapshotStore_crash | FinalIsWhole, ImplementsPublication | 2 snapshots, 2 artifacts, failures, dropped futures and crashes anywhere |
| SnapshotListing_pages | PagesComplete, PagesOrdered, ListingEnds | 3 snapshots and one of another sandbox, 2 time stamps, pages of 1 or 2, 1 use of a snapshot by another call, which need not end: ties, a clock that goes back, and up to three pages with changes between any two steps |
| SandboxFiles_shared | UploadIsWhole, DownloadIsWhole, DeleteLeavesNothingOld, DownloadEnds | an upload of 2 bytes that may not overwrite and one of 1 byte that may, so that either meets the other's file; a command that changes the file once and makes directories; pages of 1 or 2 bytes, read one at a time; both backends |
| GuestExec_output | OutputWithinLimit, NoSilentLoss, ExitAlwaysReported, ExecReturns | limit 2, channel 2, 4 bytes, reads of 2: each is passed, filled and hit exactly |
| GuestIdentity_lost | IdentityMatchesRecord, CapturedTokenRetired, NeverRefused, LaunchEnds | 3 VMs of which 1 boots cold, 2 snapshots (one of a clone), 3 attempts |
| SandboxNetwork_shared | LeaseIntactUnshared, NothingLeftBehind, OneUserPerAddress, ServfailExhausts, QueryAnswered, GatewayFreed | 2 sandboxes of different 65-second windows in one subnet, a datagram and a connection (of one query) of the first for 1 permit, 1 nameserver and the fallback; the commands of the second fail, any in creation and one in each deletion; owners are dropped and relays break anywhere |
| NetworkLease_samewindow | LeaseIntact fails within one window | 2 sandboxes, no command fails by itself |
| ReadyPool_refill | HandedOutOnce, RestoreConsistent, PoolRefills | pool of 2, 3 requests, 1 failure, 1 restart; 7 ids are as many as can be in use at once, so that the bound `Available` never holds anything up |
| TemplateCatalog_writers | AliasNeverRebound, IdSelectsItself | 2 writers, 1 node, 2 templates whose ids may also be aliases, 1 other name |

A circle of calls that wait for each other's locks is excluded by the invariant
NoDeadlock, over every set of calls, also where a third call could still move. TLC's
own check for a state without successor is on for the runtime, the command (which
stutters when done) and the catalog. The other runs stop when their bounded inputs
are used up and say `CHECK_DEADLOCK FALSE`.

### Fairness

* A suspended task whose await is ready is polled (tokio): weak fairness of the
  steps of each task. Requests to Firecracker have deadlines, so a step that waits
  for one ends.
* Requests to the guest have none: `vsock.rs:51` and `:67` bound the connect only,
  and health (FC:595), init (FC:622-644), rekey (FC:686-704) and execute
  (FC:938-994) wait as long as the guest lets them. So no fairness makes a guest
  answer a preparation of the pool, or makes a call that uses a snapshot release it:
  PoolRefills says what happens if the guests of a batch answer, ListingEnds what
  happens if no snapshot stays locked. LaunchEnds assumes that the guest's handlers
  run or that the connection breaks. ExpiredVmTerminated needs no guest: the reaper
  takes the id out of the map before it waits for the record.
* tokio's Mutex queues its waiters: strong fairness of taking a lock in ApiLifecycle,
  since the lock may be taken by others in between. In SnapshotListing the calls
  that use a snapshot are bounded in number, and weak fairness is enough.
* A listing and a download go on while the answer says that there is more; that is
  the client's choice, and the properties are about clients that make it.
* The deadline of a command passes; nothing is assumed of the command itself,
  which may run or write for ever.
* An upstream answers or times out, and what is aborted is dropped; the guest sends
  and reads what it likes, and network commands take as long as they take. A TCP
  answer is written without deadline, so a stalled write has no fairness, and
  QueryAnswered is about exchanges whose guest reads in the end.
* No request, TTL, disconnect, failure or restart has to happen. A paused microVM
  need not be resumed: DownloadEnds excepts it.

## 4. Proofs

The `...Proofs` modules hold the theorems. Each rests on an inductive invariant, a
conjunction of named parts at the end of the component's module; there is a lemma
per part, with a step per action. The constants are any that satisfy the module's
`ASSUME`, which says of sets and "none" values that they are disjoint, of numbers
that they are natural, and of ReadyPool's ids and a sandbox's snapshots that they are
finitely many.

| Module | Theorems | Extra hypothesis |
|---|---|---|
| SandboxLifecycleProofs, the runtime | `TypeCorrect`, `InvariantHolds` (RtInv), `NoOrphan`, `OneDriver`, `SafetyHolds` (SafetyInv), `TornDown`, `SnapshotInUse`, `SourceKept`, `DeadlockFree`, `OnlyDelete`, `NoLie` | |
| SandboxLifecycleProofs, the API | `ApiInvariant`, `ApiImplementsRuntime` (Spec => RtSpec), `ApiKeepsRuntimeSafe`, `RegisteredReclaimable`, `LifetimeImplemented` | |
| | `Reclaimable` (EveryVmReclaimable) | `~AuditFails \/ MaxClones = 1` |
| SnapshotStoreProofs | `StoreInvariant`, `WholeOrNothing` (FinalIsWhole), `PublicationImplemented` | |
| SandboxNetworkProofs | `NetInvariant`, `NothingStays` (NothingLeftBehind), `OneUser`, `HeldIsWhole` (LeaseIntactUnshared) | |
| | `ServfailLast` | `Upstreams \in Seq(S)` for some S |
| GuestIdentityProofs | `IdentityInvariant`, `RecordMatches`, `TokenRetired`, `HostNeverRefused` | |
| GuestExecProofs | `ExecInvariant`, `LimitKept`, `NothingLost`, `ExitReported` | |
| ReadyPoolProofs | `PoolInvariant`, `HandedOut` | |
| | `CaptureInvariant`, `RestoreIsWhole` | `Target # 0` |
| SandboxFilesProofs | `FilesCorrect` (FilesInv), `UploadsAreWhole`, `DownloadsAreWhole`, `DeletionsAreComplete` (DeleteLeavesNothingOld) | |
| ListingProofs, the pages | `ListingCorrect` (ListInv), `PagesAreComplete`, `PagesAreOrdered`, `PagesAdvance`, `PagesBounded` | |
| ListingProofs, the catalog | `CatalogCorrect` (CatalogInv), `IdIsItself` (IdSelectsItself), `AliasKept` (AliasNeverRebound) | |

**Runtime.** That a VM has one driver rests on which guards a task holds at each label
(`LockInv`), which rests on which operation can be at which label (`ControlInv`).
That a VM is not orphaned rests on who owns the VMs in the making
(`OwnershipInv`: ids drawn by a call name no VM yet, and a launched VM is behind
its own id, which nobody else knows) and on what a record says of its process
(`HostInv`). `RtInv` is the conjunction of these. Delete is the hard case, where the
VM leaves the map and is owned by the call from then on, and rollback's exchange
the other, where the source becomes the call's and the replacement the map's.

`SafetyInv` adds what the other properties need. `MapInv` (no record behind two ids)
makes unmapping an id enough to make a VM unreachable. `GuardInv` is the converse of
LockInv: the guards of a task are no others. With `SecretInv`, that nobody but the
launching call knows a launched VM, it orders the waits: a call that waits for a
record holds nothing, except a rollback, which waits for a record that only it
knows or for a snapshot; and whoever holds a snapshot waits for no record but one
of its own. So no circle exists, for any number of calls, without induction on its
length. `ArtifactInv` says who holds a directory's Mutex while the directory is
used; `CaptureInv` what is paused during a capture, which NoSilentLie needs.
`SourceInv` says that the source of a rollback that has not committed is in the state
the rollback met. That it is still behind an id, or that a delete which took it waits for
its lock, is RollbackKeepsSource, which needs NoOrphanVm too: a delete may unmap the
source at any time, but cannot touch it before the rollback lets go.

**API.** The handlers call the runtime only in ways RtSpec allows (`KnownInv`: the API
knows no id that was not handed out; `ReaperInv`: a reaper has one call at most), so
Spec implies RtSpec and everything above carries over. `DeleteInv` and `ReclaimInv`
say that behind a registered id that is still mapped the record's state admits
Deleting. That every handed-out id is registered needs the hypothesis: with a failing
audit log and two clones it is false (section 6, API:692). The refinement of
SandboxLifetime maps each step to a registration, an expiry, an end or a stutter.

**Snapshot store.** `StagedSoFar` is what is written and synced at each call on the
file system, `NamesAndContents` that a directory with a final name, now or after a
crash, is whole and durable unless it was retracted. The refinement uses both; a
crash is the step with most freedom, and maps to SnapshotPublication's choice of
what is visible afterwards.

**Network.** `RemovedInv` and `CommandInv` count the commands that have run. OneUser
needs `SocketInv`: a bound address has one socket, which is there while the relay or
one of its tasks may write. HeldIsWhole needs `MadeInv`: what a lease has made is there
unless it clashed, and two leases with the same digits in use together have both
clashed. Only a removal by name could take something away, and it finds the objects
of leases with its own digits; residue of earlier leases with the same name does no
harm, as a lease's own objects are told from it (NetworkLease_samewindow is the case
of a clash). A removal that failed is excepted in `RemovedInv` by `kept`. `TriedInv` says
which upstreams an exchange has asked; the list may be any sequence.

**Identity.** `InitInv` ties the write lock to one handler and a booted guest to the
one identity its launch repeats; `RekeyInv` says that until a rekey commits the
guest has the token the host presents, and afterwards the new one. NeverRefused is a
part of the invariant, because an accepted request is what keeps the others.

**Commands.** `Balance` accounts for every byte the budget allowed: at the host, in the
channel or with a reader. What the channel carries is a sum over a sequence, which
the provers cannot unfold; `Carries` states it by running totals, one number per
position, so that a send and a receive are facts about functions. `ExitInv` says
that the exit event is the last and that nothing it reports changes afterwards,
`StoppedInv` why a reader has stopped, `ToldInv` that an exit or error is on its way.

**Pool.** `OwnerInv` separates those being prepared, requested, mapped and claimed.
RestoreIsWhole needs that until READY exists only one launch runs, which is due to
the daemon's first preparation, and false without a pool (section 6, FC:1035).

**Files.** `OpenedInv` says that no file is older than the upload it is named after, so
an upload that may not overwrite opens a file nobody else has. `AloneInv`: while
`alone` has an upload, no other writes to its file, and the file holds exactly the
bytes the upload has written; an upload that overwrites takes the file from whoever had
it. `PageInv` says that while the file is quiet, what the client has is its beginning
and the length from the metadata is right; the two ways a page may end (the guest at
the length, the process runtime at an empty read) then both mean the end of the file,
because a page that is not full and a chunk that is not empty leave room to read.
`DeleteInv` says that whatever is in progress during a deletion was so when it began,
that a file found after the workspace was read is theirs, and, without them, how depth,
level and node go together. Sequences are compared
by length and position, which needs no induction.

**Listing.** `SeenInv` is the key: whatever a listing has met is published, and only
staging sets a time, so the order of what was given never changes. SortedList shows
that a list that passes for sorted has every handle once and in strict order (a
function from 1..n to n handles that is one-to-one is onto), and AnswerPage that an
answer is a stretch of it. `CursorInv` then says that what stays was given or is behind
the cursor, which with `SteadyInv`, that every request meets what stays, makes the
last page complete. PagesAdvance and PagesBounded are the ranking argument of
ListingEnds: pages with a cursor make progress, and there are finitely many.

**Catalog.** `NodeInv`: the scan by id remembers nothing but a record of that id, and what
passed CheckId for an id is of that id. AliasNeverRebound needs only that Persist
tests the name again.

Only model-checked: the liveness properties (ExpiredVmTerminated, ListingEnds,
DownloadEnds, ExecReturns, LaunchEnds, QueryAnswered, GatewayFreed, PoolRefills), which
are out of the prover's reach; and, of the network, that the list of upstreams is what
host_dns_upstreams makes of its input, which is a fold over data. Every invariant and
every action property of a passing run is a theorem, under the extra hypothesis of the
table where there is one.

## 5. Findings

1. **A dropped delete disables the TTL** (ApiLifecycle_drop, API:793). Handlers run in
   the request's future. When a client goes away after the transition to
   `Deleting`, the record stays there, the reaper's own transition is refused and
   the VM lives on. docs/architecture.md:48: "A background reaper deletes the full
   microVM when its TTL expires."
2. **Sandboxes of the same 65 seconds share their network** (NetworkLease_samewindow,
   NET:67). Names are the first eight hex digits of a UUIDv7, which are the upper 32
   bits of a 48-bit millisecond time stamp. The second creation fails, and undoing it
   deletes the first one's objects. docs/networking.md:8: "Each Internet-enabled
   sandbox owns one network namespace, ...".

## 6. Disagreements

Met while modelling; the model contains the behaviour, and no property claims the
contrary.

* FC:1549: a pause that times out after Firecracker obeyed makes create_snapshot return
  at once, with the source paused behind a Running record (docs/snapshots.md:39
  promises that a formerly running source is restored). NoSilentLie says what does
  hold: a call that leaves such a record reports an error.
* FC:1838: delete takes the id out of the map first, so after a failed cleanup a second
  delete finds nothing (docs/architecture.md:43 has Failed move to Deleting for cleanup).
* API:797: a pause that returns between the reaper's two transitions makes the record
  Failed; the reaper's last transition is refused and the record stays, without VM
  (docs/api.md:97).
* API:730: rollback assigns the record's state unchecked, so a rollback that answers
  during a delete turns Deleting into Running, and that record stays (docs/api.md:97).
* API:188: a handler that is dropped between the runtime's create and the registration
  leaves a VM that has no record and no TTL. No property speaks of it:
  ExpiredVmTerminated is about records that expire.
* API:692: clone_snapshot returns at the first failing audit record; clones not yet
  registered have no reaper (docs/snapshots.md:99). EveryVmReclaimable is checked for
  clones of one VM, where this cannot happen; with `MaxClones = 2` it fails. The proof
  assumes that the audit log can be written or that clones come one at a time.
* SNAP:172: a failing set_mode leaves the partial directory (docs/snapshots.md:39).
* FC:1829: a listing holds each record's lock for a moment, and a delete_snapshot that
  meets it answers that the snapshot is in use, although nothing uses it.
* SVC:325: the deadline of a command kills the child only, not what it forked and not
  the microVM (docs/security.md:32). In the process runtime, too, `kill_on_drop` and
  the deadline reach the direct child only.
* PROC:287 and PROC:503: delete waits for no upload that had found the sandbox before
  and stops no command. Either may make the removed directories or files again, or
  make `remove_dir_all` fail halfway; afterwards nothing refers to them.
  DeleteLeavesNothingOld says what does hold. The directories of an upload's path can only be made there: the
  check of the path before refuses one whose parents do not exist.
* SVC:398 and PROC:287: two uploads that overwrite the same file at the same time leave
  a mixture, and both are acknowledged; UploadIsWhole excepts them.
* SVC:446: a request for zero bytes ends with `eof` in the guest and without in the
  process runtime; the client of SandboxFiles asks for at least one byte.
* PROC:287: the process runtime reads and writes files of a sandbox that was paused
  after the API looked.
* NET:68: the subnet is taken from the first byte of the id, which is constant until
  2039, so that all sandboxes share one and a second relay cannot bind its address
  (docs/networking.md:8). That bind is all that keeps two Internet sandboxes apart:
  when the first one's relay breaks (NET:358), its lease stays, nothing starts the
  relay again, and a second sandbox may take the subnet.
* NET:196: delete discards the result of each of its commands and returns Ok, so what a
  failing `iptables --wait 5 -D`, `nft delete`, `ip link delete` or `ip netns delete`
  left behind stays on the host, unreported. NothingLeftBehind excepts exactly that.
* NET:443: the TCP answer is written without a deadline; a guest that keeps its
  connection open without reading holds one of the relay's permits until it closes.
* NET:93: a creation dropped between two commands leaves namespace, link and tables on
  the host, and nobody deletes them; only the relay goes with the lease.
* NET:284: with three host resolvers the fallback 1.1.1.1 is cut off the list
  (docs/networking.md:19).
* FC:225: when one preparation of a batch fails, VMs that the others had already put
  into the map are in no pool and have no reaper (docs/sota-roadmap.md:88).
* FC:1035: without a ready pool (`Target = 0`) two first creates capture into the same
  files, and a later restore can mix them (docs/architecture.md:95);
  RestoreConsistent is checked and proved with a pool, whose first preparation runs alone.
* FC:623: the init request has no deadline of its own, nor have health (FC:595), rekey
  (FC:686) and execute (FC:938), so that `boot_timeout` bounds the connects only. A
  guest that hangs after the connect holds its launch, keeps `try_join_all` and with it
  the pool's maintainer waiting (FC:225), and, in a clone or rollback, which hold the
  snapshot's lock meanwhile (FC:1688, FC:1742), blocks every listing (FC:1633).
  LaunchEnds, PoolRefills and ListingEnds are conditional on guests that answer.

## 7. Not modelled

* Power loss under the boot snapshot, whose files are not synced before READY is
  written (FC:783), and a binary with another Firecracker version that is started and
  replaced again in the middle of a capture.
* Directory listings, `get_sandbox` and health: they read one state once and change
  nothing. Symbolic links in the workspace: cap-std and the path checks keep them
  inside, which is a property of path resolution, not of interleavings.
* What messages and files contain: digests, JSON, DNS packets, argument parsing,
  time stamps and the text of audit records.
* Bearer tokens (random token, digest, comparison), the Firecracker client, vsock and
  rootfs helpers (their outcomes are the faults of the models that call them), the
  entry points and the probe (sequential), the CLI (a client of the API and of the
  catalog) and the generated protocol keep no state of their own.
* A command that removes the workspace or the directories above it, and what bytes a
  command writes.
* Several API daemons or nodes: the code runs one of each over its own tables.

## 8. Plan

1. Done: the core (runtime, API, snapshot store, guest, pool, catalog); then listing,
   files with the process runtime, the network composed with its relays, and the
   abstract SandboxLifetime.
2. Done: the proofs of section 4.
3. Done: one module for the proofs of the runtime and the API, and the proofs of the
   files, the listing and the catalog.
4. Left to TLC: what section 4 lists as only model-checked.
