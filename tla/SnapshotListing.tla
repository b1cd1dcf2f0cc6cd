--------------------------- MODULE SnapshotListing ---------------------------
(***************************************************************************)
(* The snapshots of a sandbox in pages: a client asks for a page, then for *)
(* the one behind its cursor, until a page has no cursor.  Between two     *)
(* requests, and within one, snapshots are created, used and deleted: the  *)
(* map of the records is read once, and then each record is locked.        *)
(***************************************************************************)
EXTENDS Naturals, Sequences, SequencesExt, FiniteSets

CONSTANTS Snaps,     \* ids of the sandbox's snapshots, in the order of their strings
          Foreign,   \* ids of snapshots of other sandboxes, in the same map
          Stamps,    \* what the clock may say; it may tie and go back
          MaxLimit,  \* 100
          MaxUses    \* most calls that use a snapshot

ASSUME ListingAssumption ==
    /\ Snaps \cup Foreign \subseteq Nat \ {0}
    /\ Snaps \cap Foreign = {}
    /\ IsFiniteSet(Snaps)
    /\ Stamps \subseteq Nat
    /\ MaxLimit \in Nat \ {0}
    /\ MaxUses \in Nat

VARIABLES
    step,     \* of each snapshot's creation or deletion
    stamp,    \* its created_at_unix_ms
    records,  \* the runtime's map
    lock,     \* who has each record's lock
    uses,     \* calls so far that used a snapshot
    alive,    \* the listed sandbox is in the tables
    client,   \* what the client's listing is at
    toLock,   \* records of the present request still to be locked
    handles,  \* those it has collected
    cursor,   \* of the last page, 0 if there is none
    pages,    \* all the snapshots it was given
    steady    \* records that were there from the first request on

listVars == <<client, toLock, handles, cursor, pages>>
snapVars == <<step, stamp, records>>
vars == <<snapVars, lock, uses, alive, listVars, steady>>

Init ==
    /\ step = [s \in Snaps |-> "none"]
    /\ stamp = [s \in Snaps |-> 0]
    /\ records = Foreign
    /\ lock = [s \in Snaps \cup Foreign |-> "free"]
    /\ uses = 0
    /\ alive = TRUE
    /\ client = "idle"
    /\ toLock = {} /\ handles = {}
    /\ cursor = 0 /\ pages = <<>>
    /\ steady = {}
-----------------------------------------------------------------------------
Step(s, label) == step' = [step EXCEPT ![s] = label]

\* stage takes the time; the source's lock is given back before finalize.
Stage(s) ==
    /\ step[s] = "none"
    /\ alive
    /\ \E t \in Stamps : stamp' = [stamp EXCEPT ![s] = t]
    /\ Step(s, "staged")
    /\ UNCHANGED <<records, lock, uses, alive, listVars, steady>>

Publish(s) ==
    /\ step[s] = "staged"
    /\ Step(s, "there")
    /\ records' = records \cup {s}
    /\ UNCHANGED <<stamp, lock, uses, alive, listVars, steady>>

\* delete_snapshot: try_lock, or the snapshot is in use.
StartDelete(s) ==
    /\ step[s] = "there"
    /\ lock[s] = "free"
    /\ lock' = [lock EXCEPT ![s] = "delete"]
    /\ Step(s, "deleting")
    /\ steady' = steady \ {s}
    /\ UNCHANGED <<stamp, records, uses, alive, listVars>>

\* The files are removed; the lock is given back before the record goes.
Unlock(s) ==
    /\ step[s] = "deleting"
    /\ lock' = [lock EXCEPT ![s] = "free"]
    /\ Step(s, "unlocked")
    /\ UNCHANGED <<stamp, records, uses, alive, listVars, steady>>

Unmap(s) ==
    /\ step[s] = "unlocked"
    /\ Step(s, "gone")
    /\ records' = records \ {s}
    /\ UNCHANGED <<stamp, lock, uses, alive, listVars, steady>>

\* get, verify, restore, clone, rollback, and a deletion that will fail, hold
\* the lock while they work.
Use(s) ==
    /\ s \in records
    /\ lock[s] = "free"
    /\ uses < MaxUses
    /\ uses' = uses + 1
    /\ lock' = [lock EXCEPT ![s] = "use"]
    /\ UNCHANGED <<snapVars, alive, listVars, steady>>

(***************************************************************************)
(* The call is done or dropped.  clone and rollback keep the lock while    *)
(* they talk to the guest of the microVM they started: its answers have no *)
(* deadline, so that this step may never come.                             *)
(***************************************************************************)
Used(s) ==
    /\ lock[s] = "use"
    /\ lock' = [lock EXCEPT ![s] = "free"]
    /\ UNCHANGED <<snapVars, uses, alive, listVars, steady>>

DeleteSandbox ==
    /\ alive
    /\ alive' = FALSE
    /\ UNCHANGED <<snapVars, lock, uses, listVars, steady>>
-----------------------------------------------------------------------------
\* Mutant of Less: the time alone.
LessStamp(s, t) == stamp[s] < stamp[t]

\* Mutant of Less: the id alone.
LessId(s, t) == s < t

\* Creation time, then the id's string.
Less(s, t) == stamp[s] < stamp[t] \/ (stamp[s] = stamp[t] /\ s < t)

\* What sort_by makes of the handles, in whatever order the map gave them.
Sorted(S) == {list \in SetToSeqs(S) :
                \A i, j \in DOMAIN list : i < j => ~Less(list[j], list[i])}

Min2(m, n) == IF m < n THEN m ELSE n

\* The number of snapshots that come before the page.
Start(list) == IF cursor = 0 THEN 0 ELSE CHOOSE i \in DOMAIN list : list[i] = cursor

\* Mutant of More: the last page has a cursor too.
MoreAtEnd(list, end) == list # <<>> /\ end <= Len(list)

\* Whether the page gets a cursor.
More(list, end) == end < Len(list)

\* authorize, and the runtime's record(): the sandbox is there.
Request ==
    /\ client \in {"idle", "more"}
    /\ alive
    /\ client' = "locking"
    /\ toLock' = records
    /\ handles' = {}
    /\ steady' = IF client = "idle"
                 THEN {s \in Snaps : step[s] = "there"}
                 ELSE steady
    /\ UNCHANGED <<snapVars, lock, uses, alive, cursor, pages>>

RequestNotFound ==
    /\ client \in {"idle", "more"}
    /\ ~alive
    /\ client' = "not found"
    /\ UNCHANGED <<snapVars, lock, uses, alive, toLock, handles, cursor, pages, steady>>

\* Records of every sandbox are locked, in the map's order, each for a moment.
Collect(s) ==
    /\ client = "locking"
    /\ s \in toLock
    /\ lock[s] = "free"
    /\ toLock' = toLock \ {s}
    /\ handles' = IF s \in Snaps THEN handles \cup {s} ELSE handles
    /\ UNCHANGED <<snapVars, lock, uses, alive, client, cursor, pages, steady>>

\* A page of at most the limit, and a cursor if anything is behind it.
Answer ==
    /\ client = "locking"
    /\ toLock = {}
    /\ cursor = 0 \/ cursor \in handles
    /\ \E list \in Sorted(handles), limit \in 1..MaxLimit :
        LET start == Start(list)
            end   == Min2(start + limit, Len(list))
            more  == More(list, end)
        IN  /\ pages' = pages \o SubSeq(list, start + 1, end)
            /\ cursor' = IF more THEN list[end] ELSE 0
            /\ client' = IF more THEN "more" ELSE "done"
    /\ handles' = {}
    /\ UNCHANGED <<snapVars, lock, uses, alive, toLock, steady>>

\* "cursor does not belong to this sandbox".
BadCursor ==
    /\ client = "locking"
    /\ toLock = {}
    /\ cursor # 0 /\ cursor \notin handles
    /\ client' = "refused"
    /\ handles' = {}
    /\ UNCHANGED <<snapVars, lock, uses, alive, toLock, cursor, pages, steady>>
-----------------------------------------------------------------------------
ListStep == Request \/ RequestNotFound \/ Answer \/ BadCursor

Next ==
    \/ \E s \in Snaps :
        \/ Stage(s) \/ Publish(s)
        \/ StartDelete(s) \/ Unlock(s) \/ Unmap(s)
    \/ \E s \in Snaps \cup Foreign : Use(s) \/ Used(s) \/ Collect(s)
    \/ DeleteSandbox
    \/ ListStep

(***************************************************************************)
(* The client goes on while there is a cursor, a deletion that has removed *)
(* the files unlocks, and tokio's mutex, first come, first served, lets    *)
(* the request have each lock in its turn.  That a call which uses a       *)
(* snapshot ends is not among what the code guarantees.                    *)
(***************************************************************************)
Fairness ==
    /\ WF_vars(ListStep \/ \E s \in Snaps \cup Foreign : Collect(s))
    /\ WF_vars(\E s \in Snaps : Unlock(s))

FairSpec == Init /\ [][Next]_vars /\ Fairness
-----------------------------------------------------------------------------
(***************************************************************************)
(* A listing that comes to its end has given every snapshot that was there *)
(* from its first request to its last, whatever was created, used and      *)
(* deleted meanwhile; it is refused only if the cursor's own snapshot has  *)
(* been deleted.                                                           *)
(***************************************************************************)
PagesComplete ==
    /\ client = "done" => \A s \in steady : Contains(pages, s)
    /\ client = "refused" => step[cursor] = "gone"

(***************************************************************************)
(* The pages of a listing, one after the other, are in the order of        *)
(* creation, with no snapshot twice and none of another sandbox.           *)
(***************************************************************************)
PagesOrdered ==
    /\ \A i \in DOMAIN pages : pages[i] \in Snaps
    /\ \A i, j \in DOMAIN pages : i < j =>
        pages[i] # pages[j] /\ stamp[pages[i]] <= stamp[pages[j]]

(***************************************************************************)
(* Following the cursor, a client comes to an end of its pages, however    *)
(* small they are, and although each record, of whichever sandbox, may be  *)
(* locked when its turn comes: provided that no clone or rollback of a     *)
(* snapshot on the node waits for ever for a guest that does not answer.   *)
(***************************************************************************)
ListingEnds ==
    (\A s \in Snaps \cup Foreign : []<>(lock[s] # "use")) =>
        (client = "locking" ~> client \in {"done", "refused", "not found"})
-----------------------------------------------------------------------------
(***************************************************************************)
(* Why the pages are complete and in order, as an inductive invariant.     *)
(***************************************************************************)
Mapped == {"there", "deleting", "unlocked"}

ListTypeOK ==
    /\ step \in [Snaps -> {"none", "staged", "gone"} \cup Mapped]
    /\ stamp \in [Snaps -> Nat]
    /\ records \in SUBSET (Snaps \cup Foreign)
    /\ client \in {"idle", "locking", "more", "done", "refused", "not found"}
    /\ toLock \in SUBSET (Snaps \cup Foreign)
    /\ handles \in SUBSET Snaps
    /\ cursor \in Snaps \cup {0}
    /\ pages \in Seq(Snaps)
    /\ steady \in SUBSET Snaps

\* MappedInv: the map has the records of what is published and not gone.
MappedInv == \A s \in Snaps : s \in records <=> step[s] \in Mapped

\* SeenInv: whatever a listing has met is published, so that its time is fixed.
SeenInv ==
    /\ \A s \in (toLock \cup handles) \cap Snaps : step[s] \in Mapped \cup {"gone"}
    /\ \A i \in 1..Len(pages) : step[pages[i]] \in Mapped \cup {"gone"}

\* SteadyInv: what stays is in the map, and every request meets it.
SteadyInv ==
    /\ \A s \in steady : step[s] = "there"
    /\ client = "locking" => steady \subseteq toLock \cup handles

\* OrderInv: the pages are in the strict order of Less.
OrderInv == \A i, j \in 1..Len(pages) : i < j => Less(pages[i], pages[j])

(***************************************************************************)
(* CursorInv: between pages the cursor is the last snapshot given, and all *)
(* that stays was given or comes behind it.  It is missed only when it has *)
(* been deleted.                                                           *)
(***************************************************************************)
CursorInv ==
    /\ client = "idle" => cursor = 0
    /\ client \in {"more", "refused"} => cursor # 0
    /\ client \in {"idle", "more", "locking"} /\ cursor = 0 => pages = <<>>
    /\ client \in {"more", "locking"} /\ cursor # 0 =>
        /\ pages # <<>> /\ pages[Len(pages)] = cursor
        /\ \A s \in steady : Less(cursor, s) \/ Contains(pages, s)
    /\ client = "locking" /\ cursor # 0 /\ cursor \notin toLock \cup handles =>
        step[cursor] = "gone"

ListInv ==
    /\ ListTypeOK /\ MappedInv /\ SeenInv /\ SteadyInv
    /\ OrderInv /\ CursorInv /\ PagesComplete
=============================================================================
