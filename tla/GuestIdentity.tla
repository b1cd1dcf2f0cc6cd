---------------------------- MODULE GuestIdentity ----------------------------
(***************************************************************************)
(* Who a microVM is: the identity (sandbox id and token) the guest agent   *)
(* holds, the network address it configured, and the token in the host's   *)
(* record.  A booted guest is initialized once, over a connection that may *)
(* break at any moment, which makes the host ask again; a guest restored   *)
(* from a snapshot still has the identity of the captured one and is       *)
(* rekeyed; a rollback rekeys its replacement a second time, to the id it  *)
(* takes over.                                                             *)
(*                                                                         *)
(* A VM is named by its jailer id, which is also the id it is launched     *)
(* under.  Every sandbox here has a network.                               *)
(***************************************************************************)
EXTENDS Naturals

CONSTANTS Vms, Snaps, None,
          Cold,      \* the VMs that are booted; the others are restored
          MaxTries   \* init requests per launch, before the boot timeout

VARIABLES
    stage,    \* how far the host is with the VM
    guest,    \* GuestService.initialization
    address,  \* the VM whose lease's address the guest has on eth0
    box,      \* the sandbox id whose entry holds the record
    token,    \* FirecrackerSandbox.guest_token
    target,   \* the VM a rollback launched this one to replace
    source,   \* the sandbox id that rollback is about
    image,    \* a snapshot: the captured VM, its guest, and restore-token
    tries, init, writer,   \* init requests, their handlers, who has the lock
    rekey,    \* the handler of a rekey request
    previous, \* the token a rekey request authenticates with
    reply     \* what the guest answered to the request under way

identityVars == <<stage, guest, address, box, token, target, source, image, tries, init,
                  writer, rekey, previous, reply>>
agent == <<guest, address, init, writer, rekey, reply>>
record == <<box, token, target, source>>

Stages == {"off", "booted", "init", "restored", "rekey", "mapped", "replacing", "dead"}
InitPhases == {"none", "lock", "configure"}
RekeyPhases == {"none", "authorize", "flush", "configure", "commit"}
Replies == {"none", "ok", "error", "refused"}

\* Two random tokens for each VM: one for its launch and one for a rollback.
Token(v, n) == <<v, n>>
Tokens == Vms \X {1, 2}
Identities == [id : Vms, token : Tokens]
Images == [of : Vms, guest : Identities, address : Vms, token : Tokens]

ASSUME IdentityAssumption ==
    /\ None \notin Vms \cup Tokens \cup Identities \cup Images
    /\ Cold \subseteq Vms
    /\ MaxTries \in Nat \ {0}

IdentityInit ==
    /\ stage = [v \in Vms |-> "off"]
    /\ guest = [v \in Vms |-> None]
    /\ address = [v \in Vms |-> None]
    /\ box = [v \in Vms |-> None]
    /\ token = [v \in Vms |-> None]
    /\ target = [v \in Vms |-> None]
    /\ source = [v \in Vms |-> None]
    /\ image = [s \in Snaps |-> None]
    /\ tries = [v \in Vms |-> 0]
    /\ init = [v \in Vms |-> [k \in 1..MaxTries |-> "none"]]
    /\ writer = [v \in Vms |-> 0]
    /\ rekey = [v \in Vms |-> "none"]
    /\ previous = [v \in Vms |-> None]
    /\ reply = [v \in Vms |-> "none"]
-----------------------------------------------------------------------------
Goto(v, label) == stage' = [stage EXCEPT ![v] = label]
Answer(v, r) == reply' = [reply EXCEPT ![v] = r]

\* The VM is killed, whatever its agent was doing, and the call ends.
Kill(v) ==
    /\ guest' = [guest EXCEPT ![v] = None]
    /\ address' = [address EXCEPT ![v] = None]
    /\ init' = [init EXCEPT ![v] = [k \in 1..MaxTries |-> "none"]]
    /\ writer' = [writer EXCEPT ![v] = 0]
    /\ rekey' = [rekey EXCEPT ![v] = "none"]

Retire(v) ==
    /\ Goto(v, "dead")
    /\ Kill(v)
    /\ Answer(v, "none")
    /\ box' = [box EXCEPT ![v] = None]
    /\ token' = [token EXCEPT ![v] = None]
    /\ target' = [target EXCEPT ![v] = None]
    /\ source' = [source EXCEPT ![v] = None]
    /\ previous' = [previous EXCEPT ![v] = None]

\* A rollback holds the lock of the VM it replaces from before its launch on.
Locked(u) == \E w \in Vms : target[w] = u

Boot(v) ==
    /\ v \in Cold
    /\ stage[v] = "off"
    /\ Goto(v, "booted")
    /\ UNCHANGED <<agent, record, image, tries, previous>>

(***************************************************************************)
(* initialize_guest.  An Unavailable answer says nothing of what became of *)
(* the request: its handler may have finished, may run on for a while, or  *)
(* may be dropped (HandlerDropped).                                        *)
(***************************************************************************)
SendInit(v) ==
    /\ stage[v] = "booted"
    /\ tries[v] < MaxTries
    /\ Goto(v, "init")
    /\ tries' = [tries EXCEPT ![v] = @ + 1]
    /\ init' = [init EXCEPT ![v][tries[v] + 1] = "lock"]
    /\ Answer(v, "none")
    /\ UNCHANGED <<guest, address, writer, rekey, record, image, previous>>

InitUnavailable(v) ==
    /\ stage[v] = "init"
    /\ Goto(v, "booted")
    /\ UNCHANGED <<agent, record, image, tries, previous>>

\* init answered: the record enters the map, with the token that was sent.
Initialized(v) ==
    /\ stage[v] = "init"
    /\ reply[v] = "ok"
    /\ Goto(v, "mapped")
    /\ box' = [box EXCEPT ![v] = v]
    /\ token' = [token EXCEPT ![v] = Token(v, 1)]
    /\ Answer(v, "none")
    /\ UNCHANGED <<guest, address, init, writer, rekey, target, source, image, tries, previous>>

\* Any other status, or the boot timeout: launch_inner kills the VM.
LaunchFails(v) ==
    /\ \/ stage[v] \in {"init", "rekey"} /\ reply[v] \in {"error", "refused"}
       \/ stage[v] \in {"booted", "restored"}
    /\ Retire(v)
    /\ UNCHANGED <<image, tries>>
-----------------------------------------------------------------------------
(***************************************************************************)
(* The guest's init: the identity's write lock is held from the check to   *)
(* the assignment, across the commands that configure the network.         *)
(***************************************************************************)
Candidate(v) == [id |-> v, token |-> Token(v, 1)]

\* Only the newest request has somebody waiting for its answer.
InitReply(v, k, r) ==
    IF k = tries[v] /\ stage[v] = "init" THEN Answer(v, r) ELSE UNCHANGED reply

\* Mutant of Replayed: a guest that has an identity takes no init.
ReplayedNever(v) == FALSE

Replayed(v) == guest[v] = Candidate(v)

\* configure_pids_limit comes before the lock, in a replay too, and may fail.
InitFails(v, k) ==
    /\ init[v][k] = "lock"
    /\ init' = [init EXCEPT ![v][k] = "none"]
    /\ InitReply(v, k, "error")
    /\ UNCHANGED <<stage, guest, address, writer, rekey, record, image, tries, previous>>

InitLock(v, k) ==
    /\ init[v][k] = "lock"
    /\ writer[v] = 0
    /\ \/ /\ guest[v] = None
          /\ writer' = [writer EXCEPT ![v] = k]
          /\ init' = [init EXCEPT ![v][k] = "configure"]
          /\ UNCHANGED reply
       \/ /\ guest[v] # None
          /\ InitReply(v, k, IF Replayed(v) THEN "ok" ELSE "refused")
          /\ init' = [init EXCEPT ![v][k] = "none"]
          /\ UNCHANGED writer
    /\ UNCHANGED <<stage, guest, address, rekey, record, image, tries, previous>>

InitCommit(v, k) ==
    /\ init[v][k] = "configure"
    /\ \/ /\ guest' = [guest EXCEPT ![v] = Candidate(v)]
          /\ InitReply(v, k, "ok")
          /\ address' = [address EXCEPT ![v] = v]
       \/ /\ InitReply(v, k, "error")          \* a command failed
          /\ UNCHANGED <<guest, address>>
    /\ init' = [init EXCEPT ![v][k] = "none"]
    /\ writer' = [writer EXCEPT ![v] = 0]
    /\ UNCHANGED <<stage, rekey, record, image, tries, previous>>

\* Mutant of Released: a dropped handler keeps the lock.
ReleasedNever(v, k) == writer

\* The guard goes with the handler's future.
Released(v, k) == IF writer[v] = k THEN [writer EXCEPT ![v] = 0] ELSE writer

\* The agent notices that the connection of an abandoned request is gone.
HandlerDropped(v, k) ==
    /\ init[v][k] # "none"
    /\ k < tries[v] \/ stage[v] # "init"
    /\ address' \in {address} \cup
          (IF init[v][k] = "configure" THEN {[address EXCEPT ![v] = v]} ELSE {})
    /\ init' = [init EXCEPT ![v][k] = "none"]
    /\ writer' = Released(v, k)
    /\ UNCHANGED <<stage, guest, rekey, reply, record, image, tries, previous>>
-----------------------------------------------------------------------------
(***************************************************************************)
(* Snapshots.  create_snapshot stores the record's token next to the VM's  *)
(* memory, under the record's lock.  A restored VM starts as the captured  *)
(* one, address and identity included.                                     *)
(***************************************************************************)
Capture(v, s) ==
    /\ stage[v] = "mapped"
    /\ target[v] = None
    /\ ~Locked(v)
    /\ image[s] = None
    /\ image' = [image EXCEPT ![s] = [of |-> v, guest |-> guest[v],
                                      address |-> address[v], token |-> token[v]]]
    /\ UNCHANGED <<stage, agent, record, tries, previous>>

\* u is the VM a rollback will replace, or None for a clone.
Restore(v, s, u) ==
    /\ v \notin Cold
    /\ stage[v] = "off"
    /\ image[s] # None
    /\ u # None => stage[u] = "mapped" /\ target[u] = None /\ ~Locked(u)
    /\ Goto(v, "restored")
    /\ guest' = [guest EXCEPT ![v] = image[s].guest]
    /\ address' = [address EXCEPT ![v] = image[s].address]
    /\ previous' = [previous EXCEPT ![v] = image[s].token]
    /\ target' = [target EXCEPT ![v] = u]
    /\ source' = [source EXCEPT ![v] = IF u = None THEN None ELSE box[u]]
    /\ UNCHANGED <<init, writer, rekey, reply, box, token, image, tries>>

SendRekey(v) ==
    /\ stage[v] = "restored"
    /\ Goto(v, "rekey")
    /\ rekey' = [rekey EXCEPT ![v] = "authorize"]
    /\ Answer(v, "none")
    /\ UNCHANGED <<guest, address, init, writer, record, image, tries, previous>>

Rekeyed(v) ==
    /\ stage[v] = "rekey"
    /\ reply[v] = "ok"
    /\ Goto(v, "mapped")
    /\ box' = [box EXCEPT ![v] = v]
    /\ token' = [token EXCEPT ![v] = Token(v, 1)]
    /\ Answer(v, "none")
    /\ UNCHANGED <<guest, address, init, writer, rekey, target, source, image, tries, previous>>
-----------------------------------------------------------------------------
\* The guest's rekey: authorized(), flush, configure, and the new identity.
NewIdentity(v) ==
    IF stage[v] = "replacing"
    THEN [id |-> source[v], token |-> Token(v, 2)] ELSE Candidate(v)

RekeyAuthorize(v) ==
    /\ rekey[v] = "authorize"
    /\ IF guest[v].token = previous[v]
       THEN rekey' = [rekey EXCEPT ![v] = "flush"] /\ UNCHANGED reply
       ELSE rekey' = [rekey EXCEPT ![v] = "none"] /\ Answer(v, "refused")
    /\ UNCHANGED <<stage, guest, address, init, writer, record, image, tries, previous>>

RekeyFlush(v) ==
    /\ rekey[v] = "flush"
    /\ address' = [address EXCEPT ![v] = None]
    /\ rekey' = [rekey EXCEPT ![v] = "configure"]
    /\ UNCHANGED <<stage, guest, init, writer, reply, record, image, tries, previous>>

RekeyConfigure(v) ==
    /\ rekey[v] = "configure"
    /\ address' = [address EXCEPT ![v] = v]
    /\ rekey' = [rekey EXCEPT ![v] = "commit"]
    /\ UNCHANGED <<stage, guest, init, writer, reply, record, image, tries, previous>>

\* Mutant of RekeyCommit: the id changes and the token stays.
RekeyCommitKeepsToken(v) ==
    /\ rekey[v] = "commit"
    /\ guest' = [guest EXCEPT ![v].id = NewIdentity(v).id]
    /\ rekey' = [rekey EXCEPT ![v] = "none"]
    /\ Answer(v, "ok")
    /\ UNCHANGED <<stage, address, init, writer, record, image, tries, previous>>

RekeyCommit(v) ==
    /\ rekey[v] = "commit"
    /\ guest' = [guest EXCEPT ![v] = NewIdentity(v)]
    /\ rekey' = [rekey EXCEPT ![v] = "none"]
    /\ Answer(v, "ok")
    /\ UNCHANGED <<stage, address, init, writer, record, image, tries, previous>>

\* A command fails, or the connection breaks, before or after the assignment.
RekeyBreaks(v) ==
    /\ stage[v] \in {"rekey", "replacing"}
    /\ rekey' = [rekey EXCEPT ![v] = "none"]
    /\ Answer(v, "error")
    /\ UNCHANGED <<stage, guest, address, init, writer, record, image, tries, previous>>
-----------------------------------------------------------------------------
(***************************************************************************)
(* rollback_snapshot, with both records locked: rekey the replacement to   *)
(* the source's id, remember the new token, exchange the entries, and      *)
(* terminate the old VM.                                                   *)
(***************************************************************************)
Replaceable(v) == stage[target[v]] = "mapped"

SendReplace(v) ==
    /\ stage[v] = "mapped"
    /\ target[v] # None
    /\ Goto(v, "replacing")
    /\ previous' = [previous EXCEPT ![v] = token[v]]
    /\ rekey' = [rekey EXCEPT ![v] = "authorize"]
    /\ Answer(v, "none")
    /\ UNCHANGED <<guest, address, init, writer, record, image, tries>>

\* Mutant of NewToken: replacement.guest_token is not updated.
NewTokenForgotten(v) == token[v]

NewToken(v) == Token(v, 2)

Replaced(v) ==
    /\ stage[v] = "replacing"
    /\ reply[v] = "ok"
    /\ Replaceable(v)
    /\ LET u == target[v]
       IN  /\ stage' = [stage EXCEPT ![v] = "mapped", ![u] = "dead"]
           /\ box' = [box EXCEPT ![v] = source[v], ![u] = None]
           /\ token' = [token EXCEPT ![v] = NewToken(v), ![u] = None]
           /\ Kill(u)
    /\ target' = [target EXCEPT ![v] = None]
    /\ previous' = [previous EXCEPT ![v] = None]
    /\ Answer(v, "none")
    /\ source' = [source EXCEPT ![v] = None]
    /\ UNCHANGED <<image, tries>>

\* The rekey failed, or a delete took the source out of the map meanwhile.
ReplaceFails(v) ==
    /\ stage[v] = "replacing"
    /\ reply[v] \in {"error", "refused"} \/ (reply[v] = "ok" /\ ~Replaceable(v))
    /\ Retire(v)
    /\ UNCHANGED <<image, tries>>

(***************************************************************************)
(* delete of a sandbox by its id, which a replacement under way has none   *)
(* of yet.  No call reaches the VM once its entry is gone, so that waiting *)
(* for the record's lock before the kill is not a step here.               *)
(***************************************************************************)
Delete(v) ==
    /\ stage[v] = "mapped"
    /\ target[v] = None
    /\ Retire(v)
    /\ UNCHANGED <<image, tries>>
-----------------------------------------------------------------------------
InitHandler(v) == \E k \in 1..MaxTries :
    InitLock(v, k) \/ InitCommit(v, k) \/ HandlerDropped(v, k)

RekeyHandler(v) ==
    RekeyAuthorize(v) \/ RekeyFlush(v) \/ RekeyConfigure(v) \/ RekeyCommit(v)

HostStep(v) ==
    \/ SendInit(v) \/ Initialized(v) \/ LaunchFails(v)
    \/ SendRekey(v) \/ Rekeyed(v)
    \/ SendReplace(v) \/ Replaced(v) \/ ReplaceFails(v)

IdentityNext == \E v \in Vms :
    \/ HostStep(v) \/ InitHandler(v) \/ RekeyHandler(v)
    \/ InitUnavailable(v) \/ RekeyBreaks(v) \/ (\E k \in 1..MaxTries : InitFails(v, k))
    \/ Boot(v) \/ Delete(v)
    \/ \E s \in Snaps : Capture(v, s) \/ \E u \in Vms \cup {None} : Restore(v, s, u)

IdentitySpec == IdentityInit /\ [][IdentityNext]_identityVars

\* Host tasks and handlers are polled; nothing has to fail, and no request to be made.
IdentityFairness == \A v \in Vms :
    /\ WF_identityVars(HostStep(v))
    /\ WF_identityVars(InitHandler(v) \/ RekeyHandler(v))

IdentityFairSpec == IdentitySpec /\ IdentityFairness
-----------------------------------------------------------------------------
\* Every variable has its type.
IdentityTypeOK ==
    /\ stage \in [Vms -> Stages]
    /\ guest \in [Vms -> Identities \cup {None}]
    /\ address \in [Vms -> Vms \cup {None}]
    /\ box \in [Vms -> Vms \cup {None}]
    /\ token \in [Vms -> Tokens \cup {None}]
    /\ target \in [Vms -> Vms \cup {None}]
    /\ source \in [Vms -> Vms \cup {None}]
    /\ image \in [Snaps -> Images \cup {None}]
    /\ tries \in [Vms -> 0..MaxTries]
    /\ init \in [Vms -> [1..MaxTries -> InitPhases]]
    /\ writer \in [Vms -> 0..MaxTries]
    /\ rekey \in [Vms -> RekeyPhases]
    /\ previous \in [Vms -> Tokens \cup {None}]
    /\ reply \in [Vms -> Replies]

(***************************************************************************)
(* Whatever requests were lost, repeated or abandoned on the way: a        *)
(* sandbox that callers can use has a guest that answers to its id and to  *)
(* the token in its record, and to its own address.                        *)
(***************************************************************************)
IdentityMatchesRecord ==
    \A v \in Vms : stage[v] = "mapped" =>
        /\ guest[v] = [id |-> box[v], token |-> token[v]]
        /\ address[v] = v

(***************************************************************************)
(* Clones are independent: the credential a snapshot keeps opens no        *)
(* sandbox but the one that was captured.                                  *)
(***************************************************************************)
CapturedTokenRetired ==
    \A s \in Snaps, v \in Vms :
        image[s] # None /\ stage[v] = "mapped" /\ guest[v].token = image[s].token
            => v = image[s].of

(***************************************************************************)
(* The host never locks itself out: an init that is repeated because its   *)
(* answer was lost is not refused, and neither is a rekey with the token   *)
(* the store or the record holds.                                          *)
(***************************************************************************)
NeverRefused == \A v \in Vms : reply[v] # "refused"

(***************************************************************************)
(* Every launch ends: the guest's write lock is free again after each      *)
(* abandoned init, so that a later one is answered.  The requests have no  *)
(* deadline: the fairness says that a guest's handlers run, or that the    *)
(* connection to it breaks.                                                *)
(***************************************************************************)
LaunchEnds ==
    \A v \in Vms : stage[v] \in {"booted", "init", "restored", "rekey"}
                      ~> stage[v] \in {"mapped", "dead"}
-----------------------------------------------------------------------------
(***************************************************************************)
(* Why these hold, as an inductive invariant of each VM.                   *)
(*                                                                         *)
(* InitInv: the identity's write lock belongs to the one handler that is   *)
(* configuring, before there is an identity; a booted guest has no other   *)
(* identity than the one its launch gives it.                              *)
(***************************************************************************)
InitInv(v) ==
    /\ \A k \in 1..MaxTries : init[v][k] = "configure" <=> writer[v] = k
    /\ writer[v] # 0 => guest[v] = None
    /\ \A k \in 1..MaxTries : k > tries[v] => init[v][k] = "none"
    /\ v \in Cold =>
        /\ stage[v] \notin {"restored", "rekey", "replacing"}
        /\ guest[v] # None => guest[v] = Candidate(v) /\ address[v] = v
    /\ v \notin Cold =>
        /\ stage[v] \notin {"booted", "init"}
        /\ \A k \in 1..MaxTries : init[v][k] = "none"
    /\ stage[v] = "init" /\ reply[v] = "ok" => guest[v] = Candidate(v)

(***************************************************************************)
(* RekeyInv: until a rekey commits the guest has the identity whose token  *)
(* the host presents; when the host has the answer, it has the new one.    *)
(***************************************************************************)
RekeyInv(v) ==
    /\ rekey[v] # "none" => stage[v] \in {"rekey", "replacing"} /\ reply[v] = "none"
    /\ rekey[v] # "none" \/ stage[v] = "restored" =>
        guest[v] # None /\ guest[v].token = previous[v]
    /\ rekey[v] = "commit" => address[v] = v
    /\ stage[v] \in {"rekey", "replacing"} /\ reply[v] = "ok" =>
        guest[v] = NewIdentity(v) /\ address[v] = v
    /\ stage[v] = "replacing" => target[v] # None
    /\ target[v] # None => v \notin Cold /\ target[v] # v /\ source[v] \in Vms

\* RecordInv: a record in the map has a token of its own VM, and an id.
RecordInv(v) ==
    stage[v] = "mapped" =>
        /\ guest[v] = [id |-> box[v], token |-> token[v]]
        /\ address[v] = v
        /\ box[v] \in Vms
        /\ token[v] \in {Token(v, 1), Token(v, 2)}

\* ImageInv: a snapshot keeps the token its guest answers to.
ImageInv(s) ==
    image[s] # None =>
        /\ image[s].guest.token = image[s].token
        /\ image[s].token \in {Token(image[s].of, 1), Token(image[s].of, 2)}

IdentityInv ==
    /\ IdentityTypeOK
    /\ NeverRefused
    /\ \A v \in Vms : InitInv(v) /\ RekeyInv(v) /\ RecordInv(v)
    /\ \A s \in Snaps : ImageInv(s)
==============================================================================
