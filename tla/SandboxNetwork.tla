--------------------------- MODULE SandboxNetwork ---------------------------
(***************************************************************************)
(* The network leases together with their DNS relays.  All sandboxes whose *)
(* ids have the same first byte share one subnet; what keeps two of them   *)
(* from using it at the same time is that the relay's address can be bound *)
(* once.  The relay's UDP socket is owned by its loop and by every UDP     *)
(* task, and it is closed when the last of them is dropped, which abort()  *)
(* does not wait for.                                                      *)
(***************************************************************************)
EXTENDS NetworkLease, DnsRelay

ASSUME SandboxNetworkAssumption == Relays = Boxes

vars == <<netVars, relayVars>>

Init == NetInit /\ RelayInit
-----------------------------------------------------------------------------
LeaseCommand(b) ==
    /\ \/ StartCreate(b) \/ CreateFails(b) \/ StartDelete(b)
       \/ CreateCommand(b) /\ Commands[at[b]] # "relay"
       \/ RemoveCommand(b) /\ Removals[at[b]] # "relay"
       \/ RemoveFails(b)
    /\ UNCHANGED relayVars

StartRelay(b) ==
    /\ phase[b] = "creating" /\ Commands[at[b]] = "relay"
    /\ CreateCommand(b)
    /\ Serve(b)

\* delete begins with abort(), if create had come to start the relay.
StopRelay(b) ==
    /\ phase[b] \in {"undoing", "deleting"} /\ Removals[at[b]] = "relay"
    /\ RemoveStep(b, {})
    /\ \/ Abort(b)
       \/ relay[b] # "up" /\ UNCHANGED relayVars
    /\ UNCHANGED kept

\* Mutant of DropLease: the relay is not the lease's to stop.
DropLeaseOnly(b) ==
    /\ phase[b] \in Active
    /\ phase' = [phase EXCEPT ![b] = "dropped"]
    /\ at' = [at EXCEPT ![b] = 1]
    /\ UNCHANGED <<host, kept, clashed, relayVars>>

(***************************************************************************)
(* The call that owns the lease is dropped, between two commands of create *)
(* or delete or later in the launch.  Only the relay goes with the lease;  *)
(* what the commands made stays on the host.                               *)
(***************************************************************************)
DropLease(b) ==
    /\ phase[b] \in Active
    /\ phase' = [phase EXCEPT ![b] = "dropped"]
    /\ at' = [at EXCEPT ![b] = 1]
    /\ \/ Abort(b)
       \/ relay[b] # "up" /\ UNCHANGED relayVars
    /\ UNCHANGED <<host, kept, clashed>>

\* recv_from or accept fails: the loop ends, and the lease is without relay.
RelayBreaks(b) ==
    /\ Abort(b)
    /\ UNCHANGED netVars

\* Mutant of SocketUsers: a UDP task answers from a socket of its own.
SocketUsersNone(b) == {}

\* The UDP tasks that hold the relay's socket.
SocketUsers(b) == {e \in Udp : Guest[e] = b /\ task[e] = "ask"}

\* The last owner of the socket is dropped.
Unbind(b) ==
    /\ relay[b] = "down"
    /\ SocketUsers(b) = {}
    /\ Object("relay", b) \in host
    /\ host' = host \ {Object("relay", b)}
    /\ UNCHANGED <<at, phase, kept, clashed, relayVars>>

RelayExchange(e) == Exchange(e) /\ UNCHANGED netVars
-----------------------------------------------------------------------------
Next ==
    \/ \E b \in Boxes :
        \/ LeaseCommand(b) \/ StartRelay(b) \/ StopRelay(b)
        \/ DropLease(b) \/ RelayBreaks(b) \/ Unbind(b)
    \/ \E e \in Exchanges : RelayExchange(e)

Spec == Init /\ [][Next]_vars

(***************************************************************************)
(* Tasks are polled and their timeouts pass, and what is aborted is        *)
(* dropped; guests send and read what they like, and commands take what    *)
(* they take.  A write to a guest that does not read may last for ever.    *)
(***************************************************************************)
Fairness ==
    /\ \A e \in Exchanges : WF_vars(TaskStep(e) /\ UNCHANGED netVars)
    /\ \A b \in Boxes : WF_vars(Unbind(b))

FairSpec == Spec /\ Fairness
-----------------------------------------------------------------------------
(***************************************************************************)
(* An address has one user: while a sandbox's relay serves its guest, no   *)
(* relay of another sandbox with the same subnet is up, and no exchange of *)
(* one that is gone can still send its answer there, where the new guest   *)
(* would take it for its own.                                              *)
(***************************************************************************)
OneUserPerAddress ==
    \A b, c \in Boxes : b # c /\ Octet(b) = Octet(c) /\ relay[b] = "up" =>
        /\ relay[c] # "up"
        /\ \A e \in Udp : Guest[e] = c => task[e] # "ask"

(***************************************************************************)
(* However a lease ends, by failure, deletion or because its owner is      *)
(* dropped between any two commands, the gateway's port becomes free:      *)
(* nobody else could have the subnet otherwise.                            *)
(***************************************************************************)
GatewayFreed ==
    \A b \in Boxes : phase[b] \in {"failed", "deleted", "dropped"}
                        ~> Object("relay", b) \notin host
-----------------------------------------------------------------------------
(***************************************************************************)
(* Why these hold, as an inductive invariant.                              *)
(***************************************************************************)
Phases == {"none", "creating", "undoing", "held", "deleting", "failed", "deleted", "dropped"}
TaskStates == {"new", "read", "ask", "stalled", "closed", "dropped"}

\* Every variable that the invariants speak of has its type.
NetTypeOK ==
    /\ host \in SUBSET {Object(kind, b) : kind \in Kinds, b \in Boxes}
    /\ at \in [Boxes -> 1..Len(Commands)]
    /\ phase \in [Boxes -> Phases]
    /\ kept \in [Boxes -> SUBSET Kinds]
    /\ relay \in [Relays -> {"off", "up", "down"}]
    /\ task \in [Exchanges -> TaskStates]

\* CommandInv: which command comes next in each phase.
CommandInv ==
    \A b \in Boxes :
        /\ phase[b] \in {"undoing", "deleting"} => at[b] <= Len(Removals)
        /\ phase[b] \notin {"creating", "undoing", "deleting"} => at[b] = 1

\* MadeInv: what create's commands have made so far is still there, but for
\* leases with the same eight digits, each of which knows of the other.
MadeInv ==
    /\ \A b \in Boxes \ clashed, n \in 1..Len(Commands) :
        Commands[n] # "relay" /\ ((phase[b] = "creating" /\ n < at[b]) \/ phase[b] = "held")
            => Object(Commands[n], b) \in host
    /\ \A b, c \in Boxes :
        b # c /\ Stamp[b] = Stamp[c] /\ {phase[b], phase[c]} \subseteq Active => b \in clashed

\* RemovedInv: what delete's commands have removed so far has not come back.
\* The links are not in the list, as they go with the namespace.
RemovedInv ==
    \A b \in Boxes, n \in 1..Len(Removals), o \in host :
        Removals[n] # "relay" /\ phase[b] \in {"undoing", "deleting"} /\ n < at[b] /\ o.owner = b
            => o.kind # Removals[n] \/ Removals[n] \in kept[b]

\* SocketInv: a socket is bound once, and as long as anyone may write to it.
SocketInv ==
    /\ \A o, p \in host : o.kind = "relay" /\ p.kind = "relay" /\ o.key = p.key => o = p
    /\ \A b \in Boxes : relay[b] = "up" => Object("relay", b) \in host
    /\ \A e \in Udp :
        /\ task[e] \notin {"read", "stalled"}
        /\ task[e] = "ask" => Object("relay", Guest[e]) \in host

\* NetInv: all of it that holds whatever the names are.
NetInv == NetTypeOK /\ CommandInv /\ RemovedInv /\ NothingLeftBehind /\ SocketInv

AllUpstreams == {Upstreams[n] : n \in DOMAIN Upstreams}

\* TriedInv: a task has tried the upstreams before the present one, and no others.
TriedInv ==
    /\ task \in [Exchanges -> TaskStates]
    /\ server \in [Exchanges -> Nat]
    /\ tried \in [Exchanges -> SUBSET AllUpstreams]
    /\ answered \in [Exchanges -> Nat]
    /\ last \in [Exchanges -> {"none", "reply", "servfail"}]
    /\ \A e \in Exchanges : task[e] \in {"ask", "stalled"} =>
        server[e] >= 1 /\ \A n \in 1..server[e] - 1 : n <= Len(Upstreams) => Upstreams[n] \in tried[e]
==============================================================================
