---------------------------- MODULE NetworkLease ----------------------------
(***************************************************************************)
(* NetworkManager of ferrobox-node: the host objects behind the network of *)
(* an Internet-enabled sandbox.  create runs one host command after the    *)
(* other; a command that fails makes it run delete, whose commands go by   *)
(* name and ignore errors.  Creations and deletions of several sandboxes   *)
(* interleave between commands.                                            *)
(***************************************************************************)
EXTENDS Naturals, Sequences, FiniteSets

CONSTANTS Boxes,   \* Internet-enabled sandboxes
          Stamp,   \* the leading bytes of each sandbox id, a UUIDv7 timestamp
          Fails,   \* sandboxes whose commands may fail for reasons of their own
          MaxKept  \* most commands of one deletion that fail

ASSUME NetworkAssumption ==
    /\ \A b \in Boxes : Stamp[b] \in Seq(0..255) /\ Stamp[b] # <<>>
    /\ Fails \subseteq Boxes
    /\ MaxKept \in Nat

VARIABLES host,  \* the objects on the host: kind, key and who made them
          at,    \* the command a create or delete will run next
          phase, \* of the lease
          kept,  \* removals of each lease whose command failed
          clashed  \* leases that met another with the same eight digits

netVars == <<host, at, phase, kept, clashed>>

\* create's commands in order; "links" are the bridge, TAP and link settings.
Commands == <<"netns", "veth", "links", "nft", "forward", "relay">>
\* delete's commands: the links go with the namespace.
Removals == <<"relay", "forward", "nft", "veth", "netns">>
Kinds == {Commands[n] : n \in 1..Len(Commands)}

NetInit ==
    /\ host = {}
    /\ at = [b \in Boxes |-> 1]
    /\ phase = [b \in Boxes |-> "none"]
    /\ kept = [b \in Boxes |-> {}]
    /\ clashed = {}
-----------------------------------------------------------------------------
\* Mutant of Short: two hex digits, as the subnet takes.
ShortPrefix(b) == <<Head(Stamp[b])>>

\* Names use the first eight hex digits of the id, the subnet its first byte.
Short(b) == Stamp[b]
Octet(b) == 32 + (Head(Stamp[b]) % 191)

\* The relay binds port 53 of the gateway, 10.200.<octet>.1.
Key(kind, b) == IF kind = "relay" THEN <<Octet(b)>> ELSE Short(b)

Object(kind, b) == [kind |-> kind, key |-> Key(kind, b), owner |-> b]

\* What a command that goes by name would find.
Found(kind, b) == {o \in host : o.kind = kind /\ o.key = Key(kind, b)}

(***************************************************************************)
(* `ip netns add`, `ip link add` and bind fail on an existing name; an nft *)
(* table is merged into one that exists, and `iptables -I` always inserts. *)
(***************************************************************************)
Exclusive == {"netns", "veth", "links", "relay"}

Active == {"creating", "undoing", "held", "deleting"}

\* The leases in use whose ids start with the same eight digits.
Peers(b) == {c \in Boxes \ {b} : Stamp[c] = Stamp[b] /\ phase[c] \in Active}

StartCreate(b) ==
    /\ phase[b] = "none"
    /\ phase' = [phase EXCEPT ![b] = "creating"]
    /\ clashed' = clashed \cup Peers(b) \cup {c \in {b} : Peers(b) # {}}
    /\ UNCHANGED <<host, at, kept>>

CreateCommand(b) ==
    /\ phase[b] = "creating"
    /\ LET kind == Commands[at[b]]
       IN  /\ kind \in Exclusive => Found(kind, b) = {}
           /\ host' = host \cup {Object(kind, b)}
    /\ at' = [at EXCEPT ![b] = IF @ = Len(Commands) THEN 1 ELSE @ + 1]
    /\ phase' = [phase EXCEPT ![b] = IF at[b] = Len(Commands) THEN "held" ELSE @]
    /\ UNCHANGED <<kept, clashed>>

\* Kinds that several commands make, so that one half may be there alone.
InParts == {"links", "forward"}

CreateFails(b) ==
    /\ phase[b] = "creating"
    /\ \/ b \in Fails /\ UNCHANGED host
       \/ b \in Fails /\ Commands[at[b]] \in InParts /\ host' = host \cup {Object(Commands[at[b]], b)}
       \/ Commands[at[b]] \in Exclusive /\ Found(Commands[at[b]], b) # {} /\ UNCHANGED host
    /\ at' = [at EXCEPT ![b] = 1]
    /\ phase' = [phase EXCEPT ![b] = "undoing"]
    /\ UNCHANGED <<kept, clashed>>

\* terminate_record, or launch_inner after a later step failed.
StartDelete(b) ==
    /\ phase[b] = "held"
    /\ phase' = [phase EXCEPT ![b] = "deleting"]
    /\ UNCHANGED <<host, at, kept, clashed>>

(***************************************************************************)
(* `iptables -D` takes one rule that matches; those of one name are equal, *)
(* so that whose it was matters only when the lease has none of its own.   *)
(***************************************************************************)
OneRule(b) ==
    IF Object("forward", b) \in host THEN {{Object("forward", b)}}
    ELSE IF Found("forward", b) = {} THEN {{}}
    ELSE {{o} : o \in Found("forward", b)}

\* Mutant of Removed: the nft table is forgotten.
RemovedButTable(kind, b) ==
    CASE kind = "relay" -> {host \cap {Object("relay", b)}}
      [] kind = "netns" -> {Found("netns", b) \cup Found("links", b)}
      [] kind = "forward" -> OneRule(b)
      [] kind = "nft" -> {{}}
      [] OTHER -> {Found(kind, b)}

(***************************************************************************)
(* delete: what a command that succeeds may take away.  The relay is the   *)
(* lease's own, so it is only there to abort once create had started it;   *)
(* everything else goes by name.                                           *)
(***************************************************************************)
Removed(kind, b) ==
    CASE kind = "relay" -> {host \cap {Object("relay", b)}}
      [] kind = "netns" -> {Found("netns", b) \cup Found("links", b)}
      [] kind = "forward" -> OneRule(b)
      [] OTHER -> {Found(kind, b)}

RemoveStep(b, removed) ==
    /\ host' = host \ removed
    /\ at' = [at EXCEPT ![b] = IF @ = Len(Removals) THEN 1 ELSE @ + 1]
    /\ phase' = [phase EXCEPT ![b] =
                    IF at[b] < Len(Removals) THEN @
                    ELSE IF @ = "undoing" THEN "failed" ELSE "deleted"]
    /\ UNCHANGED clashed

RemoveCommand(b) ==
    /\ phase[b] \in {"undoing", "deleting"}
    /\ \E removed \in Removed(Removals[at[b]], b) : RemoveStep(b, removed)
    /\ UNCHANGED kept

(***************************************************************************)
(* A command of delete fails, and delete goes on: its result is discarded. *)
(* (A veth may then still go with the namespace that has its other end;    *)
(* here it stays.)                                                         *)
(***************************************************************************)
RemoveFails(b) ==
    /\ b \in Fails /\ Cardinality(kept[b]) < MaxKept
    /\ phase[b] \in {"undoing", "deleting"}
    /\ Removals[at[b]] # "relay"
    /\ RemoveStep(b, {})
    /\ kept' = [kept EXCEPT ![b] = @ \cup {Removals[at[b]]}]

NetStep(b) ==
    \/ StartCreate(b) \/ CreateCommand(b) \/ CreateFails(b)
    \/ StartDelete(b) \/ RemoveCommand(b) \/ RemoveFails(b)

NetNext == \E b \in Boxes : NetStep(b)

NetSpec == NetInit /\ [][NetNext]_netVars
-----------------------------------------------------------------------------
\* Nothing that create made has gone.
Whole(b) == \A kind \in Kinds \ {"relay"} : Object(kind, b) \in host

(***************************************************************************)
(* A lease that is held is whole: no creation or deletion of another       *)
(* sandbox, complete, failed or dropped at any command, takes part of it   *)
(* away by its name.  It is what docs/networking.md promises.              *)
(***************************************************************************)
LeaseIntact == \A b \in Boxes : phase[b] = "held" => Whole(b)

(***************************************************************************)
(* What the code does keep of that promise: a lease is whole unless one    *)
(* with the same eight digits was in use during its time, whatever leases  *)
(* of that name were before, and whatever was left of them.                *)
(***************************************************************************)
LeaseIntactUnshared ==
    \A b \in Boxes : phase[b] = "held" /\ b \notin clashed => Whole(b)

\* The command of delete that an object goes with.
GoesWith(kind) == IF kind = "links" THEN "netns" ELSE kind

(***************************************************************************)
(* Whatever command a creation failed at, and however a lease was deleted, *)
(* all that stays of it on the host is what a command of its own deletion  *)
(* failed to remove (delete discards that result and returns Ok); the      *)
(* relay's socket, whose owner is a task, may be closed a little later.    *)
(***************************************************************************)
NothingLeftBehind ==
    \A b \in Boxes : phase[b] \in {"failed", "deleted"} =>
        \A o \in host : o.owner = b => o.kind = "relay" \/ GoesWith(o.kind) \in kept[b]
=============================================================================
