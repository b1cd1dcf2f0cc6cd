------------------------- MODULE SandboxNetworkProofs -------------------------
(***************************************************************************)
(* Proofs about SandboxNetwork, for any number of sandboxes, guests and    *)
(* upstreams: whatever is created, fails, is deleted or dropped in between *)
(* two commands, an address has one user, what stays of a lease that was   *)
(* deleted is what a command failed to remove, and a lease that is held is *)
(* whole unless one of the same name was in use during its time.           *)
(***************************************************************************)
EXTENDS SandboxNetwork, TLAPS

\* The two lists of commands, spelled out.
LEMMA Lists ==
    /\ Len(Commands) = 6 /\ Len(Removals) = 5
    /\ Commands[1] = "netns" /\ Commands[2] = "veth" /\ Commands[3] = "links"
    /\ Commands[4] = "nft" /\ Commands[5] = "forward" /\ Commands[6] = "relay"
    /\ Removals[1] = "relay" /\ Removals[2] = "forward" /\ Removals[3] = "nft"
    /\ Removals[4] = "veth" /\ Removals[5] = "netns"
BY DEF Commands, Removals

\* The kinds of objects.
LEMMA KindsAre == Kinds = {"netns", "veth", "links", "nft", "forward", "relay"}
<1>1. \A n \in 1..6 : n \in {1, 2, 3, 4, 5, 6}
  OBVIOUS
<1> QED BY <1>1, Lists DEF Kinds

\* What is on the host is an object of somebody, under its owner's name.
LEMMA HostObject ==
    ASSUME NetTypeOK, NEW o \in host
    PROVE  /\ o.kind \in Kinds /\ o.owner \in Boxes /\ o.key = Key(o.kind, o.owner)
           /\ o = Object(o.kind, o.owner)
BY DEF NetTypeOK, Object

\* Two objects of the same kind and owner are one.
LEMMA ObjectParts ==
    ASSUME NEW kind, NEW x
    PROVE  Object(kind, x).kind = kind /\ Object(kind, x).owner = x /\ Object(kind, x).key = Key(kind, x)
BY DEF Object

\* What delete's commands take away: what the lease has of the kind, and
\* nothing of another name or kind.
LEMMA RemovedAre ==
    ASSUME NetTypeOK, NEW x \in Boxes, NEW kind \in {"forward", "nft", "veth", "netns"},
           NEW removed \in Removed(kind, x)
    PROVE  /\ \A o \in host : o.owner = x /\ GoesWith(o.kind) = kind => o \in removed
           /\ \A o \in removed :
                o \in host /\ o.key = Short(x) /\ o.kind # "relay" /\ GoesWith(o.kind) = kind
<1>0. \A o \in host : o.owner = x => o = Object(o.kind, x) /\ o.key = Key(o.kind, x)
  BY HostObject
<1>1. CASE kind = "forward"
  <2>1. removed \in OneRule(x)
    BY <1>1 DEF Removed
  <2>2. \A o \in removed : o \in Found("forward", x)
    BY <2>1, ObjectParts DEF OneRule, Found
  <2>3. \A o \in host : o.owner = x /\ GoesWith(o.kind) = kind => o = Object("forward", x)
    BY <1>0, <1>1 DEF GoesWith
  <2>4. Object("forward", x) \in host => Object("forward", x) \in removed
    BY <2>1 DEF OneRule
  <2> QED BY <1>1, <2>2, <2>3, <2>4 DEF Found, Key, GoesWith
<1>2. CASE kind = "netns"
  <2>1. removed = Found("netns", x) \cup Found("links", x)
    BY <1>2 DEF Removed
  <2> QED BY <1>0, <1>2, <2>1 DEF Found, Key, GoesWith
<1>3. CASE kind \in {"nft", "veth"}
  <2>1. removed = Found(kind, x)
    BY <1>3 DEF Removed
  <2> QED BY <1>0, <1>3, <2>1 DEF Found, Key, GoesWith
<1> QED BY <1>1, <1>2, <1>3

\* A command of create, seen by the objects.
LEMMA Makes ==
    ASSUME NetTypeOK, NEW x \in Boxes, CreateCommand(x)
    PROVE  /\ phase[x] = "creating"
           /\ Commands[at[x]] \in Kinds
           /\ host' = host \cup {Object(Commands[at[x]], x)}
           /\ Commands[at[x]] = "relay" <=> at[x] = 6
           /\ Commands[at[x]] = "relay" => Found("relay", x) = {}
           /\ at' = [at EXCEPT ![x] = IF @ = 6 THEN 1 ELSE @ + 1]
           /\ phase' = [phase EXCEPT ![x] = IF at[x] = 6 THEN "held" ELSE @]
           /\ UNCHANGED <<kept, clashed>>
<1>1. at[x] \in {1, 2, 3, 4, 5, 6}
  BY Lists DEF NetTypeOK
<1> QED BY <1>1, Lists, KindsAre DEF CreateCommand, Exclusive

\* A command of delete fails, or runs and is not the abort of the relay.
Removing(x) == (RemoveCommand(x) /\ Removals[at[x]] # "relay") \/ RemoveFails(x)

\* What it does to its own lease, and to those of the same name.
LEMMA Removes ==
    ASSUME NetTypeOK, CommandInv, NEW x \in Boxes, Removing(x)
    PROVE  /\ phase[x] \in {"undoing", "deleting"}
           /\ at[x] \in 2..5
           /\ Removals[at[x]] \in {"forward", "nft", "veth", "netns"}
           /\ Removals[at[x]] = "netns" <=> at[x] = 5
           /\ host' \subseteq host
           /\ \A o \in host \ host' : o.key = Short(x) /\ o.kind # "relay"
           /\ \A o \in host' :
                o.owner = x /\ GoesWith(o.kind) = Removals[at[x]] => Removals[at[x]] \in kept'[x]
           /\ kept' \in [Boxes -> SUBSET Kinds]
           /\ \A y \in Boxes : kept[y] \subseteq kept'[y]
           /\ UNCHANGED clashed
           /\ at' = [at EXCEPT ![x] = IF @ = 5 THEN 1 ELSE @ + 1]
           /\ phase' = [phase EXCEPT ![x] = IF at[x] < 5 THEN @
                                            ELSE IF @ = "undoing" THEN "failed" ELSE "deleted"]
<1>1. phase[x] \in {"undoing", "deleting"} /\ Removals[at[x]] # "relay"
  BY DEF Removing, RemoveCommand, RemoveFails
<1>2. at[x] \in {1, 2, 3, 4, 5}
  BY <1>1, Lists DEF NetTypeOK, CommandInv
<1>3. /\ at[x] \in 2..5
      /\ Removals[at[x]] \in {"forward", "nft", "veth", "netns"}
      /\ Removals[at[x]] = "netns" <=> at[x] = 5
  BY <1>1, <1>2, Lists
<1>4. PICK removed : RemoveStep(x, removed)
  BY DEF Removing, RemoveCommand, RemoveFails
<1>5. /\ UNCHANGED clashed
      /\ at' = [at EXCEPT ![x] = IF @ = 5 THEN 1 ELSE @ + 1]
      /\ phase' = [phase EXCEPT ![x] = IF at[x] < 5 THEN @
                                       ELSE IF @ = "undoing" THEN "failed" ELSE "deleted"]
  BY <1>4, Lists DEF RemoveStep
<1>6. CASE RemoveCommand(x)
  <2>1. PICK gone \in Removed(Removals[at[x]], x) : RemoveStep(x, gone)
    BY <1>6 DEF RemoveCommand
  <2>2. host' = host \ gone /\ UNCHANGED kept
    BY <1>6, <2>1 DEF RemoveStep, RemoveCommand
  <2>3. /\ \A o \in host : o.owner = x /\ GoesWith(o.kind) = Removals[at[x]] => o \in gone
        /\ \A o \in gone : o.key = Short(x) /\ o.kind # "relay"
    BY <1>3, <2>1, RemovedAre
  <2> QED BY <1>1, <1>3, <1>5, <2>2, <2>3 DEF NetTypeOK
<1>7. CASE RemoveFails(x)
  <2>1. host' = host \ {} /\ kept' = [kept EXCEPT ![x] = @ \cup {Removals[at[x]]}]
    BY <1>7 DEF RemoveFails, RemoveStep
  <2>2. Removals[at[x]] \in Kinds
    BY <1>3, KindsAre
  <2>3. /\ kept' \in [Boxes -> SUBSET Kinds] /\ Removals[at[x]] \in kept'[x]
        /\ \A y \in Boxes : kept[y] \subseteq kept'[y]
    BY <2>1, <2>2 DEF NetTypeOK
  <2> QED BY <1>1, <1>3, <1>5, <2>1, <2>3
<1> QED BY <1>6, <1>7 DEF Removing

\* A creation fails, and leaves at most a part of what its command makes.
LEMMA Fallen ==
    ASSUME NetTypeOK, NEW x \in Boxes, CreateFails(x)
    PROVE  /\ phase[x] = "creating" /\ host \subseteq host'
           /\ \E kind \in Kinds \ {"relay"} : host' \subseteq host \cup {Object(kind, x)}
           /\ at' = [at EXCEPT ![x] = 1]
           /\ phase' = [phase EXCEPT ![x] = "undoing"]
           /\ UNCHANGED <<kept, clashed>>
<1>1. /\ phase[x] = "creating" /\ UNCHANGED <<kept, clashed>>
      /\ at' = [at EXCEPT ![x] = 1] /\ phase' = [phase EXCEPT ![x] = "undoing"]
  BY DEF CreateFails
<1>2. \/ host' = host
      \/ \E kind \in {"links", "forward"} : host' = host \cup {Object(kind, x)}
  BY DEF CreateFails, InParts
<1>3. {"links", "forward"} \subseteq Kinds \ {"relay"} /\ "links" \in Kinds
  BY KindsAre
<1> QED BY <1>1, <1>2, <1>3

\* The abort of the relay, the first command of delete.
LEMMA Stops ==
    ASSUME NetTypeOK, CommandInv, NEW x \in Boxes, StopRelay(x)
    PROVE  /\ phase[x] \in {"undoing", "deleting"} /\ at[x] = 1
           /\ UNCHANGED <<host, phase, kept, clashed>>
           /\ at' = [at EXCEPT ![x] = 2]
<1>1. phase[x] \in {"undoing", "deleting"}
  BY DEF StopRelay
<1>2. at[x] \in {1, 2, 3, 4, 5}
  BY <1>1, Lists DEF NetTypeOK, CommandInv
<1>3. at[x] = 1
  BY <1>2, Lists DEF StopRelay
<1>4. phase' = [phase EXCEPT ![x] = phase[x]]
  BY <1>3, Lists DEF StopRelay, RemoveStep
<1>5. phase' = phase
  BY <1>4 DEF NetTypeOK
<1> QED BY <1>1, <1>3, <1>5, Lists DEF StopRelay, RemoveStep
-----------------------------------------------------------------------------
\* What an exchange of a guest with its relay does to what the invariants see.
LEMMA ExchangeIs ==
    ASSUME NetTypeOK, SocketInv, NEW e \in Exchanges, Exchange(e)
    PROVE  /\ UNCHANGED relay
           /\ \E l \in TaskStates :
                /\ task' = [task EXCEPT ![e] = l]
                /\ e \in Udp => l \notin {"read", "stalled"} /\ (l = "ask" => relay[Guest[e]] = "up" \/ task[e] = "ask")
<1> USE RelayAssumption DEF NetTypeOK, SocketInv, TaskStates, Becomes, Ask, Close, SendTo
<1>1. CASE RecvFrom(e)
  BY <1>1 DEF RecvFrom
<1>2. CASE Accept(e)
  BY <1>2 DEF Accept
<1>3. CASE Responds(e)
  BY <1>3 DEF Responds
<1>4. CASE NoResponse(e)
  <2>1. task' = [task EXCEPT ![e] = task[e]] /\ task[e] = "ask" /\ UNCHANGED relay
    BY <1>4 DEF NoResponse
  <2> QED BY <2>1
<1>5. CASE Exhausted(e)
  BY <1>5 DEF Exhausted
<1>6. CASE ReadQuery(e)
  BY <1>6 DEF ReadQuery
<1>7. CASE ReadEnds(e) \/ WriteFails(e) \/ Dropped(e)
  BY <1>7 DEF ReadEnds, WriteFails, Dropped
<1>8. CASE WriteStalls(e) \/ WriteGoesOn(e)
  BY <1>8 DEF WriteStalls, WriteGoesOn
<1> QED BY <1>1, <1>2, <1>3, <1>4, <1>5, <1>6, <1>7, <1>8 DEF Exchange, TaskStep

\* The types stay.
LEMMA NetTypeStep ==
    ASSUME NetInv, [Next]_vars
    PROVE  NetTypeOK'
<1> USE Lists, SandboxNetworkAssumption DEF NetInv, netVars, relayVars
<1>0. NetTypeOK
  OBVIOUS
<1>1. ASSUME NEW x \in Boxes, StartCreate(x) \/ StartDelete(x), UNCHANGED relayVars
      PROVE  NetTypeOK'
  BY <1>0, <1>1 DEF NetTypeOK, StartCreate, StartDelete, Phases
<1>f. ASSUME NEW x \in Boxes, CreateFails(x), UNCHANGED relayVars PROVE NetTypeOK'
  <2>1. host' \in SUBSET {Object(kind, y) : kind \in Kinds, y \in Boxes}
    BY <1>0, <1>f, Fallen DEF NetTypeOK
  <2>2. at' \in [Boxes -> 1..6] /\ phase' \in [Boxes -> Phases] /\ UNCHANGED kept
    BY <1>0, <1>f, Fallen DEF NetTypeOK, Phases
  <2> QED BY <1>0, <1>f, <2>1, <2>2 DEF NetTypeOK
<1>2. ASSUME NEW x \in Boxes, CreateCommand(x), UNCHANGED <<relay, task>> \/ Serve(x)
      PROVE  NetTypeOK'
  <2>1. host' \in SUBSET {Object(kind, y) : kind \in Kinds, y \in Boxes}
    BY <1>0, <1>2, Makes DEF NetTypeOK
  <2>2. at' \in [Boxes -> 1..6] /\ phase' \in [Boxes -> Phases] /\ UNCHANGED kept
    BY <1>0, <1>2, Makes DEF NetTypeOK, Phases
  <2> QED BY <1>0, <1>2, <2>1, <2>2 DEF NetTypeOK, Serve
<1>3. ASSUME NEW x \in Boxes, Removing(x), UNCHANGED relayVars
      PROVE  NetTypeOK'
  <2>1. host' \subseteq host /\ kept' \in [Boxes -> SUBSET Kinds]
    BY <1>0, <1>3, Removes
  <2>2. at' \in [Boxes -> 1..6] /\ phase' \in [Boxes -> Phases]
    BY <1>0, <1>3, Removes DEF NetTypeOK, Phases
  <2> QED BY <1>0, <1>3, <2>1, <2>2 DEF NetTypeOK
<1>4. ASSUME NEW x \in Boxes, StopRelay(x) PROVE NetTypeOK'
  <2>1. relay' \in [Relays -> {"off", "up", "down"}] /\ UNCHANGED task
    BY <1>0, <1>4 DEF StopRelay, Abort, NetTypeOK
  <2> QED BY <1>0, <1>4, <2>1, Stops DEF NetTypeOK
<1>5. ASSUME NEW x \in Boxes, DropLease(x) PROVE NetTypeOK'
  BY <1>0, <1>5 DEF DropLease, Abort, NetTypeOK, Phases
<1>6. ASSUME NEW x \in Boxes, RelayBreaks(x) \/ Unbind(x) PROVE NetTypeOK'
  BY <1>0, <1>6 DEF RelayBreaks, Unbind, Abort, NetTypeOK
<1>7. ASSUME NEW e \in Exchanges, RelayExchange(e) PROVE NetTypeOK'
  BY <1>0, <1>7, ExchangeIs DEF RelayExchange, NetTypeOK
<1>8. CASE UNCHANGED vars
  BY <1>0, <1>8 DEF vars, NetTypeOK
<1> QED BY <1>1, <1>f, <1>2, <1>3, <1>4, <1>5, <1>6, <1>7, <1>8
     DEF Next, LeaseCommand, StartRelay, Removing

\* ... and so does the place of every lease in its list of commands.
LEMMA CommandStep ==
    ASSUME NetInv, [Next]_vars
    PROVE  CommandInv'
<1> USE Lists, SandboxNetworkAssumption DEF NetInv, netVars, relayVars
<1>0. NetTypeOK
  OBVIOUS
<1>1. ASSUME NEW x \in Boxes, StartCreate(x) \/ CreateFails(x) \/ StartDelete(x) PROVE CommandInv'
  BY <1>0, <1>1 DEF NetTypeOK, CommandInv, StartCreate, CreateFails, StartDelete
<1>2. ASSUME NEW x \in Boxes, CreateCommand(x) PROVE CommandInv'
  BY <1>0, <1>2, Makes DEF NetTypeOK, CommandInv
<1>3. ASSUME NEW x \in Boxes, Removing(x) PROVE CommandInv'
  BY <1>0, <1>3, Removes DEF NetTypeOK, CommandInv
<1>4. ASSUME NEW x \in Boxes, StopRelay(x) PROVE CommandInv'
  BY <1>0, <1>4, Stops DEF NetTypeOK, CommandInv
<1>5. ASSUME NEW x \in Boxes, DropLease(x) PROVE CommandInv'
  BY <1>0, <1>5 DEF DropLease, NetTypeOK, CommandInv
<1>6. ASSUME UNCHANGED <<at, phase>> PROVE CommandInv'
  BY <1>6 DEF CommandInv
<1> QED BY <1>1, <1>2, <1>3, <1>4, <1>5, <1>6
     DEF Next, LeaseCommand, StartRelay, RelayBreaks, Unbind, RelayExchange, vars, Removing
-----------------------------------------------------------------------------
\* Steps that put nothing of a lease under deletion on the host, and end none.
LEMMA NothingMade ==
    ASSUME NetInv,
           \A o \in host' \ host : \/ phase'[o.owner] \in {"creating", "held"}
                                   \/ phase'[o.owner] = "undoing" /\ at'[o.owner] = 1,
           \A x \in Boxes :
              /\ kept'[x] = kept[x]
              /\ \/ phase'[x] = phase[x] /\ at'[x] = at[x]
                 \/ phase'[x] \notin {"undoing", "deleting", "failed", "deleted"}
                 \/ phase'[x] \in {"undoing", "deleting"} /\ at'[x] = 1
                 \/ phase'[x] \in {"undoing", "deleting"} /\ at[x] = 1 /\ at'[x] = 2
    PROVE  RemovedInv' /\ NothingLeftBehind'
<1> USE Lists DEF NetInv
<1>1. RemovedInv'
  <2> SUFFICES ASSUME NEW x \in Boxes, NEW n \in 1..5, NEW o \in host',
                      Removals[n] # "relay", phase'[x] \in {"undoing", "deleting"}, n < at'[x],
                      o.owner = x
               PROVE  o.kind # Removals[n] \/ Removals[n] \in kept'[x]
    BY DEF RemovedInv
  <2>1. n # 1 /\ o \in host
    OBVIOUS
  <2>2. phase'[x] = phase[x] /\ at'[x] = at[x]
    BY <2>1
  <2> QED BY <2>1, <2>2 DEF RemovedInv
<1>2. NothingLeftBehind'
  BY DEF NothingLeftBehind
<1> QED BY <1>1, <1>2

\* Deletions make progress that no other lease undoes.
LEMMA RemovedSteps ==
    ASSUME NetInv, [Next]_vars
    PROVE  RemovedInv' /\ NothingLeftBehind'
<1> USE Lists, SandboxNetworkAssumption DEF NetInv
<1>0. NetTypeOK /\ CommandInv
  OBVIOUS
<1>1. ASSUME NEW x \in Boxes, StartCreate(x) \/ StartDelete(x)
      PROVE  RemovedInv' /\ NothingLeftBehind'
  BY <1>0, <1>1, NothingMade DEF NetTypeOK, CommandInv, StartCreate, StartDelete
<1>f. ASSUME NEW x \in Boxes, CreateFails(x) PROVE RemovedInv' /\ NothingLeftBehind'
  <2>1. \A o \in host' \ host : o.owner = x
    BY <1>0, <1>f, Fallen, ObjectParts
  <2>2. /\ phase'[x] = "undoing" /\ at'[x] = 1 /\ UNCHANGED kept
        /\ \A y \in Boxes : y # x => phase'[y] = phase[y] /\ at'[y] = at[y]
    BY <1>0, <1>f, Fallen DEF NetTypeOK
  <2> QED BY <2>1, <2>2, NothingMade
<1>2. ASSUME NEW x \in Boxes, CreateCommand(x) PROVE RemovedInv' /\ NothingLeftBehind'
  <2>1. /\ \A o \in host' \ host : o.owner = x
        /\ phase'[x] \in {"creating", "held"} /\ UNCHANGED kept
        /\ \A y \in Boxes : y # x => phase'[y] = phase[y] /\ at'[y] = at[y]
    BY <1>0, <1>2, Makes, ObjectParts DEF NetTypeOK
  <2> QED BY <2>1, NothingMade
<1>3. ASSUME NEW x \in Boxes, Removing(x) PROVE RemovedInv' /\ NothingLeftBehind'
  <2>1. /\ phase[x] \in {"undoing", "deleting"} /\ at[x] \in 2..5
        /\ Removals[at[x]] = "netns" <=> at[x] = 5
        /\ host' \subseteq host
        /\ \A y \in Boxes : kept[y] \subseteq kept'[y]
        /\ \A y \in Boxes : y # x => phase'[y] = phase[y] /\ at'[y] = at[y]
        /\ at'[x] = IF at[x] = 5 THEN 1 ELSE at[x] + 1
        /\ phase'[x] = IF at[x] < 5 THEN phase[x]
                       ELSE IF phase[x] = "undoing" THEN "failed" ELSE "deleted"
    BY <1>0, <1>3, Removes DEF NetTypeOK
  <2>2. ASSUME NEW o \in host', o.owner = x, GoesWith(o.kind) = Removals[at[x]]
        PROVE  Removals[at[x]] \in kept'[x]
    BY <1>0, <1>3, <2>2, Removes
  <2>3. RemovedInv'
    <3> SUFFICES ASSUME NEW y \in Boxes, NEW n \in 1..5, NEW o \in host',
                        Removals[n] # "relay", phase'[y] \in {"undoing", "deleting"}, n < at'[y],
                        o.owner = y
                 PROVE  o.kind # Removals[n] \/ Removals[n] \in kept'[y]
      BY DEF RemovedInv
    <3>1. CASE y # x
      BY <2>1, <3>1 DEF RemovedInv
    <3>2. CASE y = x
      <4>1. at[x] < 5 /\ n <= at[x]
        BY <2>1, <3>2
      <4>2. CASE n = at[x] /\ o.kind = Removals[n]
        <5>1. GoesWith(o.kind) = Removals[at[x]]
          BY <2>1, <4>1, <4>2 DEF GoesWith
        <5> QED BY <2>2, <3>2, <4>2, <5>1
      <4>3. CASE n < at[x]
        BY <2>1, <3>2, <4>3 DEF RemovedInv
      <4> QED BY <2>1, <4>1, <4>2, <4>3
    <3> QED BY <3>1, <3>2
  <2>4. NothingLeftBehind'
    <3> SUFFICES ASSUME NEW y \in Boxes, NEW o \in host', phase'[y] \in {"failed", "deleted"},
                        o.owner = y, o.kind # "relay"
                 PROVE  GoesWith(o.kind) \in kept'[y]
      BY DEF NothingLeftBehind
    <3>1. CASE y # x
      BY <2>1, <3>1 DEF NothingLeftBehind
    <3>2. CASE y = x
      <4>1. at[x] = 5 /\ Removals[at[x]] = "netns" /\ o \in host
        BY <2>1, <3>2
      <4>2. CASE GoesWith(o.kind) = "netns"
        BY <2>2, <3>2, <4>1, <4>2
      <4>3. CASE o.kind \in {"forward", "nft", "veth"}
        <5>1. PICK n \in 2..4 : o.kind = Removals[n]
          BY <4>3
        <5>2. Removals[n] \in kept[x]
          BY <2>1, <3>2, <4>1, <4>3, <5>1 DEF RemovedInv
        <5> QED BY <2>1, <3>2, <4>3, <5>1, <5>2 DEF GoesWith
      <4>4. o.kind \in {"netns", "links", "forward", "nft", "veth"}
        BY <1>0, <4>1, HostObject, KindsAre
      <4> QED BY <4>2, <4>3, <4>4 DEF GoesWith
    <3> QED BY <3>1, <3>2
  <2> QED BY <2>3, <2>4
<1>4. ASSUME NEW x \in Boxes, StopRelay(x) PROVE RemovedInv' /\ NothingLeftBehind'
  BY <1>0, <1>4, Stops, NothingMade DEF NetTypeOK
<1>5. ASSUME NEW x \in Boxes, DropLease(x) PROVE RemovedInv' /\ NothingLeftBehind'
  BY <1>0, <1>5, NothingMade DEF DropLease, NetTypeOK
<1>6. ASSUME NEW x \in Boxes, Unbind(x) PROVE RemovedInv' /\ NothingLeftBehind'
  BY <1>0, <1>6, NothingMade DEF Unbind
<1>7. ASSUME UNCHANGED netVars PROVE RemovedInv' /\ NothingLeftBehind'
  BY <1>7, NothingMade DEF netVars
<1> QED BY <1>1, <1>f, <1>2, <1>3, <1>4, <1>5, <1>6, <1>7
     DEF Next, LeaseCommand, StartRelay, RelayBreaks, RelayExchange, vars, Removing
-----------------------------------------------------------------------------
\* Two relays in one subnet would have the same key.
LEMMA RelayKey ==
    ASSUME NEW x \in Boxes, NEW y \in Boxes
    PROVE  Octet(x) = Octet(y) => Object("relay", x).key = Object("relay", y).key
BY DEF Object, Key

\* Steps that neither bind nor close a socket, nor give it another user.
LEMMA SocketsKept ==
    ASSUME NetInv,
           \A o \in host' : o.kind = "relay" => o \in host,
           \A o \in host : o.kind = "relay" => o \in host',
           \A x \in Boxes : relay'[x] = "up" => relay[x] = "up",
           \A e \in Udp : /\ task'[e] \notin {"read", "stalled"}
                          /\ task'[e] = "ask" => task[e] = "ask" \/ relay[Guest[e]] = "up"
    PROVE  SocketInv'
<1> USE SandboxNetworkAssumption, RelayAssumption, ObjectParts DEF NetInv, SocketInv
<1>1. \A e \in Udp : Guest[e] \in Boxes
  OBVIOUS
<1> QED BY <1>1

\* The sockets have one owner each, and are bound while they are used.
LEMMA SocketStep ==
    ASSUME NetInv, [Next]_vars
    PROVE  SocketInv'
<1> USE Lists, SandboxNetworkAssumption, RelayAssumption DEF NetInv
<1>0. NetTypeOK /\ CommandInv /\ SocketInv
  OBVIOUS
<1>a. \A e \in Udp : task[e] \notin {"read", "stalled"}
  BY <1>0 DEF SocketInv
<1>1. ASSUME NEW x \in Boxes, StartCreate(x) \/ StartDelete(x), UNCHANGED relayVars
      PROVE  SocketInv'
  BY <1>a, <1>1, SocketsKept DEF StartCreate, StartDelete, relayVars
<1>f. ASSUME NEW x \in Boxes, CreateFails(x), UNCHANGED relayVars PROVE SocketInv'
  <2>1. host \subseteq host' /\ \A o \in host' : o.kind = "relay" => o \in host
    BY <1>0, <1>f, Fallen, ObjectParts
  <2> QED BY <1>a, <1>f, <2>1, SocketsKept DEF relayVars
<1>2. ASSUME NEW x \in Boxes, CreateCommand(x), Commands[at[x]] # "relay", UNCHANGED relayVars
      PROVE  SocketInv'
  <2>1. \A o \in host' : o.kind = "relay" => o \in host
    BY <1>0, <1>2, Makes, ObjectParts
  <2>2. host \subseteq host'
    BY <1>0, <1>2, Makes
  <2> QED BY <1>a, <1>2, <2>1, <2>2, SocketsKept DEF relayVars
<1>3. ASSUME NEW x \in Boxes, Removing(x), UNCHANGED relayVars PROVE SocketInv'
  <2>1. host' \subseteq host /\ \A o \in host : o.kind = "relay" => o \in host'
    BY <1>0, <1>3, Removes
  <2> QED BY <1>a, <1>3, <2>1, SocketsKept DEF relayVars
<1>4. ASSUME NEW x \in Boxes, StartRelay(x) PROVE SocketInv'
  <2>1. host' = host \cup {Object("relay", x)} /\ Found("relay", x) = {}
    BY <1>0, <1>4, Makes DEF StartRelay
  <2>2. UNCHANGED task /\ \A y \in Boxes : y # x => relay'[y] = relay[y]
    BY <1>0, <1>4 DEF StartRelay, Serve, NetTypeOK
  <2>3. \A o \in host : o.kind = "relay" => o.key # Object("relay", x).key
    BY <2>1, ObjectParts DEF Found
  <2>4. \A o, p \in host' : o.kind = "relay" /\ p.kind = "relay" /\ o.key = p.key => o = p
    BY <1>0, <2>1, <2>3 DEF SocketInv
  <2>5. \A y \in Boxes : relay'[y] = "up" => Object("relay", y) \in host'
    BY <1>0, <2>1, <2>2 DEF SocketInv
  <2> QED BY <1>0, <2>1, <2>2, <2>4, <2>5 DEF SocketInv
<1>5. ASSUME NEW x \in Boxes, StopRelay(x) PROVE SocketInv'
  <2>1. UNCHANGED task /\ \A y \in Boxes : relay'[y] = "up" => relay[y] = "up"
    BY <1>0, <1>5 DEF StopRelay, Abort, relayVars, NetTypeOK
  <2> QED BY <1>0, <1>a, <1>5, <2>1, Stops, SocketsKept
<1>6. ASSUME NEW x \in Boxes, DropLease(x) \/ RelayBreaks(x) PROVE SocketInv'
  <2>1. UNCHANGED <<task, host>> /\ \A y \in Boxes : relay'[y] = "up" => relay[y] = "up"
    BY <1>0, <1>6 DEF DropLease, RelayBreaks, Abort, relayVars, netVars, NetTypeOK
  <2> QED BY <1>a, <2>1, SocketsKept
<1>7. ASSUME NEW x \in Boxes, Unbind(x) PROVE SocketInv'
  <2>1. /\ relay[x] = "down" /\ UNCHANGED <<relay, task>>
        /\ host' = host \ {Object("relay", x)}
        /\ \A e \in Udp : Guest[e] = x => task[e] # "ask"
    BY <1>7 DEF Unbind, SocketUsers, relayVars
  <2>2. \A y \in Boxes : y # x => Object("relay", y) # Object("relay", x)
    BY ObjectParts
  <2>3. \A e \in Udp : Guest[e] \in Boxes
    OBVIOUS
  <2> QED BY <1>0, <2>1, <2>2, <2>3 DEF SocketInv
<1>8. ASSUME NEW e \in Exchanges, RelayExchange(e) PROVE SocketInv'
  <2>1. UNCHANGED host
    BY <1>8 DEF RelayExchange, netVars
  <2>2. \A f \in Udp : /\ task'[f] \notin {"read", "stalled"}
                       /\ task'[f] = "ask" => task[f] = "ask" \/ relay[Guest[f]] = "up"
    BY <1>0, <1>a, <1>8, ExchangeIs DEF RelayExchange, NetTypeOK, Exchanges
  <2>3. UNCHANGED relay
    BY <1>0, <1>8, ExchangeIs DEF RelayExchange
  <2> QED BY <2>1, <2>2, <2>3, SocketsKept
<1>9. CASE UNCHANGED vars
  BY <1>a, <1>9, SocketsKept DEF vars, netVars, relayVars
<1> QED BY <1>1, <1>f, <1>2, <1>3, <1>4, <1>5, <1>6, <1>7, <1>8, <1>9
     DEF Next, LeaseCommand, Removing

\* NetInv is inductive.
LEMMA NetInvInit == Init => NetInv
BY Lists, SandboxNetworkAssumption DEF Init, NetInit, RelayInit, NetInv, NetTypeOK, CommandInv,
        RemovedInv, NothingLeftBehind, SocketInv, Phases, TaskStates, Exchanges

(***************************************************************************)
(* The invariant of leases and relays together.                            *)
(***************************************************************************)
THEOREM NetInvariant == Spec => []NetInv
<1>1. NetInv /\ [Next]_vars => NetInv'
  BY NetTypeStep, CommandStep, RemovedSteps, SocketStep DEF NetInv
<1> QED BY <1>1, NetInvInit, PTL DEF Spec

(***************************************************************************)
(* Whatever command create failed at, and whatever else is created and     *)
(* deleted meanwhile, delete leaves nothing of a lease but what a command  *)
(* of its own failed to remove, and a socket that a task still closes.     *)
(***************************************************************************)
THEOREM NothingStays == Spec => []NothingLeftBehind
<1>1. NetInv => NothingLeftBehind
  BY DEF NetInv
<1> QED BY <1>1, NetInvariant, PTL

(***************************************************************************)
(* A gateway address is used by one sandbox at a time: binding the relay's *)
(* socket is what decides, and no late answer goes to the next guest.      *)
(***************************************************************************)
THEOREM OneUser == Spec => []OneUserPerAddress
<1>1. NetInv => OneUserPerAddress
  <2> SUFFICES ASSUME NetInv, NEW x \in Boxes, NEW y \in Boxes, x # y, Octet(x) = Octet(y),
                      relay[x] = "up",
                      Object("relay", y) \in host
               PROVE  FALSE
    BY SandboxNetworkAssumption, RelayAssumption DEF OneUserPerAddress, NetInv, SocketInv
  <2>1. Object("relay", x) \in host
    BY DEF NetInv, SocketInv
  <2>2. Object("relay", x) = Object("relay", y)
    BY <2>1, RelayKey, ObjectParts DEF NetInv, SocketInv
  <2> QED BY <2>2, ObjectParts
<1> QED BY <1>1, NetInvariant, PTL
-----------------------------------------------------------------------------
\* Steps by which nothing of a lease goes, and no lease comes into use.
LEMMA NothingTaken ==
    ASSUME MadeInv, UNCHANGED clashed,
           \A o \in host \ host' : o.kind = "relay",
           \A x \in Boxes : /\ phase'[x] \in Active => phase[x] \in Active
                            /\ \/ phase'[x] = phase[x] /\ at'[x] = at[x]
                               \/ phase'[x] \notin {"creating", "held"}
    PROVE  MadeInv'
<1>1. ASSUME NEW x \in Boxes \ clashed, NEW n \in 1..Len(Commands), Commands[n] # "relay",
             (phase'[x] = "creating" /\ n < at'[x]) \/ phase'[x] = "held"
      PROVE  Object(Commands[n], x) \in host'
  BY <1>1, ObjectParts DEF MadeInv
<1>2. ASSUME NEW x \in Boxes, NEW y \in Boxes, x # y, Stamp[x] = Stamp[y],
             phase'[x] \in Active, phase'[y] \in Active
      PROVE  x \in clashed
  BY <1>2 DEF MadeInv
<1> QED BY <1>1, <1>2 DEF MadeInv

\* Nobody else's command takes part of a lease away, but that of a lease of
\* the same name whose time overlaps: each has then been marked.
LEMMA MadeStep ==
    ASSUME NetInv, MadeInv, [Next]_vars
    PROVE  MadeInv'
<1> USE Lists, SandboxNetworkAssumption DEF NetInv
<1>0. NetTypeOK /\ CommandInv
  OBVIOUS
<1>1. ASSUME NEW x \in Boxes, StartCreate(x) PROVE MadeInv'
  <2>1. /\ clashed' = clashed \cup Peers(x) \cup {c \in {x} : Peers(x) # {}}
        /\ UNCHANGED <<host, at>> /\ at[x] = 1 /\ phase'[x] = "creating"
        /\ \A y \in Boxes : y # x => phase'[y] = phase[y]
    BY <1>0, <1>1 DEF StartCreate, NetTypeOK, CommandInv
  <2>2. ASSUME NEW y \in Boxes \ clashed', NEW n \in 1..6, Commands[n] # "relay",
               (phase'[y] = "creating" /\ n < at'[y]) \/ phase'[y] = "held"
        PROVE  Object(Commands[n], y) \in host'
    BY <2>1, <2>2 DEF MadeInv
  <2>3. ASSUME NEW y \in Boxes, NEW z \in Boxes, y # z, Stamp[y] = Stamp[z],
               phase'[y] \in Active, phase'[z] \in Active
        PROVE  y \in clashed'
    <3>1. CASE y = x
      BY <2>1, <2>3, <3>1 DEF Peers
    <3>2. CASE z = x
      BY <2>1, <2>3, <3>2 DEF Peers
    <3>3. CASE y # x /\ z # x
      BY <2>1, <2>3, <3>3 DEF MadeInv
    <3> QED BY <3>1, <3>2, <3>3
  <2> QED BY <2>2, <2>3 DEF MadeInv
<1>2. ASSUME NEW x \in Boxes, StartDelete(x) PROVE MadeInv'
  BY <1>0, <1>2, NothingTaken DEF NetTypeOK, StartDelete, Active
<1>f. ASSUME NEW x \in Boxes, CreateFails(x) PROVE MadeInv'
  <2>1. /\ host \subseteq host' /\ UNCHANGED clashed
        /\ phase[x] \in Active /\ phase'[x] \notin {"creating", "held"}
        /\ \A y \in Boxes : y # x => phase'[y] = phase[y] /\ at'[y] = at[y]
    BY <1>0, <1>f, Fallen DEF NetTypeOK, Active
  <2> QED BY <2>1, NothingTaken
<1>3. ASSUME NEW x \in Boxes, CreateCommand(x) PROVE MadeInv'
  <2>1. /\ phase[x] = "creating" /\ at[x] \in 1..6 /\ UNCHANGED clashed
        /\ host' = host \cup {Object(Commands[at[x]], x)}
        /\ at'[x] = IF at[x] = 6 THEN 1 ELSE at[x] + 1
        /\ phase'[x] = IF at[x] = 6 THEN "held" ELSE "creating"
        /\ \A y \in Boxes : y # x => phase'[y] = phase[y] /\ at'[y] = at[y]
    BY <1>0, <1>3, Makes DEF NetTypeOK
  <2>2. ASSUME NEW y \in Boxes \ clashed, NEW n \in 1..6, Commands[n] # "relay",
               (phase'[y] = "creating" /\ n < at'[y]) \/ phase'[y] = "held"
        PROVE  Object(Commands[n], y) \in host'
    <3>1. CASE y # x
      BY <2>1, <2>2, <3>1 DEF MadeInv
    <3>2. CASE y = x
      <4>1. CASE n = at[x]
        BY <2>1, <3>2, <4>1
      <4>2. CASE n < at[x]
        BY <2>1, <2>2, <3>2, <4>2 DEF MadeInv
      <4>3. n <= at[x]
        BY <2>1, <2>2, <3>2
      <4> QED BY <2>1, <4>1, <4>2, <4>3
    <3> QED BY <3>1, <3>2
  <2>3. \A y \in Boxes : phase'[y] \in Active => phase[y] \in Active
    BY <2>1 DEF Active
  <2> QED BY <2>1, <2>2, <2>3 DEF MadeInv
<1>4. ASSUME NEW x \in Boxes, Removing(x) PROVE MadeInv'
  <2>1. /\ phase[x] \in Active /\ phase'[x] \notin {"creating", "held"}
        /\ \A o \in host \ host' : o.key = Short(x) /\ o.kind # "relay"
        /\ \A y \in Boxes : y # x => phase'[y] = phase[y] /\ at'[y] = at[y]
        /\ UNCHANGED clashed
    BY <1>0, <1>4, Removes DEF NetTypeOK, Active
  <2>2. ASSUME NEW y \in Boxes \ clashed, NEW n \in 1..6, Commands[n] # "relay",
               (phase'[y] = "creating" /\ n < at'[y]) \/ phase'[y] = "held"
        PROVE  Object(Commands[n], y) \in host'
    <3>1. y # x /\ phase[y] \in Active /\ Object(Commands[n], y) \in host
      BY <2>1, <2>2 DEF MadeInv, Active
    <3>2. Stamp[x] # Stamp[y]
      BY <2>1, <2>2, <3>1 DEF MadeInv
    <3>3. Object(Commands[n], y).key = Short(y)
      BY <2>2 DEF Object, Key
    <3> QED BY <2>1, <3>1, <3>2, <3>3 DEF Short
  <2> QED BY <2>1, <2>2 DEF MadeInv
<1>5. ASSUME NEW x \in Boxes, StopRelay(x) PROVE MadeInv'
  BY <1>0, <1>5, Stops, NothingTaken DEF NetTypeOK
<1>6. ASSUME NEW x \in Boxes, DropLease(x) PROVE MadeInv'
  BY <1>0, <1>6, NothingTaken DEF DropLease, NetTypeOK, Active
<1>7. ASSUME NEW x \in Boxes, Unbind(x) PROVE MadeInv'
  BY <1>7, NothingTaken, ObjectParts DEF Unbind
<1>8. ASSUME UNCHANGED netVars PROVE MadeInv'
  BY <1>8, NothingTaken DEF netVars
<1> QED BY <1>1, <1>2, <1>f, <1>3, <1>4, <1>5, <1>6, <1>7, <1>8
     DEF Next, LeaseCommand, StartRelay, RelayBreaks, RelayExchange, vars, Removing

(***************************************************************************)
(* A lease that is held is whole unless a lease whose id starts with the   *)
(* same eight digits was in use during its time, for any ids: what leases  *)
(* of that name have left behind before does it no harm.  The run          *)
(* NetworkLease_samewindow shows that the condition is needed.             *)
(***************************************************************************)
THEOREM HeldIsWhole == Spec => []LeaseIntactUnshared
<1>1. Init => MadeInv
  BY Lists DEF Init, NetInit, MadeInv, Active
<1>2. NetInv /\ MadeInv /\ [Next]_vars => MadeInv'
  BY MadeStep
<1>3. MadeInv => LeaseIntactUnshared
  BY Lists DEF MadeInv, LeaseIntactUnshared, Whole, Kinds
<1> QED BY <1>1, <1>2, <1>3, NetInvariant, PTL DEF Spec
-----------------------------------------------------------------------------
\* A task that takes a query up, or stays with the one it has.
LEMMA TriedCarried ==
    ASSUME TriedInv, NEW f \in Exchanges,
           \/ server'[f] = 1
           \/ task[f] \in {"ask", "stalled"} /\ server'[f] = server[f] /\ tried'[f] = tried[f]
    PROVE  server'[f] >= 1 /\ \A n \in 1..server'[f] - 1 :
                n <= Len(Upstreams) => Upstreams[n] \in tried'[f]
<1>1. CASE server'[f] = 1
  BY <1>1
<1>2. CASE task[f] \in {"ask", "stalled"} /\ server'[f] = server[f] /\ tried'[f] = tried[f]
  BY <1>2 DEF TriedInv
<1> QED BY <1>1, <1>2

\* One exchange keeps TriedInv.
LEMMA TriedStep ==
    ASSUME NEW S, Upstreams \in Seq(S), TriedInv, [Next]_vars
    PROVE  TriedInv'
<1>0. DOMAIN Upstreams = 1..Len(Upstreams) /\ Len(Upstreams) \in Nat
  OBVIOUS
<1>1. ASSUME UNCHANGED <<task, server, tried, answered, last>> PROVE TriedInv'
  BY <1>1 DEF TriedInv
<1>2. ASSUME NEW e \in Exchanges, Exchange(e) PROVE TriedInv'
  <2> USE DEF TriedInv, TaskStates, Becomes, Ask, Close, SendTo
  <2>1. CASE RecvFrom(e)
    <3>1. /\ task' \in [Exchanges -> TaskStates] /\ server' \in [Exchanges -> Nat]
          /\ tried' \in [Exchanges -> SUBSET AllUpstreams]
      <4>1. \E l \in {"ask", "dropped"} : task' = [task EXCEPT ![e] = l]
        BY <2>1 DEF RecvFrom
      <4>2. server' \in {server, [server EXCEPT ![e] = 1]}
        BY <2>1 DEF RecvFrom
      <4>3. tried' \in {tried, [tried EXCEPT ![e] = {}]}
        BY <2>1 DEF RecvFrom
      <4>4. task' \in [Exchanges -> TaskStates]
        BY <4>1
      <4>5. server' \in [Exchanges -> Nat]
        BY <4>2
      <4>6. tried' \in [Exchanges -> SUBSET AllUpstreams]
        BY <4>3
      <4> QED BY <4>4, <4>5, <4>6
    <3>2. /\ answered' \in [Exchanges -> Nat]
          /\ last' \in [Exchanges -> {"none", "reply", "servfail"}]
      BY <2>1 DEF RecvFrom
    <3>3. ASSUME NEW f \in Exchanges, task'[f] \in {"ask", "stalled"}
          PROVE  \/ server'[f] = 1
                 \/ task[f] \in {"ask", "stalled"} /\ server'[f] = server[f] /\ tried'[f] = tried[f]
      BY <2>1, <3>3 DEF RecvFrom
    <3>4. ASSUME NEW f \in Exchanges, task'[f] \in {"ask", "stalled"}
          PROVE  server'[f] >= 1 /\ \A n \in 1..server'[f] - 1 :
                    n <= Len(Upstreams) => Upstreams[n] \in tried'[f]
      BY <3>3, <3>4, TriedCarried
    <3> QED BY <3>1, <3>2, <3>4
  <2>2. CASE Accept(e)
    BY <2>2 DEF Accept
  <2>8. CASE WriteStalls(e)
    BY <2>8 DEF WriteStalls
  <2>9. CASE WriteGoesOn(e)
    <3>1. /\ \E l \in {"read", "closed"} : task' = [task EXCEPT ![e] = l]
          /\ answered' \in {answered, [answered EXCEPT ![e] = @ + 1]}
          /\ \E a \in {"reply", "servfail"} : last' \in {last, [last EXCEPT ![e] = a]}
          /\ UNCHANGED <<server, tried>>
      BY <2>9 DEF WriteGoesOn
    <3>2. /\ task' \in [Exchanges -> TaskStates]
          /\ \A f \in Exchanges : task'[f] \in {"ask", "stalled"} => task'[f] = task[f]
      BY <3>1
    <3>3. answered' \in [Exchanges -> Nat] /\ last' \in [Exchanges -> {"none", "reply", "servfail"}]
      <4>1. answered' \in [Exchanges -> Nat]
        BY <3>1
      <4>2. PICK a \in {"reply", "servfail"} : last' \in {last, [last EXCEPT ![e] = a]}
        BY <3>1
      <4>3. last' \in [Exchanges -> {"none", "reply", "servfail"}]
        BY <4>2
      <4> QED BY <4>1, <4>3
    <3>4. ASSUME NEW f \in Exchanges, task'[f] \in {"ask", "stalled"}
          PROVE  server'[f] >= 1 /\ \A n \in 1..server'[f] - 1 :
                    n <= Len(Upstreams) => Upstreams[n] \in tried'[f]
      <4>1. task[f] \in {"ask", "stalled"}
        BY <3>2, <3>4
      <4>2. server'[f] = server[f] /\ tried'[f] = tried[f]
        BY <3>1
      <4> QED BY <4>1, <4>2, TriedCarried
    <3> QED BY <3>1, <3>2, <3>3, <3>4
  <2>3. CASE Responds(e)
    <3>1. /\ task' \in [Exchanges -> TaskStates] /\ server' \in [Exchanges -> Nat]
          /\ tried' \in [Exchanges -> SUBSET AllUpstreams]
      BY <2>3 DEF Responds
    <3>2. /\ answered' \in [Exchanges -> Nat]
          /\ last' \in [Exchanges -> {"none", "reply", "servfail"}]
      BY <2>3 DEF Responds
    <3>3. ASSUME NEW f \in Exchanges, task'[f] \in {"ask", "stalled"}
          PROVE  \/ server'[f] = 1
                 \/ task[f] \in {"ask", "stalled"} /\ server'[f] = server[f] /\ tried'[f] = tried[f]
      BY <2>3, <3>3 DEF Responds
    <3>4. ASSUME NEW f \in Exchanges, task'[f] \in {"ask", "stalled"}
          PROVE  server'[f] >= 1 /\ \A n \in 1..server'[f] - 1 :
                    n <= Len(Upstreams) => Upstreams[n] \in tried'[f]
      BY <3>3, <3>4, TriedCarried
    <3> QED BY <3>1, <3>2, <3>4
  <2>4. CASE NoResponse(e)
    <3>1. /\ task[e] = "ask" /\ server[e] \in 1..Len(Upstreams)
          /\ tried' = [tried EXCEPT ![e] = @ \cup {Upstreams[server[e]]}]
          /\ server' = [server EXCEPT ![e] = server[e] + 1]
          /\ UNCHANGED <<task, answered, last>>
      BY <1>0, <2>4 DEF NoResponse, NextUpstream
    <3>2. tried' \in [Exchanges -> SUBSET AllUpstreams]
      BY <1>0, <3>1 DEF AllUpstreams
    <3>3. server' \in [Exchanges -> Nat]
      BY <3>1
    <3>4. ASSUME NEW f \in Exchanges, task'[f] \in {"ask", "stalled"}
          PROVE  server'[f] >= 1 /\ \A n \in 1..server'[f] - 1 :
                    n <= Len(Upstreams) => Upstreams[n] \in tried'[f]
      BY <3>1, <3>4
    <3> QED BY <3>1, <3>2, <3>3, <3>4
  <2>5. CASE Exhausted(e)
    <3>1. /\ task' \in [Exchanges -> TaskStates] /\ server' \in [Exchanges -> Nat]
          /\ tried' \in [Exchanges -> SUBSET AllUpstreams]
      BY <2>5 DEF Exhausted
    <3>2. /\ answered' \in [Exchanges -> Nat]
          /\ last' \in [Exchanges -> {"none", "reply", "servfail"}]
      BY <2>5 DEF Exhausted
    <3>3. ASSUME NEW f \in Exchanges, task'[f] \in {"ask", "stalled"}
          PROVE  \/ server'[f] = 1
                 \/ task[f] \in {"ask", "stalled"} /\ server'[f] = server[f] /\ tried'[f] = tried[f]
      BY <2>5, <3>3 DEF Exhausted
    <3>4. ASSUME NEW f \in Exchanges, task'[f] \in {"ask", "stalled"}
          PROVE  server'[f] >= 1 /\ \A n \in 1..server'[f] - 1 :
                    n <= Len(Upstreams) => Upstreams[n] \in tried'[f]
      BY <3>3, <3>4, TriedCarried
    <3> QED BY <3>1, <3>2, <3>4
  <2>6. CASE ReadQuery(e)
    BY <2>6 DEF ReadQuery
  <2>7. CASE ReadEnds(e) \/ WriteFails(e) \/ Dropped(e)
    BY <2>7 DEF ReadEnds, WriteFails, Dropped
  <2> QED BY <1>2, <2>1, <2>2, <2>3, <2>4, <2>5, <2>6, <2>7, <2>8, <2>9 DEF Exchange, TaskStep
<1> QED BY <1>1, <1>2 DEF Next, LeaseCommand, StartRelay, StopRelay, DropLease, RelayBreaks, Unbind,
     RelayExchange, Serve, Abort, relayVars, vars

\* Only the task that has asked everybody sends SERVFAIL.
LEMMA ServfailStep ==
    ASSUME NEW S, Upstreams \in Seq(S), TriedInv, [Next]_vars, NEW e \in Exchanges,
           last'[e] = "servfail", answered'[e] > answered[e]
    PROVE  tried[e] = {Upstreams[n] : n \in DOMAIN Upstreams}
<1>0. DOMAIN Upstreams = 1..Len(Upstreams) /\ Len(Upstreams) \in Nat
  OBVIOUS
<1> USE DEF TriedInv, AllUpstreams
<1>1. answered' # answered
  OBVIOUS
<1>2. PICK f \in Exchanges : Exchange(f)
  BY <1>1 DEF Next, LeaseCommand, StartRelay, StopRelay, DropLease, RelayBreaks, Unbind,
          RelayExchange, Serve, Abort, relayVars, vars
<1>3. CASE Exhausted(f)
  <2>1. f = e /\ task[e] = "ask" /\ server[e] > Len(Upstreams)
    BY <1>3 DEF Exhausted, SendTo
  <2> QED BY <1>0, <2>1
<1>4. CASE Responds(f)
  <2>1. answered' = [answered EXCEPT ![f] = @ + 1] /\ last' = [last EXCEPT ![f] = "reply"]
    BY <1>4 DEF Responds, SendTo
  <2>2. f = e
    BY <2>1
  <2> QED BY <2>1, <2>2
<1>6. CASE WriteGoesOn(f)
  <2>1. PICK answer : /\ answer = IF server[f] <= Len(Upstreams) THEN "reply" ELSE "servfail"
                      /\ answered' = [answered EXCEPT ![f] = @ + 1]
                      /\ last' = [last EXCEPT ![f] = answer]
    BY <1>1, <1>6 DEF WriteGoesOn, SendTo
  <2>2. f = e
    BY <2>1
  <2>3. server[e] > Len(Upstreams) /\ task[e] = "stalled"
    BY <1>0, <1>6, <2>1, <2>2 DEF WriteGoesOn
  <2> QED BY <1>0, <2>3
<1>5. CASE ~(Exhausted(f) \/ Responds(f) \/ WriteGoesOn(f))
  <2>1. UNCHANGED answered
    BY <1>2, <1>5 DEF Exchange, TaskStep, RecvFrom, Accept, NoResponse, ReadQuery, ReadEnds,
            WriteFails, WriteStalls, Dropped
  <2> QED BY <1>1, <2>1
<1> QED BY <1>3, <1>4, <1>5, <1>6

(***************************************************************************)
(* SERVFAIL is sent only when every upstream was tried, whatever list of   *)
(* upstreams host_dns_upstreams gave.                                      *)
(***************************************************************************)
THEOREM ServfailLast ==
    ASSUME NEW S, Upstreams \in Seq(S)
    PROVE  Spec => ServfailExhausts
<1>1. Init => TriedInv
  BY DEF Init, RelayInit, TriedInv, TaskStates
<1>2. TriedInv /\ [Next]_vars => TriedInv'
  BY TriedStep
<1>3. TriedInv /\ [Next]_vars =>
        [\A e \in Exchanges : last'[e] = "servfail" /\ answered'[e] > answered[e]
            => tried[e] = {Upstreams[n] : n \in DOMAIN Upstreams}]_relayVars
  BY ServfailStep
<1> QED BY <1>1, <1>2, <1>3, PTL DEF Spec, ServfailExhausts
===============================================================================
