------------------------------ MODULE DnsRelay ------------------------------
(***************************************************************************)
(* The DNS relays of the sandboxes: for each the loop that accepts the     *)
(* guest's datagrams and connections while it has permits, and one task    *)
(* for each, which asks the upstreams in turn.  A UDP task serves one      *)
(* query; a TCP task serves those of its connection one after the other.   *)
(* Datagrams of other peers and messages that are no query change nothing. *)
(***************************************************************************)
EXTENDS Naturals, Sequences, SequencesExt, FiniteSets

CONSTANTS Relays,     \* the sandboxes, each with a relay of its own
          Udp,        \* datagrams of the guests
          Tcp,        \* connections of the guests
          Guest,      \* whose guest sends each
          MaxInFlight, \* DNS_MAX_IN_FLIGHT
          MaxQueries, \* most queries on one connection
          Etc, Run,   \* nameservers of /etc/resolv.conf and of systemd's file
          Fallback    \* 1.1.1.1

ASSUME RelayAssumption ==
    /\ Udp \cap Tcp = {}
    /\ {MaxInFlight, MaxQueries} \subseteq Nat \ {0}
    /\ IsFiniteSet(Udp) /\ IsFiniteSet(Tcp)
    /\ Guest \in [Udp \cup Tcp -> Relays]

Exchanges == Udp \cup Tcp

VARIABLES
    relay,    \* the loop of each sandbox: "off", "up" or "down"
    aborted,  \* tasks the runtime will not poll again
    permits,  \* of each relay's semaphore
    task,     \* of each exchange
    server,   \* the upstream it asks
    tried,    \* upstreams it has asked about the present query
    asked, answered,  \* queries and answers so far
    last      \* the last answer

relayVars == <<relay, aborted, permits, task, server, tried, asked, answered, last>>

-----------------------------------------------------------------------------
(***************************************************************************)
(* host_dns_upstreams: the distinct nameservers of both files, the         *)
(* fallback behind them, and of all that the first three.                  *)
(***************************************************************************)
AddUpstream(list, s) == IF Contains(list, s) THEN list ELSE Append(list, s)

Named == FoldLeft(AddUpstream, <<>>, Etc \o Run)

Truncated(list) == SubSeq(list, 1, IF Len(list) < 3 THEN Len(list) ELSE 3)

Upstreams == Truncated(AddUpstream(Named, Fallback))

RelayInit ==
    /\ relay = [b \in Relays |-> "off"]
    /\ aborted = {}
    /\ permits = [b \in Relays |-> MaxInFlight]
    /\ task = [e \in Exchanges |-> "new"]
    /\ server = [e \in Exchanges |-> 1]
    /\ tried = [e \in Exchanges |-> {}]
    /\ asked = [e \in Exchanges |-> 0]
    /\ answered = [e \in Exchanges |-> 0]
    /\ last = [e \in Exchanges |-> "none"]
-----------------------------------------------------------------------------
Becomes(e, label) == task' = [task EXCEPT ![e] = label]

\* A query is taken up: at the first upstream, with nothing tried yet.
Ask(e) ==
    /\ Becomes(e, "ask")
    /\ server' = [server EXCEPT ![e] = 1]
    /\ tried' = [tried EXCEPT ![e] = {}]
    /\ asked' = [asked EXCEPT ![e] = @ + 1]

Acquire(b) == permits[b] > 0 /\ permits' = [permits EXCEPT ![b] = @ - 1]

\* The permit is dropped with the task.
Close(e) ==
    /\ Becomes(e, "closed")
    /\ permits' = [permits EXCEPT ![Guest[e]] = @ + 1]

\* recv_from: without a permit the datagram is dropped.
RecvFrom(e) ==
    /\ relay[Guest[e]] = "up"
    /\ e \in Udp
    /\ task[e] = "new"
    /\ \/ Acquire(Guest[e]) /\ Ask(e)
       \/ permits[Guest[e]] = 0 /\ Becomes(e, "dropped") /\ UNCHANGED <<permits, server, tried, asked>>
    /\ UNCHANGED <<relay, aborted, answered, last>>

\* accept: without a permit the connection is closed.
Accept(e) ==
    /\ relay[Guest[e]] = "up"
    /\ e \in Tcp
    /\ task[e] = "new"
    /\ \/ Acquire(Guest[e]) /\ Becomes(e, "read")
       \/ permits[Guest[e]] = 0 /\ Becomes(e, "dropped") /\ UNCHANGED permits
    /\ UNCHANGED <<relay, aborted, server, tried, asked, answered, last>>

\* read_exact gives a query, or the time or the connection is over.
ReadQuery(e) ==
    /\ task[e] = "read"
    /\ e \notin aborted
    /\ asked[e] < MaxQueries
    /\ Ask(e)
    /\ UNCHANGED <<relay, aborted, permits, answered, last>>

ReadEnds(e) ==
    /\ task[e] = "read"
    /\ Close(e)
    /\ UNCHANGED <<relay, aborted, server, tried, asked, answered, last>>
-----------------------------------------------------------------------------
(***************************************************************************)
(* The task sends its answer: a UDP task is over then, a TCP task reads    *)
(* on, unless the guest has closed the connection.                         *)
(***************************************************************************)
SendTo(e, answer) ==
    /\ answered' = [answered EXCEPT ![e] = @ + 1]
    /\ last' = [last EXCEPT ![e] = answer]
    /\ \/ e \in Udp /\ Close(e)
       \/ e \in Tcp /\ Becomes(e, "read") /\ UNCHANGED permits

\* The guest does not read: write_all waits, without a deadline, and the
\* task keeps its permit.
WriteStalls(e) ==
    /\ e \in Tcp
    /\ task[e] = "ask"
    /\ Becomes(e, "stalled")
    /\ UNCHANGED <<relay, aborted, permits, server, tried, asked, answered, last>>

\* The guest reads again, or closes its connection.
WriteGoesOn(e) ==
    /\ task[e] = "stalled"
    /\ \/ SendTo(e, IF server[e] <= Len(Upstreams) THEN "reply" ELSE "servfail")
       \/ Close(e) /\ UNCHANGED <<answered, last>>
    /\ UNCHANGED <<relay, aborted, server, tried, asked>>

\* An upstream gives a response with the query's id in time.
Responds(e) ==
    /\ task[e] = "ask"
    /\ server[e] <= Len(Upstreams)
    /\ SendTo(e, "reply")
    /\ UNCHANGED <<relay, aborted, server, tried, asked>>

\* Mutant of NextUpstream: a wrong answer ends the search.
LastUpstream(e) == Len(Upstreams) + 1

NextUpstream(e) == server[e] + 1

\* It cannot be reached, answers something else, or lets two seconds pass.
NoResponse(e) ==
    /\ task[e] = "ask"
    /\ e \notin aborted
    /\ server[e] <= Len(Upstreams)
    /\ tried' = [tried EXCEPT ![e] = @ \cup {Upstreams[server[e]]}]
    /\ server' = [server EXCEPT ![e] = NextUpstream(e)]
    /\ UNCHANGED <<relay, aborted, permits, task, asked, answered, last>>

\* Mutant of Exhausted: the task goes without a word.
ExhaustedSilently(e) ==
    /\ task[e] = "ask"
    /\ server[e] > Len(Upstreams)
    /\ Close(e)
    /\ UNCHANGED <<relay, aborted, server, tried, asked, answered, last>>

Exhausted(e) ==
    /\ task[e] = "ask"
    /\ server[e] > Len(Upstreams)
    /\ SendTo(e, "servfail")
    /\ UNCHANGED <<relay, aborted, server, tried, asked>>

\* write_all fails: the guest has closed its connection.
WriteFails(e) ==
    /\ e \in Tcp
    /\ task[e] = "ask"
    /\ Close(e)
    /\ UNCHANGED <<relay, aborted, server, tried, asked, answered, last>>
-----------------------------------------------------------------------------
\* start: both sockets are bound and the loop runs.
Serve(b) ==
    /\ relay[b] = "off"
    /\ relay' = [relay EXCEPT ![b] = "up"]
    /\ UNCHANGED <<aborted, permits, task, server, tried, asked, answered, last>>

\* The JoinSet goes down with the loop and aborts every task in it.
Aborted(b) == {e \in Exchanges : Guest[e] = b /\ task[e] \in {"read", "ask", "stalled"}}

(***************************************************************************)
(* The lease is deleted or dropped, or recv_from or accept fails.  abort() *)
(* waits for nothing: a task that is being polled may still send what it   *)
(* has, and is dropped when it next waits.                                 *)
(***************************************************************************)
Abort(b) ==
    /\ relay[b] = "up"
    /\ relay' = [relay EXCEPT ![b] = "down"]
    /\ aborted' = aborted \cup Aborted(b)
    /\ UNCHANGED <<permits, task, server, tried, asked, answered, last>>

Dropped(e) ==
    /\ e \in aborted
    /\ task[e] \in {"read", "ask", "stalled"}
    /\ Close(e)
    /\ UNCHANGED <<relay, aborted, server, tried, asked, answered, last>>
-----------------------------------------------------------------------------
TaskStep(e) ==
    \/ Responds(e) \/ NoResponse(e) \/ Exhausted(e)
    \/ ReadQuery(e) \/ ReadEnds(e) \/ WriteStalls(e) \/ WriteFails(e) \/ Dropped(e)

Exchange(e) == RecvFrom(e) \/ Accept(e) \/ TaskStep(e) \/ WriteGoesOn(e)
-----------------------------------------------------------------------------
(***************************************************************************)
(* SERVFAIL is the last resort: it is sent only when every upstream was    *)
(* tried, the fallback among them where there is room for it.              *)
(***************************************************************************)
ServfailExhausts ==
    [][\A e \in Exchanges : last'[e] = "servfail" /\ answered'[e] > answered[e]
            => tried[e] = {Upstreams[n] : n \in DOMAIN Upstreams}]_relayVars

(***************************************************************************)
(* A query that was taken up is answered, unless the relay goes down, the  *)
(* guest closes its connection, or it keeps the connection open and never  *)
(* reads what is written to it.                                            *)
(***************************************************************************)
QueryAnswered ==
    \A e \in Exchanges :
        []<>(task[e] # "stalled") =>
            (task[e] = "ask" ~>
                \/ answered[e] = asked[e]
                \/ relay[Guest[e]] = "down"
                \/ e \in Tcp /\ task[e] = "closed")
==============================================================================
