------------------------------ MODULE GuestExec ------------------------------
(***************************************************************************)
(* One command, from the guest agent's start_process to the host's         *)
(* execute_measured: the child and its pipes, the two output readers that  *)
(* share one byte budget, the task that waits for the child with a         *)
(* deadline, the bounded channel of events between guest and host, and the *)
(* host's loop over the stream.  Commands do not share state except the    *)
(* table of process ids.                                                   *)
(***************************************************************************)
EXTENDS Naturals, Sequences

CONSTANTS Limit,      \* max_output_bytes
          Capacity,   \* of the mpsc channel (the code: 32)
          MaxWritten, \* most bytes the command writes
          MaxRead,    \* the size of a reader's buffer
          Forks,      \* the command may leave a descendant that has its pipes
          WaitFails,  \* child.wait() may fail
          Leaves      \* the host may drop the stream

ASSUME ExecAssumption ==
    /\ {Limit, Capacity, MaxWritten, MaxRead} \subseteq Nat \ {0}
    /\ {Forks, WaitFails, Leaves} \subseteq BOOLEAN

Streams == {"stdout", "stderr"}

VARIABLES
    task,     \* the task start_process spawned
    child,    \* "none", "running", "exited" (not waited for) or "reaped"
    heir,     \* a descendant of the child lives
    pipe,     \* bytes in each pipe
    reader,   \* each read_output task
    held,     \* bytes it is about to send
    final,    \* it will stop after that
    used, limitHit, timedOut,
    status,   \* child.wait() gave an exit status
    mapped,   \* the process id is in the table
    channel,  \* events on their way to the host
    receiver, \* "open", or "closed" once the host has dropped the stream
    written, got,
    outcome   \* what execute_measured returned, or will return

guest == <<task, child, heir, pipe, reader, held, final, used, limitHit,
           timedOut, status, mapped, written>>
host == <<receiver, got, outcome>>
execVars == <<guest, channel, host>>

Tasks == {"idle", "insert", "wait", "join", "unmap", "exit", "end"}
Outcomes == {"none", "exited", "timed_out", "limit", "error", "left"}

ExecInit ==
    /\ task = "idle"
    /\ child = "none"
    /\ heir = FALSE
    /\ pipe = [s \in Streams |-> 0]
    /\ reader = [s \in Streams |-> "off"]
    /\ held = [s \in Streams |-> 0]
    /\ final = [s \in Streams |-> FALSE]
    /\ used = 0
    /\ limitHit = FALSE
    /\ timedOut = FALSE
    /\ status = FALSE
    /\ mapped = FALSE
    /\ channel = <<>>
    /\ receiver = "open"
    /\ written = 0
    /\ got = 0
    /\ outcome = "none"
-----------------------------------------------------------------------------
Data(n) == [kind |-> "data", bytes |-> n]
Exit == [kind |-> "exit", timedOut |-> timedOut, limit |-> limitHit]
Error == [kind |-> "error"]
Events == [kind : {"data"}, bytes : Nat] \cup [kind : {"error"}]
          \cup [kind : {"exit"}, timedOut : BOOLEAN, limit : BOOLEAN]

(***************************************************************************)
(* sender.send: waits for room, and fails at once when the receiver is     *)
(* gone.                                                                   *)
(***************************************************************************)
SendTo(event) ==
    /\ receiver = "open"
    /\ Len(channel) < Capacity
    /\ channel' = Append(channel, event)

\* For the events whose send result the code ignores.
SendOrLose(event) == SendTo(event) \/ (receiver = "closed" /\ UNCHANGED channel)

\* kill(pid): a child that was reaped is out of reach.
Kill == child' = IF child = "running" THEN "exited" ELSE child

\* The command itself: it writes, forks and exits as it likes.
Writes(s) ==
    /\ child = "running" \/ heir
    /\ reader[s] # "done"
    /\ written < MaxWritten
    /\ written' = written + 1
    /\ pipe' = [pipe EXCEPT ![s] = @ + 1]
    /\ UNCHANGED <<task, child, heir, reader, held, final, used, limitHit,
                   timedOut, status, mapped, channel, host>>

ForksOff ==
    /\ Forks
    /\ child = "running"
    /\ heir' = TRUE
    /\ UNCHANGED <<task, child, pipe, reader, held, final, used, limitHit,
                   timedOut, status, mapped, written, channel, host>>

Exits ==
    /\ \/ child = "running" /\ child' = "exited" /\ UNCHANGED heir
       \/ heir /\ heir' = FALSE /\ UNCHANGED child
    /\ UNCHANGED <<task, pipe, reader, held, final, used, limitHit, timedOut,
                   status, mapped, written, channel, host>>
-----------------------------------------------------------------------------
(***************************************************************************)
(* start_process: a command that cannot be spawned or put in its cgroup is *)
(* answered with an error event and no process.                            *)
(***************************************************************************)
Spawn ==
    /\ task = "idle"
    /\ \/ task' = "insert" /\ child' = "running" /\ UNCHANGED channel
       \/ task' = "end" /\ SendOrLose(Error) /\ UNCHANGED child
    /\ UNCHANGED <<heir, pipe, reader, held, final, used, limitHit, timedOut,
                   status, mapped, written, host>>

Insert ==
    /\ task = "insert"
    /\ mapped' = TRUE
    /\ reader' = [s \in Streams |-> "read"]
    /\ task' = "wait"
    /\ UNCHANGED <<child, heir, pipe, held, final, used, limitHit, timedOut,
                   status, written, channel, host>>

\* timeout(child.wait()): the child ends or time is up.  A wait that fails
\* means that somebody else collected the child.
Waited ==
    /\ task = "wait"
    /\ child = "exited"
    /\ \/ status' = TRUE /\ UNCHANGED channel
       \/ WaitFails /\ SendOrLose(Error) /\ UNCHANGED status
    /\ child' = "reaped"
    /\ task' = "join"
    /\ UNCHANGED <<timedOut, heir, pipe, reader, held, final, used, limitHit, mapped, written, host>>

\* Mutant of TimesOut: the deadline passes and nobody kills the child.
TimesOutOnly ==
    /\ task = "wait"
    /\ timedOut' = TRUE
    /\ status' = TRUE
    /\ task' = "join"
    /\ UNCHANGED <<child, heir, pipe, reader, held, final, used, limitHit, mapped,
                   written, channel, host>>

\* kill, and a second wait whose error is dropped with the status.
TimesOut ==
    /\ task = "wait"
    /\ child' = "reaped"
    /\ \/ status' = TRUE
       \/ WaitFails /\ status' = FALSE
    /\ timedOut' = TRUE
    /\ task' = "join"
    /\ UNCHANGED <<heir, pipe, reader, held, final, used, limitHit, mapped,
                   written, channel, host>>

\* stdout_task.await, stderr_task.await.
Join ==
    /\ task = "join"
    /\ \A s \in Streams : reader[s] = "done"
    /\ task' = "unmap"
    /\ UNCHANGED <<child, heir, pipe, reader, held, final, used, limitHit,
                   timedOut, status, mapped, written, channel, host>>

Unmap ==
    /\ task = "unmap"
    /\ mapped' = FALSE
    /\ task' = "exit"
    /\ UNCHANGED <<child, heir, pipe, reader, held, final, used, limitHit,
                   timedOut, status, written, channel, host>>

\* Mutant of SendExit: try_send, which gives up when the channel is full.
TrySendExit ==
    /\ task = "exit"
    /\ \/ status /\ SendTo(Exit)
       \/ /\ ~status \/ Len(channel) = Capacity \/ receiver = "closed"
          /\ UNCHANGED channel
    /\ task' = "end"
    /\ UNCHANGED <<child, heir, pipe, reader, held, final, used, limitHit, timedOut,
                   status, mapped, written, host>>

SendExit ==
    /\ task = "exit"
    /\ IF status THEN SendOrLose(Exit) ELSE UNCHANGED channel
    /\ task' = "end"
    /\ UNCHANGED <<child, heir, pipe, reader, held, final, used, limitHit, timedOut,
                   status, mapped, written, host>>

\* signal_process, with a signal that ends the child.
SignalProcess ==
    /\ mapped
    /\ child = "running"
    /\ Kill
    /\ UNCHANGED <<task, heir, pipe, reader, held, final, used, limitHit,
                   timedOut, status, mapped, written, channel, host>>
-----------------------------------------------------------------------------
(***************************************************************************)
(* read_output: charge what was read to the common budget, send what the   *)
(* budget allows, and stop the child when it is exceeded.                  *)
(***************************************************************************)
Min2(a, b) == IF a < b THEN a ELSE b

\* Mutant of Allowed: the last chunk may overshoot.
AllowedWhole(n) == IF used >= Limit THEN 0 ELSE n

\* How much of n bytes fits into the budget.
Allowed(n) == IF used >= Limit THEN 0 ELSE Min2(Limit - used, n)

Read(s) ==
    /\ reader[s] = "read"
    /\ \E n \in 1..Min2(pipe[s], MaxRead) :
        LET over == Allowed(n) < n
        IN  /\ pipe' = [pipe EXCEPT ![s] = @ - n]
            /\ used' = used + n
            /\ limitHit' = (limitHit \/ over)
            /\ IF over THEN Kill ELSE UNCHANGED child
            /\ held' = [held EXCEPT ![s] = Allowed(n)]
            /\ final' = [final EXCEPT ![s] = over]
            /\ reader' = [reader EXCEPT ![s] = IF used >= Limit THEN "done" ELSE "send"]
    /\ UNCHANGED <<task, heir, timedOut, status, mapped, written, channel, host>>

\* Mutant of EndOfFile: the reader stops when the child does.
EndOfChild(s) ==
    /\ reader[s] = "read"
    /\ child # "running"
    /\ reader' = [reader EXCEPT ![s] = "done"]
    /\ UNCHANGED <<task, child, heir, pipe, held, final, used, limitHit,
                   timedOut, status, mapped, written, channel, host>>

EndOfFile(s) ==
    /\ reader[s] = "read"
    /\ pipe[s] = 0
    /\ child # "running" /\ ~heir
    /\ reader' = [reader EXCEPT ![s] = "done"]
    /\ UNCHANGED <<task, child, heir, pipe, held, final, used, limitHit,
                   timedOut, status, mapped, written, channel, host>>

SendOutput(s) ==
    /\ reader[s] = "send"
    /\ \/ /\ SendTo(Data(held[s]))
          /\ reader' = [reader EXCEPT ![s] = IF final[s] THEN "done" ELSE "read"]
          /\ UNCHANGED child
       \/ /\ receiver = "closed"
          /\ Kill
          /\ reader' = [reader EXCEPT ![s] = "done"]
          /\ UNCHANGED channel
    /\ held' = [held EXCEPT ![s] = 0]
    /\ UNCHANGED <<task, heir, pipe, final, used, limitHit, timedOut, status,
                   mapped, written, host>>
-----------------------------------------------------------------------------
(***************************************************************************)
(* execute_measured: collect events until the stream ends, which it does   *)
(* when the guest's task and readers have dropped their senders.           *)
(***************************************************************************)
Outcome(event) ==
    CASE event.timedOut -> "timed_out"
      [] ~event.timedOut /\ event.limit -> "limit"
      [] OTHER -> "exited"

Receive ==
    /\ receiver = "open"
    /\ channel # <<>>
    /\ LET event == Head(channel)
       IN  CASE event.kind = "data" ->
                  /\ got' = got + event.bytes
                  /\ channel' = Tail(channel)
                  /\ UNCHANGED <<outcome, receiver>>
             [] event.kind = "exit" ->
                  /\ outcome' = Outcome(event)
                  /\ channel' = Tail(channel)
                  /\ UNCHANGED <<got, receiver>>
             [] event.kind = "error" ->
                  /\ outcome' = "error"
                  /\ receiver' = "closed"
                  /\ channel' = <<>>
                  /\ UNCHANGED got
    /\ UNCHANGED guest

\* The stream ended; without an exit event that is an internal error.
StreamEnds ==
    /\ receiver = "open"
    /\ channel = <<>>
    /\ task = "end"
    /\ receiver' = "closed"
    /\ outcome' = IF outcome = "none" THEN "error" ELSE outcome
    /\ UNCHANGED <<guest, channel, got>>

\* The HTTP handler, and with it the gRPC stream, is dropped.
HostLeaves ==
    /\ Leaves
    /\ receiver = "open"
    /\ receiver' = "closed"
    /\ channel' = <<>>
    /\ outcome' = "left"
    /\ UNCHANGED <<guest, got>>
-----------------------------------------------------------------------------
GuestStep ==
    \/ Spawn \/ Insert \/ Waited \/ Join \/ Unmap \/ SendExit
    \/ \E s \in Streams : Read(s) \/ EndOfFile(s) \/ SendOutput(s)

HostStep == Receive \/ StreamEnds

Done == task = "end" /\ receiver = "closed" /\ UNCHANGED execVars

ExecNext ==
    \/ GuestStep \/ HostStep \/ TimesOut \/ SignalProcess \/ HostLeaves
    \/ ForksOff \/ Exits \/ (\E s \in Streams : Writes(s))
    \/ Done

ExecSpec == ExecInit /\ [][ExecNext]_execVars

(***************************************************************************)
(* Both sides poll what is ready, and the deadline passes.  Nothing is     *)
(* assumed of the command: it may run for ever.                            *)
(***************************************************************************)
ExecFairness ==
    /\ WF_execVars(Spawn \/ Insert \/ Waited \/ Join \/ Unmap \/ SendExit)
    /\ WF_execVars(TimesOut)
    /\ \A s \in Streams : WF_execVars(Read(s) \/ EndOfFile(s) \/ SendOutput(s))
    /\ WF_execVars(HostStep)

ExecFairSpec == ExecSpec /\ ExecFairness
-----------------------------------------------------------------------------
\* Every variable has its type.
ExecTypeOK ==
    /\ task \in Tasks
    /\ child \in {"none", "running", "exited", "reaped"}
    /\ heir \in BOOLEAN /\ limitHit \in BOOLEAN /\ timedOut \in BOOLEAN
    /\ status \in BOOLEAN /\ mapped \in BOOLEAN
    /\ pipe \in [Streams -> 0..MaxWritten]
    /\ reader \in [Streams -> {"off", "read", "send", "done"}]
    /\ held \in [Streams -> 0..MaxRead]
    /\ final \in [Streams -> BOOLEAN]
    /\ used \in 0..MaxWritten /\ written \in 0..MaxWritten /\ got \in 0..MaxWritten
    /\ channel \in Seq(Events) /\ Len(channel) <= Capacity
    /\ receiver \in {"open", "closed"}
    /\ outcome \in Outcomes

BytesOf(event) == IF event.kind = "data" THEN event.bytes ELSE 0

\* The channel takes the host from m bytes to n: a total after each event.
Carries(events, m, n) ==
    \E total \in [0..Len(events) -> 0..n] :
        /\ total[0] = m /\ total[Len(events)] = n
        /\ \A i \in 1..Len(events) : total[i] = total[i - 1] + BytesOf(events[i])

(***************************************************************************)
(* The output cap holds over both streams together: what the host got,     *)
(* what is on its way and what the readers are about to send never exceed  *)
(* max_output_bytes, however the two readers interleave.                   *)
(***************************************************************************)
OutputWithinLimit ==
    \E n \in 0..Limit :
        Carries(channel, got, n) /\ n + held["stdout"] + held["stderr"] <= Limit

(***************************************************************************)
(* Output is never lost in silence: a command reported as exited without   *)
(* truncation delivered every byte it wrote.                               *)
(***************************************************************************)
NoSilentLoss ==
    receiver = "closed" /\ outcome = "exited" => got = written

(***************************************************************************)
(* The host never has to invent an outcome: unless it left, it is told how *)
(* the command ended, or why it cannot be.  The one way to end the stream  *)
(* without a word is a wait() that fails after the deadline's kill.        *)
(***************************************************************************)
ExitAlwaysReported ==
    [][StreamEnds => outcome # "none" \/ (timedOut /\ ~status)]_execVars

(***************************************************************************)
(* Every command comes to an end: after its deadline the host has an       *)
(* answer and the guest has forgotten the process, provided the command    *)
(* leaves nobody behind for ever who holds its pipes.                      *)
(***************************************************************************)
Over == receiver = "closed" /\ task = "end" /\ ~mapped

ExecReturns == <>[](~heir) => (task = "insert" ~> Over)
-----------------------------------------------------------------------------
(***************************************************************************)
(* Why the safety properties hold, as an inductive invariant.              *)
(*                                                                         *)
(* ByteInv: every byte the readers took is in the budget `used`, and what  *)
(* the budget allowed is with a reader, in the channel or with the host,   *)
(* until the host drops the stream.                                        *)
(***************************************************************************)
Balance ==
    \E n \in 0..Limit :
        /\ Carries(channel, got, n)
        /\ n + held["stdout"] + held["stderr"] <= Min2(used, Limit)
        /\ receiver = "open" => n + held["stdout"] + held["stderr"] = Min2(used, Limit)

ByteInv ==
    /\ written = pipe["stdout"] + pipe["stderr"] + used
    /\ ~limitHit => used <= Limit
    /\ \A s \in Streams : final[s] => limitHit
    /\ \A s \in Streams : reader[s] # "send" => held[s] = 0
    /\ receiver = "closed" => channel = <<>>
    /\ Balance

\* A reader that stopped found the end of file, if not the limit or no host.
StoppedInv ==
    \A s \in Streams : reader[s] = "done" =>
        \/ limitHit \/ receiver = "closed"
        \/ pipe[s] = 0 /\ child # "running" /\ ~heir

\* The readers run from Insert on, and Join waits for both.
ReadersDone == \A s \in Streams : reader[s] = "done"

ProcessInv ==
    /\ task = "idle" => child = "none"
    /\ child = "none" => task \in {"idle", "end"} /\ ~heir
    /\ child = "none" \/ task = "insert" => \A s \in Streams : reader[s] = "off"
    /\ task \in {"wait", "join"} => \A s \in Streams : reader[s] # "off"
    /\ task \in {"unmap", "exit"} => ReadersDone
    /\ task = "end" => child = "none" \/ ReadersDone

\* ExitInv: the exit event is the last of all, and says what stays true.
ExitInv ==
    /\ \A i \in 1..Len(channel) : channel[i].kind = "exit" =>
        /\ i = Len(channel)
        /\ task = "end" /\ ReadersDone
        /\ channel[i].limit = limitHit /\ channel[i].timedOut = timedOut
    /\ outcome = "exited" =>
        /\ task = "end" /\ ReadersDone
        /\ child # "running" /\ ~heir
        /\ channel = <<>>
        /\ got = written

\* ToldInv: a host that listens is told by an exit or an error, sent or to come.
Coming(kinds) == \E i \in 1..Len(channel) : channel[i].kind \in kinds

ToldInv ==
    receiver = "open" /\ ~(timedOut /\ ~status) =>
        /\ task \in {"join", "unmap", "exit"} /\ ~status => Coming({"error"})
        /\ task = "end" => outcome # "none" \/ Coming({"exit", "error"})

ExecInv ==
    /\ ExecTypeOK /\ ByteInv /\ StoppedInv /\ ProcessInv /\ ExitInv /\ ToldInv
==============================================================================
