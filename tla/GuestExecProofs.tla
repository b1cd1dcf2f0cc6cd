---------------------------- MODULE GuestExecProofs ----------------------------
(***************************************************************************)
(* Proofs about GuestExec, for every output limit, channel capacity,       *)
(* buffer size and amount of output: the two readers never pass on more    *)
(* than the limit together, a command reported as exited has delivered     *)
(* every byte, and a host that listens is told how the command ended.      *)
(***************************************************************************)
EXTENDS GuestExec, TLAPS

\* An event at the end of the channel.
LEMMA Appended ==
    ASSUME NEW c \in Seq(Events), NEW e \in Events
    PROVE  /\ Append(c, e) \in Seq(Events) /\ Len(Append(c, e)) = Len(c) + 1 /\ Len(c) \in Nat
           /\ \A i \in 1..Len(c) : Append(c, e)[i] = c[i]
           /\ Append(c, e)[Len(c) + 1] = e
OBVIOUS

\* The event at the head of the channel is taken.
LEMMA Popped ==
    ASSUME NEW c \in Seq(Events), c # <<>>
    PROVE  /\ Tail(c) \in Seq(Events) /\ Len(c) \in Nat \ {0} /\ Len(Tail(c)) = Len(c) - 1
           /\ Head(c) = c[1] /\ c[1] \in Events
           /\ \A i \in 1..Len(c) - 1 : Tail(c)[i] = c[i + 1]
OBVIOUS

\* Only data events have bytes.
LEMMA BytesOfEvents ==
    ASSUME NEW e \in Events
    PROVE  BytesOf(e) \in Nat
BY DEF BytesOf, Events

\* An empty channel carries nothing.
LEMMA CarriesNothing ==
    ASSUME NEW m \in Nat, NEW n \in Nat
    PROVE  Carries(<<>>, m, n) <=> m = n
<1>1. Carries(<<>>, m, n) => m = n
  BY DEF Carries
<1>2. ASSUME m = n PROVE Carries(<<>>, m, n)
  <2> DEFINE t == [i \in 0..0 |-> n]
  <2>1. t \in [0..Len(<<>>) -> 0..n] /\ t[0] = m /\ t[Len(<<>>)] = n
    BY <1>2
  <2>2. \A i \in 1..Len(<<>>) : t[i] = t[i - 1] + BytesOf(<<>>[i])
    OBVIOUS
  <2> HIDE DEF t
  <2> QED BY <2>1, <2>2 DEF Carries
<1> QED BY <1>1, <1>2

\* What is carried from m to n is n - m bytes.
LEMMA CarriesUp ==
    ASSUME NEW c \in Seq(Events), NEW m \in Nat, NEW n \in Nat, Carries(c, m, n)
    PROVE  m <= n
BY DEF Carries

\* An event more carries its bytes more.
LEMMA CarriesMore ==
    ASSUME NEW c \in Seq(Events), NEW e \in Events, NEW m \in Nat, NEW n \in Nat, Carries(c, m, n)
    PROVE  Carries(Append(c, e), m, n + BytesOf(e))
<1>1. PICK t \in [0..Len(c) -> 0..n] :
        /\ t[0] = m /\ t[Len(c)] = n
        /\ \A i \in 1..Len(c) : t[i] = t[i - 1] + BytesOf(c[i])
  BY DEF Carries
<1>2. BytesOf(e) \in Nat
  BY BytesOfEvents
<1> DEFINE d == Append(c, e)
           q == [i \in 0..Len(c) + 1 |-> IF i <= Len(c) THEN t[i] ELSE n + BytesOf(e)]
<1>3. /\ Len(c) \in Nat /\ Len(d) = Len(c) + 1 /\ d[Len(c) + 1] = e
      /\ \A i \in 1..Len(c) : d[i] = c[i]
  BY Appended
<1> HIDE DEF d
<1>4. q \in [0..Len(d) -> 0..n + BytesOf(e)]
  BY <1>1, <1>2, <1>3
<1>5. q[0] = m /\ q[Len(d)] = n + BytesOf(e)
  BY <1>1, <1>3
<1>6. ASSUME NEW i \in 1..Len(d) PROVE q[i] = q[i - 1] + BytesOf(d[i])
  <2>1. CASE i = Len(c) + 1
    BY <1>1, <1>3, <2>1
  <2>2. CASE i # Len(c) + 1
    BY <1>1, <1>3, <2>2
  <2> QED BY <2>1, <2>2
<1> HIDE DEF q
<1>7. Carries(d, m, n + BytesOf(e))
  BY <1>4, <1>5, <1>6 DEF Carries
<1> QED BY <1>7 DEF d

\* An event taken off the channel has delivered its bytes.
LEMMA CarriesRest ==
    ASSUME NEW c \in Seq(Events), c # <<>>, NEW m \in Nat, NEW n \in Nat, Carries(c, m, n)
    PROVE  Carries(Tail(c), m + BytesOf(c[1]), n)
<1>1. PICK t \in [0..Len(c) -> 0..n] :
        /\ t[0] = m /\ t[Len(c)] = n
        /\ \A i \in 1..Len(c) : t[i] = t[i - 1] + BytesOf(c[i])
  BY DEF Carries
<1> DEFINE d == Tail(c)
           q == [i \in 0..Len(c) - 1 |-> t[i + 1]]
<1>2. /\ Len(c) \in Nat \ {0} /\ Len(d) = Len(c) - 1
      /\ \A i \in 1..Len(c) - 1 : d[i] = c[i + 1]
  BY Popped
<1> HIDE DEF d
<1>3. q \in [0..Len(d) -> 0..n]
  BY <1>1, <1>2
<1>4. q[0] = m + BytesOf(c[1]) /\ q[Len(d)] = n
  <2>1. t[1] = t[0] + BytesOf(c[1])
    BY <1>1, <1>2
  <2> QED BY <1>1, <1>2, <2>1
<1>5. ASSUME NEW i \in 1..Len(d) PROVE q[i] = q[i - 1] + BytesOf(d[i])
  <2>1. i + 1 \in 1..Len(c) /\ d[i] = c[i + 1] /\ q[i] = t[i + 1] /\ q[i - 1] = t[i]
    BY <1>2
  <2>2. t[i + 1] = t[i] + BytesOf(c[i + 1])
    BY <1>1, <2>1
  <2> QED BY <2>1, <2>2
<1> HIDE DEF q
<1>6. Carries(d, m + BytesOf(c[1]), n)
  BY <1>3, <1>4, <1>5 DEF Carries
<1> QED BY <1>6 DEF d

\* The kinds of the events that are sent.
LEMMA SentEvents ==
    ASSUME ExecTypeOK
    PROVE  /\ \A n \in Nat : Data(n) \in Events /\ Data(n).kind = "data" /\ BytesOf(Data(n)) = n
           /\ Error \in Events /\ Error.kind = "error" /\ BytesOf(Error) = 0
           /\ Exit \in Events /\ Exit.kind = "exit" /\ BytesOf(Exit) = 0
BY DEF ExecTypeOK, Events, Data, Error, Exit, BytesOf

\* What Read does with n bytes of pipe s.
LEMMA ReadBytes ==
    ASSUME ExecInv, NEW s \in Streams, Read(s)
    PROVE  \E n \in Nat \ {0} :
            /\ n <= pipe[s] /\ n <= MaxRead
            /\ Allowed(n) \in 0..n /\ used \in Nat
            /\ Min2(used + n, Limit) = Min2(used, Limit) + Allowed(n)
            /\ Allowed(n) = n => used + n <= Limit
            /\ used >= Limit => Allowed(n) < n /\ Allowed(n) = 0
            /\ pipe' = [pipe EXCEPT ![s] = pipe[s] - n] /\ used' = used + n
            /\ limitHit' = (limitHit \/ Allowed(n) < n)
            /\ child' \in {child, "exited"}
            /\ child' # child => child = "running"
            /\ held' = [held EXCEPT ![s] = Allowed(n)]
            /\ final' = [final EXCEPT ![s] = (Allowed(n) < n)]
            /\ reader' = [reader EXCEPT ![s] = IF used >= Limit THEN "done" ELSE "send"]
<1>1. pipe[s] \in Nat /\ used \in Nat /\ Limit \in Nat \ {0} /\ MaxRead \in Nat
  BY ExecAssumption DEF ExecInv, ExecTypeOK
<1>2. PICK n \in 1..Min2(pipe[s], MaxRead) :
            /\ pipe' = [pipe EXCEPT ![s] = pipe[s] - n] /\ used' = used + n
            /\ limitHit' = (limitHit \/ Allowed(n) < n)
            /\ IF Allowed(n) < n THEN Kill ELSE UNCHANGED child
            /\ held' = [held EXCEPT ![s] = Allowed(n)]
            /\ final' = [final EXCEPT ![s] = (Allowed(n) < n)]
            /\ reader' = [reader EXCEPT ![s] = IF used >= Limit THEN "done" ELSE "send"]
  BY DEF Read
<1>3. n \in Nat \ {0} /\ n <= pipe[s] /\ n <= MaxRead
  BY <1>1, <1>2 DEF Min2
<1>4. /\ Allowed(n) \in 0..n
      /\ Min2(used + n, Limit) = Min2(used, Limit) + Allowed(n)
      /\ Allowed(n) = n => used + n <= Limit
      /\ used >= Limit => Allowed(n) < n /\ Allowed(n) = 0
  BY <1>1, <1>3 DEF Allowed, Min2
<1>5. child' \in {child, "exited"} /\ (child' # child => child = "running")
  BY <1>2 DEF Kill
<1> WITNESS n \in Nat \ {0}
<1> QED BY <1>1, <1>2, <1>3, <1>4, <1>5

\* What Receive does with the event at the head.
LEMMA Received ==
    ASSUME ExecInv, Receive
    PROVE  /\ channel # <<>> /\ receiver = "open" /\ UNCHANGED guest
           /\ channel[1].kind \in {"data", "exit", "error"}
           /\ channel[1].kind = "data" =>
                /\ channel[1].bytes \in Nat /\ got' = got + BytesOf(channel[1])
                /\ channel' = Tail(channel) /\ UNCHANGED <<outcome, receiver>>
           /\ channel[1].kind = "exit" =>
                /\ outcome' = Outcome(channel[1]) /\ outcome' \in {"timed_out", "limit", "exited"}
                /\ channel' = Tail(channel) /\ UNCHANGED <<got, receiver>>
           /\ channel[1].kind = "error" =>
                outcome' = "error" /\ receiver' = "closed" /\ channel' = <<>> /\ UNCHANGED got
<1>1. channel # <<>> /\ receiver = "open" /\ UNCHANGED guest
  BY DEF Receive
<1>2. Head(channel) = channel[1] /\ channel[1] \in Events
  BY <1>1, Popped DEF ExecInv, ExecTypeOK
<1>3. CASE channel[1].kind = "data"
  BY <1>1, <1>2, <1>3 DEF Receive, Events, BytesOf
<1>4. CASE channel[1].kind = "exit"
  BY <1>1, <1>2, <1>4 DEF Receive, Outcome
<1>5. CASE channel[1].kind = "error"
  BY <1>1, <1>2, <1>5 DEF Receive
<1>6. channel[1].kind \in {"data", "exit", "error"}
  BY <1>2 DEF Events
<1> QED BY <1>1, <1>3, <1>4, <1>5, <1>6

\* A send keeps the channel's type and capacity.
LEMMA ChannelGrows ==
    ASSUME ExecTypeOK, NEW e \in Events,
           channel' = channel \/ (channel' = Append(channel, e) /\ Len(channel) < Capacity)
    PROVE  channel' \in Seq(Events) /\ Len(channel') <= Capacity
<1>1. channel \in Seq(Events) /\ Len(channel) <= Capacity /\ Capacity \in Nat
  BY ExecAssumption DEF ExecTypeOK
<1>2. Append(channel, e) \in Seq(Events) /\ Len(Append(channel, e)) = Len(channel) + 1 /\ Len(channel) \in Nat
  BY <1>1, Appended
<1> QED BY <1>1, <1>2

\* So does a receive.
LEMMA ChannelShrinks ==
    ASSUME ExecTypeOK, channel # <<>>, channel' = Tail(channel) \/ channel' = <<>>
    PROVE  channel' \in Seq(Events) /\ Len(channel') <= Capacity
<1>1. channel \in Seq(Events) /\ Len(channel) <= Capacity /\ Capacity \in Nat
  BY ExecAssumption DEF ExecTypeOK
<1>2. /\ Tail(channel) \in Seq(Events) /\ Len(Tail(channel)) = Len(channel) - 1
      /\ Len(channel) \in Nat /\ channel[1] \in Events
  BY <1>1, Popped
<1>3. <<>> \in Seq(Events) /\ Len(<<>>) = 0
  OBVIOUS
<1>4. CASE channel' = Tail(channel)
  BY <1>1, <1>2, <1>4
<1>5. CASE channel' = <<>>
  BY <1>1, <1>3, <1>5
<1> QED BY <1>4, <1>5

\* Every step keeps the types.
LEMMA ExecTypes ==
    ASSUME ExecInv, ExecNext
    PROVE  ExecTypeOK'
<1>0. ExecTypeOK
  BY DEF ExecInv
<1> USE ExecAssumption DEF ExecTypeOK, Tasks, Outcomes, Streams, guest, host
<1>1. CASE ForksOff
  BY <1>1, <1>0 DEF ForksOff
<1>2. CASE Exits
  <2>1. heir' \in BOOLEAN /\ child' \in {child, "exited"}
    BY <1>0, <1>2 DEF Exits
  <2> QED BY <1>0, <1>2, <2>1 DEF Exits
<1>3. CASE Spawn
  <2>1. channel' = channel \/ (channel' = Append(channel, Error) /\ Len(channel) < Capacity)
    BY <1>3 DEF Spawn, SendOrLose, SendTo, Error
  <2>2. channel' \in Seq(Events) /\ Len(channel') <= Capacity
    BY <1>0, <2>1, ChannelGrows, SentEvents
  <2> QED BY <1>0, <1>3, <2>2 DEF Spawn
<1>4. CASE Insert
  BY <1>4, <1>0 DEF Insert
<1>5. CASE Waited
  <2>1. channel' = channel \/ (channel' = Append(channel, Error) /\ Len(channel) < Capacity)
    BY <1>5 DEF Waited, SendOrLose, SendTo, Error
  <2>2. channel' \in Seq(Events) /\ Len(channel') <= Capacity
    BY <1>0, <2>1, ChannelGrows, SentEvents
  <2> QED BY <1>0, <1>5, <2>2 DEF Waited
<1>6. CASE TimesOut
  BY <1>6, <1>0 DEF TimesOut
<1>7. CASE Join
  BY <1>7, <1>0 DEF Join
<1>8. CASE Unmap
  BY <1>8, <1>0 DEF Unmap
<1>9. CASE SendExit
  <2>1. channel' = channel \/ (channel' = Append(channel, Exit) /\ Len(channel) < Capacity)
    BY <1>9 DEF SendExit, SendOrLose, SendTo, Exit
  <2>2. channel' \in Seq(Events) /\ Len(channel') <= Capacity
    BY <1>0, <2>1, ChannelGrows, SentEvents
  <2> QED BY <1>0, <1>9, <2>2 DEF SendExit
<1>10. CASE SignalProcess
  BY <1>10, <1>0 DEF SignalProcess, Kill
<1>11. CASE Receive
  <2>1. /\ channel # <<>> /\ UNCHANGED guest
        /\ \/ channel[1].kind = "data" /\ got' = got + BytesOf(channel[1])
              /\ channel' = Tail(channel) /\ UNCHANGED <<outcome, receiver>>
           \/ /\ outcome' \in {"timed_out", "limit", "exited"} /\ channel' = Tail(channel)
              /\ UNCHANGED <<got, receiver>>
           \/ outcome' = "error" /\ receiver' = "closed" /\ channel' = <<>> /\ UNCHANGED got
    BY <1>11, Received
  <2>2. channel' \in Seq(Events) /\ Len(channel') <= Capacity
    BY <1>0, <2>1, ChannelShrinks
  <2>3. got' \in 0..MaxWritten
    <3>1. CASE got' = got + BytesOf(channel[1])
      <4>1. PICK n \in 0..Limit :
              Carries(channel, got, n) /\ n + held["stdout"] + held["stderr"] <= Min2(used, Limit)
        BY DEF ExecInv, ByteInv, Balance
      <4>2. BytesOf(channel[1]) \in Nat
        BY <1>0, <2>1, Popped, BytesOfEvents
      <4>3. Carries(Tail(channel), got', n)
        BY <1>0, <2>1, <3>1, <4>1, CarriesRest
      <4>4. got' <= n
        <5>1. Tail(channel) \in Seq(Events) /\ got' \in Nat /\ n \in Nat
          BY <1>0, <2>1, <3>1, <4>2, Popped, SMTT(60)
        <5> QED BY <4>3, <5>1, CarriesUp
      <4>5. n <= used
        BY <1>0, <4>1 DEF Min2
      <4> QED BY <1>0, <3>1, <4>1, <4>2, <4>4, <4>5, SMTT(60)
    <3>2. CASE got' = got
      BY <1>0, <3>2
    <3> QED BY <2>1, <3>1, <3>2
  <2>4. outcome' \in Outcomes /\ receiver' \in {"open", "closed"}
    BY <1>0, <2>1
  <2> QED BY <1>0, <2>1, <2>2, <2>3, <2>4
<1>12. CASE StreamEnds
  BY <1>12, <1>0 DEF StreamEnds
<1>13. CASE HostLeaves
  BY <1>13, <1>0 DEF HostLeaves
<1>14. CASE Done
  BY <1>14, <1>0 DEF Done, execVars
<1>15. ASSUME NEW s \in Streams, Writes(s) PROVE ExecTypeOK'
  <2>1. written' = written + 1 /\ written < MaxWritten /\ pipe' = [pipe EXCEPT ![s] = pipe[s] + 1]
    BY <1>15 DEF Writes
  <2>2. pipe[s] + 1 \in 0..MaxWritten
    <3>1. pipe["stdout"] \in Nat /\ pipe["stderr"] \in Nat /\ used \in Nat /\ written \in Nat
      BY <1>0
    <3>2. written = pipe["stdout"] + pipe["stderr"] + used
      BY DEF ExecInv, ByteInv
    <3> QED BY <2>1, <3>1, <3>2
  <2>3. pipe' \in [Streams -> 0..MaxWritten] /\ written' \in 0..MaxWritten
    BY <1>0, <2>1, <2>2, SMTT(60)
  <2> QED BY <1>0, <1>15, <2>3 DEF Writes
<1>16. ASSUME NEW s \in Streams, Read(s) PROVE ExecTypeOK'
  <2>1. PICK n \in Nat \ {0} :
            /\ n <= pipe[s] /\ n <= MaxRead /\ Allowed(n) \in 0..n
            /\ pipe' = [pipe EXCEPT ![s] = pipe[s] - n] /\ used' = used + n
            /\ limitHit' = (limitHit \/ Allowed(n) < n)
            /\ child' \in {child, "exited"}
            /\ held' = [held EXCEPT ![s] = Allowed(n)]
            /\ final' = [final EXCEPT ![s] = (Allowed(n) < n)]
            /\ reader' = [reader EXCEPT ![s] = IF used >= Limit THEN "done" ELSE "send"]
    BY <1>16, ReadBytes
  <2>2. pipe' \in [Streams -> 0..MaxWritten]
    BY <1>0, <2>1, SMTT(60)
  <2>3. used + n \in 0..MaxWritten
    <3>1. pipe["stdout"] \in Nat /\ pipe["stderr"] \in Nat /\ used \in Nat /\ written \in 0..MaxWritten
      BY <1>0
    <3>2. written = pipe["stdout"] + pipe["stderr"] + used
      BY DEF ExecInv, ByteInv
    <3> QED BY <2>1, <3>1, <3>2
  <2>4. held' \in [Streams -> 0..MaxRead]
    BY <1>0, <2>1
  <2>5. reader' \in [Streams -> {"off", "read", "send", "done"}] /\ final' \in [Streams -> BOOLEAN]
    BY <1>0, <2>1, SMTT(60)
  <2>6. limitHit' \in BOOLEAN /\ child' \in {"none", "running", "exited", "reaped"}
    BY <1>0, <2>1
  <2> QED BY <1>0, <1>16, <2>1, <2>2, <2>3, <2>4, <2>5, <2>6, SMTT(60) DEF Read
<1>17. ASSUME NEW s \in Streams, EndOfFile(s) PROVE ExecTypeOK'
  BY <1>17, <1>0 DEF EndOfFile
<1>18. ASSUME NEW s \in Streams, SendOutput(s) PROVE ExecTypeOK'
  <2>1. channel' = channel \/ (channel' = Append(channel, Data(held[s])) /\ Len(channel) < Capacity)
    BY <1>18 DEF SendOutput, SendTo
  <2>2. held[s] \in Nat
    BY <1>0
  <2>3. channel' \in Seq(Events) /\ Len(channel') <= Capacity
    BY <1>0, <2>1, <2>2, ChannelGrows, SentEvents
  <2>4. child' \in {child, "exited"} /\ reader' \in [Streams -> {"off", "read", "send", "done"}]
    BY <1>0, <1>18 DEF SendOutput, Kill
  <2>5. held' \in [Streams -> 0..MaxRead]
    BY <1>0, <1>18 DEF SendOutput
  <2> QED BY <1>0, <1>18, <2>3, <2>4, <2>5 DEF SendOutput
<1> QED
  BY <1>1, <1>2, <1>3, <1>4, <1>5, <1>6, <1>7, <1>8, <1>9, <1>10, <1>11, <1>12, <1>13, <1>14,
          <1>15, <1>16, <1>17, <1>18 DEF ExecNext, GuestStep, HostStep

\* A balance that nothing touches.
LEMMA SameBalance ==
    ASSUME Balance, UNCHANGED <<channel, got, held, used>>, receiver' = "open" => receiver = "open"
    PROVE  Balance'
BY DEF Balance

\* Error and exit events have no bytes.
LEMMA WordsBalance ==
    ASSUME ExecTypeOK, Balance, UNCHANGED <<got, held, used, receiver>>, NEW e \in Events,
                                            BytesOf(e) = 0,
           channel' = channel \/ channel' = Append(channel, e)
    PROVE  Balance'
<1>1. PICK n \in 0..Limit :
        /\ Carries(channel, got, n)
        /\ n + held["stdout"] + held["stderr"] <= Min2(used, Limit)
        /\ receiver = "open" => n + held["stdout"] + held["stderr"] = Min2(used, Limit)
  BY DEF Balance
<1>2. channel \in Seq(Events) /\ got \in Nat /\ n \in Nat /\ n + BytesOf(e) = n
  BY <1>1, ExecAssumption DEF ExecTypeOK
<1>3. Carries(channel', got', n)
  <2>1. CASE channel' = channel
    BY <1>1, <2>1
  <2>2. CASE channel' = Append(channel, e)
    <3>1. Carries(Append(channel, e), got, n + BytesOf(e))
      BY <1>1, <1>2, CarriesMore
    <3> QED BY <1>2, <2>2, <3>1
  <2> QED BY <2>1, <2>2
<1> QED BY <1>1, <1>3 DEF Balance

\* Every step keeps the account of bytes.
LEMMA ExecBytes ==
    ASSUME ExecInv, ExecNext
    PROVE  ByteInv'
<1>0. ExecTypeOK /\ ByteInv
  BY DEF ExecInv
<1> USE DEF ByteInv, guest, host
<1>1. CASE ForksOff
  BY <1>0, <1>1, SameBalance DEF ForksOff
<1>2. CASE Exits
  BY <1>0, <1>2, SameBalance DEF Exits
<1>3. CASE Spawn
  <2>1. channel' = channel \/ (channel' = Append(channel, Error) /\ receiver = "open")
    BY <1>3 DEF Spawn, SendOrLose, SendTo, Error
  <2>2. Balance'
    BY <1>0, <1>3, <2>1, SentEvents, WordsBalance DEF Spawn
  <2> QED BY <1>0, <1>3, <2>1, <2>2 DEF Spawn
<1>4. CASE Insert
  <2>1. Balance'
    BY <1>0, <1>4, SameBalance DEF Insert
  <2>2. \A s \in Streams : held[s] = 0
    BY <1>0, <1>4 DEF Insert, ExecInv, ProcessInv
  <2> QED BY <1>0, <1>4, <2>1, <2>2 DEF Insert
<1>5. CASE Waited
  <2>1. channel' = channel \/ (channel' = Append(channel, Error) /\ receiver = "open")
    BY <1>5 DEF Waited, SendOrLose, SendTo, Error
  <2>2. Balance'
    BY <1>0, <1>5, <2>1, SentEvents, WordsBalance DEF Waited
  <2> QED BY <1>0, <1>5, <2>1, <2>2 DEF Waited
<1>6. CASE TimesOut
  BY <1>0, <1>6, SameBalance DEF TimesOut
<1>7. CASE Join
  BY <1>0, <1>7, SameBalance DEF Join
<1>8. CASE Unmap
  BY <1>0, <1>8, SameBalance DEF Unmap
<1>9. CASE SendExit
  <2>1. channel' = channel \/ (channel' = Append(channel, Exit) /\ receiver = "open")
    BY <1>9 DEF SendExit, SendOrLose, SendTo, Exit
  <2>2. Balance'
    BY <1>0, <1>9, <2>1, SentEvents, WordsBalance DEF SendExit
  <2> QED BY <1>0, <1>9, <2>1, <2>2 DEF SendExit
<1>10. CASE SignalProcess
  BY <1>0, <1>10, SameBalance DEF SignalProcess, Kill
<1>11. CASE Receive
  <2>1. /\ channel # <<>> /\ receiver = "open" /\ UNCHANGED guest
        /\ channel[1].kind \in {"data", "exit", "error"}
        /\ channel[1].kind = "data" =>
              got' = got + BytesOf(channel[1]) /\ channel' = Tail(channel) /\ UNCHANGED receiver
        /\ channel[1].kind = "exit" => channel' = Tail(channel) /\ UNCHANGED <<got, receiver>>
        /\ channel[1].kind = "error" => receiver' = "closed" /\ channel' = <<>> /\ UNCHANGED got
    BY <1>11, Received
  <2>2. PICK m \in 0..Limit :
            /\ Carries(channel, got, m)
            /\ m + held["stdout"] + held["stderr"] <= Min2(used, Limit)
            /\ receiver = "open" => m + held["stdout"] + held["stderr"] = Min2(used, Limit)
    BY <1>0 DEF Balance
  <2>3. /\ channel \in Seq(Events) /\ got \in Nat /\ m \in Nat
        /\ held["stdout"] \in Nat /\ held["stderr"] \in Nat
    BY <1>0, <2>2, ExecAssumption DEF ExecTypeOK, Streams
  <2>4. CASE channel[1].kind # "error"
    <3>1. got + BytesOf(channel[1]) = got'
      BY <2>1, <2>3, <2>4 DEF BytesOf
    <3>2. Carries(channel', got', m)
      BY <2>1, <2>2, <2>3, <2>4, <3>1, CarriesRest
    <3>3. Balance'
      BY <2>1, <2>2, <2>4, <3>2 DEF Balance
    <3> QED BY <1>0, <2>1, <2>4, <3>3
  <2>5. CASE channel[1].kind = "error"
    <3>1. Carries(channel', got', got')
      BY <2>1, <2>3, <2>5, CarriesNothing
    <3>2. got <= m
      BY <2>2, <2>3, CarriesUp
    <3>3. got' \in 0..Limit /\ got' + held["stdout"] + held["stderr"] <= Min2(used, Limit)
      <4>1. Min2(used, Limit) \in Nat /\ Limit \in Nat
        BY <1>0, ExecAssumption DEF ExecTypeOK, Min2
      <4> QED BY <2>1, <2>2, <2>3, <2>5, <3>2, <4>1
    <3>4. Balance'
      BY <2>1, <2>5, <3>1, <3>3 DEF Balance
    <3> QED BY <1>0, <2>1, <2>5, <3>4
  <2> QED BY <2>4, <2>5
<1>12. CASE StreamEnds
  BY <1>0, <1>12, SameBalance DEF StreamEnds
<1>13. CASE HostLeaves
  <2>1. channel' = <<>> /\ receiver' = "closed" /\ UNCHANGED <<guest, got>>
    BY <1>13 DEF HostLeaves
  <2>2. PICK m \in 0..Limit :
          Carries(channel, got, m) /\ m + held["stdout"] + held["stderr"] <= Min2(used, Limit)
    BY <1>0 DEF Balance
  <2>3. /\ channel \in Seq(Events) /\ got \in Nat /\ m \in Nat
        /\ held["stdout"] \in Nat /\ held["stderr"] \in Nat
    BY <1>0, <2>2, ExecAssumption DEF ExecTypeOK, Streams
  <2>4. Carries(channel', got', got') /\ got <= m
    BY <2>1, <2>2, <2>3, CarriesNothing, CarriesUp
  <2>5. got' \in 0..Limit /\ got' + held["stdout"] + held["stderr"] <= Min2(used, Limit)
    <3>1. Min2(used, Limit) \in Nat /\ Limit \in Nat
      BY <1>0, ExecAssumption DEF ExecTypeOK, Min2
    <3> QED BY <2>1, <2>2, <2>3, <2>4, <3>1
  <2>6. Balance'
    BY <2>1, <2>4, <2>5 DEF Balance
  <2> QED BY <1>0, <2>1, <2>6
<1>14. CASE Done
  BY <1>0, <1>14, SameBalance DEF Done, execVars
<1>15. ASSUME NEW s \in Streams, Writes(s) PROVE ByteInv'
  <2>1. Balance'
    BY <1>0, <1>15, SameBalance DEF Writes
  <2>2. pipe \in [Streams -> Nat] /\ pipe[s] + 1 \in Nat /\ used \in Nat /\ written \in Nat
    BY <1>0 DEF ExecTypeOK
  <2>3. pipe' = [pipe EXCEPT ![s] = pipe[s] + 1] /\ written' = written + 1 /\ used' = used
    BY <1>15 DEF Writes
  <2>4. pipe'["stdout"] + pipe'["stderr"] + pipe[s] = pipe["stdout"] + pipe["stderr"] + (pipe[s] + 1)
    BY <2>2, <2>3 DEF Streams
  <2>5. pipe'["stdout"] \in Nat /\ pipe'["stderr"] \in Nat /\ pipe["stdout"] \in Nat /\ pipe["stderr"] \in Nat
    BY <2>2, <2>3 DEF Streams
  <2>6. written' = pipe'["stdout"] + pipe'["stderr"] + used'
    BY <1>0, <2>2, <2>3, <2>4, <2>5, SMTT(60)
  <2> QED BY <1>0, <1>15, <2>1, <2>6 DEF Writes
<1>16. ASSUME NEW s \in Streams, Read(s) PROVE ByteInv'
  <2>1. PICK n \in Nat \ {0} :
            /\ n <= pipe[s] /\ Allowed(n) \in 0..n /\ used \in Nat
            /\ Min2(used + n, Limit) = Min2(used, Limit) + Allowed(n)
            /\ Allowed(n) = n => used + n <= Limit
            /\ used >= Limit => Allowed(n) < n /\ Allowed(n) = 0
            /\ pipe' = [pipe EXCEPT ![s] = pipe[s] - n] /\ used' = used + n
            /\ limitHit' = (limitHit \/ Allowed(n) < n)
            /\ held' = [held EXCEPT ![s] = Allowed(n)]
            /\ final' = [final EXCEPT ![s] = (Allowed(n) < n)]
            /\ reader' = [reader EXCEPT ![s] = IF used >= Limit THEN "done" ELSE "send"]
    BY <1>16, ReadBytes
  <2>2. /\ pipe \in [Streams -> Nat] /\ held \in [Streams -> Nat] /\ written \in Nat
        /\ pipe[s] - n \in Nat /\ Allowed(n) \in Nat /\ Limit \in Nat
        /\ reader[s] = "read" /\ held[s] = 0
        /\ UNCHANGED <<channel, got, receiver, written>>
    <3>1. reader[s] = "read" /\ UNCHANGED <<channel, got, receiver, written>>
      BY <1>16 DEF Read, host
    <3>2. pipe \in [Streams -> Nat] /\ held \in [Streams -> Nat] /\ written \in Nat /\ Limit \in Nat
      BY <1>0, ExecAssumption, SMTT(60) DEF ExecTypeOK
    <3> QED BY <1>0, <2>1, <3>1, <3>2, SMTT(60)
  <2>3. written' = pipe'["stdout"] + pipe'["stderr"] + used'
    <3>1. pipe'["stdout"] + pipe'["stderr"] + pipe[s] = pipe["stdout"] + pipe["stderr"] + (pipe[s] - n)
      BY <2>1, <2>2 DEF Streams
    <3>2. /\ pipe'["stdout"] \in Nat /\ pipe'["stderr"] \in Nat
          /\ pipe["stdout"] \in Nat /\ pipe["stderr"] \in Nat /\ pipe[s] \in Nat
      BY <2>1, <2>2 DEF Streams
    <3>3. written = pipe["stdout"] + pipe["stderr"] + used /\ written' = written
      BY <1>0, <2>2
    <3>4. used' = used + n /\ used \in Nat /\ n \in Nat
      BY <2>1
    <3> QED BY <3>1, <3>2, <3>3, <3>4
  <2>4. Balance'
    <3>1. PICK m \in 0..Limit :
            /\ Carries(channel, got, m)
            /\ m + held["stdout"] + held["stderr"] <= Min2(used, Limit)
            /\ receiver = "open" => m + held["stdout"] + held["stderr"] = Min2(used, Limit)
      BY <1>0 DEF Balance
    <3>2. held'["stdout"] + held'["stderr"] + held[s] = held["stdout"] + held["stderr"] + Allowed(n)
      BY <2>1, <2>2 DEF Streams
    <3>3. /\ held'["stdout"] \in Nat /\ held'["stderr"] \in Nat
          /\ held["stdout"] \in Nat /\ held["stderr"] \in Nat
          /\ Min2(used, Limit) \in Nat /\ m \in Nat
      BY <2>1, <2>2, <3>1 DEF Streams, Min2
    <3>4. m + held'["stdout"] + held'["stderr"] = m + held["stdout"] + held["stderr"] + Allowed(n)
      BY <2>2, <3>2, <3>3
    <3>5. /\ m + held'["stdout"] + held'["stderr"] <= Min2(used', Limit)
          /\ receiver' = "open" => m + held'["stdout"] + held'["stderr"] = Min2(used', Limit)
      BY <2>1, <2>2, <3>1, <3>3, <3>4
    <3> QED BY <2>2, <3>1, <3>5 DEF Balance
  <2>5. ~limitHit' => used' <= Limit
    <3>1. ~(Allowed(n) < n) => Allowed(n) = n
      BY <2>1
    <3> QED BY <2>1, <3>1
  <2>6. \A r \in Streams : final'[r] => limitHit'
    BY <1>0, <2>1 DEF ExecTypeOK
  <2>7. \A r \in Streams : reader'[r] # "send" => held'[r] = 0
    BY <1>0, <2>1 DEF ExecTypeOK
  <2> QED BY <1>0, <2>2, <2>3, <2>4, <2>5, <2>6, <2>7
<1>17. ASSUME NEW s \in Streams, EndOfFile(s) PROVE ByteInv'
  <2>1. Balance'
    BY <1>0, <1>17, SameBalance DEF EndOfFile
  <2>2. \A r \in Streams : reader'[r] # "send" => held'[r] = 0
    BY <1>0, <1>17 DEF EndOfFile, ExecTypeOK
  <2> QED BY <1>0, <1>17, <2>1, <2>2 DEF EndOfFile
<1>18. ASSUME NEW s \in Streams, SendOutput(s) PROVE ByteInv'
  <2>1. /\ held' = [held EXCEPT ![s] = 0] /\ held \in [Streams -> Nat] /\ held[s] \in Nat
        /\ UNCHANGED <<pipe, final, used, limitHit, written, got, receiver>>
        /\ \/ channel' = Append(channel, Data(held[s])) /\ receiver = "open"
           \/ channel' = channel /\ receiver = "closed"
    BY <1>0, <1>18 DEF SendOutput, SendTo, ExecTypeOK
  <2>2. \A r \in Streams : held'[r] = IF r = s THEN 0 ELSE held[r]
    BY <2>1
  <2>3. \A r \in Streams : r # s => reader'[r] = reader[r]
    BY <1>0, <1>18 DEF SendOutput, ExecTypeOK
  <2>4. \A r \in Streams : reader'[r] # "send" => held'[r] = 0
    BY <1>0, <2>2, <2>3
  <2>5. Balance'
    <3>1. PICK m \in 0..Limit :
            /\ Carries(channel, got, m)
            /\ m + held["stdout"] + held["stderr"] <= Min2(used, Limit)
            /\ receiver = "open" => m + held["stdout"] + held["stderr"] = Min2(used, Limit)
      BY <1>0 DEF Balance
    <3>2. held'["stdout"] + held'["stderr"] + held[s] = held["stdout"] + held["stderr"] + 0
      BY <2>1 DEF Streams
    <3>3. /\ held'["stdout"] \in Nat /\ held'["stderr"] \in Nat
          /\ held["stdout"] \in Nat /\ held["stderr"] \in Nat
          /\ Min2(used, Limit) \in 0..Limit /\ m \in Nat /\ Limit \in Nat
      BY <1>0, <2>1, <3>1, ExecAssumption, SMTT(60) DEF Streams, Min2, ExecTypeOK
    <3>4. CASE receiver = "open"
      <4> DEFINE n == m + held[s]
      <4>1. Carries(channel', got', n)
        <5>1. channel \in Seq(Events) /\ got \in Nat /\ m \in Nat
          BY <1>0, <3>3 DEF ExecTypeOK
        <5>2. Data(held[s]) \in Events /\ BytesOf(Data(held[s])) = held[s]
          BY <1>0, <2>1, SentEvents
        <5>3. Carries(Append(channel, Data(held[s])), got, m + held[s])
          BY <3>1, <5>1, <5>2, CarriesMore
        <5> QED BY <2>1, <3>4, <5>3
      <4>2. n + held'["stdout"] + held'["stderr"] = m + held["stdout"] + held["stderr"]
        BY <2>1, <3>2, <3>3, SMTT(60)
      <4>3. n + held'["stdout"] + held'["stderr"] = Min2(used, Limit)
        BY <3>1, <3>4, <4>2
      <4>4. n \in 0..Limit
        BY <2>1, <3>3, <4>3
      <4> HIDE DEF n
      <4>5. n + held'["stdout"] + held'["stderr"] <= Min2(used', Limit)
        BY <2>1, <3>3, <4>3
      <4>6. n + held'["stdout"] + held'["stderr"] = Min2(used', Limit)
        BY <2>1, <4>3
      <4> QED BY <4>1, <4>4, <4>5, <4>6 DEF Balance
    <3>5. CASE receiver = "closed"
      <4>1. m + held'["stdout"] + held'["stderr"] <= Min2(used', Limit)
        BY <2>1, <3>1, <3>2, <3>3
      <4> QED BY <2>1, <3>1, <3>5, <4>1 DEF Balance
    <3> QED BY <2>1, <3>4, <3>5
  <2>6. receiver' = "closed" => channel' = <<>>
    BY <1>0, <2>1
  <2> QED BY <1>0, <2>1, <2>4, <2>5, <2>6
<1> QED
  BY <1>1, <1>2, <1>3, <1>4, <1>5, <1>6, <1>7, <1>8, <1>9, <1>10, <1>11, <1>12, <1>13, <1>14,
          <1>15, <1>16, <1>17, <1>18 DEF ExecNext, GuestStep, HostStep

\* A reader that stops has found the end of file, the limit, or no host.
LEMMA ExecStopped ==
    ASSUME ExecInv, ExecNext
    PROVE  StoppedInv'
<1>0. ExecTypeOK /\ ByteInv /\ StoppedInv /\ ProcessInv
  BY DEF ExecInv
<1> USE DEF ExecTypeOK, StoppedInv, guest, host
<1>1. CASE ForksOff
  BY <1>1, <1>0 DEF ForksOff
<1>2. CASE Exits
  BY <1>2, <1>0 DEF Exits
<1>3. CASE Spawn
  BY <1>3, <1>0 DEF Spawn, ProcessInv
<1>4. CASE Insert
  BY <1>4, <1>0 DEF Insert
<1>5. CASE Waited
  BY <1>5, <1>0 DEF Waited, SendOrLose, SendTo, Error
<1>6. CASE TimesOut
  BY <1>6, <1>0 DEF TimesOut
<1>7. CASE Join
  BY <1>7, <1>0 DEF Join
<1>8. CASE Unmap
  BY <1>8, <1>0 DEF Unmap
<1>9. CASE SendExit
  BY <1>9, <1>0 DEF SendExit, SendOrLose, SendTo, Exit
<1>10. CASE SignalProcess
  BY <1>10, <1>0 DEF SignalProcess, Kill
<1>11. CASE Receive
  <2>1. UNCHANGED guest /\ (receiver' = receiver \/ receiver' = "closed")
    BY <1>11, Received
  <2> QED BY <1>0, <2>1
<1>12. CASE StreamEnds
  BY <1>12, <1>0 DEF StreamEnds
<1>13. CASE HostLeaves
  BY <1>13, <1>0 DEF HostLeaves
<1>14. CASE Done
  BY <1>14, <1>0 DEF Done, execVars
<1>15. ASSUME NEW s \in Streams, Writes(s) PROVE StoppedInv'
  BY <1>15, <1>0 DEF Writes
<1>16. ASSUME NEW s \in Streams, Read(s) PROVE StoppedInv'
  <2>1. PICK n \in Nat \ {0} :
            /\ used >= Limit => Allowed(n) < n
            /\ pipe' = [pipe EXCEPT ![s] = pipe[s] - n]
            /\ limitHit' = (limitHit \/ Allowed(n) < n)
            /\ child' \in {child, "exited"}
            /\ child' # child => child = "running"
            /\ reader' = [reader EXCEPT ![s] = IF used >= Limit THEN "done" ELSE "send"]
    BY <1>16, ReadBytes
  <2>2. UNCHANGED <<heir, receiver>> /\ reader[s] = "read"
    BY <1>16 DEF Read
  <2>3. ASSUME NEW r \in Streams, reader'[r] = "done", ~limitHit', receiver' # "closed"
        PROVE  pipe'[r] = 0 /\ child' # "running" /\ ~heir'
    <3>1. r # s
      BY <1>0, <2>1, <2>3
    <3>2. reader[r] = "done" /\ pipe'[r] = pipe[r] /\ ~limitHit
      BY <1>0, <2>1, <2>3, <3>1
    <3> QED BY <1>0, <2>1, <2>2, <2>3, <3>2
  <2> QED BY <2>3
<1>17. ASSUME NEW s \in Streams, EndOfFile(s) PROVE StoppedInv'
  BY <1>17, <1>0 DEF EndOfFile
<1>18. ASSUME NEW s \in Streams, SendOutput(s) PROVE StoppedInv'
  <2>1. /\ child' \in {child, "exited"} /\ (child = "exited" \/ child' = child \/ child = "running")
        /\ receiver = "closed" \/ reader' = [reader EXCEPT ![s] = IF final[s] THEN "done" ELSE "read"]
        /\ UNCHANGED <<pipe, heir, limitHit, receiver>>
    BY <1>0, <1>18 DEF SendOutput, Kill, SendTo
  <2>2. final[s] => limitHit
    BY <1>0 DEF ByteInv
  <2> QED BY <1>0, <2>1, <2>2
<1> QED
  BY <1>1, <1>2, <1>3, <1>4, <1>5, <1>6, <1>7, <1>8, <1>9, <1>10, <1>11, <1>12, <1>13, <1>14,
          <1>15, <1>16, <1>17, <1>18 DEF ExecNext, GuestStep, HostStep

\* The readers start with Insert and are waited for by Join.
LEMMA ExecProcess ==
    ASSUME ExecInv, ExecNext
    PROVE  ProcessInv'
<1>0. ExecTypeOK /\ ProcessInv
  BY DEF ExecInv
<1> USE DEF ExecTypeOK, ProcessInv, ReadersDone, guest, host
<1>1. CASE ForksOff
  BY <1>1, <1>0 DEF ForksOff
<1>2. CASE Exits
  BY <1>2, <1>0 DEF Exits
<1>3. CASE Spawn
  BY <1>3, <1>0 DEF Spawn, SendOrLose, SendTo, Error
<1>4. CASE Insert
  BY <1>4, <1>0 DEF Insert
<1>5. CASE Waited
  BY <1>5, <1>0 DEF Waited, SendOrLose, SendTo, Error
<1>6. CASE TimesOut
  BY <1>6, <1>0 DEF TimesOut
<1>7. CASE Join
  BY <1>7, <1>0 DEF Join
<1>8. CASE Unmap
  BY <1>8, <1>0 DEF Unmap
<1>9. CASE SendExit
  BY <1>9, <1>0 DEF SendExit, SendOrLose, SendTo, Exit
<1>10. CASE SignalProcess
  BY <1>10, <1>0 DEF SignalProcess, Kill
<1>11. CASE Receive
  <2>1. UNCHANGED guest
    BY <1>11, Received
  <2> QED BY <1>0, <2>1
<1>12. CASE StreamEnds
  BY <1>12, <1>0 DEF StreamEnds
<1>13. CASE HostLeaves
  BY <1>13, <1>0 DEF HostLeaves
<1>14. CASE Done
  BY <1>14, <1>0 DEF Done, execVars
<1>15. ASSUME NEW s \in Streams, Writes(s) PROVE ProcessInv'
  BY <1>15, <1>0 DEF Writes
<1>16. ASSUME NEW s \in Streams, Read(s) PROVE ProcessInv'
  <2>1. PICK n \in Nat \ {0} :
            /\ used >= Limit => Allowed(n) < n
            /\ pipe' = [pipe EXCEPT ![s] = pipe[s] - n]
            /\ limitHit' = (limitHit \/ Allowed(n) < n)
            /\ child' \in {child, "exited"}
            /\ child' # child => child = "running"
            /\ reader' = [reader EXCEPT ![s] = IF used >= Limit THEN "done" ELSE "send"]
    BY <1>16, ReadBytes
  <2>2. UNCHANGED <<heir, task>> /\ reader[s] = "read"
    BY <1>16 DEF Read
  <2> QED BY <1>0, <2>1, <2>2
<1>17. ASSUME NEW s \in Streams, EndOfFile(s) PROVE ProcessInv'
  BY <1>17, <1>0 DEF EndOfFile
<1>18. ASSUME NEW s \in Streams, SendOutput(s) PROVE ProcessInv'
  BY <1>18, <1>0 DEF SendOutput, Kill, SendTo, Data
<1> QED
  BY <1>1, <1>2, <1>3, <1>4, <1>5, <1>6, <1>7, <1>8, <1>9, <1>10, <1>11, <1>12, <1>13, <1>14,
          <1>15, <1>16, <1>17, <1>18 DEF ExecNext, GuestStep, HostStep

\* While the task or a reader runs there is no exit event, and no outcome.
LEMMA NoExitYet ==
    ASSUME ExecInv, task # "end" \/ ~ReadersDone
    PROVE  outcome # "exited" /\ \A i \in 1..Len(channel) : channel[i].kind # "exit"
BY DEF ExecInv, ExitInv

\* Without an exit event or outcome, ExitInv holds for any state of the task.
LEMMA NoExitAdded ==
    ASSUME ExecTypeOK, NEW e \in Events, e.kind # "exit", outcome' # "exited",
           \A i \in 1..Len(channel) : channel[i].kind # "exit",
           channel' = channel \/ channel' = Append(channel, e)
    PROVE  ExitInv'
<1>1. channel \in Seq(Events)
  BY DEF ExecTypeOK
<1>2. \A i \in 1..Len(channel') : channel'[i].kind # "exit"
  <2>1. CASE channel' = channel
    BY <2>1
  <2>2. CASE channel' = Append(channel, e)
    <3> TAKE i \in 1..Len(channel')
    <3>1. /\ Len(channel') = Len(channel) + 1 /\ Len(channel) \in Nat /\ channel'[Len(channel) + 1] = e
          /\ \A k \in 1..Len(channel) : channel'[k] = channel[k]
      BY <1>1, <2>2, Appended
    <3>2. CASE i = Len(channel) + 1
      BY <3>1, <3>2
    <3>3. CASE i # Len(channel) + 1
      <4>1. i \in 1..Len(channel)
        BY <3>1, <3>3
      <4> QED BY <3>1, <4>1
    <3> QED BY <3>2, <3>3
  <2> QED BY <2>1, <2>2
<1> QED BY <1>2 DEF ExitInv

\* A channel without events is empty.
LEMMA NoEvents ==
    ASSUME NEW c \in Seq(Events), Len(c) = 0
    PROVE  c = <<>>
OBVIOUS

\* What was sent has arrived when the exit event is read: nothing is lost.
LEMMA AllArrived ==
    ASSUME ExecInv, receiver = "open", channel # <<>>, channel[1].kind = "exit", ~limitHit
    PROVE  got = written /\ child # "running" /\ ~heir
<1>0. ExecTypeOK /\ ByteInv /\ StoppedInv /\ ExitInv
  BY DEF ExecInv
<1>1. channel \in Seq(Events) /\ Len(channel) \in Nat \ {0} /\ Len(Tail(channel)) = Len(channel) - 1
      /\ Tail(channel) \in Seq(Events)
  BY <1>0, Popped DEF ExecTypeOK
<1>2. Len(channel) = 1 /\ ReadersDone
  <2>1. 1 \in 1..Len(channel)
    BY <1>1
  <2> QED BY <1>0, <2>1 DEF ExitInv
<1>3. Tail(channel) = <<>>
  <2>1. Tail(channel) \in Seq(Events) /\ Len(Tail(channel)) = 0
    BY <1>1, <1>2
  <2> QED BY <2>1, NoEvents
<1>4. PICK n \in 0..Limit :
        Carries(channel, got, n) /\ n + held["stdout"] + held["stderr"] = Min2(used, Limit)
  BY <1>0 DEF ByteInv, Balance
<1>5. n \in Nat /\ got \in Nat /\ used \in Nat /\ Limit \in Nat
  BY <1>0, <1>4, ExecAssumption DEF ExecTypeOK
<1>6. BytesOf(channel[1]) = 0 /\ got + BytesOf(channel[1]) = got
  BY <1>5 DEF BytesOf
<1>7. Carries(<<>>, got, n)
  BY <1>1, <1>3, <1>4, <1>5, <1>6, CarriesRest
<1>8. got = n
  BY <1>5, <1>7, CarriesNothing
<1>9. held["stdout"] = 0 /\ held["stderr"] = 0
  BY <1>0, <1>2 DEF ByteInv, ReadersDone, Streams
<1>10. used = got
  BY <1>0, <1>4, <1>5, <1>8, <1>9 DEF ByteInv, Min2
<1>11. pipe["stdout"] = 0 /\ pipe["stderr"] = 0 /\ child # "running" /\ ~heir
  BY <1>0, <1>2 DEF StoppedInv, ReadersDone, Streams
<1> QED BY <1>0, <1>5, <1>10, <1>11 DEF ByteInv

\* The exit event is the last, and what it says stays true.
LEMMA ExecExit ==
    ASSUME ExecInv, ExecNext
    PROVE  ExitInv'
<1>0. ExecTypeOK /\ ProcessInv /\ ExitInv
  BY DEF ExecInv
<1> USE DEF guest, host
<1>1. CASE ForksOff
  BY <1>1, <1>0 DEF ForksOff, ExitInv, ReadersDone, ExecTypeOK
<1>2. CASE Exits
  BY <1>2, <1>0 DEF Exits, ExitInv, ReadersDone, ExecTypeOK
<1>3. CASE Spawn
  <2>1. outcome # "exited" /\ \A i \in 1..Len(channel) : channel[i].kind # "exit"
    BY <1>3, NoExitYet DEF Spawn, ReadersDone
  <2>2. (channel' = channel \/ channel' = Append(channel, Error)) /\ outcome' = outcome
    BY <1>3 DEF Spawn, SendOrLose, SendTo, Error
  <2>3. Error \in Events /\ Error.kind # "exit"
    BY <1>0, SentEvents
  <2> QED BY <1>0, <2>1, <2>2, <2>3, NoExitAdded
<1>4. CASE Insert
  <2>1. outcome # "exited" /\ \A i \in 1..Len(channel) : channel[i].kind # "exit"
    BY <1>4, NoExitYet DEF Insert
  <2> QED BY <1>4, <2>1 DEF Insert, ExitInv
<1>5. CASE Waited
  <2>1. outcome # "exited" /\ \A i \in 1..Len(channel) : channel[i].kind # "exit"
    BY <1>5, NoExitYet DEF Waited, ReadersDone
  <2>2. (channel' = channel \/ channel' = Append(channel, Error)) /\ outcome' = outcome
    BY <1>5 DEF Waited, SendOrLose, SendTo, Error
  <2>3. Error \in Events /\ Error.kind # "exit"
    BY <1>0, SentEvents
  <2> QED BY <1>0, <2>1, <2>2, <2>3, NoExitAdded
<1>6. CASE TimesOut
  <2>1. outcome # "exited" /\ \A i \in 1..Len(channel) : channel[i].kind # "exit"
    BY <1>6, NoExitYet DEF TimesOut
  <2> QED BY <1>6, <2>1 DEF TimesOut, ExitInv
<1>7. CASE Join
  <2>1. outcome # "exited" /\ \A i \in 1..Len(channel) : channel[i].kind # "exit"
    BY <1>7, NoExitYet DEF Join
  <2> QED BY <1>7, <2>1 DEF Join, ExitInv
<1>8. CASE Unmap
  <2>1. outcome # "exited" /\ \A i \in 1..Len(channel) : channel[i].kind # "exit"
    BY <1>8, NoExitYet DEF Unmap
  <2> QED BY <1>8, <2>1 DEF Unmap, ExitInv
<1>9. CASE SendExit
  <2>1. outcome # "exited" /\ \A i \in 1..Len(channel) : channel[i].kind # "exit"
    BY <1>9, NoExitYet DEF SendExit
  <2>2. /\ channel' = channel \/ channel' = Append(channel, Exit)
        /\ task' = "end" /\ UNCHANGED <<reader, limitHit, timedOut, outcome>>
    BY <1>9 DEF SendExit, SendOrLose, SendTo, Exit
  <2>3. ReadersDone /\ Exit \in Events /\ channel \in Seq(Events)
    BY <1>0, <1>9, SentEvents DEF ProcessInv, SendExit, ExecTypeOK
  <2>4. ASSUME NEW i \in 1..Len(channel'), channel'[i].kind = "exit"
        PROVE  i = Len(channel') /\ channel'[i] = Exit
    <3>1. channel' = Append(channel, Exit)
      BY <2>1, <2>2, <2>4
    <3>2. /\ Len(channel') = Len(channel) + 1 /\ Len(channel) \in Nat /\ channel'[Len(channel) + 1] = Exit
          /\ \A k \in 1..Len(channel) : channel'[k] = channel[k]
      BY <2>3, <3>1, Appended
    <3>3. i \notin 1..Len(channel)
      BY <2>1, <2>4, <3>2
    <3> QED BY <3>2, <3>3
  <2>5. Exit.limit = limitHit /\ Exit.timedOut = timedOut
    BY DEF Exit
  <2>6. outcome' # "exited" /\ ReadersDone'
    BY <2>1, <2>2, <2>3 DEF ReadersDone
  <2> QED BY <2>2, <2>4, <2>5, <2>6 DEF ExitInv
<1>10. CASE SignalProcess
  BY <1>10, <1>0 DEF SignalProcess, Kill, ExitInv, ReadersDone, ExecTypeOK
<1>11. CASE Receive
  <2>1. /\ channel # <<>> /\ receiver = "open" /\ UNCHANGED guest
        /\ channel[1].kind \in {"data", "exit", "error"}
        /\ channel[1].kind = "data" => channel' = Tail(channel) /\ UNCHANGED outcome
        /\ channel[1].kind = "exit" =>
            outcome' = Outcome(channel[1]) /\ channel' = Tail(channel) /\ UNCHANGED got
        /\ channel[1].kind = "error" => outcome' = "error" /\ channel' = <<>>
    BY <1>11, Received
  <2>2. /\ Len(channel) \in Nat \ {0} /\ Len(Tail(channel)) = Len(channel) - 1
        /\ Tail(channel) \in Seq(Events)
        /\ \A i \in 1..Len(channel) - 1 : Tail(channel)[i] = channel[i + 1]
    BY <1>0, <2>1, Popped DEF ExecTypeOK
  <2>3. ReadersDone' = ReadersDone
    BY <2>1 DEF ReadersDone
  <2>4. CASE channel[1].kind = "data"
    <3>1. outcome' # "exited"
      BY <1>0, <2>1, <2>4 DEF ExitInv
    <3>2. ASSUME NEW i \in 1..Len(channel'), channel'[i].kind = "exit"
          PROVE  /\ i = Len(channel') /\ task' = "end" /\ ReadersDone'
                 /\ channel'[i].limit = limitHit' /\ channel'[i].timedOut = timedOut'
      <4>0. channel' = Tail(channel) /\ UNCHANGED <<task, limitHit, timedOut>>
        BY <2>1, <2>4
      <4>1. Len(channel') = Len(channel) - 1 /\ i \in 1..Len(channel) - 1
        BY <2>2, <3>2, <4>0
      <4>2. i + 1 \in 1..Len(channel) /\ channel'[i] = channel[i + 1]
        BY <2>2, <4>0, <4>1
      <4>3. /\ i + 1 = Len(channel) /\ task = "end" /\ ReadersDone
            /\ channel[i + 1].limit = limitHit /\ channel[i + 1].timedOut = timedOut
        BY <1>0, <3>2, <4>2 DEF ExitInv
      <4>4. ReadersDone'
        BY <2>1, <4>3 DEF ReadersDone
      <4>6. i = Len(channel')
        <5>1. Len(channel) \in Nat
          BY <2>2
        <5>2. i \in Nat
          BY <4>1, <5>1
        <5>3. i + 1 = Len(channel)
          BY <4>3
        <5> QED BY <4>1, <5>1, <5>2, <5>3
      <4>5. channel'[i].limit = limitHit' /\ channel'[i].timedOut = timedOut' /\ task' = "end"
        BY <4>0, <4>2, <4>3
      <4> QED BY <4>4, <4>5, <4>6
    <3> QED BY <3>1, <3>2 DEF ExitInv
  <2>5. CASE channel[1].kind = "exit"
    <3>0. 1 \in 1..Len(channel)
      BY <2>2
    <3>1. Len(channel) = 1 /\ task = "end" /\ ReadersDone /\ channel[1].limit = limitHit
      BY <1>0, <2>5, <3>0 DEF ExitInv
    <3>2. channel' = <<>>
      BY <2>1, <2>2, <2>5, <3>1
    <3>3. ASSUME outcome' = "exited" PROVE got' = written' /\ child' # "running" /\ ~heir'
      <4>1. ~limitHit
        BY <2>1, <2>5, <3>1, <3>3, <1>0 DEF Outcome, ExecTypeOK
      <4> QED BY <2>1, <2>5, <4>1, AllArrived
    <3> QED BY <2>1, <2>3, <3>1, <3>2, <3>3 DEF ExitInv
  <2>6. CASE channel[1].kind = "error"
    BY <2>1, <2>6 DEF ExitInv
  <2> QED BY <2>1, <2>4, <2>5, <2>6
<1>12. CASE StreamEnds
  BY <1>12, <1>0 DEF StreamEnds, ExitInv, ReadersDone, ExecTypeOK
<1>13. CASE HostLeaves
  BY <1>13, <1>0 DEF HostLeaves, ExitInv, ReadersDone, ExecTypeOK
<1>14. CASE Done
  BY <1>14, <1>0 DEF Done, execVars, ExitInv, ReadersDone, ExecTypeOK
<1>15. ASSUME NEW s \in Streams, Writes(s) PROVE ExitInv'
  BY <1>15, <1>0 DEF Writes, ExitInv, ReadersDone, ExecTypeOK
<1>16. ASSUME NEW s \in Streams, Read(s) PROVE ExitInv'
  <2>1. outcome # "exited" /\ \A i \in 1..Len(channel) : channel[i].kind # "exit"
    BY <1>16, NoExitYet DEF Read, ReadersDone
  <2> QED BY <1>16, <2>1 DEF Read, ExitInv
<1>17. ASSUME NEW s \in Streams, EndOfFile(s) PROVE ExitInv'
  <2>1. outcome # "exited" /\ \A i \in 1..Len(channel) : channel[i].kind # "exit"
    BY <1>17, NoExitYet DEF EndOfFile, ReadersDone
  <2> QED BY <1>17, <2>1 DEF EndOfFile, ExitInv
<1>18. ASSUME NEW s \in Streams, SendOutput(s) PROVE ExitInv'
  <2>1. outcome # "exited" /\ \A i \in 1..Len(channel) : channel[i].kind # "exit"
    BY <1>18, NoExitYet DEF SendOutput, ReadersDone
  <2>2. (channel' = channel \/ channel' = Append(channel, Data(held[s]))) /\ outcome' = outcome
    BY <1>18 DEF SendOutput, Kill, SendTo, Data
  <2>3. Data(held[s]) \in Events /\ Data(held[s]).kind # "exit"
    BY <1>0, SentEvents DEF ExecTypeOK
  <2> QED BY <1>0, <2>1, <2>2, <2>3, NoExitAdded
<1> QED
  BY <1>1, <1>2, <1>3, <1>4, <1>5, <1>6, <1>7, <1>8, <1>9, <1>10, <1>11, <1>12, <1>13, <1>14,
          <1>15, <1>16, <1>17, <1>18 DEF ExecNext, GuestStep, HostStep

\* What is in the channel stays there when something is sent.
LEMMA StaysComing ==
    ASSUME ExecTypeOK, NEW kinds, NEW e \in Events, Coming(kinds),
           channel' = channel \/ channel' = Append(channel, e)
    PROVE  Coming(kinds)'
<1>1. channel \in Seq(Events)
  BY DEF ExecTypeOK
<1>2. CASE channel' = channel
  BY <1>2 DEF Coming
<1>3. CASE channel' = Append(channel, e)
  <2>1. /\ Len(channel') = Len(channel) + 1 /\ Len(channel) \in Nat
        /\ \A k \in 1..Len(channel) : channel'[k] = channel[k]
    BY <1>1, <1>3, Appended
  <2>2. PICK i \in 1..Len(channel) : channel[i].kind \in kinds
    BY DEF Coming
  <2>3. i \in 1..Len(channel') /\ channel'[i].kind \in kinds
    BY <2>1, <2>2
  <2> QED BY <2>3 DEF Coming
<1> QED BY <1>2, <1>3

\* What is sent is in the channel.
LEMMA NowComing ==
    ASSUME ExecTypeOK, NEW kinds, NEW e \in Events, e.kind \in kinds, channel' = Append(channel, e)
    PROVE  Coming(kinds)'
<1>1. Len(channel') = Len(channel) + 1 /\ Len(channel) \in Nat /\ channel'[Len(channel) + 1] = e
  BY Appended DEF ExecTypeOK
<1>2. Len(channel) + 1 \in 1..Len(channel') /\ channel'[Len(channel) + 1].kind \in kinds
  BY <1>1
<1> QED BY <1>2 DEF Coming

\* What comes behind the head is still coming when the head is taken.
LEMMA StillComing ==
    ASSUME ExecTypeOK, NEW kinds, channel # <<>>, channel[1].kind \notin kinds, Coming(kinds),
           channel' = Tail(channel)
    PROVE  Coming(kinds)'
<1>1. /\ Len(channel) \in Nat \ {0} /\ Len(channel') = Len(channel) - 1
      /\ \A i \in 1..Len(channel) - 1 : channel'[i] = channel[i + 1]
  BY Popped DEF ExecTypeOK
<1>2. PICK i \in 1..Len(channel) : channel[i].kind \in kinds
  BY DEF Coming
<1>3. i # 1
  BY <1>2
<1>4. i - 1 \in 1..Len(channel) - 1 /\ (i - 1) + 1 = i
  BY <1>1, <1>2, <1>3
<1>5. i - 1 \in 1..Len(channel') /\ channel'[i - 1] = channel[i]
  BY <1>1, <1>4
<1> QED BY <1>2, <1>5 DEF Coming

\* The host is told: by an event that was sent, or is in the channel.
LEMMA ExecTold ==
    ASSUME ExecInv, ExecNext
    PROVE  ToldInv'
<1>0. ExecTypeOK /\ ProcessInv /\ ExitInv /\ ToldInv
  BY DEF ExecInv
<1> USE DEF guest, host
<1>1. CASE ForksOff
  BY <1>1, <1>0 DEF ForksOff, ToldInv, Coming
<1>2. CASE Exits
  BY <1>2, <1>0 DEF Exits, ToldInv, Coming
<1>3. CASE Spawn
  <2>1. \/ task' = "insert"
        \/ task' = "end" /\ (channel' = Append(channel, Error) \/ receiver' = "closed")
    BY <1>3 DEF Spawn, SendOrLose, SendTo
  <2>2. channel' = Append(channel, Error) => Coming({"exit", "error"})'
    BY <1>0, SentEvents, NowComing
  <2> QED BY <2>1, <2>2 DEF ToldInv
<1>4. CASE Insert
  BY <1>4, <1>0 DEF Insert, ToldInv, Coming
<1>5. CASE Waited
  <2>1. /\ task' = "join"
        /\ status' \/ channel' = Append(channel, Error) \/ receiver' = "closed"
    BY <1>5 DEF Waited, SendOrLose, SendTo
  <2>2. channel' = Append(channel, Error) => Coming({"error"})'
    BY <1>0, SentEvents, NowComing
  <2> QED BY <2>1, <2>2 DEF ToldInv
<1>6. CASE TimesOut
  BY <1>6, <1>0 DEF TimesOut, ToldInv, Coming
<1>7. CASE Join
  BY <1>7, <1>0 DEF Join, ToldInv, Coming
<1>8. CASE Unmap
  BY <1>8, <1>0 DEF Unmap, ToldInv, Coming
<1>9. CASE SendExit
  <2>1. /\ task = "exit" /\ task' = "end" /\ UNCHANGED <<status, timedOut, receiver, outcome>>
        /\ status => channel' = Append(channel, Exit) \/ receiver' = "closed"
        /\ ~status => channel' = channel
    BY <1>9 DEF SendExit, SendOrLose, SendTo
  <2>2. channel' = Append(channel, Exit) => Coming({"exit", "error"})'
    BY <1>0, SentEvents, NowComing
  <2>3. channel' = channel /\ Coming({"error"}) => Coming({"exit", "error"})'
    BY DEF Coming
  <2> QED BY <1>0, <2>1, <2>2, <2>3 DEF ToldInv
<1>10. CASE SignalProcess
  BY <1>10, <1>0 DEF SignalProcess, ToldInv, Coming
<1>11. CASE Receive
  <2>1. /\ channel # <<>> /\ receiver = "open" /\ UNCHANGED guest
        /\ channel[1].kind \in {"data", "exit", "error"}
        /\ channel[1].kind = "data" => channel' = Tail(channel) /\ UNCHANGED <<outcome, receiver>>
        /\ channel[1].kind = "exit" => outcome' \in {"timed_out", "limit", "exited"} /\ UNCHANGED receiver
        /\ channel[1].kind = "error" => receiver' = "closed"
    BY <1>11, Received
  <2>2. CASE channel[1].kind = "data"
    <3>1. /\ Coming({"error"}) => Coming({"error"})'
          /\ Coming({"exit", "error"}) => Coming({"exit", "error"})'
      BY <1>0, <2>1, <2>2, StillComing
    <3> QED BY <1>0, <2>1, <2>2, <3>1 DEF ToldInv
  <2>3. CASE channel[1].kind = "exit"
    <3>1. 1 \in 1..Len(channel)
      BY <1>0, <2>1, Popped DEF ExecTypeOK
    <3>2. task = "end"
      BY <1>0, <2>3, <3>1 DEF ExitInv
    <3> QED BY <2>1, <2>3, <3>2 DEF ToldInv
  <2>4. CASE channel[1].kind = "error"
    BY <2>1, <2>4 DEF ToldInv
  <2> QED BY <2>1, <2>2, <2>3, <2>4
<1>12. CASE StreamEnds
  BY <1>12, <1>0 DEF StreamEnds, ToldInv, Coming
<1>13. CASE HostLeaves
  BY <1>13, <1>0 DEF HostLeaves, ToldInv, Coming
<1>14. CASE Done
  BY <1>14, <1>0 DEF Done, ToldInv, Coming, execVars
<1>15. ASSUME NEW s \in Streams, Writes(s) PROVE ToldInv'
  BY <1>15, <1>0 DEF Writes, ToldInv, Coming
<1>16. ASSUME NEW s \in Streams, Read(s) PROVE ToldInv'
  BY <1>16, <1>0 DEF Read, ToldInv, Coming
<1>17. ASSUME NEW s \in Streams, EndOfFile(s) PROVE ToldInv'
  BY <1>17, <1>0 DEF EndOfFile, ToldInv, Coming
<1>18. ASSUME NEW s \in Streams, SendOutput(s) PROVE ToldInv'
  <2>1. /\ channel' = channel \/ channel' = Append(channel, Data(held[s]))
        /\ UNCHANGED <<task, status, timedOut, receiver, outcome>>
    BY <1>18 DEF SendOutput, SendTo
  <2>2. Data(held[s]) \in Events
    BY <1>0, SentEvents DEF ExecTypeOK
  <2>4. /\ Coming({"error"}) => Coming({"error"})'
        /\ Coming({"exit", "error"}) => Coming({"exit", "error"})'
    BY <1>0, <2>1, <2>2, StaysComing
  <2> QED BY <1>0, <2>1, <2>4 DEF ToldInv
<1> QED
  BY <1>1, <1>2, <1>3, <1>4, <1>5, <1>6, <1>7, <1>8, <1>9, <1>10, <1>11, <1>12, <1>13, <1>14,
          <1>15, <1>16, <1>17, <1>18 DEF ExecNext, GuestStep, HostStep

\* The invariant holds at the start.
LEMMA ExecStarts == ExecInit => ExecInv
<1> SUFFICES ASSUME ExecInit PROVE ExecInv
  OBVIOUS
<1>1. ExecTypeOK
  <2>1. channel \in Seq(Events) /\ Len(channel) = 0 /\ Capacity \in Nat
    BY ExecAssumption DEF ExecInit
  <2>2. /\ pipe \in [Streams -> 0..MaxWritten] /\ held \in [Streams -> 0..MaxRead]
        /\ reader \in [Streams -> {"off", "read", "send", "done"}] /\ final \in [Streams -> BOOLEAN]
    BY ExecAssumption DEF ExecInit
  <2>3. used \in 0..MaxWritten /\ written \in 0..MaxWritten /\ got \in 0..MaxWritten
    BY ExecAssumption DEF ExecInit
  <2>4. /\ task \in Tasks /\ child = "none" /\ receiver = "open" /\ outcome \in Outcomes
        /\ heir \in BOOLEAN /\ limitHit \in BOOLEAN /\ timedOut \in BOOLEAN
        /\ status \in BOOLEAN /\ mapped \in BOOLEAN
    BY DEF ExecInit, Tasks, Outcomes
  <2> QED BY <2>1, <2>2, <2>3, <2>4 DEF ExecTypeOK
<1>2. Balance
  <2>1. Carries(<<>>, 0, 0)
    BY CarriesNothing
  <2>2. 0 \in 0..Limit /\ Min2(used, Limit) = 0 /\ 0 + held["stdout"] + held["stderr"] = 0
    BY ExecAssumption DEF ExecInit, Min2, Streams
  <2>3. channel = <<>> /\ got = 0
    BY DEF ExecInit
  <2>4. Carries(channel, got, 0)
    BY <2>1, <2>3
  <2> QED BY <2>2, <2>4 DEF Balance
<1>3. ByteInv
  BY <1>2, ExecAssumption DEF ExecInit, ByteInv, Streams
<1>4. StoppedInv /\ ProcessInv /\ ExitInv /\ ToldInv
  BY DEF ExecInit, StoppedInv, ProcessInv, ExitInv, ToldInv
<1> QED BY <1>1, <1>3, <1>4 DEF ExecInv

\* A step that changes nothing keeps the invariant.
LEMMA ExecStutters == ExecInv /\ UNCHANGED execVars => ExecInv'
<1> SUFFICES ASSUME ExecInv, UNCHANGED execVars PROVE ExecInv'
  OBVIOUS
<1> USE DEF ExecInv, execVars, guest, host
<1>1. ExecTypeOK'
  BY DEF ExecTypeOK
<1>2. ByteInv'
  BY SameBalance DEF ByteInv
<1>3. StoppedInv' /\ ProcessInv'
  BY DEF StoppedInv, ProcessInv, ReadersDone
<1>4. ExitInv' /\ ToldInv'
  BY DEF ExitInv, ToldInv, ReadersDone, Coming
<1> QED BY <1>1, <1>2, <1>3, <1>4

(***************************************************************************)
(* The invariant holds in every reachable state, however start_process,    *)
(* its two readers, the command and execute_measured interleave.           *)
(***************************************************************************)
THEOREM ExecInvariant == ExecSpec => []ExecInv
<1>1. ExecInv /\ [ExecNext]_execVars => ExecInv'
  BY ExecTypes, ExecBytes, ExecStopped, ExecProcess, ExecExit, ExecTold, ExecStutters DEF ExecInv
<1> QED BY <1>1, ExecStarts, PTL DEF ExecSpec

(***************************************************************************)
(* What the host got, what is in the channel and what the readers hold     *)
(* never exceed max_output_bytes, over both streams together.              *)
(***************************************************************************)
THEOREM LimitKept == ExecSpec => []OutputWithinLimit
<1>1. ASSUME ExecInv PROVE OutputWithinLimit
  <2>1. PICK n \in 0..Limit :
            Carries(channel, got, n) /\ n + held["stdout"] + held["stderr"] <= Min2(used, Limit)
    BY <1>1 DEF ExecInv, ByteInv, Balance
  <2>2. n \in Nat /\ held["stdout"] \in Nat /\ held["stderr"] \in Nat /\ used \in Nat /\ Limit \in Nat
    BY <1>1, <2>1, ExecAssumption DEF ExecInv, ExecTypeOK, Streams
  <2>3. n + held["stdout"] + held["stderr"] <= Limit
    BY <2>1, <2>2 DEF Min2
  <2> QED BY <2>1, <2>3 DEF OutputWithinLimit
<1> QED BY <1>1, ExecInvariant, PTL

(***************************************************************************)
(* A command that execute_measured reports as exited, and not truncated,   *)
(* has delivered every byte it wrote.                                      *)
(***************************************************************************)
THEOREM NothingLost == ExecSpec => []NoSilentLoss
<1>1. ExecInv => NoSilentLoss
  BY DEF ExecInv, ExitInv, NoSilentLoss
<1> QED BY <1>1, ExecInvariant, PTL

(***************************************************************************)
(* When the stream ends the host knows how the command ended, or was told  *)
(* an error, unless the wait after the deadline's kill failed.             *)
(***************************************************************************)
THEOREM ExitReported == ExecSpec => ExitAlwaysReported
<1>1. ExecInv /\ [ExecNext]_execVars =>
        [StreamEnds => outcome # "none" \/ (timedOut /\ ~status)]_execVars
  BY DEF ExecInv, ToldInv, StreamEnds, Coming
<1> QED BY <1>1, ExecInvariant, PTL DEF ExecSpec, ExitAlwaysReported
================================================================================
