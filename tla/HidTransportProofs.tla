------------------------- MODULE HidTransportProofs -------------------------
(***************************************************************************)
(* Type correctness of the transport, that no two hosts ever hold the same *)
(* channel, that a message reaches the server whole, and that a response   *)
(* reaches the host that asked, for any number of hosts, messages, packets *)
(* and ids.                                                                *)
(***************************************************************************)
EXTENDS HidTransport, NumberFacts, SequenceTheorems, TLAPS

\* What the types need to be inductive: who is about to send another packet or frame
\* has one left, and a command to send it with.
Sending(host) == host.at = "sending" => host.sent < host.size /\ host.cmd \in Commands

Progress ==
  /\ \A h \in Hosts : Sending(hosts[h])
  /\ server.at = "writing" => server.left > 0

-----------------------------------------------------------------------------
\* A packet written by a host is well-typed, and is dropped if the queue is full.
LEMMA WriteType ==
  ASSUME TypeOK, NEW h \in Hosts, hosts' \in [Hosts -> HostType],
         NEW cmd \in Commands, NEW index \in 1 .. MaxSize, NEW size \in Sizes,
         NEW chan \in Channels, Write(h, cmd, index, size, chan)
  PROVE  queue' \in Seq(Packets) /\ Len(queue') <= QueueSize
<1> DEFINE part == [host |-> h, nr |-> hosts'[h].nr, cmd |-> cmd, index |-> index, chan |-> chan]
           packet == [part |-> part, size |-> size]
<1>1. packet \in Packets
  BY DEF Packets, Parts, HostType
<1>2. queue' = IF Len(queue) < QueueSize THEN Append(queue, packet) ELSE queue
  BY DEF Write
<1>3. queue \in Seq(Packets) /\ Len(queue) <= QueueSize
  BY DEF TypeOK
<1> HIDE DEF packet
<1>4. Append(queue, packet) \in Seq(Packets) /\ Len(Append(queue, packet)) = Len(queue) + 1
  BY <1>1, <1>3
<1> QED
  BY <1>2, <1>3, <1>4, HidAssumption DEF HidAssumption

\* Reading a frame keeps a host well-typed, on its channel, and about to send what it
\* was about to send.
LEMMA ReadType ==
  ASSUME TypeOK, NEW h \in Hosts, NEW chan, NEW cmd, NEW initial, NEW total \in 0 .. MaxSize,
         NEW to \in Seq(Parts)
  PROVE  LET frame == [chan |-> chan, cmd |-> cmd, initial |-> initial, total |-> total, to |-> to]
             r == Read(h, frame)
         IN /\ r \in HostType
            /\ r.chan = hosts[h].chan
            /\ r.at = "sending" => r = hosts[h]
<1> DEFINE frame == [chan |-> chan, cmd |-> cmd, initial |-> initial, total |-> total, to |-> to]
           frames == IF frame.initial THEN <<frame.to>> ELSE Append(hosts[h].frames, frame.to)
           sum == IF frame.initial THEN frame.total ELSE hosts[h].total
           r == [hosts[h] EXCEPT !.frames = frames, !.total = sum,
                                 !.at = IF Len(frames) = sum THEN "ready" ELSE @]
<1>1. hosts[h] \in HostType
  BY DEF TypeOK
<1>2. frames \in Seq(Seq(Parts)) /\ sum \in 0 .. MaxSize
  <2>1. <<to>> \in Seq(Seq(Parts)) /\ Append(hosts[h].frames, to) \in Seq(Seq(Parts))
    BY <1>1 DEF HostType
  <2> QED
    BY <1>1, <2>1 DEF HostType
<1>3. Read(h, frame) = IF Awaits(h, frame) THEN r ELSE hosts[h]
  BY DEF Read
<1>4. Awaits(h, frame) => hosts[h].at = "waiting"
  BY DEF Awaits
<1> HIDE DEF frames, sum, frame
<1>5. r \in HostType /\ r.chan = hosts[h].chan
  BY <1>1, <1>2 DEF HostType
<1>6. hosts[h].at = "waiting" => r.at # "sending"
  BY <1>1 DEF HostType
<1> QED
  BY <1>1, <1>3, <1>4, <1>5, <1>6 DEF frame

-----------------------------------------------------------------------------
TypeInv == TypeOK /\ Progress

\* The fields of a host that change together.
LEMMA Starts ==
  ASSUME NEW r \in HostType, NEW at \in {"waiting", "sending"}, NEW nr \in 0 .. Sends,
         NEW cmd \in Commands, NEW size \in Sizes, NEW sent \in 0 .. MaxSize,
         NEW frames \in Seq(Seq(Parts)), NEW total \in 0 .. MaxSize
  PROVE  [r EXCEPT !.at = at, !.nr = nr, !.cmd = cmd, !.size = size, !.sent = sent,
                   !.frames = frames, !.total = total] \in HostType
BY DEF HostType

\* A host stays a host whatever part of its message it has sent.
LEMMA Sends1 ==
  ASSUME NEW r \in HostType, NEW sent \in 0 .. MaxSize
  PROVE  [r EXCEPT !.sent = sent] \in HostType
BY DEF HostType

\* A host that is off, or begins again with an INIT, is a host.
LEMMA OffType ==
  ASSUME NEW nr \in 0 .. Sends
  PROVE  /\ Off(nr) \in HostType
         /\ [Off(nr) EXCEPT !.at = "init", !.cmd = "init"] \in HostType
<1>1. 1 \in Sizes /\ MaxSize \in Nat
  BY HidAssumption DEF HidAssumption
<1>2. Off(nr) \in HostType
  BY <1>1 DEF HostType, Off, Channels
<1>3. "init" \in Commands
  BY DEF Commands
<1> QED
  BY <1>2, <1>3 DEF HostType

\* What a host does keeps the types, and who sends has something left to send.
LEMMA HostStepType ==
  ASSUME TypeInv, NEW h \in Hosts, HostStep(h)
  PROVE  TypeInv'
<1> USE DEF TypeInv, Progress, Sending
<1>0. hosts \in [Hosts -> HostType] /\ hosts[h] \in HostType
  BY DEF TypeOK
<1>ta. 1 \in Sizes /\ Sizes \subseteq 1 .. MaxSize /\ MaxSize \in Nat /\ Sends \in Nat
  BY HidAssumption DEF HidAssumption
<1>tb. NoChannel \in Channels /\ Broadcast \in Channels
  BY DEF Channels
<1>td. 0 \in 0 .. MaxSize /\ 1 \in 0 .. MaxSize /\ 1 \in 1 .. MaxSize
  BY <1>ta
<1>tc. "init" \in Commands /\ "cancel" \in Commands
  BY DEF Commands
<1>1. ASSUME hosts' \in [Hosts -> HostType],
             \A g \in Hosts : Sending(hosts'[g]),
             NEW cmd \in Commands, NEW index \in 1 .. MaxSize, NEW size \in Sizes,
             NEW chan \in Channels, Write(h, cmd, index, size, chan)
      PROVE  TypeInv'
  <2>1. queue' \in Seq(Packets) /\ Len(queue') <= QueueSize
    BY <1>1, WriteType
  <2>2. UNCHANGED <<run, channels, server>>
    BY <1>1 DEF Write
  <2> QED
    BY <1>1, <2>1, <2>2 DEF TypeOK
<1>2. CASE AskChannel(h)
  <2>1. hosts' = [hosts EXCEPT ![h] = [Off(hosts[h].nr + 1) EXCEPT !.at = "init", !.cmd = "init"]]
    BY <1>2 DEF AskChannel
  <2>2. [Off(hosts[h].nr + 1) EXCEPT !.at = "init", !.cmd = "init"] \in HostType
    <3>1. hosts[h].nr + 1 \in 0 .. Sends
      BY <1>0, <1>2, <1>ta DEF AskChannel, HostType
    <3> QED
      BY <3>1, OffType
  <2>3. hosts' \in [Hosts -> HostType] /\ hosts'[h].at # "sending"
    BY <1>0, <2>1, <2>2 DEF Off
  <2>4. \A g \in Hosts \ {h} : hosts'[g] = hosts[g]
    BY <1>0, <2>1
  <2> QED
    BY <1>0, <1>1, <1>2, <1>ta, <1>td, <1>tb, <1>tc, <2>3, <2>4 DEF AskChannel
<1>3. ASSUME NEW cmd \in Commands \ {"init", "cancel"}, NEW size \in Sizes, Begin(h, cmd, size)
      PROVE  TypeInv'
  <2> DEFINE r == [hosts[h] EXCEPT
                     !.at = IF size = 1 THEN "waiting" ELSE "sending", !.nr = hosts[h].nr + 1,
                     !.cmd = cmd, !.size = size, !.sent = 1, !.frames = <<>>, !.total = 0]
  <2>1. hosts' = [hosts EXCEPT ![h] = r]
    BY <1>0, <1>3 DEF Begin
  <2>2. r \in HostType /\ Sending(r)
    <3>1. hosts[h].nr + 1 \in 0 .. Sends
      BY <1>0, <1>3, <1>ta DEF Begin, HostType
    <3>2. r \in HostType
      <4>1. <<>> \in Seq(Seq(Parts))
        OBVIOUS
      <4>2. /\ hosts[h] \in HostType /\ hosts[h].nr + 1 \in 0 .. Sends
            /\ cmd \in Commands /\ size \in Sizes /\ 1 \in 0 .. MaxSize /\ 0 \in 0 .. MaxSize
        BY <1>0, <1>3, <1>ta, <3>1
      <4> QED
        BY <4>1, <4>2, Starts
    <3>3. r.at = "sending" => size # 1 /\ r.sent = 1 /\ r.size = size /\ r.cmd = cmd
      BY <1>0 DEF HostType
    <3> QED
      BY <1>ta, <3>2, <3>3
  <2> HIDE DEF r
  <2>3. hosts' \in [Hosts -> HostType] /\ hosts'[h] = r /\ \A g \in Hosts \ {h} : hosts'[g] = hosts[g]
    BY <1>0, <2>1, <2>2
  <2>4. hosts[h].chan \in Channels
    BY <1>0 DEF HostType
  <2> QED
    BY <1>0, <1>1, <1>3, <1>ta, <1>td, <2>2, <2>3, <2>4 DEF Begin
<1>4. CASE Continue(h)
  <2> DEFINE next == hosts[h].sent + 1
             r == [hosts[h] EXCEPT !.sent = next,
                                   !.at = IF next = hosts[h].size THEN "waiting" ELSE @]
  <2>1. hosts' = [hosts EXCEPT ![h] = r]
    BY <1>0, <1>4 DEF Continue
  <2>2. /\ hosts[h].sent \in 0 .. MaxSize /\ hosts[h].size \in 1 .. MaxSize
        /\ hosts[h].sent < hosts[h].size
    BY <1>0, <1>4, <1>ta DEF Continue, HostType
  <2>n. next \in 1 .. MaxSize /\ next \in 0 .. MaxSize /\ next <= hosts[h].size
    BY <1>ta, <2>2
  <2>3. r \in HostType /\ Sending(r)
    <3>1. r \in HostType
      BY <1>0, <2>n DEF HostType
    <3>2. /\ r.sent = next /\ r.size = hosts[h].size /\ r.cmd = hosts[h].cmd
          /\ r.at = "sending" => next # hosts[h].size
      BY <1>0 DEF HostType
    <3> HIDE DEF r
    <3> QED
      BY <1>4, <3>1, <3>2, <2>2, <2>n DEF Continue
  <2> HIDE DEF r
  <2>4. hosts' \in [Hosts -> HostType] /\ hosts'[h] = r /\ \A g \in Hosts \ {h} : hosts'[g] = hosts[g]
    BY <1>0, <2>1, <2>3
  <2>5. /\ hosts[h].chan \in Channels /\ hosts[h].size \in Sizes
        /\ hosts[h].cmd \in Commands
    BY <1>0, <1>4 DEF HostType, Continue
  <2> QED
    BY <1>0, <1>1, <1>4, <1>ta, <2>n, <2>3, <2>4, <2>5 DEF Continue
<1>5. CASE Cancel(h)
  <2>1. [hosts[h] EXCEPT !.sent = 0] \in HostType /\ hosts[h].chan \in Channels
    <3>1. [hosts[h] EXCEPT !.sent = 0] \in HostType
      BY <1>0, <1>td, Sends1
    <3> QED
      BY <1>0, <3>1 DEF HostType
  <2>2. hosts' = [hosts EXCEPT ![h] = [hosts[h] EXCEPT !.sent = 0]] /\ hosts[h].at = "waiting"
    BY <1>0, <1>5 DEF Cancel
  <2>3. /\ hosts' \in [Hosts -> HostType] /\ hosts'[h].at = "waiting"
        /\ \A g \in Hosts \ {h} : hosts'[g] = hosts[g]
    BY <1>0, <2>1, <2>2 DEF HostType
  <2> QED
    BY <1>0, <1>1, <1>5, <1>ta, <1>td, <1>tc, <2>1, <2>3 DEF Cancel
<1>6. CASE Stop(h)
  <2>1. Off(hosts[h].nr) \in HostType /\ Off(hosts[h].nr).at # "sending"
    BY <1>0, <1>ta, <1>tb DEF Off, HostType
  <2>2. hosts' = [hosts EXCEPT ![h] = Off(hosts[h].nr)]
    BY <1>6 DEF Stop
  <2>3. /\ hosts' \in [Hosts -> HostType] /\ hosts'[h].at # "sending"
        /\ \A g \in Hosts \ {h} : hosts'[g] = hosts[g]
    BY <1>0, <2>1, <2>2
  <2> QED
    BY <1>6, <2>3 DEF Stop, TypeOK
<1> QED
  BY <1>2, <1>3, <1>4, <1>5, <1>6 DEF HostStep

-----------------------------------------------------------------------------
\* A frame that is written leaves every host well-typed, on its channel, and about to
\* send what it was about to send.
LEMMA WriteFrameType ==
  ASSUME TypeInv, NEW chan, NEW cmd, NEW initial, NEW total \in 0 .. MaxSize,
         NEW to \in Seq(Parts), WriteFrame(chan, cmd, initial, total, to)
  PROVE  /\ hosts' \in [Hosts -> HostType]
         /\ \A h \in Hosts : Sending(hosts'[h]) /\ hosts'[h].chan = hosts[h].chan
<1> DEFINE frame == [chan |-> chan, cmd |-> cmd, initial |-> initial, total |-> total, to |-> to]
<1>1. hosts' = [h \in Hosts |-> Read(h, frame)]
  BY DEF WriteFrame
<1>2. ASSUME NEW h \in Hosts
      PROVE  /\ Read(h, frame) \in HostType
             /\ Read(h, frame).chan = hosts[h].chan
             /\ Read(h, frame).at = "sending" => Read(h, frame) = hosts[h]
  BY ReadType DEF TypeInv
<1> HIDE DEF frame
<1> QED
  BY <1>1, <1>2 DEF TypeInv, Progress, Sending

\* What Run has once it has looked at a packet is well-typed.
LEMMA CollectType ==
  ASSUME run \in RunType, NEW packet \in Packets
  PROVE  Assemble(Collect(packet)) \in RunType
<1> DEFINE r == Collect(packet)
<1>1. packet.part \in Parts /\ packet.size \in Sizes
  BY DEF Packets
<1>2. packet.part.chan \in Channels /\ packet.part.cmd \in Commands
  BY <1>1 DEF Parts
<1>3. <<packet.part>> \in Seq(Parts) /\ Append(run.data, packet.part) \in Seq(Parts)
  BY <1>1 DEF RunType
<1>4. r \in RunType
  <2>1. ASSUME NEW data \in Seq(Parts), NEW need \in Sizes, NEW chan \in Channels,
               NEW cmd \in Commands
        PROVE  /\ [run EXCEPT !.data = data, !.need = need, !.chan = chan, !.cmd = cmd]
                    \in RunType
               /\ [run EXCEPT !.data = data] \in RunType
    BY DEF RunType
  <2> QED
    BY <1>1, <1>2, <1>3, <2>1 DEF Collect
<1> HIDE DEF r
<1>5. CASE Len(r.data) < r.need
  BY <1>4, <1>5 DEF Assemble, r
<1>6. CASE ~ (Len(r.data) < r.need)
  <2>1. r.data \in Seq(Parts) /\ r.need \in Nat
    <3>1. Sizes \cup {0} \subseteq Nat
      BY HidAssumption DEF HidAssumption
    <3>2. r.data \in Seq(Parts) /\ r.need \in Sizes \cup {0}
      BY <1>4 DEF RunType
    <3> QED
      BY <3>1, <3>2
  <2>2. SubSeq(r.data, 1, r.need) \in Seq(Parts)
    <3>1. 1 .. r.need \subseteq DOMAIN r.data
      BY <1>6, <2>1
    <3> QED
      BY <2>1, <3>1, SubSeqProperties
  <2>3. ASSUME NEW data \in Seq(Parts), NEW at \in {"offering", "answering"}
        PROVE  [r EXCEPT !.data = data, !.at = at] \in RunType
    BY <1>4 DEF RunType
  <2> QED
    BY <1>6, <2>2, <2>3 DEF Assemble, r
<1> QED
  BY <1>5, <1>6

\* What Run does keeps the types.
LEMMA RunStepType ==
  ASSUME TypeInv, RunStep
  PROVE  TypeInv'
<1> USE DEF TypeInv, Progress
<1>0. Reading \in RunType
  <2>1. <<>> \in Seq(Parts) /\ NoChannel \in Channels
    BY DEF Channels
  <2> QED
    BY <2>1 DEF Reading, RunType
<1>1. CASE Receive
  <2>1. queue \in Seq(Packets) /\ queue # <<>> /\ Len(queue) <= QueueSize
    BY <1>1 DEF Receive, TypeOK
  <2>2. Head(queue) \in Packets /\ Tail(queue) \in Seq(Packets) /\ Len(Tail(queue)) = Len(queue) - 1
    BY <2>1
  <2>3. Assemble(Collect(Head(queue))) \in RunType
    BY <2>2, CollectType DEF TypeOK
  <2>4. Len(Tail(queue)) <= QueueSize
    BY <2>1, <2>2, HidAssumption DEF HidAssumption
  <2> QED
    BY <1>1, <2>2, <2>3, <2>4 DEF Receive, TypeOK
<1>2. CASE AllocateChan
  <2>1. CASE run' = [run EXCEPT !.at = "dead"] /\ UNCHANGED <<channels, hosts>>
    BY <1>2, <2>1 DEF AllocateChan, TypeOK, RunType
  <2>2. ASSUME NEW id \in Channels, IsFree(id), Record(id), run' = Reading,
               hosts' = [h \in Hosts |-> ReadInit(h, id, run.data[1])]
        PROVE  TypeInv'
    <3>1. channels' \subseteq Ids
      BY <2>2 DEF Record, IsFree, TypeOK
    <3>2. ASSUME NEW h \in Hosts
          PROVE  ReadInit(h, id, run.data[1]) \in HostType /\ Sending(ReadInit(h, id, run.data[1]))
      <4>1. hosts[h] \in HostType
        BY DEF TypeOK
      <4>2. /\ [hosts[h] EXCEPT !.at = "ready", !.chan = id] \in HostType
            /\ [hosts[h] EXCEPT !.at = "ready", !.chan = id].at = "ready"
        BY <4>1 DEF HostType
      <4> QED
        BY <4>1, <4>2 DEF ReadInit, Sending
    <3> QED
      BY <1>0, <1>2, <2>2, <3>1, <3>2 DEF AllocateChan, TypeOK
  <2> QED
    BY <1>2, <2>1, <2>2 DEF AllocateChan
<1>3. CASE Unsupported
  <2>1. 1 \in 0 .. MaxSize /\ run.data \in Seq(Parts)
    BY HidAssumption DEF HidAssumption, TypeOK, RunType
  <2>2. hosts' \in [Hosts -> HostType] /\ \A h \in Hosts : Sending(hosts'[h])
    BY <1>3, <2>1, WriteFrameType DEF Unsupported
  <2> QED
    BY <1>0, <1>3, <2>2 DEF Unsupported, TypeOK
<1>4. CASE TakeEvent
  <2>1. /\ run.chan \in Channels /\ run.cmd \in Commands \cup {"none"} /\ run.data \in Seq(Parts)
        /\ 0 \in 0 .. MaxSize
    BY HidAssumption DEF TypeOK, RunType, HidAssumption
  <2>2. server' = [at |-> "working", chan |-> run.chan, cmd |-> run.cmd, data |-> run.data,
                   left |-> 0, total |-> 0]
    BY <1>4 DEF TakeEvent, IdleServer
  <2>3. server' \in ServerType /\ server'.at # "writing"
    BY <2>1, <2>2 DEF ServerType
  <2> QED
    BY <1>0, <1>4, <2>3 DEF TakeEvent, TypeOK
<1> QED
  BY <1>1, <1>2, <1>3, <1>4 DEF RunStep

\* What the server does keeps the types.
LEMMA ServerStepType ==
  ASSUME TypeInv, ServerStep
  PROVE  TypeInv'
<1> USE DEF TypeInv, Progress
<1>0. IdleServer \in ServerType /\ IdleServer.at # "writing"
  <2>1. <<>> \in Seq(Parts) /\ NoChannel \in Channels /\ 0 \in 0 .. MaxSize
    BY HidAssumption DEF Channels, HidAssumption
  <2> QED
    BY <2>1 DEF IdleServer, ServerType
<1>1. server \in ServerType /\ server.data \in Seq(Parts)
  BY DEF TypeOK, ServerType
<1>2. MaxSize \in Nat /\ Sizes \subseteq 1 .. MaxSize
  BY HidAssumption DEF HidAssumption
<1>3. ASSUME hosts' \in [Hosts -> HostType], \A h \in Hosts : Sending(hosts'[h]),
             server' \in ServerType, server'.at = "writing" => server'.left > 0,
             UNCHANGED <<queue, run, channels>>
      PROVE  TypeInv'
  BY <1>3 DEF TypeOK
<1>4. CASE Ignore
  BY <1>0, <1>4 DEF Ignore, TypeOK
<1>5. ASSUME NEW total \in Sizes, Respond(total) PROVE TypeInv'
  <2>1. hosts' \in [Hosts -> HostType] /\ \A h \in Hosts : Sending(hosts'[h])
    <3>1. total \in 0 .. MaxSize
      BY <1>2
    <3>2. WriteFrame(server.chan, server.cmd, TRUE, total, server.data)
      BY <1>5 DEF Respond
    <3> QED
      BY <1>1, <3>1, <3>2, WriteFrameType
  <2>2. CASE total = 1
    BY <1>0, <1>3, <1>5, <2>1, <2>2 DEF Respond
  <2>3. CASE total # 1
    <3>1. server' = [server EXCEPT !.at = "writing", !.total = total, !.left = total - 1]
      BY <1>5, <2>3 DEF Respond
    <3>2. total \in 0 .. MaxSize /\ total - 1 \in 0 .. MaxSize /\ total - 1 > 0
      BY <1>2, <2>3
    <3>3. server' \in ServerType /\ server'.left > 0
      BY <1>1, <3>1, <3>2 DEF ServerType
    <3> QED
      BY <1>3, <1>5, <2>1, <3>3 DEF Respond
  <2> QED
    BY <2>2, <2>3
<1>6. CASE RespondMore
  <2>1. server.total \in 0 .. MaxSize /\ server.left \in 0 .. MaxSize /\ server.left > 0
    BY <1>1, <1>6 DEF ServerType, RespondMore
  <2>2. hosts' \in [Hosts -> HostType] /\ \A h \in Hosts : Sending(hosts'[h])
    BY <1>1, <1>6, <2>1, WriteFrameType DEF RespondMore
  <2>3. CASE server.left = 1
    BY <1>0, <1>3, <1>6, <2>2, <2>3 DEF RespondMore
  <2>4. CASE server.left # 1
    <3>1. server' = [server EXCEPT !.left = server.left - 1]
      BY <1>6, <2>4 DEF RespondMore
    <3>2. server.left - 1 \in 0 .. MaxSize /\ server.left - 1 > 0
      BY <1>2, <2>1, <2>4
    <3>3. server' \in ServerType /\ server'.left > 0
      BY <1>1, <3>1, <3>2 DEF ServerType
    <3> QED
      BY <1>3, <1>6, <2>2, <3>3 DEF RespondMore
  <2> QED
    BY <2>3, <2>4
<1> QED
  BY <1>4, <1>5, <1>6 DEF ServerStep

\* Every step keeps the types.
LEMMA TypeStep == TypeInv /\ [Next]_vars => TypeInv'
<1> SUFFICES ASSUME TypeInv, [Next]_vars PROVE TypeInv'
  OBVIOUS
<1>1. CASE UNCHANGED vars
  BY <1>1 DEF vars, TypeInv, TypeOK, Progress
<1> QED
  BY <1>1, HostStepType, RunStepType, ServerStepType DEF Next

\* The initial state has its types.
LEMMA TypeInit == Init => TypeInv
<1> SUFFICES ASSUME Init PROVE TypeInv
  OBVIOUS
<1>1. Off(0) \in HostType /\ Off(0).at = "off"
  <2>1. 0 \in 0 .. Sends
    BY HidAssumption DEF HidAssumption
  <2>2. Off(0).at = "off"
    BY DEF Off
  <2> QED
    BY <2>1, <2>2, OffType
<1>2. Reading \in RunType /\ IdleServer \in ServerType /\ IdleServer.at = "idle"
  <2>1. <<>> \in Seq(Parts) /\ NoChannel \in Channels /\ 0 \in 0 .. MaxSize
    BY HidAssumption DEF Channels, HidAssumption
  <2> QED
    BY <2>1 DEF Reading, RunType, IdleServer, ServerType
<1>3. queue \in Seq(Packets) /\ Len(queue) <= QueueSize
  BY HidAssumption DEF Init, HidAssumption
<1> QED
  BY <1>1, <1>2, <1>3 DEF Init, TypeInv, TypeOK, Progress, Sending

\* Whatever the hosts write and whenever they stop, the state keeps its type: no
\* message is longer than announced, and no more frames are written than are left.
THEOREM TypeCorrect == Spec => []TypeOK
<1>1. TypeInv => TypeOK
  BY DEF TypeInv
<1> QED
  BY <1>1, TypeInit, TypeStep, PTL DEF Spec

-----------------------------------------------------------------------------
\* The channels that hosts hold were allocated, each for one of them.
ChannelInv ==
  /\ \A h \in Hosts : hosts[h].chan \in channels \cup {NoChannel}
  /\ OneHostPerChannel

\* A step after which every host has the channel it had, or none, is harmless.
LEMMA Keeps ==
  ASSUME ChannelInv, channels' = channels,
         \A h \in Hosts : hosts'[h].chan \in {hosts[h].chan, NoChannel}
  PROVE  ChannelInv'
BY DEF ChannelInv, OneHostPerChannel

\* A host changes channel only to the one in a response with its nonce.
LEMMA HostStepChannel ==
  ASSUME TypeInv, ChannelInv, NEW h \in Hosts, HostStep(h)
  PROVE  ChannelInv'
<1>0. hosts \in [Hosts -> HostType] /\ hosts[h] \in HostType
  BY DEF TypeInv, TypeOK
<1>1. ASSUME NEW r, hosts' = [hosts EXCEPT ![h] = r], r.chan \in {hosts[h].chan, NoChannel}
      PROVE  \A g \in Hosts : hosts'[g].chan \in {hosts[g].chan, NoChannel}
  BY <1>0, <1>1
<1>2. CASE AskChannel(h)
  <2>1. hosts' = [hosts EXCEPT ![h] = [Off(hosts[h].nr + 1) EXCEPT !.at = "init", !.cmd = "init"]]
    BY <1>2 DEF AskChannel
  <2>2. [Off(hosts[h].nr + 1) EXCEPT !.at = "init", !.cmd = "init"].chan = NoChannel
    BY DEF Off
  <2>3. channels' = channels
    BY <1>2 DEF AskChannel, Write
  <2> QED
    BY <1>1, <2>1, <2>2, <2>3, Keeps
<1>3. ASSUME NEW cmd, NEW size, Begin(h, cmd, size) PROVE ChannelInv'
  <2> DEFINE r == [hosts[h] EXCEPT
                     !.at = IF size = 1 THEN "waiting" ELSE "sending", !.nr = hosts[h].nr + 1,
                     !.cmd = cmd, !.size = size, !.sent = 1, !.frames = <<>>, !.total = 0]
  <2>1. hosts' = [hosts EXCEPT ![h] = r]
    BY <1>0, <1>3 DEF Begin
  <2>2. r.chan = hosts[h].chan
    BY <1>0 DEF HostType
  <2>3. channels' = channels
    BY <1>3 DEF Begin, Write
  <2> HIDE DEF r
  <2> QED
    BY <1>1, <2>1, <2>2, <2>3, Keeps
<1>4. CASE Continue(h)
  <2> DEFINE next == hosts[h].sent + 1
             r == [hosts[h] EXCEPT !.sent = next,
                                   !.at = IF next = hosts[h].size THEN "waiting" ELSE @]
  <2>1. hosts' = [hosts EXCEPT ![h] = r]
    BY <1>0, <1>4 DEF Continue
  <2>2. r.chan = hosts[h].chan
    BY <1>0 DEF HostType
  <2>3. channels' = channels
    BY <1>4 DEF Continue, Write
  <2> HIDE DEF r
  <2> QED
    BY <1>1, <2>1, <2>2, <2>3, Keeps
<1>5. CASE Cancel(h)
  <2>1. hosts' = [hosts EXCEPT ![h] = [hosts[h] EXCEPT !.sent = 0]]
    BY <1>0, <1>5 DEF Cancel
  <2>2. [hosts[h] EXCEPT !.sent = 0].chan = hosts[h].chan
    BY <1>0 DEF HostType
  <2>3. channels' = channels
    BY <1>5 DEF Cancel, Write
  <2> QED
    BY <1>1, <2>1, <2>2, <2>3, Keeps
<1>6. CASE Stop(h)
  <2>1. hosts' = [hosts EXCEPT ![h] = Off(hosts[h].nr)] /\ channels' = channels
    BY <1>6 DEF Stop
  <2>2. Off(hosts[h].nr).chan = NoChannel
    BY DEF Off
  <2> QED
    BY <1>1, <2>1, <2>2, Keeps
<1> QED
  BY <1>2, <1>3, <1>4, <1>5, <1>6 DEF HostStep

\* An id that was never allocated goes to the one host whose nonce it answers, if that
\* host still waits.
LEMMA AllocateChannel ==
  ASSUME TypeInv, ChannelInv, NEW id \in Channels, IsFree(id), Record(id),
         hosts' = [h \in Hosts |-> ReadInit(h, id, run.data[1])]
  PROVE  ChannelInv'
<1>1. id \notin channels /\ id # NoChannel /\ channels' = channels \cup {id}
  BY HidAssumption DEF IsFree, Record, Ids, NoChannel, HidAssumption
<1>2. ASSUME NEW h \in Hosts
      PROVE  \/ hosts'[h].chan = hosts[h].chan
             \/ hosts'[h].chan = id /\ run.data[1].host = h
  <2>1. hosts[h] \in HostType
    BY DEF TypeInv, TypeOK
  <2>2. [hosts[h] EXCEPT !.at = "ready", !.chan = id].chan = id
    BY <2>1 DEF HostType
  <2> QED
    BY <2>2 DEF ReadInit
<1> QED
  BY <1>1, <1>2 DEF ChannelInv, OneHostPerChannel

\* Each step keeps ChannelInv.
LEMMA ChannelStep == TypeInv /\ ChannelInv /\ [Next]_vars => ChannelInv'
<1> SUFFICES ASSUME TypeInv, ChannelInv, [Next]_vars PROVE ChannelInv'
  OBVIOUS
<1>1. CASE UNCHANGED <<channels, hosts>>
  BY <1>1 DEF ChannelInv, OneHostPerChannel
<1>2. ASSUME NEW chan, NEW cmd, NEW initial, NEW total \in 0 .. MaxSize, NEW to \in Seq(Parts),
             WriteFrame(chan, cmd, initial, total, to), UNCHANGED channels
      PROVE  ChannelInv'
  BY <1>2, WriteFrameType, Keeps
<1>3. CASE AllocateChan
  BY <1>1, <1>3, AllocateChannel DEF AllocateChan
<1>4. CASE Unsupported
  <2>1. 1 \in 0 .. MaxSize /\ run.data \in Seq(Parts)
    BY HidAssumption DEF HidAssumption, TypeInv, TypeOK, RunType
  <2> QED
    BY <1>2, <1>4, <2>1 DEF Unsupported
<1>5. ASSUME NEW total \in Sizes, Respond(total) PROVE ChannelInv'
  <2>1. total \in 0 .. MaxSize /\ server.data \in Seq(Parts)
    BY HidAssumption DEF HidAssumption, TypeInv, TypeOK, ServerType
  <2> QED
    BY <1>2, <1>5, <2>1 DEF Respond
<1>6. CASE RespondMore
  <2>1. server.total \in 0 .. MaxSize /\ server.data \in Seq(Parts)
    BY DEF TypeInv, TypeOK, ServerType
  <2> QED
    BY <1>2, <1>6, <2>1 DEF RespondMore
<1>7. CASE Receive \/ TakeEvent \/ Ignore
  BY <1>1, <1>7 DEF Receive, TakeEvent, Ignore
<1>8. CASE UNCHANGED vars
  BY <1>1, <1>8 DEF vars
<1> QED
  BY <1>3, <1>4, <1>5, <1>6, <1>7, <1>8, HostStepChannel DEF Next, RunStep, ServerStep

\* Two hosts never hold the same channel, however often hosts stop and ask again and
\* however many ids there are: Run never gives out an id twice, and the nonce of its
\* response tells the one host that asked.
THEOREM NoSharedChannel == Spec => []OneHostPerChannel
<1>1. Init => ChannelInv
  BY DEF Init, Off, ChannelInv, OneHostPerChannel
<1>2. ChannelInv => OneHostPerChannel
  BY DEF ChannelInv
<1> QED
  BY <1>1, <1>2, TypeInit, TypeStep, ChannelStep, PTL DEF Spec

-----------------------------------------------------------------------------
(***************************************************************************)
(* The packets that Run has put together and those in the queue form one   *)
(* stream: a host appends a packet to it, or loses the packet, and Run     *)
(* drops a part of its beginning.                                          *)
(***************************************************************************)
Length == Len(run.data) + Len(queue)

Stream ==
  [k \in 1 .. Length |->
     IF k <= Len(run.data) THEN run.data[k] ELSE queue[k - Len(run.data)].part]

\* The size announced in the message a packet belongs to.
SizeAt(k) == IF k <= Len(run.data) THEN run.need ELSE queue[k - Len(run.data)].size

\* The first packet of a message that is not over with it.
IsMessage(part) == part.index = 1 /\ part.cmd \notin {"init", "cancel"}

\* Between the first packet of a message, at i, and that at k its host has begun no other.
Continues(i, k) ==
  /\ i < k
  /\ IsMessage(Stream[i])
  /\ Stream[k].host = Stream[i].host
  /\ \A j \in (i + 1) .. k : Stream[j].host = Stream[i].host => Stream[j].index # 1

\* What Run has put together.
RunInv ==
  /\ run.data = <<>> => /\ run.need = 0 /\ run.chan = NoChannel /\ run.cmd = "none"
                        /\ run.at \in {"reading", "answering"}
  /\ run.data # <<>> =>
       /\ run.data[1].index = 1 /\ run.chan = run.data[1].chan /\ run.cmd = run.data[1].cmd
       /\ \A i \in DOMAIN run.data : i # 1 => run.data[i].index # 1
       /\ Len(run.data) <= run.need
       /\ run.at = "reading" <=> Len(run.data) < run.need
  /\ run.at = "offering" => run.cmd \in ForServer
  /\ run.at = "answering" => run.cmd \notin ForServer

\* What a packet of a message has in common with its first one, and in which order they
\* come.
WholeInv ==
  \A i, k \in 1 .. Length : Continues(i, k) =>
    /\ Stream[k].nr = Stream[i].nr /\ Stream[k].cmd = Stream[i].cmd
    /\ Stream[k].chan = Stream[i].chan
    /\ SizeAt(k) = SizeAt(i) /\ Stream[k].index <= SizeAt(k)
    /\ \A j \in i .. k - 1 : Stream[j].host = Stream[i].host => Stream[j].index < Stream[k].index

\* What a host may be at: with a channel or without, with a message or without.
HostInv ==
  \A h \in Hosts :
    /\ hosts[h].at \in {"off", "init"} <=> hosts[h].chan = NoChannel
    /\ hosts[h].at \in {"sending", "waiting"} => hosts[h].cmd \in Commands \ {"init", "cancel"}
    /\ hosts[h].at = "sending" => 1 <= hosts[h].sent
    /\ hosts[h].at \in {"off", "init", "sending"} => hosts[h].frames = <<>>

\* A packet is on a channel of its host, and belongs to what the host sent last or to
\* something older.  A host that waits for a channel has sent nothing since it asked.
\* There is a message in the stream only while its host sends it or waits for the
\* response, there is no other of this host, and it is not the server's.
PartInv(i) ==
  LET part == Stream[i]
      host == hosts[Stream[i].host]
  IN
  /\ part.chan \in channels \cup {Broadcast}
  /\ \A h \in Hosts : hosts[h].chan = part.chan => h = part.host
  /\ part.nr <= host.nr
  /\ host.at = "init" /\ part.nr = host.nr =>
       \A j \in i + 1 .. Length : Stream[j].host # part.host
  /\ host.at = "sending" /\ part.nr = host.nr => part.index <= host.sent
  /\ IsMessage(part) => host.at # "ready"
  /\ IsMessage(part) /\ host.at \in {"sending", "waiting"} =>
       /\ part.nr = host.nr /\ part.chan = host.chan /\ part.cmd = host.cmd
       /\ SizeAt(i) = host.size
       /\ \A j \in 1 .. Length : IsMessage(Stream[j]) /\ Stream[j].host = part.host => j = i
       /\ server.at # "idle" => server.chan # host.chan

StreamInv == \A i \in 1 .. Length : PartInv(i)

\* The server works on the message of a host that waits for it, or of none any more;
\* and a host has read a part of a response only while the server writes the rest.
ServerInv ==
  /\ server.at # "idle" =>
       /\ server.data # <<>> /\ server.chan \in channels \cup {Broadcast}
       /\ \A h \in Hosts : hosts[h].chan = server.chan =>
            /\ server.data[1].host = h /\ server.data[1].nr = hosts[h].nr
            /\ hosts[h].at \in {"sending", "waiting"}
  /\ \A h \in Hosts : hosts[h].at = "waiting" /\ hosts[h].frames # <<>> =>
       /\ server.at = "writing" /\ server.chan = hosts[h].chan
       /\ hosts[h].total = server.total
       /\ Len(hosts[h].frames) + server.left = server.total

\* The stream loses its first d packets; the sizes that matter stay.
Drops(d) ==
  /\ d \in Nat
  /\ Length' = Length - d
  /\ \A i \in 1 .. Length' :
       /\ Stream'[i] = Stream[i + d]
       /\ IsMessage(Stream[i + d]) \/ (\E j \in 1 .. Length : Continues(j, i + d))
            => SizeAt(i)' = SizeAt(i + d)

-----------------------------------------------------------------------------
\* The types of the stream.
LEMMA StreamType ==
  ASSUME TypeOK
  PROVE  /\ Length \in Nat /\ Len(run.data) \in Nat /\ Len(queue) \in Nat
         /\ \A k \in 1 .. Length : Stream[k] \in Parts
         /\ \A k \in DOMAIN run.data : k \in 1 .. Length /\ Stream[k] = run.data[k]
         /\ \A k \in DOMAIN queue : /\ k + Len(run.data) \in 1 .. Length
                                    /\ Stream[k + Len(run.data)] = queue[k].part
                                    /\ SizeAt(k + Len(run.data)) = queue[k].size
<1>1. run.data \in Seq(Parts) /\ queue \in Seq(Packets)
  BY DEF TypeOK, RunType
<1>2. Length \in Nat /\ Len(run.data) \in Nat /\ Len(queue) \in Nat
  BY <1>1 DEF Length
<1>3. ASSUME NEW k \in 1 .. Length
      PROVE  Stream[k] \in Parts
  <2>1. CASE k <= Len(run.data)
    BY <1>1, <2>1 DEF Stream
  <2>2. CASE k > Len(run.data)
    <3>1. k - Len(run.data) \in 1 .. Len(queue)
      BY <1>2, <2>2 DEF Length
    <3>2. queue[k - Len(run.data)] \in Packets
      BY <1>1, <3>1
    <3> QED BY <1>2, <2>2, <3>2 DEF Stream, Packets
  <2> QED BY <1>2, <2>1, <2>2
<1>4. ASSUME NEW k \in DOMAIN run.data
      PROVE  k \in 1 .. Length /\ Stream[k] = run.data[k]
  BY <1>1, <1>2 DEF Stream, Length
<1>5. ASSUME NEW k \in DOMAIN queue
      PROVE  /\ k + Len(run.data) \in 1 .. Length
             /\ Stream[k + Len(run.data)] = queue[k].part
             /\ SizeAt(k + Len(run.data)) = queue[k].size
  <2>1. k \in 1 .. Len(queue)
    BY <1>1
  <2>2. /\ k + Len(run.data) \in 1 .. Length /\ ~(k + Len(run.data) <= Len(run.data))
        /\ (k + Len(run.data)) - Len(run.data) = k
    BY <1>2, <2>1 DEF Length
  <2> QED BY <2>2 DEF Stream, SizeAt
<1> QED BY <1>2, <1>3, <1>4, <1>5

\* Dropping the beginning of the stream leaves its messages as they are.
LEMMA WholeShifts ==
  ASSUME TypeOK, WholeInv, NEW d, Drops(d)
  PROVE  WholeInv'
<1>1. Length \in Nat /\ d \in Nat /\ Length' = Length - d
  BY StreamType DEF Drops
<1>2. \A i \in 1 .. Length' : i + d \in 1 .. Length /\ Stream'[i] = Stream[i + d]
  BY <1>1 DEF Drops
<1>3. ASSUME NEW i \in 1 .. Length', NEW k \in 1 .. Length', Continues(i, k)'
      PROVE  Continues(i + d, k + d)
  <2>1. /\ i < k /\ IsMessage(Stream'[i]) /\ Stream'[k].host = Stream'[i].host
        /\ \A j \in (i + 1) .. k : Stream'[j].host = Stream'[i].host => Stream'[j].index # 1
    BY <1>3 DEF Continues, IsMessage
  <2>2. ASSUME NEW j \in (i + d + 1) .. (k + d)
        PROVE  j - d \in (i + 1) .. k /\ Stream'[j - d] = Stream[j]
    <3>1. j - d \in (i + 1) .. k /\ j - d \in 1 .. Length' /\ (j - d) + d = j
      BY <1>1, <2>2
    <3> QED BY <1>2, <3>1
  <2> QED BY <1>1, <1>2, <2>1, <2>2 DEF Continues
<1>4. ASSUME NEW i \in 1 .. Length', NEW k \in 1 .. Length', Continues(i, k)'
      PROVE  SizeAt(i)' = SizeAt(i + d) /\ SizeAt(k)' = SizeAt(k + d)
  <2>1. Continues(i + d, k + d) /\ IsMessage(Stream[i + d])
    BY <1>3, <1>4 DEF Continues
  <2> QED BY <1>2, <2>1 DEF Drops
<1>5. ASSUME NEW i \in 1 .. Length', NEW k \in 1 .. Length', Continues(i, k)',
             NEW j \in i .. k - 1
      PROVE  j + d \in (i + d) .. (k + d) - 1 /\ Stream'[j] = Stream[j + d]
  BY <1>1, <1>2, <1>5
<1>6. SUFFICES ASSUME NEW i \in 1 .. Length', NEW k \in 1 .. Length', Continues(i, k)'
               PROVE  /\ Stream'[k].nr = Stream'[i].nr /\ Stream'[k].cmd = Stream'[i].cmd
                      /\ Stream'[k].chan = Stream'[i].chan
                      /\ SizeAt(k)' = SizeAt(i)' /\ Stream'[k].index <= SizeAt(k)'
                      /\ \A j \in i .. k - 1 :
                           Stream'[j].host = Stream'[i].host => Stream'[j].index < Stream'[k].index
  BY DEF WholeInv
<1> QED BY <1>2, <1>3, <1>4, <1>5, <1>6 DEF WholeInv

\* What Run has after it has looked at a packet: the packet alone, nothing, or what it
\* had and the packet.
LEMMA ReceiveCases ==
  ASSUME TypeOK, RunInv, Receive
  PROVE  LET packet == queue[1] IN
         /\ packet \in Packets /\ queue' = Tail(queue) /\ run.at = "reading" /\ queue # <<>>
         /\ \/ /\ packet.part.index = 1
               /\ run'.data = <<packet.part>> /\ run'.need = packet.size
               /\ run'.chan = packet.part.chan /\ run'.cmd = packet.part.cmd
            \/ /\ packet.part.index # 1 /\ run.data = <<>>
               /\ run'.data = <<>> /\ run'.need = 0 /\ run'.chan = NoChannel /\ run'.cmd = "none"
            \/ /\ packet.part.index # 1 /\ run.data # <<>>
               /\ run'.data = Append(run.data, packet.part) /\ run'.need = run.need
               /\ run'.chan = run.chan /\ run'.cmd = run.cmd
         /\ run'.at = IF Len(run'.data) < run'.need THEN "reading"
                      ELSE IF run'.cmd \in ForServer THEN "offering" ELSE "answering"
         /\ Len(run'.data) <= run'.need
<1> DEFINE packet == queue[1]
           r == Collect(packet)
<1>1. /\ run \in RunType /\ run.data \in Seq(Parts) /\ queue \in Seq(Packets) /\ queue # <<>>
      /\ packet \in Packets /\ run.at = "reading" /\ queue' = Tail(queue)
      /\ run' = Assemble(r)
  BY DEF TypeOK, RunType, Receive
<1>2. Sizes \subseteq Nat /\ \A n \in Sizes : n >= 1
  BY HidAssumption DEF HidAssumption
<1>3. packet.part \in Parts /\ packet.size \in Sizes
  BY <1>1 DEF Packets
<1>4. run.need \in Nat
  <2>1. run.need \in Sizes \cup {0}
    BY <1>1 DEF RunType
  <2>2. CASE run.need \in Sizes
    BY <1>2, <2>2
  <2>3. CASE run.need = 0
    BY <2>3
  <2> QED BY <2>1, <2>2, <2>3
<1>5. CASE packet.part.index = 1
  <2>0. r = [run EXCEPT !.data = <<packet.part>>, !.need = packet.size,
                        !.chan = packet.part.chan, !.cmd = packet.part.cmd]
    BY <1>5 DEF Collect
  <2> HIDE DEF r
  <2>1. /\ r.data = <<packet.part>> /\ r.need = packet.size /\ r.chan = packet.part.chan
        /\ r.cmd = packet.part.cmd /\ r.at = "reading"
    BY <1>1, <2>0 DEF RunType
  <2>2. Len(r.data) = 1 /\ r.need \in Nat /\ r.need >= 1
    BY <1>2, <1>3, <2>1
  <2>3. CASE 1 < r.need
    <3>1. run' = r
      BY <1>1, <2>2, <2>3 DEF Assemble
    <3> QED BY <1>1, <1>5, <2>1, <2>2, <2>3, <3>1
  <2>4. CASE r.need = 1
    <3>1. SubSeq(r.data, 1, r.need) = <<packet.part>>
      <4>1. r.data \in Seq(Parts)
        BY <1>3, <2>1
      <4> QED BY <2>1, <2>2, <2>4, <4>1, SubSeqFull
    <3>2. run' = [r EXCEPT !.data = <<packet.part>>,
                           !.at = IF r.cmd \in ForServer THEN "offering" ELSE "answering"]
      <4>1. ~(Len(r.data) < r.need)
        BY <2>2, <2>4
      <4> QED BY <1>1, <3>1, <4>1 DEF Assemble
    <3>3. r \in RunType
      <4>1. packet.part.chan \in Channels /\ packet.part.cmd \in Commands
            /\ <<packet.part>> \in Seq(Parts)
        BY <1>3 DEF Parts
      <4> QED BY <1>1, <1>3, <2>0, <4>1 DEF RunType
    <3>4. /\ run'.data = <<packet.part>> /\ run'.need = r.need /\ run'.chan = r.chan
          /\ run'.cmd = r.cmd
          /\ run'.at = IF r.cmd \in ForServer THEN "offering" ELSE "answering"
      BY <3>2, <3>3 DEF RunType
    <3> QED BY <1>1, <1>5, <2>1, <2>2, <2>4, <3>4
  <2> QED BY <2>2, <2>3, <2>4
<1>6. CASE packet.part.index # 1
  <2>1. r = [run EXCEPT !.data = Append(run.data, packet.part)]
    BY <1>6 DEF Collect
  <2> HIDE DEF r
  <2>0. Append(run.data, packet.part) \in Seq(Parts)
        /\ Len(Append(run.data, packet.part)) = Len(run.data) + 1
    BY <1>1, <1>3, AppendProperties
  <2>2. /\ r.data = Append(run.data, packet.part) /\ r.need = run.need /\ r.chan = run.chan
        /\ r.cmd = run.cmd /\ r.at = "reading" /\ r \in RunType
    BY <1>1, <2>0, <2>1 DEF RunType
  <2>3. Len(r.data) = Len(run.data) + 1 /\ r.data \in Seq(Parts) /\ Len(run.data) \in Nat
    BY <1>1, <2>0, <2>2
  <2>4. CASE run.data = <<>>
    <3>1. run.need = 0 /\ run.chan = NoChannel /\ run.cmd = "none"
      BY <2>4 DEF RunInv
    <3>2. SubSeq(r.data, 1, r.need) = <<>>
      BY <2>2, <3>1, SubSeqEmpty
    <3>3. ~(Len(r.data) < r.need) /\ r.cmd \notin ForServer
      BY <2>2, <2>3, <3>1 DEF ForServer
    <3>5. run' = [r EXCEPT !.data = <<>>, !.at = "answering"]
      BY <1>1, <3>2, <3>3 DEF Assemble
    <3>4. /\ run'.data = <<>> /\ run'.need = 0 /\ run'.chan = NoChannel /\ run'.cmd = "none"
          /\ run'.at = "answering"
      BY <2>2, <3>1, <3>5 DEF RunType
    <3> QED BY <1>1, <1>6, <2>4, <3>4 DEF ForServer
  <2>5. CASE run.data # <<>>
    <3>1. Len(run.data) < run.need
      BY <1>1, <2>5 DEF RunInv
    <3>2. Len(r.data) <= r.need /\ Len(r.data) \in Nat
      BY <1>1, <1>4, <2>2, <2>3, <3>1
    <3>3. CASE Len(r.data) < r.need
      BY <1>1, <1>6, <2>2, <2>5, <3>2, <3>3 DEF Assemble
    <3>4. CASE ~(Len(r.data) < r.need)
      <4>1. Len(r.data) = r.need
        BY <1>4, <2>2, <3>2, <3>4
      <4>2. SubSeq(r.data, 1, r.need) = r.data
        BY <2>3, <4>1
      <4>3. run' = [r EXCEPT !.data = r.data,
                             !.at = IF r.cmd \in ForServer THEN "offering" ELSE "answering"]
        BY <1>1, <3>4, <4>2 DEF Assemble
      <4>4. /\ run'.data = r.data /\ run'.need = r.need /\ run'.chan = r.chan /\ run'.cmd = r.cmd
            /\ run'.at = IF r.cmd \in ForServer THEN "offering" ELSE "answering"
        BY <2>2, <4>3 DEF RunType
      <4> QED BY <1>1, <1>6, <2>2, <2>5, <3>2, <3>4, <4>4
    <3> QED BY <3>3, <3>4
  <2> QED BY <2>4, <2>5
<1> QED BY <1>5, <1>6

\* One turn of the inner loop drops a beginning of the stream, often an empty
\* one.
LEMMA ReceiveDrops ==
  ASSUME TypeOK, RunInv, WholeInv, Receive
  PROVE  RunInv' /\ \E d \in Nat : Drops(d)
<1> DEFINE packet == queue[1]
           n == Len(run.data)
<1>1. /\ packet \in Packets /\ queue' = Tail(queue) /\ run.at = "reading" /\ queue # <<>>
      /\ \/ /\ packet.part.index = 1
            /\ run'.data = <<packet.part>> /\ run'.need = packet.size
            /\ run'.chan = packet.part.chan /\ run'.cmd = packet.part.cmd
         \/ /\ packet.part.index # 1 /\ run.data = <<>>
            /\ run'.data = <<>> /\ run'.need = 0 /\ run'.chan = NoChannel /\ run'.cmd = "none"
         \/ /\ packet.part.index # 1 /\ run.data # <<>>
            /\ run'.data = Append(run.data, packet.part) /\ run'.need = run.need
            /\ run'.chan = run.chan /\ run'.cmd = run.cmd
      /\ run'.at = IF Len(run'.data) < run'.need THEN "reading"
                   ELSE IF run'.cmd \in ForServer THEN "offering" ELSE "answering"
      /\ Len(run'.data) <= run'.need
  BY ReceiveCases
<1>2. queue \in Seq(Packets) /\ run.data \in Seq(Parts) /\ n \in Nat
  BY DEF TypeOK, RunType
<1>3. /\ Len(queue') = Len(queue) - 1 /\ Len(queue) >= 1 /\ Len(queue) \in Nat
      /\ \A k \in 1 .. Len(queue) - 1 : queue'[k] = queue[k + 1]
  BY <1>1, <1>2
<1>4. packet.part \in Parts /\ packet.size \in Sizes
  BY <1>1 DEF Packets
<1>5. \A k \in 1 .. Len(queue) :
        k + n \in 1 .. Length /\ Stream[k + n] = queue[k].part /\ SizeAt(k + n) = queue[k].size
  BY <1>2, StreamType
<1>6. CASE packet.part.index = 1
  <2>1. run'.data = <<packet.part>> /\ run'.need = packet.size /\ Len(run'.data) = 1
    BY <1>1, <1>6
  <2>2. Length' = Length - n
    BY <1>2, <1>3, <2>1 DEF Length
  <2>3. ASSUME NEW i \in 1 .. Length'
        PROVE  Stream'[i] = Stream[i + n] /\ SizeAt(i)' = SizeAt(i + n)
    <3>1. i \in 1 .. Len(queue)
      BY <1>2, <1>3, <2>2 DEF Length
    <3>2. Stream[i + n] = queue[i].part /\ SizeAt(i + n) = queue[i].size
      BY <1>5, <3>1
    <3>3. CASE i = 1
      BY <2>1, <2>3, <3>2, <3>3 DEF Stream, SizeAt
    <3>4. CASE i # 1
      <4>1. i - 1 \in 1 .. Len(queue) - 1 /\ ~(i <= 1) /\ (i - 1) + 1 = i
        BY <1>3, <3>1, <3>4
      <4>2. queue'[i - 1] = queue[i]
        BY <1>3, <4>1
      <4> QED BY <2>1, <2>3, <3>2, <4>1, <4>2 DEF Stream, SizeAt
    <3> QED BY <3>3, <3>4
  <2>4. Drops(n)
    BY <1>2, <2>2, <2>3 DEF Drops
  <2>5. RunInv'
    BY <1>1, <1>4, <1>6, <2>1 DEF RunInv
  <2> QED BY <1>2, <2>4, <2>5
<1>7. CASE packet.part.index # 1 /\ run.data = <<>>
  <2>1. run'.data = <<>> /\ run'.need = 0 /\ Len(run'.data) = 0 /\ n = 0
    BY <1>1, <1>7
  <2>2. Length' = Length - 1
    BY <1>2, <1>3, <2>1 DEF Length
  <2>3. ASSUME NEW i \in 1 .. Length'
        PROVE  Stream'[i] = Stream[i + 1] /\ SizeAt(i)' = SizeAt(i + 1)
    <3>1. i \in 1 .. Len(queue) - 1 /\ i + 1 \in 1 .. Len(queue) /\ ~(i <= 0) /\ i - 0 = i
      BY <1>2, <1>3, <2>1, <2>2 DEF Length
    <3>2. Stream[i + 1] = queue[i + 1].part /\ SizeAt(i + 1) = queue[i + 1].size
      BY <1>5, <2>1, <3>1
    <3>3. queue'[i] = queue[i + 1]
      BY <1>3, <3>1
    <3> QED BY <2>1, <2>3, <3>1, <3>2, <3>3 DEF Stream, SizeAt
  <2>4. Drops(1)
    BY <2>2, <2>3 DEF Drops
  <2>5. RunInv'
    BY <1>1, <1>7, <2>1 DEF RunInv, ForServer
  <2> QED BY <2>4, <2>5
<1>8. CASE packet.part.index # 1 /\ run.data # <<>>
  <2>1. /\ run'.data = Append(run.data, packet.part) /\ run'.need = run.need
        /\ Len(run'.data) = n + 1 /\ n >= 1
        /\ \A k \in 1 .. n : run'.data[k] = run.data[k]
        /\ run'.data[n + 1] = packet.part
    <3>1. run'.data = Append(run.data, packet.part) /\ run'.need = run.need
      BY <1>1, <1>8
    <3>2. n >= 1
      BY <1>2, <1>8
    <3> QED BY <1>2, <1>4, <3>1, <3>2, AppendProperties
  <2>2. Length' = Length
    BY <1>2, <1>3, <2>1 DEF Length
  <2>3. ASSUME NEW i \in 1 .. Length', i # n + 1
        PROVE  Stream'[i] = Stream[i] /\ SizeAt(i)' = SizeAt(i)
    <3>1. CASE i <= n
      <4>1. i <= n + 1 /\ i \in 1 .. n
        BY <1>2, <3>1
      <4> QED BY <2>1, <2>2, <2>3, <3>1, <4>1 DEF Stream, SizeAt
    <3>2. CASE ~(i <= n)
      <4>1. i - n \in 1 .. Len(queue) /\ i - n - 1 \in 1 .. Len(queue) - 1 /\ ~(i <= n + 1)
            /\ i - (n + 1) = i - n - 1 /\ (i - n - 1) + 1 = i - n
        <5>1. Length = n + Len(queue)
          BY DEF Length
        <5>2. i \in 1 .. n + Len(queue) /\ i # n + 1 /\ i > n
          BY <1>2, <2>2, <2>3, <3>2, <5>1
        <5> HIDE DEF n
        <5> QED BY <1>2, <1>3, <5>2
      <4>2. queue'[i - (n + 1)] = queue[i - n]
        BY <1>3, <4>1
      <4>3. Stream'[i] = queue'[i - (n + 1)].part /\ SizeAt(i)' = queue'[i - (n + 1)].size
        BY <2>1, <2>3, <4>1 DEF Stream, SizeAt
      <4>4. Stream[i] = queue[i - n].part /\ SizeAt(i) = queue[i - n].size
        BY <2>2, <2>3, <3>2 DEF Stream, SizeAt
      <4> QED BY <4>2, <4>3, <4>4
    <3> QED BY <3>1, <3>2
  <2>4. n + 1 \in 1 .. Length /\ Stream[n + 1] = packet.part /\ SizeAt(n + 1) = packet.size
    BY <1>2, <1>3, <1>5
  <2>5. ASSUME NEW i, i = n + 1 PROVE Stream'[i] = packet.part /\ SizeAt(i)' = run.need
    <3>1. i <= Len(run'.data) /\ i \in 1 .. Length'
      BY <1>2, <2>1, <2>2, <2>4, <2>5
    <3>2. Stream'[i] = run'.data[i]
      BY <3>1 DEF Stream
    <3>3. SizeAt(i)' = run'.need
      BY <3>1 DEF SizeAt
    <3> QED BY <2>1, <2>5, <3>2, <3>3
  <2>6. ASSUME NEW j \in 1 .. Length, Continues(j, n + 1)
        PROVE  SizeAt(n + 1) = run.need
    <3>1. j <= n /\ IsMessage(Stream[j])
      BY <1>2, <2>6 DEF Continues
    <3>2. j \in DOMAIN run.data /\ Stream[j] = run.data[j]
      BY <1>2, <3>1, StreamType
    <3>3. SizeAt(j) = run.need
      BY <3>1 DEF SizeAt
    <3> QED BY <2>4, <2>6, <3>3 DEF WholeInv
  <2>7. Drops(0)
    <3>1. ASSUME NEW i \in 1 .. Length'
          PROVE  /\ Stream'[i] = Stream[i + 0]
                 /\ IsMessage(Stream[i + 0]) \/ (\E j \in 1 .. Length : Continues(j, i + 0))
                      => SizeAt(i)' = SizeAt(i + 0)
      <4>1. CASE i = n + 1
        <5>1. i + 0 = i /\ ~IsMessage(Stream[i])
          BY <1>2, <1>8, <2>4, <4>1 DEF IsMessage
        <5>2. Stream'[i] = Stream[i]
          BY <2>4, <2>5, <4>1
        <5>3. (\E j \in 1 .. Length : Continues(j, i)) => SizeAt(i)' = SizeAt(i)
          BY <2>5, <2>6, <4>1
        <5> QED BY <5>1, <5>2, <5>3
      <4>2. CASE i # n + 1
        BY <2>2, <2>3, <3>1, <4>2, StreamType
      <4> QED BY <4>1, <4>2
    <3> QED BY <2>2, <3>1, StreamType DEF Drops
  <2>8. RunInv'
    <3>1. run'.data # <<>> /\ run'.data[1] = run.data[1]
      BY <2>1
    <3>2. \A k \in DOMAIN run'.data : k # 1 => run'.data[k].index # 1
      <4>1. DOMAIN run'.data = 1 .. n + 1 /\ DOMAIN run.data = 1 .. n
        BY <1>2, <1>4, <2>1
      <4> QED BY <1>2, <1>8, <2>1, <4>1 DEF RunInv
    <3>3. run.data[1].index = 1 /\ run.chan = run.data[1].chan /\ run.cmd = run.data[1].cmd
      BY <1>8 DEF RunInv
    <3>4. run'.chan = run.chan /\ run'.cmd = run.cmd
      BY <1>1, <1>8
    <3> QED BY <1>1, <3>1, <3>2, <3>3, <3>4 DEF RunInv
  <2> QED BY <2>7, <2>8
<1> QED BY <1>1, <1>6, <1>7, <1>8

\* The stream begins anew with what is in the queue.
LEMMA ReadingDrops ==
  ASSUME TypeOK, run' = Reading, queue' = queue
  PROVE  RunInv' /\ \E d \in Nat : Drops(d) /\ d = Len(run.data)
<1> DEFINE n == Len(run.data)
<1>1. run'.data = <<>> /\ run'.need = 0 /\ run'.chan = NoChannel /\ run'.cmd = "none"
      /\ run'.at = "reading" /\ Len(run'.data) = 0
  BY DEF Reading
<1>2. n \in Nat /\ Len(queue) \in Nat /\ Length = n + Len(queue)
  BY StreamType DEF Length
<1>3. Length' = Len(queue) /\ Length' = Length - n
  BY <1>1, <1>2 DEF Length
<1>4. ASSUME NEW i \in 1 .. Length'
      PROVE  Stream'[i] = Stream[i + n] /\ SizeAt(i)' = SizeAt(i + n)
  <2>1. i \in 1 .. Len(queue) /\ ~(i <= 0) /\ i - 0 = i
    BY <1>2, <1>3
  <2>2. i \in DOMAIN queue
    BY <2>1 DEF TypeOK
  <2>3. Stream[i + n] = queue[i].part /\ SizeAt(i + n) = queue[i].size
    BY <2>2, StreamType
  <2>4. Stream'[i] = queue[i].part
    BY <1>1, <1>4, <2>1 DEF Stream
  <2>5. SizeAt(i)' = queue[i].size
    BY <1>1, <2>1 DEF SizeAt
  <2> QED BY <2>3, <2>4, <2>5
<1>5. Drops(n)
  BY <1>2, <1>3, <1>4 DEF Drops
<1>6. RunInv'
  BY <1>1 DEF RunInv, ForServer
<1> QED BY <1>2, <1>5, <1>6

\* The stream gains a packet at its end, or stays as it is.
Appends(part, size) ==
  /\ Length' \in {Length, Length + 1}
  /\ \A i \in 1 .. Length' :
       /\ i # Length + 1 => Stream'[i] = Stream[i] /\ SizeAt(i)' = SizeAt(i)
       /\ i = Length + 1 => Stream'[i] = part /\ SizeAt(i)' = size

\* A packet that is written comes last in the stream, or a full queue leaves
\* it out.
LEMMA WriteAppends ==
  ASSUME TypeOK, NEW h \in Hosts, NEW cmd, NEW index, NEW size, NEW chan,
         Write(h, cmd, index, size, chan)
  PROVE  Appends([host |-> h, nr |-> hosts'[h].nr, cmd |-> cmd, index |-> index,
                  chan |-> chan], size)
<1> DEFINE part == [host |-> h, nr |-> hosts'[h].nr, cmd |-> cmd, index |-> index, chan |-> chan]
           packet == [part |-> part, size |-> size]
           n == Len(run.data)
<1>1. packet.part = part /\ packet.size = size /\ run' = run
      /\ (queue' = queue \/ queue' = Append(queue, packet))
  BY DEF Write
<1> HIDE DEF part, packet
<1>2. queue \in Seq(Packets) /\ n \in Nat /\ Len(queue) \in Nat /\ Length = n + Len(queue)
      /\ run.data \in Seq(Parts)
  BY StreamType DEF Length, TypeOK, RunType
<1>3. CASE queue' = queue
  <2>1. Length' = Length
    BY <1>1, <1>3 DEF Length
  <2>2. ASSUME NEW i \in 1 .. Length'
        PROVE  i # Length + 1 /\ Stream'[i] = Stream[i] /\ SizeAt(i)' = SizeAt(i)
    BY <1>1, <1>2, <1>3, <2>1 DEF Stream, SizeAt
  <2> QED BY <2>1, <2>2 DEF Appends, part
<1>4. CASE queue' = Append(queue, packet)
  <2>1. /\ Len(queue') = Len(queue) + 1
        /\ \A k \in 1 .. Len(queue) : queue'[k] = queue[k]
        /\ queue'[Len(queue) + 1] = packet
    <3>1. queue \in Seq(Packets \cup {packet}) /\ packet \in Packets \cup {packet}
      BY <1>2
    <3> QED BY <1>4, <3>1, AppendProperties
  <2>2. Length' = Length + 1
    <3>1. Length' = Len(run'.data) + Len(queue') /\ run' = run
      BY <1>1 DEF Length
    <3>2. Length' = n + (Len(queue) + 1)
      BY <2>1, <3>1
    <3> HIDE DEF n
    <3> QED BY <1>2, <3>2
  <2>3. ASSUME NEW i \in 1 .. Length', i # Length + 1
        PROVE  Stream'[i] = Stream[i] /\ SizeAt(i)' = SizeAt(i)
    <3>1. i \in 1 .. Length
      BY <1>2, <2>2, <2>3
    <3>2. CASE i <= n
      BY <1>1, <2>3, <3>1, <3>2 DEF Stream, SizeAt
    <3>3. CASE ~(i <= n)
      <4>1. i - n \in 1 .. Len(queue)
        BY <1>2, <3>1, <3>3
      <4>2. queue'[i - n] = queue[i - n]
        BY <2>1, <4>1
      <4> QED BY <1>1, <2>3, <3>1, <3>3, <4>2 DEF Stream, SizeAt
    <3> QED BY <3>2, <3>3
  <2>4. ASSUME NEW i \in 1 .. Length', i = Length + 1
        PROVE  Stream'[i] = part /\ SizeAt(i)' = size
    <3>1. ~(i <= n) /\ i - n = Len(queue) + 1
      <4>1. i = n + Len(queue) + 1
        BY <1>2, <2>4
      <4> HIDE DEF n
      <4> QED BY <1>2, <4>1
    <3>2. Stream'[i] = queue'[i - n].part /\ SizeAt(i)' = queue'[i - n].size
      BY <1>1, <2>4, <3>1 DEF Stream, SizeAt
    <3> QED BY <1>1, <2>1, <3>1, <3>2
  <2> QED BY <2>2, <2>3, <2>4 DEF Appends, part
<1> QED BY <1>1, <1>3, <1>4

-----------------------------------------------------------------------------
\* What each step of a host does to the host and to the stream.
Sent(h, cmd, index, chan) ==
  [host |-> h, nr |-> hosts'[h].nr, cmd |-> cmd, index |-> index, chan |-> chan]

AskEffect(h) ==
  /\ hosts[h].at = "off" /\ hosts'[h].at = "init" /\ hosts'[h].chan = NoChannel
  /\ hosts'[h].nr = hosts[h].nr + 1 /\ hosts'[h].frames = <<>>
  /\ Appends(Sent(h, "init", 1, Broadcast), 1)

BeginEffect(h) ==
  /\ hosts[h].at = "ready" /\ hosts'[h].at \in {"sending", "waiting"}
  /\ hosts'[h].chan = hosts[h].chan /\ hosts'[h].nr = hosts[h].nr + 1
  /\ hosts'[h].cmd \in Commands \ {"init", "cancel"}
  /\ hosts'[h].sent = 1 /\ hosts'[h].frames = <<>>
  /\ Appends(Sent(h, hosts'[h].cmd, 1, hosts[h].chan), hosts'[h].size)

ContinueEffect(h) ==
  /\ hosts[h].at = "sending" /\ hosts'[h].at \in {"sending", "waiting"}
  /\ hosts'[h].chan = hosts[h].chan /\ hosts'[h].nr = hosts[h].nr
  /\ hosts'[h].cmd = hosts[h].cmd /\ hosts'[h].size = hosts[h].size
  /\ hosts'[h].sent = hosts[h].sent + 1 /\ hosts'[h].frames = hosts[h].frames
  /\ Appends(Sent(h, hosts[h].cmd, hosts[h].sent + 1, hosts[h].chan), hosts[h].size)

CancelEffect(h) ==
  /\ hosts[h].at = "waiting" /\ hosts'[h].at = "waiting"
  /\ hosts'[h].chan = hosts[h].chan /\ hosts'[h].nr = hosts[h].nr
  /\ hosts'[h].cmd = hosts[h].cmd /\ hosts'[h].size = hosts[h].size
  /\ hosts'[h].frames = hosts[h].frames /\ hosts'[h].total = hosts[h].total
  /\ Appends(Sent(h, "cancel", 1, hosts[h].chan), 1)

StopEffect(h) ==
  /\ hosts'[h].at = "off" /\ hosts'[h].chan = NoChannel
  /\ hosts'[h].nr = hosts[h].nr /\ hosts'[h].frames = <<>>
  /\ Length' = Length
  /\ \A i \in 1 .. Length' : Stream'[i] = Stream[i] /\ SizeAt(i)' = SizeAt(i)

\* What the steps of a host change: its own record, and the end of the
\* stream.
LEMMA HostEffects ==
  ASSUME TypeOK, NEW h \in Hosts, HostStep(h)
  PROVE  /\ run' = run /\ channels' = channels /\ server' = server
         /\ \A g \in Hosts : g # h => hosts'[g] = hosts[g]
         /\ \/ AskEffect(h) \/ BeginEffect(h) \/ ContinueEffect(h) \/ CancelEffect(h)
            \/ StopEffect(h)
<1>0. hosts \in [Hosts -> HostType] /\ hosts[h] \in HostType
  BY DEF TypeOK
<1>1. CASE AskChannel(h)
  <2> DEFINE r == [Off(hosts[h].nr + 1) EXCEPT !.at = "init", !.cmd = "init"]
  <2>1. hosts' = [hosts EXCEPT ![h] = r]
    BY <1>1 DEF AskChannel
  <2>2. r.at = "init" /\ r.chan = NoChannel /\ r.nr = hosts[h].nr + 1 /\ r.frames = <<>>
    BY DEF Off
  <2> HIDE DEF r
  <2>3. hosts'[h] = r /\ \A g \in Hosts : g # h => hosts'[g] = hosts[g]
    BY <1>0, <2>1
  <2>4. Write(h, "init", 1, 1, Broadcast) /\ hosts[h].at = "off"
    BY <1>1 DEF AskChannel
  <2>5. run' = run /\ channels' = channels /\ server' = server
    BY <2>4 DEF Write
  <2> QED BY <2>2, <2>3, <2>4, <2>5, WriteAppends DEF AskEffect, Sent
<1>2. ASSUME NEW cmd \in Commands \ {"init", "cancel"}, NEW size \in Sizes, Begin(h, cmd, size)
      PROVE  /\ run' = run /\ channels' = channels /\ server' = server
             /\ \A g \in Hosts : g # h => hosts'[g] = hosts[g]
             /\ BeginEffect(h)
  <2> DEFINE r == [hosts[h] EXCEPT
                     !.at = IF size = 1 THEN "waiting" ELSE "sending", !.nr = hosts[h].nr + 1,
                     !.cmd = cmd, !.size = size, !.sent = 1, !.frames = <<>>, !.total = 0]
  <2>1. hosts' = [hosts EXCEPT ![h] = r]
    BY <1>0, <1>2 DEF Begin
  <2>2. /\ r.at \in {"sending", "waiting"} /\ r.chan = hosts[h].chan /\ r.nr = hosts[h].nr + 1
        /\ r.cmd = cmd /\ r.size = size /\ r.sent = 1 /\ r.frames = <<>>
    BY <1>0 DEF HostType
  <2> HIDE DEF r
  <2>3. hosts'[h] = r /\ \A g \in Hosts : g # h => hosts'[g] = hosts[g]
    BY <1>0, <2>1
  <2>4. Write(h, cmd, 1, size, hosts[h].chan) /\ hosts[h].at = "ready"
    BY <1>2 DEF Begin
  <2>5. run' = run /\ channels' = channels /\ server' = server
    BY <2>4 DEF Write
  <2>6. Appends(Sent(h, cmd, 1, hosts[h].chan), size)
    BY <2>4, WriteAppends DEF Sent
  <2> QED BY <2>2, <2>3, <2>4, <2>5, <2>6 DEF BeginEffect
<1>3. CASE Continue(h)
  <2> DEFINE next == hosts[h].sent + 1
             r == [hosts[h] EXCEPT !.sent = next,
                                   !.at = IF next = hosts[h].size THEN "waiting" ELSE @]
  <2>1. hosts' = [hosts EXCEPT ![h] = r] /\ hosts[h].at = "sending"
    BY <1>0, <1>3 DEF Continue
  <2>2. /\ r.at \in {"sending", "waiting"} /\ r.chan = hosts[h].chan /\ r.nr = hosts[h].nr
        /\ r.cmd = hosts[h].cmd /\ r.size = hosts[h].size /\ r.sent = hosts[h].sent + 1
        /\ r.frames = hosts[h].frames
    BY <1>0, <2>1 DEF HostType
  <2> HIDE DEF r
  <2>3. hosts'[h] = r /\ \A g \in Hosts : g # h => hosts'[g] = hosts[g]
    BY <1>0, <2>1
  <2>4. Write(h, hosts[h].cmd, hosts[h].sent + 1, hosts[h].size, hosts[h].chan)
    BY <1>3 DEF Continue
  <2>5. run' = run /\ channels' = channels /\ server' = server
    BY <2>4 DEF Write
  <2>6. Appends(Sent(h, hosts[h].cmd, hosts[h].sent + 1, hosts[h].chan), hosts[h].size)
    BY <2>4, WriteAppends DEF Sent
  <2> QED BY <2>1, <2>2, <2>3, <2>5, <2>6 DEF ContinueEffect
<1>4. CASE Cancel(h)
  <2> DEFINE r == [hosts[h] EXCEPT !.sent = 0]
  <2>1. hosts' = [hosts EXCEPT ![h] = r] /\ hosts[h].at = "waiting"
    BY <1>0, <1>4 DEF Cancel
  <2>2. /\ r.at = hosts[h].at /\ r.chan = hosts[h].chan /\ r.nr = hosts[h].nr
        /\ r.cmd = hosts[h].cmd /\ r.size = hosts[h].size
        /\ r.frames = hosts[h].frames /\ r.total = hosts[h].total
    BY <1>0 DEF HostType
  <2> HIDE DEF r
  <2>3. hosts'[h] = r /\ \A g \in Hosts : g # h => hosts'[g] = hosts[g]
    BY <1>0, <2>1
  <2>4. Write(h, "cancel", 1, 1, hosts[h].chan)
    BY <1>4 DEF Cancel
  <2>5. run' = run /\ channels' = channels /\ server' = server
    BY <2>4 DEF Write
  <2>6. Appends(Sent(h, "cancel", 1, hosts[h].chan), 1)
    BY <2>4, WriteAppends DEF Sent
  <2> QED BY <2>1, <2>2, <2>3, <2>5, <2>6 DEF CancelEffect
<1>5. CASE Stop(h)
  <2> DEFINE r == Off(hosts[h].nr)
  <2>1. hosts' = [hosts EXCEPT ![h] = r] /\ UNCHANGED <<queue, run, channels, server>>
    BY <1>5 DEF Stop
  <2>2. r.at = "off" /\ r.chan = NoChannel /\ r.nr = hosts[h].nr /\ r.frames = <<>>
    BY DEF Off
  <2> HIDE DEF r
  <2>3. hosts'[h] = r /\ \A g \in Hosts : g # h => hosts'[g] = hosts[g]
    BY <1>0, <2>1
  <2>4. Length' = Length
        /\ \A i \in 1 .. Length' : Stream'[i] = Stream[i] /\ SizeAt(i)' = SizeAt(i)
    BY <2>1 DEF Length, Stream, SizeAt
  <2> QED BY <2>1, <2>2, <2>3, <2>4 DEF StopEffect
<1> QED
  BY <1>1, <1>2, <1>3, <1>4, <1>5 DEF HostStep

\* A host's steps keep what it knows of its own requests.
LEMMA HostStepHosts ==
  ASSUME TypeOK, HostInv, NEW h \in Hosts, HostStep(h)
  PROVE  HostInv'
<1>1. /\ \A g \in Hosts : g # h => hosts'[g] = hosts[g]
      /\ \/ AskEffect(h) \/ BeginEffect(h) \/ ContinueEffect(h) \/ CancelEffect(h)
         \/ StopEffect(h)
  BY HostEffects
<1>2. hosts[h].sent \in Nat
  BY HidAssumption DEF HidAssumption, TypeOK, HostType
<1> DEFINE Fine(host) ==
             /\ host.at \in {"off", "init"} <=> host.chan = NoChannel
             /\ host.at \in {"sending", "waiting"} => host.cmd \in Commands \ {"init", "cancel"}
             /\ host.at = "sending" => 1 <= host.sent
             /\ host.at \in {"off", "init", "sending"} => host.frames = <<>>
<1>3. \A g \in Hosts : Fine(hosts[g])
  BY DEF HostInv
<1>4. Fine(hosts'[h])
  <2>1. CASE AskEffect(h)
    BY <2>1 DEF AskEffect
  <2>2. CASE BeginEffect(h)
    BY <1>3, <2>2 DEF BeginEffect
  <2>3. CASE ContinueEffect(h)
    <3>1. 1 <= hosts'[h].sent
      BY <1>2, <2>3 DEF ContinueEffect
    <3> QED BY <1>3, <2>3, <3>1 DEF ContinueEffect
  <2>4. CASE CancelEffect(h)
    BY <1>3, <2>4 DEF CancelEffect
  <2>5. CASE StopEffect(h)
    BY <2>5 DEF StopEffect
  <2> QED BY <1>1, <2>1, <2>2, <2>3, <2>4, <2>5
<1>5. \A g \in Hosts : Fine(hosts'[g])
  BY <1>1, <1>3, <1>4
<1> QED BY <1>5 DEF HostInv

\* A host that begins a message holds a channel that the server is not at work for.
LEMMA HostStepServer ==
  ASSUME TypeOK, ServerInv, OwnResponse, HostInv, ChannelInv, NEW h \in Hosts, HostStep(h)
  PROVE  ServerInv' /\ OwnResponse'
<1>1. /\ channels' = channels /\ server' = server
      /\ \A g \in Hosts : g # h => hosts'[g] = hosts[g]
      /\ \/ AskEffect(h) \/ BeginEffect(h) \/ ContinueEffect(h) \/ CancelEffect(h)
         \/ StopEffect(h)
  BY HostEffects
<1>2. \A g \in Hosts :
        \/ hosts'[g].frames = hosts[g].frames /\ hosts'[g].nr = hosts[g].nr
        \/ hosts'[g].frames = <<>>
  BY <1>1 DEF AskEffect, BeginEffect, ContinueEffect, CancelEffect, StopEffect
<1>3. OwnResponse'
  BY <1>2 DEF OwnResponse
<1>4. ASSUME server.at # "idle", NEW g \in Hosts, hosts'[g].chan = server.chan
      PROVE  /\ server.data[1].host = g /\ server.data[1].nr = hosts'[g].nr
             /\ hosts'[g].at \in {"sending", "waiting"}
  <2>1. server.chan # NoChannel
    <3>1. server.chan \in channels \cup {Broadcast}
      BY <1>4 DEF ServerInv
    <3> QED BY <3>1, HidAssumption DEF HidAssumption, TypeOK, Ids, NoChannel, Broadcast
  <2>2. hosts'[g].chan = hosts[g].chan
    BY <1>1, <1>4, <2>1
       DEF AskEffect, BeginEffect, ContinueEffect, CancelEffect, StopEffect
  <2>3. /\ server.data[1].host = g /\ server.data[1].nr = hosts[g].nr
        /\ hosts[g].at \in {"sending", "waiting"}
    BY <1>4, <2>2 DEF ServerInv
  <2> QED
    BY <1>1, <1>4, <2>1, <2>3
       DEF AskEffect, BeginEffect, ContinueEffect, CancelEffect, StopEffect
<1>5. ASSUME NEW g \in Hosts, hosts'[g].at = "waiting", hosts'[g].frames # <<>>
      PROVE  /\ server.at = "writing" /\ server.chan = hosts'[g].chan
             /\ hosts'[g].total = server.total
             /\ Len(hosts'[g].frames) + server.left = server.total
  <2>1. /\ hosts[g].at = "waiting" /\ hosts'[g].frames = hosts[g].frames
        /\ hosts'[g].chan = hosts[g].chan /\ hosts'[g].total = hosts[g].total
    BY <1>1, <1>5 DEF HostInv, AskEffect, BeginEffect, ContinueEffect, CancelEffect, StopEffect
  <2> QED BY <1>5, <2>1 DEF ServerInv
<1>6. ServerInv'
  BY <1>1, <1>4, <1>5 DEF ServerInv
<1> QED BY <1>3, <1>6

\* A packet joins the message that its host is sending, and only that.
LEMMA HostStepWhole ==
  ASSUME TypeInv, WholeInv, StreamInv, NEW h \in Hosts, HostStep(h)
  PROVE  WholeInv'
<1>0. /\ Length \in Nat /\ \A k \in 1 .. Length : Stream[k] \in Parts
      /\ hosts[h].sent \in Nat /\ hosts[h].size \in Nat
      /\ hosts[h].at = "sending" => hosts[h].sent < hosts[h].size
  <2>1. TypeOK /\ hosts[h] \in HostType /\ (hosts[h].at = "sending" => hosts[h].sent < hosts[h].size)
    BY DEF TypeInv, TypeOK, Progress, Sending
  <2>2. hosts[h].sent \in Nat
    BY <2>1, HidAssumption DEF HidAssumption, HostType
  <2>3. hosts[h].size \in Sizes
    BY <2>1 DEF HostType
  <2>4. \A size \in Sizes : size \in Nat
    BY HidAssumption DEF HidAssumption
  <2>5. hosts[h].size \in Nat
    BY <2>3, <2>4
  <2> QED BY <2>1, <2>2, <2>5, StreamType
<1>1. \/ AskEffect(h) \/ BeginEffect(h) \/ ContinueEffect(h) \/ CancelEffect(h)
      \/ StopEffect(h)
  BY HostEffects DEF TypeInv
<1>2. PICK part, size :
        /\ Appends(part, size)
        /\ \/ part.index = 1
           \/ ContinueEffect(h) /\ size = hosts[h].size
              /\ part = Sent(h, hosts[h].cmd, hosts[h].sent + 1, hosts[h].chan)
  <2>1. ASSUME NEW cmd, NEW chan PROVE Sent(h, cmd, 1, chan).index = 1
    BY DEF Sent
  <2>2. CASE AskEffect(h)
    BY <2>1, <2>2 DEF AskEffect
  <2>3. CASE BeginEffect(h)
    BY <2>1, <2>3 DEF BeginEffect
  <2>4. CASE ContinueEffect(h)
    BY <2>4 DEF ContinueEffect
  <2>5. CASE CancelEffect(h)
    BY <2>1, <2>5 DEF CancelEffect
  <2>6. CASE StopEffect(h)
    <3>1. Appends(Sent(h, "init", 1, Broadcast), 1)
      BY <1>0, <2>6 DEF StopEffect, Appends
    <3> QED BY <2>1, <3>1
  <2> QED BY <1>1, <2>2, <2>3, <2>4, <2>5, <2>6
<1>3. /\ Length' \in {Length, Length + 1}
      /\ \A i \in 1 .. Length : i \in 1 .. Length' /\ Stream'[i] = Stream[i]
      /\ \A i \in 1 .. Length : SizeAt(i)' = SizeAt(i)
      /\ \A i \in 1 .. Length' : i \notin 1 .. Length =>
           i = Length + 1 /\ Stream'[i] = part /\ SizeAt(i)' = size
  BY <1>0, <1>2 DEF Appends
<1> SUFFICES ASSUME NEW i \in 1 .. Length', NEW k \in 1 .. Length', Continues(i, k)'
             PROVE  /\ Stream'[k].nr = Stream'[i].nr /\ Stream'[k].cmd = Stream'[i].cmd
                    /\ Stream'[k].chan = Stream'[i].chan
                    /\ SizeAt(k)' = SizeAt(i)' /\ Stream'[k].index <= SizeAt(k)'
                    /\ \A j \in i .. k - 1 :
                         Stream'[j].host = Stream'[i].host => Stream'[j].index < Stream'[k].index
  BY DEF WholeInv
<1>4. /\ i < k /\ IsMessage(Stream'[i]) /\ Stream'[k].host = Stream'[i].host
      /\ \A j \in (i + 1) .. k : Stream'[j].host = Stream'[i].host => Stream'[j].index # 1
  BY DEF Continues, IsMessage
<1>5. i \in 1 .. Length /\ \A j \in i .. k - 1 : j \in 1 .. Length
  BY <1>0, <1>3, <1>4
<1>6. \A j \in i + 1 .. k : j \in 1 .. Length => Continues(i, j) \/ Stream[j].host # Stream[i].host
  <2> SUFFICES ASSUME NEW j \in i + 1 .. k, j \in 1 .. Length, Stream[j].host = Stream[i].host
               PROVE  Continues(i, j)
    OBVIOUS
  <2>1. \A l \in i + 1 .. j : l \in 1 .. Length /\ l \in (i + 1) .. k
    BY <1>0
  <2> QED BY <1>3, <1>4, <1>5, <2>1 DEF Continues
<1>7. CASE k \in 1 .. Length
  <2>1. Continues(i, k)
    BY <1>3, <1>4, <1>5, <1>6, <1>7
  <2>2. /\ Stream[k].nr = Stream[i].nr /\ Stream[k].cmd = Stream[i].cmd
        /\ Stream[k].chan = Stream[i].chan
        /\ SizeAt(k) = SizeAt(i) /\ Stream[k].index <= SizeAt(k)
        /\ \A j \in i .. k - 1 : Stream[j].host = Stream[i].host => Stream[j].index < Stream[k].index
    BY <1>5, <1>7, <2>1 DEF WholeInv
  <2> QED BY <1>3, <1>5, <1>7, <2>2
<1>8. CASE k \notin 1 .. Length
  <2>1. Stream'[k] = part /\ SizeAt(k)' = size /\ part.index # 1
    BY <1>3, <1>4, <1>8
  <2>2. /\ hosts[h].at = "sending" /\ size = hosts[h].size
        /\ part.host = h /\ part.nr = hosts'[h].nr /\ hosts'[h].nr = hosts[h].nr
        /\ part.cmd = hosts[h].cmd /\ part.index = hosts[h].sent + 1
        /\ part.chan = hosts[h].chan
    BY <1>2, <2>1 DEF ContinueEffect, Sent
  <2>3. IsMessage(Stream[i]) /\ Stream[i].host = h /\ PartInv(i)
    BY <1>3, <1>4, <1>5, <2>1, <2>2 DEF StreamInv
  <2>4. /\ Stream[i].nr = hosts[h].nr /\ Stream[i].chan = hosts[h].chan
        /\ Stream[i].cmd = hosts[h].cmd /\ SizeAt(i) = hosts[h].size
    BY <2>2, <2>3 DEF PartInv
  <2>5. ASSUME NEW j \in i .. k - 1, Stream'[j].host = Stream'[i].host
        PROVE  Stream'[j].index < part.index
    <3>1. j \in 1 .. Length /\ Stream'[j] = Stream[j] /\ Stream[j].host = h
      BY <1>3, <1>5, <2>3, <2>5
    <3>2. Stream[j].nr = hosts[h].nr
      <4>1. CASE j = i
        BY <2>4, <4>1
      <4>2. CASE j # i
        <5>1. j \in i + 1 .. k
          BY <4>2
        <5>2. Continues(i, j)
          BY <1>6, <2>3, <3>1, <5>1
        <5> QED BY <1>5, <2>4, <3>1, <5>2 DEF WholeInv
      <4> QED BY <4>1, <4>2
    <3>3. Stream[j].index <= hosts[h].sent
      BY <2>2, <3>1, <3>2 DEF StreamInv, PartInv
    <3>4. Stream[j].index \in Nat
      BY <1>0, <3>1, HidAssumption DEF HidAssumption, Parts
    <3> QED BY <1>0, <2>2, <3>1, <3>3, <3>4
  <2>6. part.index <= size
    BY <1>0, <2>2
  <2> QED BY <1>3, <1>5, <2>1, <2>2, <2>4, <2>5, <2>6
<1> QED BY <1>7, <1>8

\* A host that begins a message has none in the stream, and its packets go on its own
\* channel.
LEMMA HostStepStream ==
  ASSUME TypeInv, ChannelInv, HostInv, StreamInv, ServerInv, NEW h \in Hosts, HostStep(h)
  PROVE  StreamInv'
<1>0. /\ Length \in Nat /\ \A k \in 1 .. Length : Stream[k] \in Parts
      /\ hosts[h].sent \in Nat /\ hosts[h].nr \in Nat
  <2>1. TypeOK /\ hosts[h] \in HostType
    BY DEF TypeInv, TypeOK
  <2>2. hosts[h].sent \in Nat /\ hosts[h].nr \in Nat
    BY <2>1, HidAssumption DEF HidAssumption, HostType
  <2> QED BY <2>1, <2>2, StreamType
<1>1. /\ channels' = channels /\ server' = server
      /\ \A g \in Hosts : g # h => hosts'[g] = hosts[g]
      /\ \/ AskEffect(h) \/ BeginEffect(h) \/ ContinueEffect(h) \/ CancelEffect(h)
         \/ StopEffect(h)
  BY HostEffects DEF TypeInv
<1>2. NoChannel \notin channels \cup {Broadcast} /\ Broadcast \notin channels
  BY HidAssumption DEF HidAssumption, TypeInv, TypeOK, Ids, NoChannel, Broadcast
<1>3. hosts'[h].chan \in {hosts[h].chan, NoChannel}
  BY <1>1 DEF AskEffect, BeginEffect, ContinueEffect, CancelEffect, StopEffect
<1>4. ASSUME NEW i \in 1 .. Length, NEW part, NEW size, Appends(part, size)
      PROVE  /\ i \in 1 .. Length' /\ Stream'[i] = Stream[i] /\ SizeAt(i)' = SizeAt(i)
             /\ \A j \in 1 .. Length' : \/ j \in 1 .. Length /\ Stream'[j] = Stream[j]
                                        \/ Stream'[j] = part /\ j = Length + 1
  BY <1>0, <1>4 DEF Appends
<1>5. ASSUME NEW i \in 1 .. Length, StopEffect(h)
      PROVE  /\ i \in 1 .. Length' /\ Stream'[i] = Stream[i] /\ SizeAt(i)' = SizeAt(i)
             /\ \A j \in 1 .. Length' : j \in 1 .. Length /\ Stream'[j] = Stream[j]
  BY <1>5 DEF StopEffect
<1>6. \A cmd, index, chan : /\ Sent(h, cmd, index, chan).host = h
                            /\ Sent(h, cmd, index, chan).nr = hosts'[h].nr
                            /\ Sent(h, cmd, index, chan).cmd = cmd
                            /\ Sent(h, cmd, index, chan).index = index
                            /\ Sent(h, cmd, index, chan).chan = chan
  BY DEF Sent
<1>7. ASSUME NEW i \in 1 .. Length, Stream[i].host # h
      PROVE  PartInv(i)'
  <2>1. /\ Stream'[i] = Stream[i] /\ SizeAt(i)' = SizeAt(i)
        /\ \A j \in 1 .. Length' : \/ j \in 1 .. Length /\ Stream'[j] = Stream[j]
                                   \/ Stream'[j].host = h
    <3>1. CASE StopEffect(h)
      BY <1>5, <3>1
    <3>2. CASE AskEffect(h) \/ BeginEffect(h) \/ ContinueEffect(h) \/ CancelEffect(h)
      <4>1. PICK cmd, index, chan, size : Appends(Sent(h, cmd, index, chan), size)
        BY <3>2 DEF AskEffect, BeginEffect, ContinueEffect, CancelEffect
      <4> DEFINE part == Sent(h, cmd, index, chan)
      <4>2. part.host = h
        BY <1>6
      <4> HIDE DEF part
      <4>3. Appends(part, size)
        BY <4>1 DEF part
      <4> QED BY <1>4, <4>2, <4>3
    <3> QED BY <1>1, <3>1, <3>2
  <2>2. PartInv(i) /\ Stream[i] \in Parts
    BY <1>0 DEF StreamInv
  <2>3. Stream[i].host \in Hosts /\ hosts'[Stream[i].host] = hosts[Stream[i].host]
    BY <1>1, <1>7, <2>2 DEF Parts
  <2>4. \A g \in Hosts : hosts'[g].chan = Stream[i].chan => g = Stream[i].host
    BY <1>1, <1>2, <1>3, <2>2 DEF PartInv
  <2>5. \A j \in i + 1 .. Length' : j \in 1 .. Length'
    OBVIOUS
  <2>6. hosts[Stream[i].host].at = "init" /\ Stream[i].nr = hosts[Stream[i].host].nr =>
          \A j \in i + 1 .. Length' : Stream'[j].host # Stream[i].host
    <3> SUFFICES ASSUME hosts[Stream[i].host].at = "init",
                        Stream[i].nr = hosts[Stream[i].host].nr, NEW j \in i + 1 .. Length'
                 PROVE  Stream'[j].host # Stream[i].host
      OBVIOUS
    <3>1. CASE j \in 1 .. Length /\ Stream'[j] = Stream[j]
      <4>1. j \in i + 1 .. Length
        BY <3>1
      <4> QED BY <2>2, <3>1, <4>1 DEF PartInv
    <3>2. CASE Stream'[j].host = h
      BY <1>7, <3>2
    <3> QED BY <2>1, <2>5, <3>1, <3>2
  <2>7. ASSUME IsMessage(Stream[i]), hosts[Stream[i].host].at \in {"sending", "waiting"},
               NEW j \in 1 .. Length', IsMessage(Stream'[j]), Stream'[j].host = Stream[i].host
        PROVE  j = i
    BY <1>7, <2>1, <2>2, <2>7 DEF PartInv
  <2> QED BY <1>1, <2>1, <2>2, <2>3, <2>4, <2>6, <2>7 DEF PartInv, IsMessage
<1>8. ASSUME NEW i \in 1 .. Length, Stream[i].host = h
      PROVE  PartInv(i)'
  <2>1. PartInv(i) /\ Stream[i].nr \in Nat /\ Stream[i].index \in Nat
    <3>1. Stream[i] \in Parts
      BY <1>0
    <3> QED BY <3>1, HidAssumption DEF HidAssumption, Parts, StreamInv
  <2>2. \A g \in Hosts : hosts'[g].chan = Stream[i].chan => g = Stream[i].host
    BY <1>1, <1>2, <1>3, <2>1 DEF PartInv
  <2>3. CASE AskEffect(h)
    <3>1. Stream'[i] = Stream[i]
      BY <1>4, <2>3 DEF AskEffect
    <3>2. Stream[i].nr <= hosts'[h].nr /\ Stream[i].nr # hosts'[h].nr /\ hosts'[h].at = "init"
      BY <1>0, <1>8, <2>1, <2>3 DEF AskEffect, PartInv
    <3> QED BY <1>1, <1>8, <2>1, <2>2, <3>1, <3>2 DEF PartInv
  <2>4. CASE BeginEffect(h)
    <3>1. Stream'[i] = Stream[i] /\ ~IsMessage(Stream[i])
      BY <1>4, <1>8, <2>1, <2>4 DEF BeginEffect, PartInv
    <3>2. /\ Stream[i].nr <= hosts'[h].nr /\ Stream[i].nr # hosts'[h].nr
          /\ hosts'[h].at \in {"sending", "waiting"}
      BY <1>0, <1>8, <2>1, <2>4 DEF BeginEffect, PartInv
    <3> QED BY <1>1, <1>8, <2>1, <2>2, <3>1, <3>2 DEF PartInv, IsMessage
  <2>5. CASE ContinueEffect(h) \/ CancelEffect(h)
    <3>1. PICK part, size : /\ Appends(part, size) /\ ~IsMessage(part)
      <4>1. ~IsMessage(Sent(h, hosts[h].cmd, hosts[h].sent + 1, hosts[h].chan))
            \/ hosts[h].at # "sending"
        BY <1>0, <1>6 DEF IsMessage, HostInv
      <4>2. ~IsMessage(Sent(h, "cancel", 1, hosts[h].chan))
        BY <1>6 DEF IsMessage
      <4> QED BY <2>5, <4>1, <4>2 DEF ContinueEffect, CancelEffect
    <3>2. /\ Stream'[i] = Stream[i] /\ SizeAt(i)' = SizeAt(i)
          /\ \A j \in 1 .. Length' : \/ j \in 1 .. Length /\ Stream'[j] = Stream[j]
                                     \/ ~IsMessage(Stream'[j])
      BY <1>4, <3>1
    <3>3. /\ hosts[h].at \in {"sending", "waiting"} /\ hosts'[h].at \in {"sending", "waiting"}
          /\ hosts'[h].chan = hosts[h].chan /\ hosts'[h].nr = hosts[h].nr
          /\ hosts'[h].cmd = hosts[h].cmd /\ hosts'[h].size = hosts[h].size
      BY <2>5 DEF ContinueEffect, CancelEffect
    <3>4. hosts'[h].at = "sending" /\ Stream[i].nr = hosts'[h].nr =>
            Stream[i].index <= hosts'[h].sent
      <4>1. CASE ContinueEffect(h)
        <5>1. Stream[i].nr = hosts[h].nr => Stream[i].index <= hosts[h].sent
          BY <1>8, <2>1, <4>1 DEF ContinueEffect, PartInv
        <5> QED BY <1>0, <2>1, <4>1, <5>1 DEF ContinueEffect
      <4>2. CASE CancelEffect(h)
        BY <4>2 DEF CancelEffect
      <4> QED BY <2>5, <4>1, <4>2
    <3>5. IsMessage(Stream[i]) =>
            /\ Stream[i].nr = hosts'[h].nr /\ Stream[i].chan = hosts'[h].chan
            /\ Stream[i].cmd = hosts'[h].cmd /\ SizeAt(i) = hosts'[h].size
            /\ server.at # "idle" => server.chan # hosts'[h].chan
      BY <1>8, <2>1, <3>3 DEF PartInv
    <3>6. ASSUME IsMessage(Stream[i]), NEW j \in 1 .. Length', IsMessage(Stream'[j]),
                 Stream'[j].host = h
          PROVE  j = i
      BY <1>8, <2>1, <3>2, <3>3, <3>6 DEF PartInv
    <3> QED BY <1>1, <1>8, <2>1, <2>2, <3>2, <3>3, <3>4, <3>5, <3>6 DEF PartInv, IsMessage
  <2>6. CASE StopEffect(h)
    <3>1. Stream'[i] = Stream[i]
      BY <1>5, <2>6
    <3>2. hosts'[h].at = "off" /\ hosts'[h].nr = hosts[h].nr
      BY <2>6 DEF StopEffect
    <3> QED BY <1>1, <1>8, <2>1, <2>2, <3>1, <3>2 DEF PartInv
  <2> QED BY <1>1, <2>3, <2>4, <2>5, <2>6
<1>9. ASSUME NEW i \in 1 .. Length', i \notin 1 .. Length
      PROVE  PartInv(i)'
  <2>1. ~StopEffect(h)
    BY <1>9 DEF StopEffect
  <2>2. ASSUME NEW part, NEW size, Appends(part, size)
        PROVE  /\ Stream'[i] = part /\ SizeAt(i)' = size /\ Length' = i
               /\ \A j \in i + 1 .. Length' : FALSE
               /\ \A j \in 1 .. Length' : j # i => j \in 1 .. Length /\ Stream'[j] = Stream[j]
    <3>1. Length' = Length + 1 /\ i = Length + 1
      BY <1>0, <1>9, <2>2 DEF Appends
    <3> QED BY <1>0, <1>9, <2>2, <3>1 DEF Appends
  <2>3. CASE AskEffect(h)
    <3> DEFINE part == Sent(h, "init", 1, Broadcast)
    <3>1. part.host = h /\ part.nr = hosts'[h].nr /\ part.chan = Broadcast /\ ~IsMessage(part)
      BY <1>6 DEF IsMessage
    <3> HIDE DEF part
    <3>2. Stream'[i] = part /\ \A j \in i + 1 .. Length' : FALSE
      BY <2>2, <2>3 DEF AskEffect, part
    <3>3. \A g \in Hosts : hosts'[g].chan # Broadcast
      <4>1. NoChannel # Broadcast
        BY <1>2
      <4>2. \A g \in Hosts : hosts[g].chan # Broadcast
        BY <1>2, <4>1 DEF ChannelInv
      <4> QED BY <1>1, <1>3, <4>1, <4>2
    <3>4. hosts'[h].at = "init" /\ hosts'[h].nr <= hosts'[h].nr
      BY <1>0, <2>3 DEF AskEffect
    <3> QED BY <3>1, <3>2, <3>3, <3>4 DEF PartInv, IsMessage
  <2>4. CASE BeginEffect(h) \/ ContinueEffect(h) \/ CancelEffect(h)
    <3>1. /\ hosts[h].at \in {"ready", "sending", "waiting"}
          /\ hosts'[h].at \in {"sending", "waiting"} /\ hosts'[h].chan = hosts[h].chan
          /\ hosts'[h].nr <= hosts'[h].nr
      BY <1>0, <2>4 DEF BeginEffect, ContinueEffect, CancelEffect
    <3>2. hosts[h].chan \in channels /\ hosts[h].chan # NoChannel
      BY <3>1 DEF HostInv, ChannelInv
    <3>3. \A g \in Hosts : hosts'[g].chan = hosts[h].chan => g = h
      BY <1>1, <3>2 DEF ChannelInv, OneHostPerChannel
    <3>4. PICK part, size :
            /\ Appends(part, size)
            /\ part.host = h /\ part.nr = hosts'[h].nr /\ part.chan = hosts[h].chan
            /\ hosts'[h].at = "sending" => part.index <= hosts'[h].sent
            /\ IsMessage(part) => /\ BeginEffect(h) /\ part.cmd = hosts'[h].cmd
                                  /\ size = hosts'[h].size
      <4>1. CASE BeginEffect(h)
        <5> DEFINE part == Sent(h, hosts'[h].cmd, 1, hosts[h].chan)
        <5>1. /\ part.host = h /\ part.nr = hosts'[h].nr /\ part.chan = hosts[h].chan
              /\ part.index = 1 /\ part.cmd = hosts'[h].cmd
          BY <1>6
        <5> HIDE DEF part
        <5>2. Appends(part, hosts'[h].size) /\ part.index <= hosts'[h].sent
          BY <4>1, <5>1 DEF BeginEffect, part
        <5> QED BY <4>1, <5>1, <5>2
      <4>2. CASE ContinueEffect(h)
        <5> DEFINE part == Sent(h, hosts[h].cmd, hosts[h].sent + 1, hosts[h].chan)
        <5>1. /\ part.host = h /\ part.nr = hosts'[h].nr /\ part.chan = hosts[h].chan
              /\ part.index = hosts[h].sent + 1
          BY <1>6
        <5> HIDE DEF part
        <5>2. Appends(part, hosts[h].size)
          BY <4>2 DEF ContinueEffect, part
        <5>3. 1 <= hosts[h].sent /\ hosts'[h].sent = hosts[h].sent + 1
          BY <4>2 DEF ContinueEffect, HostInv
        <5>4. part.index <= hosts'[h].sent /\ ~IsMessage(part)
          BY <1>0, <5>1, <5>3 DEF IsMessage
        <5> QED BY <5>1, <5>2, <5>4
      <4>3. CASE CancelEffect(h)
        <5> DEFINE part == Sent(h, "cancel", 1, hosts[h].chan)
        <5>1. /\ part.host = h /\ part.nr = hosts'[h].nr /\ part.chan = hosts[h].chan
              /\ part.cmd = "cancel"
          BY <1>6
        <5> HIDE DEF part
        <5>2. Appends(part, 1) /\ hosts'[h].at # "sending"
          BY <4>3 DEF CancelEffect, part
        <5> QED BY <5>1, <5>2 DEF IsMessage
      <4> QED BY <2>4, <4>1, <4>2, <4>3
    <3>5. /\ Stream'[i] = part /\ SizeAt(i)' = size
          /\ \A j \in i + 1 .. Length' : FALSE
          /\ \A j \in 1 .. Length' : j # i => j \in 1 .. Length /\ Stream'[j] = Stream[j]
      BY <2>2, <3>4
    <3>6. ASSUME IsMessage(part)
          PROVE  /\ part.cmd = hosts'[h].cmd /\ size = hosts'[h].size
                 /\ \A j \in 1 .. Length' : IsMessage(Stream'[j]) /\ Stream'[j].host = h => j = i
                 /\ server.at # "idle" => server.chan # hosts'[h].chan
      <4>1. hosts[h].at = "ready" /\ part.cmd = hosts'[h].cmd /\ size = hosts'[h].size
        BY <3>4, <3>6 DEF BeginEffect
      <4>2. \A j \in 1 .. Length : Stream[j].host = h => ~IsMessage(Stream[j])
        BY <4>1 DEF StreamInv, PartInv
      <4>3. server.at # "idle" => server.chan # hosts[h].chan
        BY <4>1 DEF ServerInv
      <4> QED BY <3>1, <3>5, <4>1, <4>2, <4>3
    <3> QED BY <1>1, <3>1, <3>2, <3>3, <3>4, <3>5, <3>6 DEF PartInv, IsMessage
  <2> QED BY <1>1, <2>1, <2>3, <2>4
<1> QED BY <1>7, <1>8, <1>9 DEF StreamInv

-----------------------------------------------------------------------------
\* A step that touches neither the assembly nor the queue leaves the stream
\* alone.
LEMMA SameStream ==
  ASSUME TypeOK, run'.data = run.data, run'.need = run.need, queue' = queue
  PROVE  Drops(0)
<1>1. Length' = Length /\ Length \in Nat
  BY StreamType DEF Length
<1>2. \A i \in 1 .. Length' : i + 0 = i /\ Stream'[i] = Stream[i] /\ SizeAt(i)' = SizeAt(i)
  BY <1>1 DEF Length, Stream, SizeAt
<1> QED BY <1>1, <1>2 DEF Drops

\* A host becomes ready for its next message only when its last is out of the stream,
\* and what the server takes leaves it.
LEMMA StreamShifts ==
  ASSUME TypeOK, StreamInv, NEW d, Drops(d), channels \subseteq channels',
         \A h \in Hosts :
           /\ hosts'[h].nr = hosts[h].nr
           /\ hosts'[h].chan = hosts[h].chan \/ hosts'[h].chan \notin channels \cup {Broadcast}
           /\ hosts'[h].at = "init" => hosts[h].at = "init"
           /\ hosts'[h].at = "sending" => hosts'[h] = hosts[h]
           /\ hosts'[h].at = "waiting" =>
                /\ hosts[h].at = "waiting" /\ hosts'[h].chan = hosts[h].chan
                /\ hosts'[h].cmd = hosts[h].cmd /\ hosts'[h].size = hosts[h].size
           /\ hosts'[h].at = "ready" =>
                \A i \in d + 1 .. Length : IsMessage(Stream[i]) => Stream[i].host # h,
         \A h \in Hosts : \A i \in d + 1 .. Length :
           server'.at # "idle" /\ IsMessage(Stream[i]) /\ Stream[i].host = h
             /\ hosts[h].at \in {"sending", "waiting"} => server'.chan # hosts[h].chan
  PROVE  StreamInv'
<1>1. /\ Length \in Nat /\ d \in Nat /\ Length' = Length - d
      /\ \A k \in 1 .. Length : Stream[k] \in Parts
  BY StreamType DEF Drops
<1>2. \A i \in 1 .. Length' :
        i + d \in 1 .. Length /\ i + d \in d + 1 .. Length /\ Stream'[i] = Stream[i + d]
  BY <1>1 DEF Drops
<1> SUFFICES ASSUME NEW i \in 1 .. Length' PROVE PartInv(i)'
  BY DEF StreamInv
<1> DEFINE k == i + d
           part == Stream[k]
           g == part.host
<1>3. /\ k \in 1 .. Length /\ k \in d + 1 .. Length /\ Stream'[i] = part /\ PartInv(k)
      /\ part \in Parts /\ g \in Hosts
  <2>1. k \in 1 .. Length /\ k \in d + 1 .. Length /\ Stream'[i] = part
    BY <1>2
  <2>2. PartInv(k) /\ part \in Parts
    BY <1>1, <2>1 DEF StreamInv
  <2> QED BY <2>1, <2>2 DEF Parts
<1>4. IsMessage(part) => SizeAt(i)' = SizeAt(k)
  BY DEF Drops
<1>5. k - d = i
  BY <1>1
<1> HIDE DEF k
<1>6. part.chan \in channels' \cup {Broadcast}
  BY <1>3 DEF PartInv
<1>7. \A h \in Hosts : hosts'[h].chan = part.chan => h = g
  BY <1>3 DEF PartInv
<1>8. part.nr <= hosts'[g].nr
  BY <1>3 DEF PartInv
<1>9. hosts'[g].at = "init" /\ part.nr = hosts'[g].nr =>
        \A j \in i + 1 .. Length' : Stream'[j].host # g
  <2> SUFFICES ASSUME hosts'[g].at = "init", part.nr = hosts'[g].nr, NEW j \in i + 1 .. Length'
               PROVE  Stream'[j].host # g
    OBVIOUS
  <2>1. j + d \in k + 1 .. Length /\ j \in 1 .. Length'
    BY <1>1, <1>5, <1>3
  <2>2. Stream'[j] = Stream[j + d]
    BY <1>2, <2>1
  <2>3. hosts[g].at = "init" /\ part.nr = hosts[g].nr
    BY <1>3
  <2> QED BY <1>3, <2>1, <2>2, <2>3 DEF PartInv
<1>10. hosts'[g].at = "sending" /\ part.nr = hosts'[g].nr => part.index <= hosts'[g].sent
  BY <1>3 DEF PartInv
<1>11. IsMessage(part) => hosts'[g].at # "ready"
  BY <1>3
<1>12. ASSUME IsMessage(part), hosts'[g].at \in {"sending", "waiting"}
       PROVE  /\ part.nr = hosts'[g].nr /\ part.chan = hosts'[g].chan /\ part.cmd = hosts'[g].cmd
              /\ SizeAt(i)' = hosts'[g].size
              /\ \A j \in 1 .. Length' : IsMessage(Stream'[j]) /\ Stream'[j].host = g => j = i
              /\ server'.at # "idle" => server'.chan # hosts'[g].chan
  <2>1. /\ hosts[g].at \in {"sending", "waiting"} /\ hosts'[g].nr = hosts[g].nr
        /\ hosts'[g].chan = hosts[g].chan /\ hosts'[g].cmd = hosts[g].cmd
        /\ hosts'[g].size = hosts[g].size
    BY <1>3, <1>12
  <2>2. /\ part.nr = hosts[g].nr /\ part.chan = hosts[g].chan /\ part.cmd = hosts[g].cmd
        /\ SizeAt(k) = hosts[g].size
        /\ \A j \in 1 .. Length : IsMessage(Stream[j]) /\ Stream[j].host = g => j = k
    BY <1>3, <1>12, <2>1 DEF PartInv
  <2>3. ASSUME NEW j \in 1 .. Length', IsMessage(Stream'[j]), Stream'[j].host = g
        PROVE  j = i
    <3>1. j + d = k
      BY <1>2, <2>2, <2>3
    <3> QED BY <1>1, <1>5, <3>1
  <2>4. server'.at # "idle" => server'.chan # hosts[g].chan
    BY <1>3, <1>12, <2>1
  <2> QED BY <1>4, <1>12, <2>1, <2>2, <2>3, <2>4
<1> QED
  BY <1>3, <1>6, <1>7, <1>8, <1>9, <1>10, <1>11, <1>12 DEF PartInv, IsMessage

\* A host reads the frame it waits for, and no other.
Reads(h, frames, total) ==
  /\ hosts[h].at = "waiting"
  /\ hosts'[h].nr = hosts[h].nr /\ hosts'[h].chan = hosts[h].chan
  /\ hosts'[h].cmd = hosts[h].cmd /\ hosts'[h].size = hosts[h].size
  /\ hosts'[h].frames = frames /\ hosts'[h].total = total
  /\ hosts'[h].at \in {"waiting", "ready"}
  /\ hosts'[h].at = "ready" <=> Len(frames) = total

ReadsFirst(h, chan, cmd, total, to) ==
  IF hosts[h].at = "waiting" /\ hosts[h].chan = chan /\ hosts[h].cmd = cmd
  THEN Reads(h, <<to>>, total)
  ELSE hosts'[h] = hosts[h]

ReadsNext(h, chan, to) ==
  IF hosts[h].at = "waiting" /\ hosts[h].chan = chan /\ hosts[h].frames # <<>>
  THEN Reads(h, Append(hosts[h].frames, to), hosts[h].total)
  ELSE hosts'[h] = hosts[h]

\* Reading a frame changes only what has been read, and the host is ready
\* after the last one.
LEMMA ReadReads ==
  ASSUME TypeOK, NEW h \in Hosts, NEW frames, NEW total, hosts[h].at = "waiting",
         hosts'[h] = [hosts[h] EXCEPT !.frames = frames, !.total = total,
                                      !.at = IF Len(frames) = total THEN "ready" ELSE @]
  PROVE  Reads(h, frames, total)
<1> DEFINE r == [hosts[h] EXCEPT !.frames = frames, !.total = total,
                                 !.at = IF Len(frames) = total THEN "ready" ELSE @]
<1>1. hosts[h] \in HostType
  BY DEF TypeOK
<1>2. /\ r.nr = hosts[h].nr /\ r.chan = hosts[h].chan /\ r.cmd = hosts[h].cmd
      /\ r.size = hosts[h].size /\ r.frames = frames /\ r.total = total
      /\ r.at = IF Len(frames) = total THEN "ready" ELSE hosts[h].at
  BY <1>1 DEF HostType
<1>3. hosts'[h] = r
  OBVIOUS
<1> HIDE DEF r
<1> QED BY <1>2, <1>3 DEF Reads

\* Who reads the first frame of a response: those that wait on its channel
\* for a response to its command.
LEMMA FirstFrame ==
  ASSUME TypeOK, NEW h \in Hosts, NEW chan, NEW cmd, NEW total, NEW to,
         WriteFrame(chan, cmd, TRUE, total, to)
  PROVE  ReadsFirst(h, chan, cmd, total, to)
<1> DEFINE frame == [chan |-> chan, cmd |-> cmd, initial |-> TRUE, total |-> total, to |-> to]
<1>1. hosts'[h] = Read(h, frame)
  BY DEF WriteFrame
<1>2. Awaits(h, frame) <=>
        hosts[h].at = "waiting" /\ hosts[h].chan = chan /\ hosts[h].cmd = cmd
  BY DEF Awaits
<1>3. CASE Awaits(h, frame)
  <2>1. hosts'[h] = [hosts[h] EXCEPT !.frames = <<to>>, !.total = total,
                                     !.at = IF Len(<<to>>) = total THEN "ready" ELSE @]
    BY <1>1, <1>3 DEF Read
  <2> QED BY <1>2, <1>3, <2>1, ReadReads DEF ReadsFirst
<1>4. CASE ~Awaits(h, frame)
  BY <1>1, <1>2, <1>4 DEF Read, ReadsFirst
<1> QED BY <1>3, <1>4

\* Who reads a further frame: those that are in the middle of a response on
\* its channel.
LEMMA NextFrame ==
  ASSUME TypeOK, NEW h \in Hosts, NEW chan, NEW cmd, NEW total, NEW to,
         WriteFrame(chan, cmd, FALSE, total, to)
  PROVE  ReadsNext(h, chan, to)
<1> DEFINE frame == [chan |-> chan, cmd |-> cmd, initial |-> FALSE, total |-> total, to |-> to]
           frames == Append(hosts[h].frames, to)
<1>1. hosts'[h] = Read(h, frame)
  BY DEF WriteFrame
<1>2. Awaits(h, frame) <=>
        hosts[h].at = "waiting" /\ hosts[h].chan = chan /\ hosts[h].frames # <<>>
  BY DEF Awaits
<1>3. CASE Awaits(h, frame)
  <2>1. hosts'[h] = [hosts[h] EXCEPT !.frames = frames, !.total = hosts[h].total,
                                     !.at = IF Len(frames) = hosts[h].total THEN "ready" ELSE @]
    BY <1>1, <1>3 DEF Read
  <2> HIDE DEF frames
  <2>2. Reads(h, frames, hosts[h].total)
    BY <1>2, <1>3, <2>1, ReadReads
  <2> QED BY <1>2, <1>3, <2>2 DEF ReadsNext, frames
<1>4. CASE ~Awaits(h, frame)
  BY <1>1, <1>2, <1>4 DEF Read, ReadsNext
<1> QED BY <1>3, <1>4

\* What keeps messages and responses together.
MessageInv == RunInv /\ WholeInv /\ HostInv /\ StreamInv /\ ServerInv /\ OwnResponse

\* Assembling packets keeps MessageInv: what is put together is the beginning
\* of the stream.
LEMMA ReceiveStep == TypeInv /\ MessageInv /\ Receive => MessageInv'
<1> SUFFICES ASSUME TypeInv, MessageInv, Receive PROVE MessageInv'
  OBVIOUS
<1>1. TypeOK /\ RunInv /\ WholeInv /\ StreamInv
  BY DEF TypeInv, MessageInv
<1>2. RunInv' /\ \E d \in Nat : Drops(d)
  BY <1>1, ReceiveDrops
<1>3. PICK d \in Nat : Drops(d)
  BY <1>2
<1>4. channels' = channels /\ server' = server /\ hosts' = hosts
  BY DEF Receive
<1>5. \A i \in d + 1 .. Length : i \in 1 .. Length /\ PartInv(i)
  BY <1>1 DEF StreamInv
<1>6. StreamInv'
  <2>1. \A h \in Hosts : hosts'[h].at = "ready" =>
           \A i \in d + 1 .. Length : IsMessage(Stream[i]) => Stream[i].host # h
    BY <1>4, <1>5 DEF PartInv
  <2>2. \A h \in Hosts : \A i \in d + 1 .. Length :
          server'.at # "idle" /\ IsMessage(Stream[i]) /\ Stream[i].host = h
            /\ hosts[h].at \in {"sending", "waiting"} => server'.chan # hosts[h].chan
    BY <1>4, <1>5 DEF PartInv
  <2> QED BY <1>1, <1>3, <1>4, <2>1, <2>2, StreamShifts
<1>7. WholeInv'
  BY <1>1, <1>3, WholeShifts
<1>8. HostInv' /\ ServerInv' /\ OwnResponse'
  BY <1>4 DEF MessageInv, HostInv, ServerInv, OwnResponse
<1> QED BY <1>2, <1>6, <1>7, <1>8 DEF MessageInv

\* The message that Run holds is one of the host whose channel it is on, and the
\* rest of the stream has no other of this host.
LEMMA HeldMessage ==
  ASSUME TypeInv, ChannelInv, MessageInv, run.data # <<>>
  PROVE  /\ run.data[1] = Stream[1] /\ run.data[1].chan = run.chan /\ run.data[1].cmd = run.cmd
         /\ run.chan \in channels \cup {Broadcast} /\ run.chan # NoChannel
         /\ \A h \in Hosts : hosts[h].chan = run.chan => run.data[1].host = h
         /\ \A h \in Hosts :
              hosts[h].chan = run.chan /\ run.cmd \notin {"init", "cancel"} =>
                 /\ hosts[h].at \in {"sending", "waiting"} /\ run.data[1].nr = hosts[h].nr
                 /\ server.at # "idle" => server.chan # hosts[h].chan
                 /\ \A i \in Len(run.data) + 1 .. Length :
                      IsMessage(Stream[i]) => Stream[i].host # h
<1>1. TypeOK /\ run.data \in Seq(Parts) /\ RunInv /\ StreamInv /\ HostInv
  BY DEF TypeInv, TypeOK, RunType, MessageInv
<1>2. 1 \in DOMAIN run.data /\ Len(run.data) \in Nat /\ Len(run.data) >= 1
  BY <1>1
<1>3. 1 \in 1 .. Length /\ Stream[1] = run.data[1] /\ Length \in Nat
  BY <1>1, <1>2, StreamType
<1>4. /\ run.data[1].index = 1 /\ run.data[1].chan = run.chan /\ run.data[1].cmd = run.cmd
  BY <1>1 DEF RunInv
<1>5. PartInv(1)
  BY <1>1, <1>3 DEF StreamInv
<1>6. run.chan \in channels \cup {Broadcast} /\ run.chan # NoChannel
  <2>1. run.chan \in channels \cup {Broadcast}
    BY <1>3, <1>4, <1>5 DEF PartInv
  <2> QED BY <1>1, <2>1, HidAssumption DEF HidAssumption, TypeOK, Ids, NoChannel, Broadcast
<1>7. \A h \in Hosts : hosts[h].chan = run.chan => run.data[1].host = h
  BY <1>3, <1>4, <1>5 DEF PartInv
<1>8. ASSUME NEW h \in Hosts, hosts[h].chan = run.chan, run.cmd \notin {"init", "cancel"}
      PROVE  /\ hosts[h].at \in {"sending", "waiting"} /\ run.data[1].nr = hosts[h].nr
             /\ server.at # "idle" => server.chan # hosts[h].chan
             /\ \A i \in Len(run.data) + 1 .. Length :
                  IsMessage(Stream[i]) => Stream[i].host # h
  <2>1. Stream[1].host = h /\ IsMessage(Stream[1])
    BY <1>3, <1>4, <1>7, <1>8 DEF IsMessage
  <2>2. hosts[h].at \in {"sending", "waiting"}
    <3>1. hosts[h].at \in {"off", "init", "ready", "sending", "waiting"}
      BY <1>1 DEF TypeOK, HostType
    <3>2. hosts[h].at \notin {"off", "init"}
      BY <1>1, <1>6, <1>8 DEF HostInv
    <3>3. hosts[h].at # "ready"
      BY <1>5, <2>1 DEF PartInv
    <3> QED BY <3>1, <3>2, <3>3
  <2>3. /\ run.data[1].nr = hosts[h].nr
        /\ server.at # "idle" => server.chan # hosts[h].chan
        /\ \A j \in 1 .. Length : IsMessage(Stream[j]) /\ Stream[j].host = h => j = 1
    BY <1>3, <1>5, <2>1, <2>2 DEF PartInv
  <2>4. \A i \in Len(run.data) + 1 .. Length : i \in 1 .. Length /\ i # 1
    BY <1>2
  <2> QED BY <2>2, <2>3, <2>4
<1> QED BY <1>3, <1>4, <1>6, <1>7, <1>8

\* The server takes the message that Run has put together, and owes its
\* sender a response.
LEMMA TakeEventStep == TypeInv /\ ChannelInv /\ MessageInv /\ TakeEvent => MessageInv'
<1> SUFFICES ASSUME TypeInv, ChannelInv, MessageInv, TakeEvent PROVE MessageInv'
  OBVIOUS
<1>1. TypeOK /\ RunInv /\ WholeInv /\ StreamInv /\ ServerInv
  BY DEF TypeInv, MessageInv
<1>2. /\ run' = Reading /\ queue' = queue /\ channels' = channels /\ hosts' = hosts
      /\ run.at = "offering" /\ server.at = "idle"
      /\ server'.at = "working" /\ server'.chan = run.chan /\ server'.data = run.data
  BY DEF TakeEvent, IdleServer
<1>3. RunInv' /\ \E d \in Nat : Drops(d) /\ d = Len(run.data)
  BY <1>1, <1>2, ReadingDrops
<1>4. PICK d \in Nat : Drops(d) /\ d = Len(run.data)
  BY <1>3
<1>5. run.data # <<>> /\ run.cmd \notin {"init", "cancel"}
  BY <1>1, <1>2 DEF RunInv, ForServer
<1>6. /\ run.chan \in channels \cup {Broadcast}
      /\ \A h \in Hosts : hosts[h].chan = run.chan =>
           /\ run.data[1].host = h
           /\ hosts[h].at \in {"sending", "waiting"} /\ run.data[1].nr = hosts[h].nr
           /\ \A i \in d + 1 .. Length : IsMessage(Stream[i]) => Stream[i].host # h
  BY <1>4, <1>5, HeldMessage
<1>7. \A i \in d + 1 .. Length : i \in 1 .. Length /\ PartInv(i)
  BY <1>1 DEF StreamInv
<1>8. StreamInv'
  <2>1. \A h \in Hosts : hosts'[h].at = "ready" =>
           \A i \in d + 1 .. Length : IsMessage(Stream[i]) => Stream[i].host # h
    BY <1>2, <1>7 DEF PartInv
  <2>2. \A h \in Hosts : \A i \in d + 1 .. Length :
          server'.at # "idle" /\ IsMessage(Stream[i]) /\ Stream[i].host = h
            /\ hosts[h].at \in {"sending", "waiting"} => server'.chan # hosts[h].chan
    BY <1>2, <1>6
  <2> QED BY <1>1, <1>2, <1>4, <2>1, <2>2, StreamShifts
<1>9. WholeInv'
  BY <1>1, <1>4, WholeShifts
<1>10. HostInv' /\ OwnResponse'
  BY <1>2 DEF MessageInv, HostInv, OwnResponse
<1>11. ServerInv'
  BY <1>1, <1>2, <1>5, <1>6 DEF ServerInv
<1> QED BY <1>3, <1>8, <1>9, <1>10, <1>11 DEF MessageInv

\* The host that asked has sent nothing since, so that nothing of its own is left when
\* it gets its channel.
LEMMA AllocateStep == TypeInv /\ ChannelInv /\ MessageInv /\ AllocateChan => MessageInv'
<1> SUFFICES ASSUME TypeInv, ChannelInv, MessageInv, AllocateChan PROVE MessageInv'
  OBVIOUS
<1>1. TypeOK /\ RunInv /\ WholeInv /\ StreamInv /\ ServerInv /\ HostInv /\ OwnResponse
  BY DEF TypeInv, MessageInv
<1>2. run.at = "answering" /\ run.cmd = "init" /\ queue' = queue /\ server' = server
      /\ run \in RunType /\ run.data \in Seq(Parts)
  BY <1>1 DEF AllocateChan, TypeOK, RunType
<1>3. run.data # <<>>
  BY <1>1, <1>2 DEF RunInv
<1>4. \A i \in 1 .. Length : PartInv(i)
  BY <1>1 DEF StreamInv
<1>5. CASE run' = [run EXCEPT !.at = "dead"] /\ UNCHANGED <<channels, hosts>>
  <2>1. /\ run'.data = run.data /\ run'.need = run.need /\ run'.chan = run.chan
        /\ run'.cmd = run.cmd /\ run'.at = "dead"
    BY <1>2, <1>5 DEF RunType
  <2>2. Drops(0)
    BY <1>1, <1>2, <2>1, SameStream
  <2>3. RunInv'
    BY <1>1, <1>2, <1>3, <2>1 DEF RunInv
  <2>4. WholeInv'
    BY <1>1, <2>2, WholeShifts
  <2>5. StreamInv'
    <3>1. \A i \in 0 + 1 .. Length : PartInv(i)
      BY <1>4
    <3>2. \A h \in Hosts : hosts'[h].at = "ready" =>
             \A i \in 0 + 1 .. Length : IsMessage(Stream[i]) => Stream[i].host # h
      BY <1>5, <3>1 DEF PartInv
    <3>3. \A h \in Hosts : \A i \in 0 + 1 .. Length :
            server'.at # "idle" /\ IsMessage(Stream[i]) /\ Stream[i].host = h
              /\ hosts[h].at \in {"sending", "waiting"} => server'.chan # hosts[h].chan
      BY <1>2, <3>1 DEF PartInv
    <3> QED BY <1>1, <1>5, <2>2, <3>2, <3>3, StreamShifts
  <2>6. HostInv' /\ ServerInv' /\ OwnResponse'
    BY <1>1, <1>2, <1>5 DEF HostInv, ServerInv, OwnResponse
  <2> QED BY <2>3, <2>4, <2>5, <2>6 DEF MessageInv
<1>6. CASE \E id \in Channels :
             /\ IsFree(id)
             /\ Record(id)
             /\ hosts' = [h \in Hosts |-> ReadInit(h, id, run.data[1])]
             /\ run' = Reading
  <2>1. PICK id \in Channels :
               /\ IsFree(id) /\ Record(id)
               /\ hosts' = [h \in Hosts |-> ReadInit(h, id, run.data[1])]
               /\ run' = Reading
    BY <1>6
  <2>2. id \notin channels \cup {Broadcast} /\ id # NoChannel /\ channels' = channels \cup {id}
        /\ NoChannel \notin channels \cup {Broadcast}
    BY <1>1, <2>1, HidAssumption
       DEF IsFree, Record, Ids, NoChannel, Broadcast, HidAssumption, TypeOK
  <2>3. RunInv' /\ \E d \in Nat : Drops(d) /\ d = Len(run.data)
    BY <1>1, <1>2, <2>1, ReadingDrops
  <2>4. PICK d \in Nat : Drops(d) /\ d = Len(run.data)
    BY <2>3
  <2>5. /\ d >= 1 /\ 1 \in 1 .. Length /\ Stream[1] = run.data[1] /\ Length \in Nat
    <3>1. 1 \in DOMAIN run.data /\ d >= 1
      BY <1>2, <1>3, <2>4
    <3> QED BY <1>1, <3>1, StreamType
  <2>6. ASSUME NEW h \in Hosts
        PROVE  \/ hosts'[h] = hosts[h]
               \/ /\ hosts[h].at = "init" /\ run.data[1].host = h /\ run.data[1].nr = hosts[h].nr
                  /\ hosts'[h].at = "ready" /\ hosts'[h].chan = id
                  /\ hosts'[h].nr = hosts[h].nr /\ hosts'[h].frames = hosts[h].frames
    <3> DEFINE r == [hosts[h] EXCEPT !.at = "ready", !.chan = id]
    <3>1. hosts[h] \in HostType
      BY <1>1 DEF TypeOK
    <3>2. r.at = "ready" /\ r.chan = id /\ r.nr = hosts[h].nr /\ r.frames = hosts[h].frames
      BY <3>1 DEF HostType
    <3>3. hosts'[h] = ReadInit(h, id, run.data[1])
      BY <2>1
    <3>4. hosts'[h] = IF /\ hosts[h].at = "init" /\ run.data[1].host = h
                         /\ run.data[1].nr = hosts[h].nr
                      THEN r ELSE hosts[h]
      BY <3>3 DEF ReadInit
    <3> HIDE DEF r
    <3> QED BY <3>2, <3>4
  <2>7. ASSUME NEW h \in Hosts, hosts'[h].at = "ready", NEW i \in d + 1 .. Length,
               IsMessage(Stream[i])
        PROVE  Stream[i].host # h
    <3>1. i \in 1 .. Length /\ i \in 1 + 1 .. Length
      BY <2>5
    <3>2. CASE hosts'[h] = hosts[h]
      BY <1>4, <2>7, <3>1, <3>2 DEF PartInv
    <3>3. CASE hosts[h].at = "init" /\ run.data[1].host = h /\ run.data[1].nr = hosts[h].nr
      BY <1>4, <2>5, <3>1, <3>3 DEF PartInv
    <3> QED BY <2>6, <3>2, <3>3
  <2>8. StreamInv'
    <3>1. \A i \in d + 1 .. Length : i \in 1 .. Length
      OBVIOUS
    <3>2. \A h \in Hosts : \A i \in d + 1 .. Length :
            server'.at # "idle" /\ IsMessage(Stream[i]) /\ Stream[i].host = h
              /\ hosts[h].at \in {"sending", "waiting"} => server'.chan # hosts[h].chan
      BY <1>2, <1>4, <3>1 DEF PartInv
    <3>3. \A h \in Hosts :
           /\ hosts'[h].nr = hosts[h].nr
           /\ hosts'[h].chan = hosts[h].chan \/ hosts'[h].chan \notin channels \cup {Broadcast}
           /\ hosts'[h].at = "init" => hosts[h].at = "init"
           /\ hosts'[h].at = "sending" => hosts'[h] = hosts[h]
           /\ hosts'[h].at = "waiting" =>
                /\ hosts[h].at = "waiting" /\ hosts'[h].chan = hosts[h].chan
                /\ hosts'[h].cmd = hosts[h].cmd /\ hosts'[h].size = hosts[h].size
           /\ hosts'[h].at = "ready" =>
                \A i \in d + 1 .. Length : IsMessage(Stream[i]) => Stream[i].host # h
      BY <2>2, <2>6, <2>7
    <3>4. channels \subseteq channels'
      BY <2>2
    <3> QED BY <1>1, <2>4, <3>2, <3>3, <3>4, StreamShifts
  <2>9. WholeInv'
    BY <1>1, <2>4, WholeShifts
  <2>10. HostInv'
    BY <1>1, <2>2, <2>6 DEF HostInv
  <2>11. OwnResponse'
    BY <1>1, <2>6 DEF OwnResponse
  <2>12. ServerInv'
    <3>1. \A h \in Hosts : hosts'[h].chan \in channels \cup {Broadcast} => hosts'[h] = hosts[h]
      BY <2>2, <2>6
    <3>2. \A h \in Hosts : hosts'[h].at = "waiting" => hosts'[h] = hosts[h]
      BY <2>6
    <3> QED BY <1>1, <1>2, <2>2, <3>1, <3>2 DEF ServerInv
  <2> QED BY <2>3, <2>8, <2>9, <2>10, <2>11, <2>12 DEF MessageInv
<1> QED BY <1>5, <1>6 DEF AllocateChan

\* The error for a command that Run does not know reaches the host that sent it.
LEMMA UnsupportedStep == TypeInv /\ ChannelInv /\ MessageInv /\ Unsupported => MessageInv'
<1> SUFFICES ASSUME TypeInv, ChannelInv, MessageInv, Unsupported PROVE MessageInv'
  OBVIOUS
<1>1. TypeOK /\ RunInv /\ WholeInv /\ StreamInv /\ ServerInv /\ HostInv /\ OwnResponse
  BY DEF TypeInv, MessageInv
<1>2. /\ run' = Reading /\ queue' = queue /\ server' = server /\ channels' = channels
      /\ WriteFrame(run.chan, run.cmd, TRUE, 1, run.data) /\ run.data \in Seq(Parts)
      /\ 1 \in 0 .. MaxSize
  <2>1. 1 \in 0 .. MaxSize
    <3>1. \A size \in Sizes : size \in 0 .. MaxSize
      BY HidAssumption DEF HidAssumption
    <3> QED BY <3>1, HidAssumption DEF HidAssumption
  <2>2. run.data \in Seq(Parts)
    BY <1>1 DEF TypeOK, RunType
  <2> QED BY <2>1, <2>2 DEF Unsupported
<1>3. RunInv' /\ \E d \in Nat : Drops(d) /\ d = Len(run.data)
  BY <1>1, <1>2, ReadingDrops
<1>4. PICK d \in Nat : Drops(d) /\ d = Len(run.data)
  BY <1>3
<1>5. ASSUME NEW h \in Hosts
      PROVE  \/ hosts'[h] = hosts[h]
             \/ /\ hosts[h].at = "waiting" /\ hosts[h].chan = run.chan /\ hosts[h].cmd = run.cmd
                /\ hosts'[h].nr = hosts[h].nr /\ hosts'[h].chan = hosts[h].chan
                /\ hosts'[h].frames = <<run.data>> /\ hosts'[h].at = "ready"
  <2>1. ReadsFirst(h, run.chan, run.cmd, 1, run.data)
    BY <1>1, <1>2, FirstFrame
  <2>2. Len(<<run.data>>) = 1
    OBVIOUS
  <2> QED BY <2>1, <2>2 DEF ReadsFirst, Reads
<1>6. ASSUME NEW h \in Hosts, hosts[h].at = "waiting", hosts[h].chan = run.chan,
             hosts[h].cmd = run.cmd
      PROVE  /\ run.data # <<>> /\ run.data[1].host = h /\ run.data[1].nr = hosts[h].nr
             /\ server.at # "idle" => server.chan # hosts[h].chan
             /\ \A i \in d + 1 .. Length : IsMessage(Stream[i]) => Stream[i].host # h
  <2>1. hosts[h].chan # NoChannel /\ hosts[h].cmd \notin {"init", "cancel"}
    BY <1>1, <1>6 DEF HostInv
  <2>2. run.data # <<>>
    BY <1>1, <1>6, <2>1 DEF RunInv
  <2> QED BY <1>4, <1>6, <2>1, <2>2, HeldMessage
<1>7. \A i \in d + 1 .. Length : i \in 1 .. Length /\ PartInv(i)
  BY <1>1 DEF StreamInv
<1>8. StreamInv'
  <2>1. \A h \in Hosts : hosts'[h].at = "ready" =>
           \A i \in d + 1 .. Length : IsMessage(Stream[i]) => Stream[i].host # h
    BY <1>5, <1>6, <1>7 DEF PartInv
  <2>2. \A h \in Hosts : \A i \in d + 1 .. Length :
          server'.at # "idle" /\ IsMessage(Stream[i]) /\ Stream[i].host = h
            /\ hosts[h].at \in {"sending", "waiting"} => server'.chan # hosts[h].chan
    BY <1>2, <1>7 DEF PartInv
  <2>3. \A h \in Hosts :
         /\ hosts'[h].nr = hosts[h].nr
         /\ hosts'[h].chan = hosts[h].chan \/ hosts'[h].chan \notin channels \cup {Broadcast}
         /\ hosts'[h].at = "init" => hosts[h].at = "init"
         /\ hosts'[h].at = "sending" => hosts'[h] = hosts[h]
         /\ hosts'[h].at = "waiting" =>
              /\ hosts[h].at = "waiting" /\ hosts'[h].chan = hosts[h].chan
              /\ hosts'[h].cmd = hosts[h].cmd /\ hosts'[h].size = hosts[h].size
         /\ hosts'[h].at = "ready" =>
              \A i \in d + 1 .. Length : IsMessage(Stream[i]) => Stream[i].host # h
    BY <1>5, <2>1
  <2> QED BY <1>1, <1>2, <1>4, <2>2, <2>3, StreamShifts
<1>9. WholeInv'
  BY <1>1, <1>4, WholeShifts
<1>10. HostInv'
  BY <1>1, <1>5 DEF HostInv
<1>11. OwnResponse'
  <2>1. \A h \in Hosts : hosts'[h].frames # hosts[h].frames =>
          /\ hosts'[h].frames = <<run.data>> /\ run.data # <<>> /\ run.data[1].host = h
          /\ run.data[1].nr = hosts'[h].nr
    <3> SUFFICES ASSUME NEW h \in Hosts, hosts'[h].frames # hosts[h].frames
                 PROVE  /\ hosts'[h].frames = <<run.data>> /\ run.data # <<>>
                        /\ run.data[1].host = h /\ run.data[1].nr = hosts'[h].nr
      OBVIOUS
    <3>1. /\ hosts[h].at = "waiting" /\ hosts[h].chan = run.chan /\ hosts[h].cmd = run.cmd
          /\ hosts'[h].nr = hosts[h].nr /\ hosts'[h].frames = <<run.data>>
      BY <1>5
    <3> QED BY <1>6, <3>1
  <2>2. \A h \in Hosts : hosts'[h].nr = hosts[h].nr
    BY <1>5
  <2>3. \A i \in DOMAIN <<run.data>> : <<run.data>>[i] = run.data
    OBVIOUS
  <2> QED BY <1>1, <2>1, <2>2, <2>3 DEF OwnResponse
<1>12. ServerInv'
  <2>1. \A h \in Hosts : hosts'[h].at = "waiting" => hosts'[h] = hosts[h]
    BY <1>5
  <2>2. \A h \in Hosts : server.at # "idle" /\ hosts'[h].chan = server.chan =>
           hosts'[h] = hosts[h]
    BY <1>5, <1>6
  <2> QED BY <1>1, <1>2, <2>1, <2>2 DEF ServerInv
<1> QED BY <1>3, <1>8, <1>9, <1>10, <1>11, <1>12 DEF MessageInv

\* A step of the server leaves the stream, and a host that reads its frame waits for the
\* message the server works on, which is in the stream no more.
LEMMA ServerKeepsStream ==
  ASSUME TypeOK, MessageInv, server.at # "idle", UNCHANGED <<queue, run, channels>>,
         server'.at # "idle" => server'.chan = server.chan,
         \A h \in Hosts : hosts'[h] = hosts[h] \/
           /\ hosts[h].at = "waiting" /\ hosts[h].chan = server.chan
           /\ hosts'[h].nr = hosts[h].nr /\ hosts'[h].chan = hosts[h].chan
           /\ hosts'[h].cmd = hosts[h].cmd /\ hosts'[h].size = hosts[h].size
           /\ hosts'[h].at \in {"waiting", "ready"}
  PROVE  RunInv' /\ WholeInv' /\ StreamInv' /\ HostInv'
<1>1. RunInv /\ WholeInv /\ StreamInv /\ HostInv
  BY DEF MessageInv
<1>2. Drops(0) /\ RunInv'
  BY <1>1, SameStream DEF RunInv
<1>3. \A i \in 0 + 1 .. Length : PartInv(i)
  BY <1>1 DEF StreamInv
<1>4. ASSUME NEW h \in Hosts, hosts'[h].at = "ready", NEW i \in 0 + 1 .. Length,
             IsMessage(Stream[i])
      PROVE  Stream[i].host # h
  <2>1. CASE hosts'[h] = hosts[h]
    BY <1>3, <1>4, <2>1 DEF PartInv
  <2>2. CASE hosts[h].at = "waiting" /\ hosts[h].chan = server.chan
    BY <1>3, <1>4, <2>2 DEF PartInv
  <2> QED BY <2>1, <2>2
<1>5. \A h \in Hosts : \A i \in 0 + 1 .. Length :
        server'.at # "idle" /\ IsMessage(Stream[i]) /\ Stream[i].host = h
          /\ hosts[h].at \in {"sending", "waiting"} => server'.chan # hosts[h].chan
  BY <1>3 DEF PartInv
<1>6. \A h \in Hosts :
       /\ hosts'[h].nr = hosts[h].nr
       /\ hosts'[h].chan = hosts[h].chan \/ hosts'[h].chan \notin channels \cup {Broadcast}
       /\ hosts'[h].at = "init" => hosts[h].at = "init"
       /\ hosts'[h].at = "sending" => hosts'[h] = hosts[h]
       /\ hosts'[h].at = "waiting" =>
            /\ hosts[h].at = "waiting" /\ hosts'[h].chan = hosts[h].chan
            /\ hosts'[h].cmd = hosts[h].cmd /\ hosts'[h].size = hosts[h].size
       /\ hosts'[h].at = "ready" =>
            \A i \in 0 + 1 .. Length : IsMessage(Stream[i]) => Stream[i].host # h
  BY <1>4
<1>7. StreamInv'
  BY <1>1, <1>2, <1>5, <1>6, StreamShifts
<1>8. WholeInv'
  BY <1>1, <1>2, WholeShifts
<1>9. HostInv'
  BY <1>1 DEF HostInv
<1> QED BY <1>2, <1>7, <1>8, <1>9

\* The server's response reaches the host whose message it works on, which has read all
\* the frames written before, and no other.
LEMMA RespondStep ==
  ASSUME TypeInv, MessageInv, NEW total \in Sizes, Respond(total)
  PROVE  MessageInv'
<1>1. /\ TypeOK /\ RunInv /\ WholeInv /\ StreamInv /\ ServerInv /\ HostInv /\ OwnResponse
      /\ server \in ServerType
  BY DEF TypeInv, TypeOK, MessageInv
<1>2. total \in 0 .. MaxSize /\ total \in Nat /\ total >= 1
  <2>1. \A size \in Sizes : size \in 0 .. MaxSize /\ size \in Nat /\ size >= 1
    BY HidAssumption DEF HidAssumption
  <2> QED BY <2>1
<1>3. /\ server.at = "working" /\ UNCHANGED <<queue, run, channels>>
      /\ WriteFrame(server.chan, server.cmd, TRUE, total, server.data)
      /\ server.data \in Seq(Parts)
  BY <1>1 DEF Respond, ServerType
<1>4. \/ total = 1 /\ server'.at = "idle"
      \/ /\ total # 1 /\ server'.at = "writing" /\ server'.chan = server.chan
         /\ server'.data = server.data /\ server'.total = total /\ server'.left = total - 1
  BY <1>1 DEF Respond, IdleServer, ServerType
<1>5. ASSUME NEW h \in Hosts
      PROVE  \/ hosts'[h] = hosts[h]
             \/ /\ hosts[h].at = "waiting" /\ hosts[h].chan = server.chan
                /\ hosts'[h].nr = hosts[h].nr /\ hosts'[h].chan = hosts[h].chan
                /\ hosts'[h].cmd = hosts[h].cmd /\ hosts'[h].size = hosts[h].size
                /\ hosts'[h].frames = <<server.data>> /\ hosts'[h].total = total
                /\ hosts'[h].at \in {"ready", "waiting"} /\ (hosts'[h].at = "ready" <=> total = 1)
  <2>1. ReadsFirst(h, server.chan, server.cmd, total, server.data)
    BY <1>1, <1>3, FirstFrame
  <2>2. Len(<<server.data>>) = 1
    OBVIOUS
  <2> QED BY <2>1, <2>2 DEF ReadsFirst, Reads
<1>6. ASSUME NEW h \in Hosts, hosts[h].chan = server.chan
      PROVE  /\ server.data # <<>> /\ server.data[1].host = h
             /\ server.data[1].nr = hosts[h].nr
             /\ hosts[h].at \in {"sending", "waiting"}
  BY <1>1, <1>3, <1>6 DEF ServerInv
<1>7. RunInv' /\ WholeInv' /\ StreamInv' /\ HostInv'
  <2>1. server'.at # "idle" => server'.chan = server.chan
    BY <1>4
  <2>2. \A h \in Hosts : hosts'[h] = hosts[h] \/
           /\ hosts[h].at = "waiting" /\ hosts[h].chan = server.chan
           /\ hosts'[h].nr = hosts[h].nr /\ hosts'[h].chan = hosts[h].chan
           /\ hosts'[h].cmd = hosts[h].cmd /\ hosts'[h].size = hosts[h].size
           /\ hosts'[h].at \in {"waiting", "ready"}
    BY <1>5
  <2> QED BY <1>1, <1>3, <2>1, <2>2, ServerKeepsStream
<1>8. OwnResponse'
  <2>1. \A i \in DOMAIN <<server.data>> : <<server.data>>[i] = server.data
    OBVIOUS
  <2> SUFFICES ASSUME NEW h \in Hosts, NEW i \in DOMAIN hosts'[h].frames
               PROVE  /\ hosts'[h].frames[i] # <<>> /\ hosts'[h].frames[i][1].host = h
                      /\ hosts'[h].frames[i][1].nr = hosts'[h].nr
    BY DEF OwnResponse
  <2>2. CASE hosts'[h] = hosts[h]
    BY <1>1, <2>2 DEF OwnResponse
  <2>3. CASE /\ hosts[h].chan = server.chan /\ hosts'[h].nr = hosts[h].nr
             /\ hosts'[h].frames = <<server.data>>
    BY <1>6, <2>1, <2>3
  <2> QED BY <1>5, <2>2, <2>3
<1>9. ServerInv'
  <2>1. ASSUME server'.at # "idle"
        PROVE  /\ server'.data # <<>> /\ server'.chan \in channels \cup {Broadcast}
               /\ server'.chan = server.chan /\ server'.data = server.data /\ total # 1
    BY <1>1, <1>3, <1>4, <2>1 DEF ServerInv
  <2>2. ASSUME server'.at # "idle", NEW h \in Hosts, hosts'[h].chan = server'.chan
        PROVE  /\ server'.data[1].host = h /\ server'.data[1].nr = hosts'[h].nr
               /\ hosts'[h].at \in {"sending", "waiting"}
    <3>1. hosts[h].chan = server.chan /\ hosts'[h].nr = hosts[h].nr
      BY <1>5, <2>1, <2>2
    <3>2. hosts'[h].at = hosts[h].at \/ hosts'[h].at = "waiting"
      BY <1>5, <2>1, <2>2
    <3> QED BY <1>6, <2>1, <2>2, <3>1, <3>2
  <2>3. ASSUME NEW h \in Hosts, hosts'[h].at = "waiting", hosts'[h].frames # <<>>
        PROVE  /\ server'.at = "writing" /\ server'.chan = hosts'[h].chan
               /\ hosts'[h].total = server'.total
               /\ Len(hosts'[h].frames) + server'.left = server'.total
    <3>1. hosts'[h] # hosts[h]
      BY <1>1, <1>3, <2>3 DEF ServerInv
    <3>2. /\ hosts[h].chan = server.chan /\ hosts'[h].chan = hosts[h].chan /\ total # 1
          /\ hosts'[h].frames = <<server.data>> /\ hosts'[h].total = total
      BY <1>5, <2>3, <3>1
    <3>3. Len(<<server.data>>) = 1
      OBVIOUS
    <3> QED BY <1>2, <1>4, <3>2, <3>3
  <2> QED BY <1>3, <2>1, <2>2, <2>3 DEF ServerInv
<1> QED BY <1>7, <1>8, <1>9 DEF MessageInv

\* A host that has read the first frame reads every other, up to the last.
LEMMA RespondMoreStep ==
  ASSUME TypeInv, MessageInv, RespondMore
  PROVE  MessageInv'
<1>1. /\ TypeOK /\ RunInv /\ WholeInv /\ StreamInv /\ ServerInv /\ HostInv /\ OwnResponse
      /\ server \in ServerType
  BY DEF TypeInv, TypeOK, MessageInv
<1>2. /\ server.at = "writing" /\ UNCHANGED <<queue, run, channels>>
      /\ WriteFrame(server.chan, server.cmd, FALSE, server.total, server.data)
      /\ server.data \in Seq(Parts) /\ server.left \in Nat /\ server.total \in Nat
  <2>1. /\ server.data \in Seq(Parts) /\ server.left \in 0 .. MaxSize
        /\ server.total \in 0 .. MaxSize
    BY <1>1 DEF ServerType
  <2>2. server.left \in Nat /\ server.total \in Nat
    BY <2>1
  <2> QED BY <2>1, <2>2 DEF RespondMore
<1>3. \/ server.left = 1 /\ server'.at = "idle"
      \/ /\ server.left # 1 /\ server'.at = "writing" /\ server'.chan = server.chan
         /\ server'.data = server.data /\ server'.total = server.total
         /\ server'.left = server.left - 1
  BY <1>1, <1>2 DEF RespondMore, IdleServer, ServerType
<1>4. ASSUME NEW h \in Hosts
      PROVE  ReadsNext(h, server.chan, server.data)
  BY <1>1, <1>2, NextFrame
<1>5. ASSUME NEW h \in Hosts, hosts[h].chan = server.chan
      PROVE  /\ server.data # <<>> /\ server.data[1].host = h
             /\ server.data[1].nr = hosts[h].nr
             /\ hosts[h].at \in {"sending", "waiting"}
  BY <1>1, <1>2, <1>5 DEF ServerInv
<1>6. ASSUME NEW h \in Hosts
      PROVE  /\ hosts[h].frames \in Seq(Seq(Parts)) /\ Len(hosts[h].frames) \in Nat
             /\ Len(Append(hosts[h].frames, server.data)) = Len(hosts[h].frames) + 1
             /\ \A i \in DOMAIN Append(hosts[h].frames, server.data) :
                  \/ i \in DOMAIN hosts[h].frames
                     /\ Append(hosts[h].frames, server.data)[i] = hosts[h].frames[i]
                  \/ Append(hosts[h].frames, server.data)[i] = server.data
  <2>1. hosts[h].frames \in Seq(Seq(Parts))
    BY <1>1 DEF TypeOK, HostType
  <2> DEFINE frames == Append(hosts[h].frames, server.data)
  <2>2. /\ frames \in Seq(Seq(Parts)) /\ Len(frames) = Len(hosts[h].frames) + 1
        /\ \A i \in 1 .. Len(hosts[h].frames) : frames[i] = hosts[h].frames[i]
        /\ frames[Len(hosts[h].frames) + 1] = server.data
    BY <1>2, <2>1, AppendProperties
  <2> HIDE DEF frames
  <2>3. /\ Len(hosts[h].frames) \in Nat /\ DOMAIN hosts[h].frames = 1 .. Len(hosts[h].frames)
        /\ DOMAIN frames = 1 .. Len(hosts[h].frames) + 1
    BY <2>1, <2>2
  <2>4. ASSUME NEW i \in DOMAIN frames
        PROVE  \/ i \in DOMAIN hosts[h].frames /\ frames[i] = hosts[h].frames[i]
               \/ frames[i] = server.data
    <3>1. CASE i = Len(hosts[h].frames) + 1
      BY <2>2, <3>1
    <3>2. CASE i # Len(hosts[h].frames) + 1
      <4>1. i \in 1 .. Len(hosts[h].frames)
        BY <2>3, <2>4, <3>2
      <4> QED BY <2>2, <2>3, <4>1
    <3> QED BY <3>1, <3>2
  <2> QED BY <2>1, <2>2, <2>3, <2>4 DEF frames
<1>7. RunInv' /\ WholeInv' /\ StreamInv' /\ HostInv'
  <2>1. server'.at # "idle" => server'.chan = server.chan
    BY <1>3
  <2>2. \A h \in Hosts : hosts'[h] = hosts[h] \/
           /\ hosts[h].at = "waiting" /\ hosts[h].chan = server.chan
           /\ hosts'[h].nr = hosts[h].nr /\ hosts'[h].chan = hosts[h].chan
           /\ hosts'[h].cmd = hosts[h].cmd /\ hosts'[h].size = hosts[h].size
           /\ hosts'[h].at \in {"waiting", "ready"}
    BY <1>4 DEF ReadsNext, Reads
  <2> QED BY <1>1, <1>2, <2>1, <2>2, ServerKeepsStream
<1>8. OwnResponse'
  <2> SUFFICES ASSUME NEW h \in Hosts, NEW i \in DOMAIN hosts'[h].frames
               PROVE  /\ hosts'[h].frames[i] # <<>> /\ hosts'[h].frames[i][1].host = h
                      /\ hosts'[h].frames[i][1].nr = hosts'[h].nr
    BY DEF OwnResponse
  <2>1. CASE hosts'[h] = hosts[h]
    BY <1>1, <2>1 DEF OwnResponse
  <2>2. CASE /\ hosts[h].chan = server.chan /\ hosts'[h].nr = hosts[h].nr
             /\ hosts'[h].frames = Append(hosts[h].frames, server.data)
    <3>1. \/ i \in DOMAIN hosts[h].frames /\ hosts'[h].frames[i] = hosts[h].frames[i]
          \/ hosts'[h].frames[i] = server.data
      BY <1>6, <2>2
    <3> QED BY <1>1, <1>5, <2>2, <3>1 DEF OwnResponse
  <2> QED BY <1>4, <2>1, <2>2 DEF ReadsNext, Reads
<1>9. ServerInv'
  <2>1. ASSUME NEW h \in Hosts, hosts[h].at = "waiting", hosts[h].frames # <<>>
        PROVE  /\ server.chan = hosts[h].chan /\ hosts[h].total = server.total
               /\ Len(hosts[h].frames) + server.left = server.total
    BY <1>1, <2>1 DEF ServerInv
  <2>2. ASSUME server'.at # "idle"
        PROVE  /\ server'.data # <<>> /\ server'.chan \in channels \cup {Broadcast}
               /\ server'.chan = server.chan /\ server'.data = server.data
               /\ server.left # 1
    BY <1>1, <1>2, <1>3, <2>2 DEF ServerInv
  <2>3. ASSUME server'.at # "idle", NEW h \in Hosts, hosts'[h].chan = server'.chan
        PROVE  /\ server'.data[1].host = h /\ server'.data[1].nr = hosts'[h].nr
               /\ hosts'[h].at \in {"sending", "waiting"}
    <3>1. hosts[h].chan = server.chan /\ hosts'[h].nr = hosts[h].nr
      BY <1>4, <2>2, <2>3 DEF ReadsNext, Reads
    <3>2. hosts'[h].at = hosts[h].at \/ hosts'[h].at = "waiting"
      <4>1. CASE hosts[h].at = "waiting" /\ hosts[h].frames # <<>>
        <5>1. Reads(h, Append(hosts[h].frames, server.data), hosts[h].total)
          BY <1>4, <3>1, <4>1 DEF ReadsNext
        <5>2. Len(hosts[h].frames) + 1 # hosts[h].total
          BY <1>2, <1>6, <2>1, <2>2, <2>3, <4>1
        <5> QED BY <1>6, <5>1, <5>2 DEF Reads
      <4>2. CASE ~(hosts[h].at = "waiting" /\ hosts[h].frames # <<>>)
        BY <1>4, <4>2 DEF ReadsNext
      <4> QED BY <4>1, <4>2
    <3>3. /\ server.data[1].host = h /\ server.data[1].nr = hosts[h].nr
          /\ hosts[h].at \in {"sending", "waiting"}
      BY <1>5, <3>1
    <3> QED BY <2>2, <2>3, <3>1, <3>2, <3>3
  <2>4. ASSUME NEW h \in Hosts, hosts'[h].at = "waiting", hosts'[h].frames # <<>>
        PROVE  /\ server'.at = "writing" /\ server'.chan = hosts'[h].chan
               /\ hosts'[h].total = server'.total
               /\ Len(hosts'[h].frames) + server'.left = server'.total
    <3>1. hosts[h].at = "waiting" /\ hosts[h].frames # <<>>
      BY <1>4, <2>4 DEF ReadsNext, Reads
    <3>2. /\ server.chan = hosts[h].chan /\ hosts[h].total = server.total
          /\ Len(hosts[h].frames) + server.left = server.total
      BY <2>1, <3>1
    <3>3. Reads(h, Append(hosts[h].frames, server.data), hosts[h].total)
      BY <1>4, <3>1, <3>2 DEF ReadsNext
    <3>4. /\ hosts'[h].chan = hosts[h].chan /\ hosts'[h].total = server.total
          /\ hosts'[h].frames = Append(hosts[h].frames, server.data)
          /\ Len(hosts[h].frames) + 1 # server.total
      BY <1>6, <2>4, <3>2, <3>3 DEF Reads
    <3>5. server.left # 1
      BY <3>2, <3>4
    <3>6. /\ server'.at = "writing" /\ server'.chan = server.chan
          /\ server'.total = server.total /\ server'.left = server.left - 1
      BY <1>3, <3>5
    <3>7. /\ Len(hosts'[h].frames) = Len(hosts[h].frames) + 1
          /\ Len(hosts[h].frames) \in Nat
      BY <1>6, <3>4
    <3>8. Len(hosts'[h].frames) + server'.left = server'.total
      <4>1. \A n \in Nat : n + server.left = server.total =>
                            (n + 1) + (server.left - 1) = server.total
        BY <1>2
      <4>2. (Len(hosts[h].frames) + 1) + (server.left - 1) = server.total
        BY <3>2, <3>7, <4>1
      <4> QED BY <3>6, <3>7, <4>2
    <3> QED BY <3>2, <3>4, <3>6, <3>8
  <2> QED BY <1>2, <2>2, <2>3, <2>4 DEF ServerInv
<1> QED BY <1>7, <1>8, <1>9 DEF MessageInv

\* Each step keeps MessageInv.
LEMMA MessageStep == TypeInv /\ ChannelInv /\ MessageInv /\ [Next]_vars => MessageInv'
<1> SUFFICES ASSUME TypeInv, ChannelInv, MessageInv, [Next]_vars PROVE MessageInv'
  OBVIOUS
<1>1. TypeOK /\ RunInv /\ WholeInv /\ HostInv /\ StreamInv /\ ServerInv /\ OwnResponse
  BY DEF TypeInv, MessageInv
<1>2. ASSUME NEW h \in Hosts, HostStep(h) PROVE MessageInv'
  <2>1. RunInv'
    BY <1>1, <1>2, HostEffects DEF RunInv
  <2>2. WholeInv' /\ HostInv' /\ StreamInv' /\ ServerInv' /\ OwnResponse'
    BY <1>1, <1>2, HostStepWhole, HostStepHosts, HostStepStream, HostStepServer
  <2> QED BY <2>1, <2>2 DEF MessageInv
<1>3. CASE Ignore
  <2>1. UNCHANGED <<queue, run, channels, hosts>> /\ server.at = "working" /\ server'.at = "idle"
    BY <1>3 DEF Ignore, IdleServer
  <2>2. RunInv' /\ WholeInv' /\ StreamInv' /\ HostInv'
    BY <1>1, <2>1, ServerKeepsStream
  <2>3. ServerInv' /\ OwnResponse'
    BY <1>1, <2>1 DEF ServerInv, OwnResponse
  <2> QED BY <2>2, <2>3 DEF MessageInv
<1>4. CASE UNCHANGED vars
  <2>1. UNCHANGED <<queue, run, channels, server, hosts>>
    BY <1>4 DEF vars
  <2>2. RunInv' /\ HostInv' /\ ServerInv' /\ OwnResponse'
    BY <1>1, <2>1 DEF RunInv, HostInv, ServerInv, OwnResponse
  <2>3. WholeInv'
    BY <1>1, <2>1, SameStream, WholeShifts
  <2>4. StreamInv'
    <3>1. Length' = Length
      BY <2>1 DEF Length
    <3>2. \A i \in 1 .. Length : Stream'[i] = Stream[i] /\ SizeAt(i)' = SizeAt(i)
      BY <2>1 DEF Stream, SizeAt, Length
    <3>3. ASSUME NEW i \in 1 .. Length PROVE PartInv(i)'
      <4>1. PartInv(i)
        BY <1>1 DEF StreamInv
      <4> QED BY <2>1, <3>1, <3>2, <4>1 DEF PartInv, IsMessage
    <3> QED BY <3>1, <3>3 DEF StreamInv
  <2> QED BY <2>2, <2>3, <2>4 DEF MessageInv
<1> QED
  BY <1>2, <1>3, <1>4, ReceiveStep, AllocateStep, UnsupportedStep, TakeEventStep, RespondStep,
     RespondMoreStep DEF Next, RunStep, ServerStep

\* At first the stream is empty and nobody waits.
LEMMA MessageInit == Init => MessageInv
<1> SUFFICES ASSUME Init PROVE MessageInv
  OBVIOUS
<1>1. /\ run.data = <<>> /\ run.need = 0 /\ run.chan = NoChannel /\ run.cmd = "none"
      /\ run.at = "reading" /\ queue = <<>> /\ server.at = "idle"
  BY DEF Init, Reading, IdleServer
<1>2. \A h \in Hosts : /\ hosts[h].at = "off" /\ hosts[h].chan = NoChannel
                       /\ hosts[h].frames = <<>>
  BY DEF Init, Off
<1>3. Length = 0
  BY <1>1 DEF Length
<1>4. RunInv
  BY <1>1 DEF RunInv
<1>5. WholeInv /\ StreamInv
  BY <1>3 DEF WholeInv, StreamInv
<1>6. HostInv /\ ServerInv /\ OwnResponse
  BY <1>1, <1>2 DEF HostInv, ServerInv, OwnResponse
<1> QED BY <1>4, <1>5, <1>6 DEF MessageInv

\* A message of one host has its packets in order, and as many as it has numbers.
LEMMA OfferedIsWhole == TypeInv /\ MessageInv => MessageIsWhole
<1> SUFFICES ASSUME TypeInv, MessageInv, run.at = "offering"
             PROVE  LET first == run.data[1] IN
                    /\ first.index = 1 /\ run.chan = first.chan /\ run.cmd = first.cmd
                    /\ (\A i \in DOMAIN run.data : run.data[i].host = first.host)
                         => \A i \in DOMAIN run.data : run.data[i] = [first EXCEPT !.index = i]
  BY DEF MessageIsWhole
<1> DEFINE first == run.data[1]
           n == Len(run.data)
<1>1. /\ TypeOK /\ RunInv /\ WholeInv /\ run.data \in Seq(Parts)
      /\ run.need \in Sizes \cup {0} /\ n \in Nat /\ DOMAIN run.data = 1 .. n
  BY DEF TypeInv, TypeOK, RunType, MessageInv
<1>2. /\ run.data # <<>> /\ run.cmd \in ForServer
      /\ first.index = 1 /\ run.chan = first.chan /\ run.cmd = first.cmd
      /\ \A i \in 1 .. n : i # 1 => run.data[i].index # 1
      /\ n <= run.need /\ ~(n < run.need)
  BY <1>1 DEF RunInv
<1>3. n >= 1 /\ n = run.need
  <2>1. run.need \in Nat
    <3>1. \A size \in Sizes : size \in Nat
      BY HidAssumption DEF HidAssumption
    <3>2. CASE run.need \in Sizes
      BY <3>1, <3>2
    <3>3. CASE run.need = 0
      BY <3>3
    <3> QED BY <1>1, <3>2, <3>3
  <2> HIDE DEF n
  <2>2. n = run.need
    BY <1>1, <1>2, <2>1
  <2>3. n # 0
    BY <1>1, <1>2 DEF n
  <2> QED BY <1>1, <2>2, <2>3
<1>4. \A i \in 1 .. n : /\ i \in 1 .. Length /\ Stream[i] = run.data[i] /\ SizeAt(i) = n
                        /\ run.data[i] \in Parts
  BY <1>1, <1>3, StreamType DEF SizeAt
<1> SUFFICES ASSUME \A i \in 1 .. n : run.data[i].host = first.host
             PROVE  \A i \in 1 .. n : run.data[i] = [first EXCEPT !.index = i]
  BY <1>1, <1>2
<1>5. ASSUME NEW k \in 1 .. n, k # 1
      PROVE  Continues(1, k)
  <2>1. IsMessage(Stream[1])
    BY <1>2, <1>3, <1>4 DEF IsMessage, ForServer
  <2>2. \A j \in 1 + 1 .. k : j \in 1 .. n /\ j # 1
    BY <1>1, <1>5
  <2> QED BY <1>2, <1>3, <1>4, <1>5, <2>1, <2>2 DEF Continues
<1>6. ASSUME NEW k \in 1 .. n, k # 1
      PROVE  /\ run.data[k].nr = first.nr /\ run.data[k].cmd = first.cmd
             /\ run.data[k].chan = first.chan /\ run.data[k].index <= n
             /\ \A j \in 1 .. k - 1 : run.data[j].index < run.data[k].index
  <2>1. /\ 1 \in 1 .. Length /\ k \in 1 .. Length /\ Stream[1] = first /\ Stream[k] = run.data[k]
        /\ SizeAt(k) = n
    BY <1>3, <1>4, <1>6
  <2>2. /\ Stream[k].nr = Stream[1].nr /\ Stream[k].cmd = Stream[1].cmd
        /\ Stream[k].chan = Stream[1].chan /\ Stream[k].index <= SizeAt(k)
        /\ \A j \in 1 .. k - 1 : Stream[j].host = Stream[1].host => Stream[j].index < Stream[k].index
    BY <1>1, <1>5, <1>6, <2>1 DEF WholeInv
  <2>3. \A j \in 1 .. k - 1 : j \in 1 .. n
    BY <1>1
  <2> QED BY <1>4, <2>1, <2>2, <2>3
<1> DEFINE f == [k \in 1 .. n |-> run.data[k].index]
<1>7. \A k \in 1 .. n : f[k] \in 1 .. n
  <2> SUFFICES ASSUME NEW k \in 1 .. n PROVE run.data[k].index \in 1 .. n
    OBVIOUS
  <2>1. run.data[k].index \in Nat /\ run.data[k].index >= 1
    BY <1>4, HidAssumption DEF HidAssumption, Parts
  <2>2. CASE k = 1
    BY <1>2, <1>3, <2>2
  <2>3. CASE k # 1
    BY <1>1, <1>6, <2>1, <2>3
  <2> QED BY <2>2, <2>3
<1>8. \A j, k \in 1 .. n : j < k => f[j] < f[k]
  <2> SUFFICES ASSUME NEW j \in 1 .. n, NEW k \in 1 .. n, j < k
               PROVE  run.data[j].index < run.data[k].index
    OBVIOUS
  <2>1. j \in 1 .. k - 1 /\ k # 1
    OBVIOUS
  <2> QED BY <1>6, <2>1
<1>9. \A k \in 1 .. n : f[k] = k
  BY <1>1, <1>7, <1>8, Consecutive
<1>10. ASSUME NEW i \in 1 .. n
       PROVE  run.data[i] = [first EXCEPT !.index = i]
  <2>1. run.data[i] \in Parts /\ first \in Parts
    BY <1>3, <1>4
  <2>3. run.data[i].index = i
    BY <1>9
  <2>2. /\ run.data[i].host = first.host /\ run.data[i].nr = first.nr
        /\ run.data[i].cmd = first.cmd /\ run.data[i].chan = first.chan
    <3>1. CASE i = 1
      BY <3>1
    <3> QED BY <1>6, <3>1
  <2> HIDE DEF first
  <2> QED BY <2>1, <2>2, <2>3 DEF Parts
<1> QED BY <1>10

\* The invariant the two theorems below rest on: types, channels, and the
\* stream of packets from the hosts to Run with the responses on their way
\* back.
THEOREM MessagesCorrect == Spec => [](TypeInv /\ ChannelInv /\ MessageInv)
<1>1. Init => ChannelInv
  BY DEF Init, Off, ChannelInv, OneHostPerChannel
<1> QED
  BY <1>1, TypeInit, TypeStep, ChannelStep, MessageInit, MessageStep, PTL DEF Spec

\* Whatever other hosts write in between, begin and leave unfinished, a message that
\* reaches the server begins with its first packet, on its channel, and is, if it has
\* packets of one host only, that host's message, packet by packet.
THEOREM WholeMessages == Spec => []MessageIsWhole
BY MessagesCorrect, OfferedIsWhole, PTL

\* What a host has read of a response is the response to its last request, for any
\* number of hosts that stop and start again in the middle of everything.
THEOREM OwnResponses == Spec => []OwnResponse
<1>1. MessageInv => OwnResponse
  BY DEF MessageInv
<1> QED BY <1>1, MessagesCorrect, PTL
=============================================================================
