---------------------------- MODULE HidTransport ----------------------------
(***************************************************************************)
(* The virtual HID device (src/fidohid/fidohid.go) between several hosts   *)
(* and the server's event loop.                                            *)
(*                                                                         *)
(* Every host writes 64-byte packets into one kernel queue, where those of *)
(* several hosts interleave, and reads every frame the token writes.  The  *)
(* goroutine Run puts messages together from the queue, answers by itself  *)
(* what needs no handler, and hands the rest to the server over an         *)
(* unbuffered channel: while the server works, Run holds the next message  *)
(* and nothing leaves the queue.  Run and the server write their frames    *)
(* independently of each other.                                            *)
(*                                                                         *)
(* Sizes are counted in packets, and the data of a packet is the name of   *)
(* its place in a message.  The hosts are external: they follow the        *)
(* protocol, but may stop at any time, in the middle of a message as well, *)
(* and start afresh.                                                       *)
(***************************************************************************)
EXTENDS Naturals, Sequences

CONSTANTS
  Hosts,       \* processes that hold the device open
  Sends,       \* bound on the messages of a host
  Sizes,       \* packets of a request, and frames of a response
  MaxSize,     \* bound on these
  QueueSize,   \* packets the kernel keeps; more are dropped
  NumChannels  \* channel ids there are to allocate (2^32 - 2 in the code)

ASSUME HidAssumption ==
  /\ Sends \in Nat
  /\ MaxSize \in Nat
  /\ Sizes \subseteq 1 .. MaxSize
  /\ 1 \in Sizes
  /\ QueueSize \in Nat
  /\ NumChannels \in Nat

VARIABLES
  queue,     \* packets written by hosts and not yet taken by Run
  run,       \* the loop variables of Run
  channels,  \* ids that Run has allocated
  server,    \* the event at work in the event loop, and its response so far
  hosts      \* each host's channel, its message, the frames it has read

vars == <<queue, run, channels, server, hosts>>

Ids == 1 .. NumChannels

\* An uninitialised reqChanID, and the channel on which ids are asked for.
NoChannel == 0
Broadcast == NumChannels + 1
Channels == Ids \cup {NoChannel, Broadcast}

\* "msg" and "cbor" are for the server, Run answers the others.  It knows neither
\* "cancel", which a host sends while it waits, nor what "other" stands for.
Commands == {"init", "msg", "cbor", "cancel", "other"}
ForServer == {"msg", "cbor"}

\* Packet number "index" of the message that a host sent as its "nr"th.
Parts ==
  [host : Hosts, nr : 0 .. Sends, cmd : Commands, index : 1 .. MaxSize, chan : Channels]

Packets == [part : Parts, size : Sizes]

RunType ==
  [at : {"reading", "offering", "answering", "dead"}, data : Seq(Parts), need : Sizes \cup {0},
   chan : Channels, cmd : Commands \cup {"none"}]

ServerType ==
  [at : {"idle", "working", "writing"}, chan : Channels, cmd : Commands \cup {"none"},
   data : Seq(Parts), left : 0 .. MaxSize, total : 0 .. MaxSize]

HostType ==
  [at : {"off", "init", "ready", "sending", "waiting"}, nr : 0 .. Sends, chan : Channels,
   cmd : Commands \cup {"none"}, size : Sizes, sent : 0 .. MaxSize,
   frames : Seq(Seq(Parts)), total : 0 .. MaxSize]

TypeOK ==
  /\ queue \in Seq(Packets)
  /\ Len(queue) <= QueueSize
  /\ run \in RunType
  /\ channels \subseteq Ids
  /\ server \in ServerType
  /\ hosts \in [Hosts -> HostType]

Reading == [at |-> "reading", data |-> <<>>, need |-> 0, chan |-> NoChannel, cmd |-> "none"]

IdleServer ==
  [at |-> "idle", chan |-> NoChannel, cmd |-> "none", data |-> <<>>, left |-> 0, total |-> 0]

Off(nr) ==
  [at |-> "off", nr |-> nr, chan |-> NoChannel, cmd |-> "none", size |-> 1, sent |-> 0,
   frames |-> <<>>, total |-> 0]

Init ==
  /\ queue = <<>>
  /\ run = Reading
  /\ channels = {}
  /\ server = IdleServer
  /\ hosts = [h \in Hosts |-> Off(0)]

-----------------------------------------------------------------------------
(***************************************************************************)
(* The hosts and the kernel.                                               *)
(***************************************************************************)

\* The kernel drops a packet for which its queue has no room.
Write(h, cmd, index, size, chan) ==
  LET part == [host |-> h, nr |-> hosts'[h].nr, cmd |-> cmd, index |-> index, chan |-> chan] IN
  /\ queue' = IF Len(queue) < QueueSize
              THEN Append(queue, [part |-> part, size |-> size]) ELSE queue
  /\ UNCHANGED <<run, channels, server>>

AskChannel(h) ==
  /\ hosts[h].at = "off"
  /\ hosts[h].nr < Sends
  /\ hosts' = [hosts EXCEPT ![h] = [Off(@.nr + 1) EXCEPT !.at = "init", !.cmd = "init"]]
  /\ Write(h, "init", 1, 1, Broadcast)

Begin(h, cmd, size) ==
  /\ hosts[h].at = "ready"
  /\ hosts[h].nr < Sends
  /\ hosts' = [hosts EXCEPT ![h] =
       [@ EXCEPT !.at = IF size = 1 THEN "waiting" ELSE "sending", !.nr = hosts[h].nr + 1,
                 !.cmd = cmd, !.size = size, !.sent = 1, !.frames = <<>>, !.total = 0]]
  /\ Write(h, cmd, 1, size, hosts[h].chan)

Continue(h) ==
  LET next == hosts[h].sent + 1 IN
  /\ hosts[h].at = "sending"
  /\ hosts' = [hosts EXCEPT ![h].sent = next,
                            ![h].at = IF next = hosts[h].size THEN "waiting" ELSE @]
  /\ Write(h, hosts[h].cmd, next, hosts[h].size, hosts[h].chan)

\* A host that waits for a CTAP2 response may send a cancellation, once.
Cancel(h) ==
  /\ hosts[h].at = "waiting" /\ hosts[h].cmd = "cbor" /\ hosts[h].sent # 0
  /\ hosts' = [hosts EXCEPT ![h].sent = 0]
  /\ Write(h, "cancel", 1, 1, hosts[h].chan)

\* The host has lost patience, or its process has died.
Stop(h) ==
  /\ hosts[h].at # "off"
  /\ hosts' = [hosts EXCEPT ![h] = Off(@.nr)]
  /\ UNCHANGED <<queue, run, channels, server>>

\* A host reads every frame, and keeps those of its channel that begin a response to
\* the command it sent or continue one; a response to INIT bears its nonce.
Awaits(h, frame) ==
  /\ hosts[h].at = "waiting"
  /\ hosts[h].chan = frame.chan
  /\ IF frame.initial THEN hosts[h].cmd = frame.cmd ELSE hosts[h].frames # <<>>

Read(h, frame) ==
  LET frames == IF frame.initial THEN <<frame.to>> ELSE Append(hosts[h].frames, frame.to)
      total == IF frame.initial THEN frame.total ELSE hosts[h].total
  IN IF Awaits(h, frame)
     THEN [hosts[h] EXCEPT !.frames = frames, !.total = total,
                           !.at = IF Len(frames) = total THEN "ready" ELSE @]
     ELSE hosts[h]

ReadInit(h, id, nonce) ==
  IF hosts[h].at = "init" /\ nonce.host = h /\ nonce.nr = hosts[h].nr
  THEN [hosts[h] EXCEPT !.at = "ready", !.chan = id]
  ELSE hosts[h]

\* One frame of a response; "to" names the message it responds to.
WriteFrame(chan, cmd, initial, total, to) ==
  LET frame == [chan |-> chan, cmd |-> cmd, initial |-> initial, total |-> total, to |-> to] IN
  hosts' = [h \in Hosts |-> Read(h, frame)]

-----------------------------------------------------------------------------
(***************************************************************************)
(* Run.                                                                    *)
(***************************************************************************)

\* Seeded fault: what is left of another message is kept.
KeepsData(packet) ==
  IF packet.part.index = 1
  THEN [run EXCEPT !.data = Append(@, packet.part), !.need = packet.size,
                   !.chan = packet.part.chan, !.cmd = packet.part.cmd]
  ELSE [run EXCEPT !.data = Append(@, packet.part)]

\* Seeded fault: the channel stays that of the message begun first.
KeepsChannel(packet) ==
  IF packet.part.index = 1
  THEN [run EXCEPT !.data = <<packet.part>>, !.need = packet.size, !.cmd = packet.part.cmd,
                   !.chan = IF run.data = <<>> THEN packet.part.chan ELSE @]
  ELSE [run EXCEPT !.data = Append(@, packet.part)]

\* An initial packet discards what there is and sets size, channel and command; any
\* other is appended, whatever its channel and its number.
Collect(packet) ==
  IF packet.part.index = 1
  THEN [run EXCEPT !.data = <<packet.part>>, !.need = packet.size,
                   !.chan = packet.part.chan, !.cmd = packet.part.cmd]
  ELSE [run EXCEPT !.data = Append(@, packet.part)]

\* The message is cut to its size, which is none if nothing began it.
Assemble(r) ==
  IF Len(r.data) < r.need THEN r
  ELSE [r EXCEPT !.data = SubSeq(@, 1, r.need),
                 !.at = IF r.cmd \in ForServer THEN "offering" ELSE "answering"]

Receive ==
  /\ run.at = "reading"
  /\ queue # <<>>
  /\ queue' = Tail(queue)
  /\ run' = Assemble(Collect(Head(queue)))
  /\ UNCHANGED <<channels, server, hosts>>

\* Seeded fault: an allocated id is not recorded.
Forget(id) == UNCHANGED channels

Record(id) == channels' = channels \cup {id}

\* Seeded fault: that there is no id left goes unnoticed, and 0 is handed out.
ZeroForNone(id) == id \in (IF Ids \subseteq channels THEN {NoChannel} ELSE Ids \ channels)

IsFree(id) == id \in Ids \ channels

\* The smallest free id; log.Fatalf if there is none.
AllocateChan ==
  /\ run.at = "answering"
  /\ run.cmd = "init"
  /\ \/ /\ \A id \in Channels : ~IsFree(id)
        /\ run' = [run EXCEPT !.at = "dead"]
        /\ UNCHANGED <<channels, hosts>>
     \/ \E id \in Channels :
          /\ IsFree(id)
          /\ \A other \in Channels : IsFree(other) => id <= other
          /\ Record(id)
          /\ hosts' = [h \in Hosts |-> ReadInit(h, id, run.data[1])]
          /\ run' = Reading
  /\ UNCHANGED <<queue, server>>

Unsupported ==
  /\ run.at = "answering"
  /\ run.cmd # "init"
  /\ WriteFrame(run.chan, run.cmd, TRUE, 1, run.data)
  /\ run' = Reading
  /\ UNCHANGED <<queue, channels, server>>

-----------------------------------------------------------------------------
(***************************************************************************)
(* The server, whose work is modelled in U2FServer and Ctap2Server.        *)
(***************************************************************************)
TakeEvent ==
  /\ run.at = "offering"
  /\ server.at = "idle"
  /\ server' = [IdleServer EXCEPT !.at = "working", !.chan = run.chan, !.cmd = run.cmd,
                                  !.data = run.data]
  /\ run' = Reading
  /\ UNCHANGED <<queue, channels, hosts>>

\* Some U2F messages are not responded to.
Ignore ==
  /\ server.at = "working"
  /\ server.cmd = "msg"
  /\ server' = IdleServer
  /\ UNCHANGED <<queue, run, channels, hosts>>

\* A handler writes the first frame of its response, ...
Respond(total) ==
  /\ server.at = "working"
  /\ WriteFrame(server.chan, server.cmd, TRUE, total, server.data)
  /\ server' = IF total = 1 THEN IdleServer
               ELSE [server EXCEPT !.at = "writing", !.total = total, !.left = total - 1]
  /\ UNCHANGED <<queue, run, channels>>

\* ... and the others, one by one.
RespondMore ==
  /\ server.at = "writing"
  /\ WriteFrame(server.chan, server.cmd, FALSE, server.total, server.data)
  /\ server' = IF server.left = 1 THEN IdleServer ELSE [server EXCEPT !.left = @ - 1]
  /\ UNCHANGED <<queue, run, channels>>

-----------------------------------------------------------------------------
HostStep(h) ==
  \/ AskChannel(h) \/ Continue(h) \/ Cancel(h) \/ Stop(h)
  \/ \E cmd \in Commands \ {"init", "cancel"}, size \in Sizes : Begin(h, cmd, size)

RunStep == Receive \/ AllocateChan \/ Unsupported \/ TakeEvent

ServerStep == Ignore \/ (\E total \in Sizes : Respond(total)) \/ RespondMore

Next ==
  \/ run.at # "dead" /\ (RunStep \/ ServerStep)
  \/ \E h \in Hosts : HostStep(h)

\* The goroutines run on, and every handler comes to an end.
Spec == Init /\ [][Next]_vars /\ WF_vars(run.at # "dead" /\ RunStep)
                              /\ WF_vars(run.at # "dead" /\ ServerStep)

-----------------------------------------------------------------------------
\* Two hosts never hold the same channel, not even one after the other: a response
\* that comes after its host has stopped finds nobody.
OneHostPerChannel ==
  \A g, h \in Hosts : hosts[g].chan = hosts[h].chan /\ g # h => hosts[g].chan = NoChannel

\* What reaches the server starts with the first packet of a message, on the channel
\* and with the command of that message; and unless packets of several hosts are mixed
\* in it, it is that message, packet by packet: nothing that was begun before and left
\* unfinished, by this host or another, gets into it.
MessageIsWhole ==
  run.at = "offering" =>
    LET first == run.data[1] IN
    /\ first.index = 1 /\ run.chan = first.chan /\ run.cmd = first.cmd
    /\ (\A i \in DOMAIN run.data : run.data[i].host = first.host)
         => \A i \in DOMAIN run.data : run.data[i] = [first EXCEPT !.index = i]

\* A response that a host has read to its end is, frame by frame, the response to the
\* request it sent last, although Run and the server write independently and every
\* host reads every frame.
OwnResponse ==
  \A h \in Hosts : \A i \in DOMAIN hosts[h].frames :
    LET to == hosts[h].frames[i] IN
    to # <<>> /\ to[1].host = h /\ to[1].nr = hosts[h].nr

\* The message a host has sent has reached the queue, and the host waits for the answer.
Awaited(h) ==
  /\ hosts[h].at \in {"init", "waiting"}
  /\ LET Is(part) == part.host = h /\ part.nr = hosts[h].nr /\ part.cmd = hosts[h].cmd
     IN \E i \in DOMAIN queue : Is(queue[i].part)

\* A message that fits in one packet, and that the kernel did not drop, is answered,
\* unless it is a U2F message, which the server may ignore: whatever other hosts have
\* begun and left unfinished, and however long the server takes for what came before.
ShortMessageAnswered ==
  \A h \in Hosts :
    Awaited(h) /\ hosts[h].size = 1 /\ hosts[h].cmd # "msg"
      ~> hosts[h].at \notin {"init", "waiting"} \/ run.at = "dead"
=============================================================================
