------------------------------ MODULE Framing -------------------------------
(***************************************************************************)
(* writeRespose of src/fidohid/fidohid.go: a response is cut into an       *)
(* initial frame and numbered continuation frames, padded to the size of a *)
(* report.  The host that puts them together is external.                  *)
(***************************************************************************)
EXTENDS Bytes

CONSTANTS
  InitData,  \* initialPacketDataLen
  ContData   \* contPacketDataLen

VARIABLES
  writer, \* writeRespose: data not yet written, initial, seqNo, totalSize
  host    \* what the host has put together, the size it was told, the next number

frameVars == <<writer, host>>

ASSUME FramingAssumption == {InitData, ContData} \subseteq Nat \ {0}

\* frameTypeInit, the highest bit of a byte.
FrameTypeInit == (MaxByte + 1) \div 2

\* totalSize is a uint16.
Size(n) == n % ((MaxByte + 1) * (MaxByte + 1))

\* The longest response whose frames can be numbered.
LongestMessage == InitData + FrameTypeInit * ContData

NoWriter == [data |-> <<>>, initial |-> TRUE, seqNo |-> 0, total |-> 0]

NoMessage == [data |-> <<>>, total |-> 0, next |-> 0, bad |-> FALSE]

FramingInit == writer = NoWriter /\ host = NoMessage

\* The status word is appended and counted.
WriteResponse(data, status) ==
  writer' = [NoWriter EXCEPT !.data = data \o status, !.total = Size(Len(data \o status))]

Padded(data, size) == [i \in 1 .. size |-> IF i \in DOMAIN data THEN data[i] ELSE 0]

\* The host appends a frame and cuts the message to its size.
Joined(data, more, total) == Upto(data \o more, Least(total, Len(data \o more)))

HostReadsInit(total, data) ==
  host' = [NoMessage EXCEPT !.data = Joined(<<>>, data, total), !.total = total]

\* A number with the bit of initial frames set is no continuation.
HostReadsCont(seqNo, data) ==
  host' = IF seqNo >= FrameTypeInit \/ seqNo # host.next THEN [host EXCEPT !.bad = TRUE]
          ELSE [host EXCEPT !.data = Joined(@, data, host.total), !.next = @ + 1]

WriteInit ==
  /\ writer.data # <<>> /\ writer.initial
  /\ LET size == Least(InitData, Len(writer.data)) IN
       /\ HostReadsInit(writer.total, Padded(Upto(writer.data, size), InitData))
       /\ writer' = [writer EXCEPT !.initial = FALSE,
                                   !.data = From(@, size + 1)]

\* Seeded fault: the numbers begin with 1.
WriteContFromOne ==
  /\ writer.data # <<>> /\ ~writer.initial
  /\ LET size == Least(ContData, Len(writer.data)) IN
       /\ HostReadsCont(writer.seqNo + 1, Padded(Upto(writer.data, size), ContData))
       /\ writer' = [writer EXCEPT !.data = From(@, size + 1), !.seqNo = @ + 1]

\* seqNo is a byte.
WriteCont ==
  /\ writer.data # <<>> /\ ~writer.initial
  /\ LET size == Least(ContData, Len(writer.data)) IN
       /\ HostReadsCont(writer.seqNo, Padded(Upto(writer.data, size), ContData))
       /\ writer' = [writer EXCEPT !.data = From(@, size + 1),
                                   !.seqNo = (@ + 1) % (MaxByte + 1)]

WriteFrame == WriteInit \/ WriteCont
=============================================================================
