-------------------------- MODULE MCLencodeReader ---------------------------
(***************************************************************************)
(* Streams of whole messages and of parts of them.                         *)
(***************************************************************************)
EXTENDS LencodeReader

OneByte == <<2>>
TwoMessages == <<2, 0, 2, 2, 1, 0>>
SomeStreams == {Upto(TwoMessages, n) : n \in 0 .. Len(TwoMessages)}
=============================================================================
