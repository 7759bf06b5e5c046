---------------------------- MODULE MCKeyHandles ----------------------------
(***************************************************************************)
(* Bytes are numbers up to 11.  A handle has between 6 and 14 bytes, one   *)
(* part may be too long to be encoded, parts look like separators, and a   *)
(* response has up to eight frames, the last of which has a number that is *)
(* no continuation's.                                                      *)
(***************************************************************************)
EXTENDS KeyHandles

SomeParts == {<<>>, <<9>>, <<9, 0, 1>>, [i \in 1 .. 12 |-> 0]}
SomeHashes == {<<1>>, <<2>>}
OneByte == <<9>>
NoError == <<9, 0>>
=============================================================================
