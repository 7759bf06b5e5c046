------------------------------- MODULE Bytes --------------------------------
(***************************************************************************)
(* Bytes and parts of byte sequences, as the codecs use them.              *)
(***************************************************************************)
EXTENDS Integers, Sequences

CONSTANT MaxByte  \* 0xff

ASSUME ByteAssumption == MaxByte \in Nat \ {0}

Bytes == Seq(0 .. MaxByte)

\* Slices from the beginning, and from position n on.
Upto(bytes, n) == SubSeq(bytes, 1, n)

From(bytes, n) == SubSeq(bytes, n, Len(bytes))

Least(a, b) == IF a < b THEN a ELSE b
=============================================================================
