--------------------------- MODULE LencodeReader ----------------------------
(***************************************************************************)
(* A caller of the decoder of src/internal/lencode/lencode.go who uses all *)
(* of its methods: NextLen and DecodeInto beside Decode.                   *)
(***************************************************************************)
EXTENDS Lencode

CONSTANT Streams  \* what is read

VARIABLES
  dec,   \* the decoder
  told,  \* what NextLen has said of the next message, or NoPrefix
  slice  \* the size of the slice that DecodeInto was last given, or NoPrefix

vars == <<dec, told, slice>>

Init ==
  /\ \E bytes \in Streams : dec = NewDecoder(bytes)
  /\ told = NoPrefix
  /\ slice = NoPrefix

NextLen ==
  /\ dec' = ReadPrefix(dec)
  /\ told' = IF dec'.err = "none" THEN dec'.pending ELSE NoPrefix
  /\ slice' = NoPrefix

Read(size) ==
  /\ dec' = DecodeInto(dec, size)
  /\ told' = NoPrefix
  /\ slice' = size

ReadNext ==
  /\ dec' = Decode(dec)
  /\ told' = NoPrefix
  /\ slice' = NoPrefix

\* A panic ends the program.
Next ==
  /\ dec.err # "panic"
  /\ NextLen \/ ReadNext \/ \E size \in 0 .. MaxByte : Read(size)

Spec == Init /\ [][Next]_vars

\* A slice that is as long as NextLen said, or longer, is large enough.
LargeEnough ==
  [][told # NoPrefix /\ slice' >= told /\ dec.err = "none" => dec'.err \notin {"small", "panic"}]_vars
=============================================================================
