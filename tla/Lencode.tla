------------------------------ MODULE Lencode -------------------------------
(***************************************************************************)
(* The length-prefixed messages of src/internal/lencode/lencode.go, which  *)
(* key handles of the TPM signer are made of.  An encoder and a decoder    *)
(* are records, as in the code, with an error that stays.  The writer is a *)
(* buffer and does not fail; the reader is a sequence of bytes.            *)
(***************************************************************************)
EXTENDS Bytes

CONSTANT Separator  \* the bytes before each message

ASSUME LencodeAssumption == Separator \in Bytes

\* pendingPrefix is false.
NoPrefix == -1

NewEncoder == [out |-> <<>>, err |-> FALSE]

NewDecoder(bytes) == [in |-> bytes, pending |-> NoPrefix, err |-> "none", got |-> <<>>]

Encode(e, msg) ==
  IF e.err THEN e
  ELSE IF Len(msg) > MaxByte THEN [e EXCEPT !.err = TRUE]
  ELSE [e EXCEPT !.out = @ \o Separator \o <<Len(msg)>> \o msg]

PrefixLen == Len(Separator) + 1

Fails(d, err) == [d EXCEPT !.err = err]

\* What io.ReadFull reads before it fails is gone as well.
ReadPrefix(d) ==
  CASE d.err # "none" \/ d.pending # NoPrefix -> d
    [] d.err = "none" /\ d.pending = NoPrefix ->
         CASE d.in = <<>> -> Fails(d, "EOF")
           [] d.in # <<>> /\ Len(d.in) < PrefixLen -> Fails([d EXCEPT !.in = <<>>], "UnexpectedEOF")
           [] Len(d.in) >= PrefixLen ->
                LET rest == [d EXCEPT !.in = From(@, PrefixLen + 1)]
                IN  IF Upto(d.in, Len(Separator)) # Separator THEN Fails(rest, "mismatch")
                    ELSE [rest EXCEPT !.pending = d.in[PrefixLen]]

\* Seeded fault: nothing is left to read, although nothing is to be read.
ReadIntoStrict(d, size) ==
  CASE d.err # "none" -> d
    [] d.err = "none" /\ Len(d.in) <= size -> Fails([d EXCEPT !.in = <<>>], "UnexpectedEOF")
    [] d.err = "none" /\ Len(d.in) > size ->
         [d EXCEPT !.in = From(@, size + 1), !.pending = NoPrefix,
                   !.got = Append(@, Upto(d.in, size))]

\* Into a slice of size bytes: a longer slice is refused, of a shorter one b[:pendingLen]
\* goes past the end.
ReadInto(d, size) ==
  CASE d.err # "none" -> d
    [] d.err = "none" /\ d.pending < size -> Fails(d, "small")
    [] d.err = "none" /\ d.pending > size -> Fails(d, "panic")
    [] d.err = "none" /\ d.pending = size ->
         IF Len(d.in) < size THEN Fails([d EXCEPT !.in = <<>>], "UnexpectedEOF")
         ELSE [d EXCEPT !.in = From(@, size + 1), !.pending = NoPrefix,
                        !.got = Append(@, Upto(d.in, size))]

DecodeInto(d, size) == ReadInto(ReadPrefix(d), size)

Decode(d) == LET known == ReadPrefix(d) IN DecodeInto(known, known.pending)
=============================================================================
