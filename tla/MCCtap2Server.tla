--------------------------- MODULE MCCtap2Server ----------------------------
(***************************************************************************)
(* Two relying parties, two users, and the goroutine of the handler at     *)
(* work beside that of one that gave up.                                   *)
(***************************************************************************)
EXTENDS Ctap2Server, TLC

CONSTANTS rp1, rp2, u1, u2, k1, k2

TwoRPs == {rp1, rp2}
OneRP == {rp1}
TwoUsers == {u1, u2}
OneUser == {u1}
TwoCalls == {k1, k2}

Setup(auth, backend, failing) == [auth |-> auth, backend |-> backend, failing |-> failing]

PinentryOnly == {Setup("pinentry", "tpm", {})}
FprintdOnly == {Setup("fprintd", "tpm", {})}
FailingStore == {Setup("pinentry", "tpm", {"store"})}

\* Either prompt, with everything at work and with the faults and the backend that
\* lose most.
Several ==
  {Setup("pinentry", "tpm", {}), Setup("pinentry", "memory", {"store"}),
   Setup("fprintd", "tpm", {"signer", "store"}), Setup("fprintd", "memory", {})}

Symmetry == Permutations(TwoRPs) \cup Permutations(TwoUsers) \cup Permutations(TwoCalls)
=============================================================================
