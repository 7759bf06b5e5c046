----------------------------- MODULE MCPinentry -----------------------------
(***************************************************************************)
(* Two handlers that may repeat each other's requests, a CTAP2 verifier,   *)
(* and parameters that differ in the challenge only; without symmetry, as  *)
(* liveness is checked too.                                                *)
(*                                                                         *)
(* One request object per caller: a caller refers to at most one, so       *)
(* ConfirmPresence has to wait for a free object only while the extender   *)
(* of an earlier dialog lives on.                                          *)
(***************************************************************************)
EXTENDS Pinentry, TLC

CONSTANTS h1, h2, v1, p1, p2, p3

TwoHandlers == {h1, h2}
OneVerifier == {v1}
TwoChallenges == {"ch1", "ch2"}
OneApplication == {"app"}
ThreeRequests == {p1, p2, p3}
=============================================================================
