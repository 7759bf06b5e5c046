--------------------------- MODULE MCHidTransport ---------------------------
(***************************************************************************)
(* Two hosts, requests of one packet and of two.                           *)
(***************************************************************************)
EXTENDS HidTransport, TLC

CONSTANTS a, b

TwoHosts == {a, b}
OneOrTwo == {1, 2}
=============================================================================
