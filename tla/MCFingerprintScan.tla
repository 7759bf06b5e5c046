------------------------ MODULE MCFingerprintScan -------------------------
(***************************************************************************)
(* Two callers, two scans of three attempts each.                          *)
(***************************************************************************)
EXTENDS FingerprintScan

CONSTANTS c1, c2, other

TwoCallers == {c1, c2}
TwoScans == 1 .. 2
=============================================================================
