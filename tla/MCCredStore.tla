---------------------------- MODULE MCCredStore -----------------------------
(***************************************************************************)
(* Two processes; two credentials of one relying party and one of another, *)
(* and one that replaces the first.                                        *)
(***************************************************************************)
EXTENDS CredStore, TLC

CONSTANTS a, b, absent, empty, torn

TwoProcs == {a, b}
Entry(cred, rp, user) == [cred |-> cred, rp |-> rp, user |-> user]
FourEntries ==
  {Entry("c1", "rp1", "u1"), Entry("c1", "rp1", "u2"), Entry("c2", "rp1", "u1"),
   Entry("c3", "rp2", "u1")}

Symmetry == Permutations(TwoProcs)
=============================================================================
