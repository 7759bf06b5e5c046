---------------------------- MODULE NumberFacts ----------------------------
(***************************************************************************)
(* Facts about natural numbers that stand in for induction in the proofs.  *)
(***************************************************************************)
EXTENDS Naturals, WellFoundedInduction, TLAPS

\* Every non-empty set of numbers has a least one.
LEMMA LeastNumber ==
  ASSUME NEW S \in SUBSET Nat, S # {}
  PROVE  \E m \in S : \A n \in S : m <= n
<1> DEFINE R == {ss \in Nat \X Nat : ss[1] < ss[2]}
<1>1. IsWellFoundedOn(R, Nat)
  BY NatLessThanWellFounded DEF OpToRel
<1>2. PICK m \in S : \A n \in S : <<n, m>> \notin R
  <2> HIDE DEF R
  <2> QED BY <1>1, WFMin
<1>3. \A n \in S : n \in Nat /\ m \in Nat /\ ~(n < m)
  BY <1>2
<1> QED BY <1>3

\* Numbers from 1 to n that increase from place to place, and are as many as n, are the
\* places themselves.
LEMMA Consecutive ==
  ASSUME NEW n \in Nat, NEW f, \A i \in 1 .. n : f[i] \in 1 .. n,
         \A i, j \in 1 .. n : i < j => f[i] < f[j]
  PROVE  \A i \in 1 .. n : f[i] = i
<1>1. ASSUME NEW k \in 1 .. n, f[k] < k
      PROVE  FALSE
  <2> DEFINE S == {i \in 1 .. n : f[i] < i}
  <2>1. PICK m \in S : \A i \in S : m <= i
    <3>1. S \subseteq Nat /\ k \in S
      BY <1>1
    <3> HIDE DEF S
    <3> QED BY <3>1, LeastNumber
  <2>2. m \in 1 .. n /\ f[m] < m /\ f[m] \in 1 .. n
    OBVIOUS
  <2>3. m - 1 \in 1 .. n /\ m - 1 \notin S /\ m - 1 < m
    BY <2>1, <2>2
  <2>4. f[m - 1] \in 1 .. n /\ f[m - 1] >= m - 1 /\ f[m - 1] < f[m]
    BY <2>2, <2>3
  <2> QED BY <2>2, <2>4
<1>2. ASSUME NEW k \in 1 .. n, f[k] > k
      PROVE  FALSE
  <2> DEFINE S == {d \in 0 .. n : \E i \in 1 .. n : d = n - i /\ f[i] > i}
  <2>1. PICK m \in S : \A d \in S : m <= d
    <3>1. S \subseteq Nat /\ n - k \in S
      BY <1>2
    <3> HIDE DEF S
    <3> QED BY <3>1, LeastNumber
  <2>2. PICK i \in 1 .. n : m = n - i /\ f[i] > i
    OBVIOUS
  <2>3. f[i] \in 1 .. n /\ i < n /\ i + 1 \in 1 .. n
    BY <2>2
  <2>4. f[i + 1] > f[i] /\ f[i + 1] \in 1 .. n
    BY <2>2, <2>3
  <2>5. n - (i + 1) \in S
    BY <2>2, <2>3, <2>4
  <2> QED BY <2>1, <2>2, <2>3, <2>5
<1>3. \A i \in 1 .. n : f[i] \in 1 .. n /\ ~(f[i] < i) /\ ~(f[i] > i)
  BY <1>1, <1>2
<1> QED BY <1>3
=============================================================================
