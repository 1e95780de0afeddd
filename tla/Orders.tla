------------------------------- MODULE Orders -------------------------------
(***************************************************************************)
(* Order facts the proofs share: stamps are totally ordered and exceed what *)
(* they are made from; sets of natural numbers have the least and greatest  *)
(* elements by which the models pick a free run, lease or row.              *)
(***************************************************************************)
EXTENDS Hlc, FiniteSetsExt, WellFoundedInduction, TLAPS

---------------------------------------------------------------------------
(* Stamps *)

\* Two stamps of which neither is before the other are equal.
LEMMA BeforeTotal ==
    ASSUME NEW s \in Stamp, NEW t \in Stamp, ~Before(s, t), ~Before(t, s)
    PROVE  s = t
BY DEF Stamp, Before

\* The order of stamps is transitive.
LEMMA BeforeTransitive ==
    ASSUME NEW s \in Stamp, NEW t \in Stamp, NEW u \in Stamp, Before(s, t), Before(t, u)
    PROVE  Before(s, u)
BY DEF Stamp, Before

\* generateHlc returns a stamp after the last one, whatever the clock reads.
LEMMA GenerateExceeds ==
    ASSUME NEW now \in Nat, NEW last \in Stamp
    PROVE  generateHlc(now, last) \in Stamp /\ Before(last, generateHlc(now, last))
BY DEF Stamp, Before, generateHlc

\* mergeHlc returns a stamp after both its arguments, whatever the clock reads.
LEMMA MergeExceeds ==
    ASSUME NEW now \in Nat, NEW local \in Stamp, NEW remote \in Stamp
    PROVE  /\ mergeHlc(now, local, remote) \in Stamp
           /\ Before(local, mergeHlc(now, local, remote))
           /\ Before(remote, mergeHlc(now, local, remote))
<1>1. PICK lt \in Nat, lc \in Nat : local = <<lt, lc>>
  BY DEF Stamp
<1>2. PICK rt \in Nat, rc \in Nat : remote = <<rt, rc>>
  BY DEF Stamp
<1> QED BY <1>1, <1>2 DEF Stamp, Before, mergeHlc, Larger

---------------------------------------------------------------------------
(* Natural numbers *)

\* Every non-empty set of natural numbers has a least element.
LEMMA LeastNatural ==
    ASSUME NEW S \in SUBSET Nat, S # {}
    PROVE  \E m \in S : \A k \in S : m <= k
<1>1. IsWellFoundedOn(OpToRel(<, Nat), Nat)
  BY NatLessThanWellFounded
<1>2. PICK m \in S : \A y \in S : ~(<<y, m>> \in OpToRel(<, Nat))
  BY <1>1, WFMin
<1>3. \A y \in S : ~(y < m)
  BY <1>2 DEF OpToRel
<1> QED BY <1>3

\* Min picks it.
LEMMA MinOfNaturals ==
    ASSUME NEW S \in SUBSET Nat, S # {}
    PROVE  Min(S) \in S /\ \A k \in S : Min(S) <= k
BY LeastNatural DEF Min

\* A non-empty set of natural numbers with an upper bound has a greatest
\* element, and Max picks it.
LEMMA MaxOfNaturals ==
    ASSUME NEW S \in SUBSET Nat, S # {}, NEW b \in Nat, \A k \in S : k <= b
    PROVE  Max(S) \in S /\ \A k \in S : k <= Max(S)
<1> DEFINE T == {t \in Nat : \E k \in S : t + k = b}
<1>1. T \in SUBSET Nat /\ T # {}
  <2>1. PICK k \in S : TRUE
    OBVIOUS
  <2>2. b - k \in Nat /\ (b - k) + k = b
    BY <2>1
  <2>3. b - k \in T
    BY <2>2
  <2> QED BY <2>3
<1>2. PICK m \in T : \A t \in T : m <= t
  BY <1>1, LeastNatural
<1>3. PICK k \in S : m + k = b
  OBVIOUS
<1>4. \A j \in S : k >= j
  <2> SUFFICES ASSUME NEW j \in S PROVE k >= j
    OBVIOUS
  <2>1. b - j \in Nat /\ (b - j) + j = b
    OBVIOUS
  <2>2. b - j \in T
    BY <2>1
  <2>3. m <= b - j
    BY <1>2, <2>2
  <2> QED BY <1>3, <2>1, <2>3
<1>5. \E x \in S : \A y \in S : x >= y
  BY <1>4
<1>6. Max(S) \in S /\ \A y \in S : Max(S) >= y
  BY <1>5 DEF Max
<1> QED BY <1>6

=============================================================================
