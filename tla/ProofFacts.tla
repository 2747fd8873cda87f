----------------------------- MODULE ProofFacts -----------------------------
(***************************************************************************)
(* Facts about numbers, finite sets and sequences that the proofs of more  *)
(* than one component use.                                                 *)
(***************************************************************************)
EXTENDS Integers, Sequences, SequencesExt, FiniteSets, FiniteSetsExt,
        FiniteSetTheorems, SequenceTheorems, WellFoundedInduction, TLAPS

\* A set of naturals that is not empty has a least member, which is its Min.
LEMMA LeastMember ==
  ASSUME NEW S \in SUBSET Nat, S # {}
  PROVE  \E x \in S : \A y \in S : x <= y
  <1>1. PICK x \in S : \A y \in S : <<y, x>> \notin OpToRel(<, Nat)
    BY WFMin, NatLessThanWellFounded, Zenon
  <1>2. \A y \in S : ~(y < x)
    BY <1>1, Zenon DEF OpToRel
  <1> QED BY <1>2

LEMMA MinInSet ==
  ASSUME NEW S \in SUBSET Nat, S # {}
  PROVE  Min(S) \in S
  BY LeastMember DEF Min

\* A bounded set of naturals that is not empty has a greatest member.
LEMMA MaxInSet ==
  ASSUME NEW n \in Nat, NEW S \in SUBSET (1..n), S # {}
  PROVE  Max(S) \in S
  <1> DEFINE T == {k \in Nat : n - k \in S}
  <1>1. T # {}
    <2>1. PICK s \in S : TRUE
      OBVIOUS
    <2>2. s \in 1..n
      BY <2>1
    <2>3. n - s \in Nat /\ n - (n - s) = s
      BY <2>2
    <2> QED BY <2>1, <2>3
  <1>2. PICK x \in T : \A y \in T : <<y, x>> \notin OpToRel(<, Nat)
    <2>1. T \subseteq Nat
      OBVIOUS
    <2> QED BY <1>1, <2>1, WFMin, NatLessThanWellFounded, Zenon
  <1>3. \A y \in T : x <= y
    <2>1. T \subseteq Nat
      OBVIOUS
    <2> HIDE DEF T
    <2>2. \A y \in T : ~(y < x)
      BY <1>2, <2>1, Zenon DEF OpToRel
    <2> QED BY <2>1, <2>2
  <1>4. \A s \in S : n - x >= s
    <2> TAKE s \in S
    <2>1. s \in 1..n
      OBVIOUS
    <2>2. n - s \in Nat /\ n - (n - s) = s
      BY <2>1
    <2>3. n - s \in T
      BY <2>2
    <2> QED BY <1>3, <2>1, <2>2, <2>3
  <1>5. n - x \in S
    BY <1>2
  <1> HIDE DEF T
  <1> QED BY <1>4, <1>5 DEF Max

\* A function on 1..n is a sequence of length n.
LEMMA RowsAreSeq ==
  ASSUME NEW n \in Nat, NEW S, NEW f \in [1..n -> S]
  PROVE  f \in Seq(S) /\ Len(f) = n
  <1>1. f \in Seq(S)
    BY SeqDef
  <1>2. Len(f) \in Nat /\ DOMAIN f = 1..Len(f)
    BY <1>1, LenProperties
  <1>3. DOMAIN f = 1..n
    OBVIOUS
  <1> QED BY <1>1, <1>2, <1>3

\* Without one of its members a sequence has the members it had.
LEMMA RemoveAtType ==
  ASSUME NEW S, NEW s \in Seq(S), NEW i \in 1..Len(s)
  PROVE  RemoveAt(s, i) \in Seq(S)
  <1>0. Len(s) \in Nat /\ \A j \in 1..Len(s) : s[j] \in S
    BY LenProperties, ElementOfSeq
  <1>1. SubSeq(s, 1, i - 1) \in Seq(S)
    BY <1>0
  <1>2. SubSeq(s, i + 1, Len(s)) \in Seq(S)
    BY <1>0
  <1> QED BY <1>1, <1>2, ConcatProperties DEF RemoveAt
=============================================================================
