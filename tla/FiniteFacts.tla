---------------------------- MODULE FiniteFacts -----------------------------
(***************************************************************************)
(* The facts about finite sets that the proofs count with, each of them a  *)
(* theorem of FiniteSetTheorems.  A lemma that counts takes FiniteFacts as *)
(* an assumption, and a module of proofs shows it before its theorems: the *)
(* lemmas are then proved without the library among their hypotheses.      *)
(***************************************************************************)
EXTENDS Integers, FiniteSets

SizeFact == \A S : IsFiniteSet(S) => Cardinality(S) \in Nat

EmptyFact ==
  /\ IsFiniteSet({}) /\ Cardinality({}) = 0
  /\ \A S : IsFiniteSet(S) => (Cardinality(S) = 0 <=> S = {})

SingletonFact ==
  /\ \A x : IsFiniteSet({x}) /\ Cardinality({x}) = 1
  /\ \A S : IsFiniteSet(S) => (Cardinality(S) = 1 <=> \E x : S = {x})

AddFact ==
  \A S, x : IsFiniteSet(S) =>
    /\ IsFiniteSet(S \union {x})
    /\ Cardinality(S \union {x}) = IF x \in S THEN Cardinality(S) ELSE Cardinality(S) + 1

RemoveFact ==
  \A S, x : IsFiniteSet(S) =>
    /\ IsFiniteSet(S \ {x})
    /\ Cardinality(S \ {x}) = IF x \in S THEN Cardinality(S) - 1 ELSE Cardinality(S)

SubsetFact ==
  \A S : IsFiniteSet(S) => \A T \in SUBSET S :
    /\ IsFiniteSet(T) /\ Cardinality(T) <= Cardinality(S)
    /\ Cardinality(S) = Cardinality(T) => S = T

UnionFact ==
  \A S, T : IsFiniteSet(S) /\ IsFiniteSet(T) =>
    /\ IsFiniteSet(S \union T)
    /\ Cardinality(S \union T) = Cardinality(S) + Cardinality(T) - Cardinality(S \intersect T)

IntervalFact ==
  \A a, b \in Int :
    /\ IsFiniteSet(a .. b)
    /\ Cardinality(a .. b) = IF a > b THEN 0 ELSE b - a + 1

ProductFact ==
  \A S, T : IsFiniteSet(S) /\ IsFiniteSet(T) =>
    /\ IsFiniteSet(S \X T) /\ Cardinality(S \X T) = Cardinality(S) * Cardinality(T)

FiniteFacts ==
  /\ SizeFact /\ EmptyFact /\ SingletonFact /\ AddFact /\ RemoveFact
  /\ SubsetFact /\ UnionFact /\ IntervalFact /\ ProductFact
=============================================================================
