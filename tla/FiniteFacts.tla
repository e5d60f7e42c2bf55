----------------------------- MODULE FiniteFacts -----------------------------
(***************************************************************************)
(* What the proofs use of finite sets and their cardinalities.  The proof  *)
(* modules carry these facts in their invariants and discharge them at the *)
(* end, from the theorems of the library.                                  *)
(***************************************************************************)
EXTENDS Integers, FiniteSets

FiniteEmpty == IsFiniteSet({}) /\ Cardinality({}) = 0
FiniteCount == \A S : IsFiniteSet(S) => Cardinality(S) \in Nat
FiniteAdd ==
  \A S, x : IsFiniteSet(S) =>
    /\ IsFiniteSet(S \cup {x})
    /\ x \notin S => Cardinality(S \cup {x}) = Cardinality(S) + 1
FiniteSubset == \A S, T : IsFiniteSet(S) /\ T \subseteq S => IsFiniteSet(T)
FiniteImage ==
  \A S, f : IsFiniteSet(S) =>
    LET T == {f[x] : x \in S} IN IsFiniteSet(T) /\ Cardinality(T) <= Cardinality(S)

FiniteSetFacts == FiniteEmpty /\ FiniteCount /\ FiniteAdd /\ FiniteSubset /\ FiniteImage
=============================================================================
