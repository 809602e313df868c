----------------------------- MODULE MCContinuity -----------------------------
(* Instances of Continuity: cards and members are interchangeable. *)
EXTENDS Continuity, TLC

Symmetry == Permutations(Cards) \cup Permutations(Members)
=============================================================================
