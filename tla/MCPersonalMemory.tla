-------------------------- MODULE MCPersonalMemory --------------------------
(* Instances of PersonalMemory: members and request ids are interchangeable. *)
EXTENDS PersonalMemory, TLC

Symmetry == Permutations(Users) \cup Permutations(Requests)
=============================================================================
