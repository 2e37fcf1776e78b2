------------------------------- MODULE MCFleet -------------------------------
(* Model checking of Fleet: request slots and EVs are interchangeable.      *)
EXTENDS Fleet, TLC

Symmetry == Permutations(Tasks) \cup Permutations(Evs)
=============================================================================
