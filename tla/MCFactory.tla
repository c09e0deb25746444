------------------------------ MODULE MCFactory ------------------------------
(* Instances of Factory for TLC: no generator is different from another.   *)
EXTENDS Factory, TLC

Symmetry == Permutations(Generators)
=============================================================================
