------------------------------ MODULE MCUpdate ------------------------------
(* Update on small sets, for TLC. *)
EXTENDS Update

\* The units are interchangeable.
Symmetry == Permutations(Units)
=============================================================================
