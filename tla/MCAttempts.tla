----------------------------- MODULE MCAttempts -----------------------------
(* Attempts on small sets, for TLC. *)
EXTENDS Attempts, TLC

\* The units are interchangeable.
Symmetry == Permutations(Units)
=============================================================================
