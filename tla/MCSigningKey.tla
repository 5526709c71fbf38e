---------------------------- MODULE MCSigningKey ----------------------------
(* Instances of SigningKey for TLC. *)
EXTENDS SigningKey, TLC

CONSTANTS k1, k2, k3, k4

Symmetry == Permutations(Keys)
=============================================================================
