---------------------------- MODULE MCDocuments ----------------------------
(* Instances of Documents for TLC. *)
EXTENDS Documents, TLC

CONSTANTS u1, u2, f1, f2, w1, w2

Symmetry == Permutations(Users) \cup Permutations(Files) \cup Permutations(Workers)
=============================================================================
