----------------------------- MODULE MCSessions -----------------------------
(* Instances of Sessions for TLC. *)
EXTENDS Sessions, TLC

CONSTANTS s1, s2, u1, u2, w1, w2

Symmetry == Permutations(Sids) \cup Permutations(Users) \cup Permutations(Workers)
=============================================================================
