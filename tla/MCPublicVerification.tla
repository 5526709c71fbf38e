------------------------ MODULE MCPublicVerification ------------------------
(* Instances of PublicVerification for TLC. *)
EXTENDS PublicVerification, TLC

CONSTANTS k1, k2, k3, k4, p1, p2

Symmetry == Permutations(Keys) \cup Permutations(Pdfs)
=============================================================================
