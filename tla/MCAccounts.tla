----------------------------- MODULE MCAccounts -----------------------------
(* Instances of Accounts for TLC. *)
EXTENDS Accounts, TLC

CONSTANTS root, alice, pw1, pw2, w1, w2

Symmetry == Permutations(Workers)
=============================================================================
