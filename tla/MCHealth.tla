------------------------------ MODULE MCHealth ------------------------------
(* An instance of Health for TLC. *)
EXTENDS Health

MCZone == -1
=============================================================================
