------------------------------ MODULE MCFollow ------------------------------
(* Instances of Follow for TLC. *)
EXTENDS Follow

CONSTANTS p1, p2, k1, k2
=============================================================================
