--------------------------- MODULE MCCoalescedRun ---------------------------
(* CoalescedRun for TLC. *)
EXTENDS CoalescedRun

CONSTANTS a, b, c
=============================================================================
