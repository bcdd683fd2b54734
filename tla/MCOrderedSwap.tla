--------------------------- MODULE MCOrderedSwap ---------------------------
(* OrderedSwap for TLC: two operations on one pod and one on another. *)
EXTENDS OrderedSwap, TLC

CONSTANTS p1, p2, a, b, c

HomeOf == (a :> p1) @@ (b :> p1) @@ (c :> p2)
=============================================================================
