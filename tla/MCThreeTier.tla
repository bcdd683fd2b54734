----------------------------- MODULE MCThreeTier -----------------------------
(* Small deployments of ThreeTier for TLC. *)
EXTENDS ThreeTier, TLC

CONSTANTS a, b, c, s, t, o1, o2, o3, o4

\* every pod in one scope; or pod a apart from the others
OneScope == [p \in Pods |-> s]
TwoScopes == [p \in Pods |-> IF p = a THEN s ELSE t]

\* where the slots run: two on a and the others on b and c
Placement == [o \in Ops |-> CASE o \in {o1, o2} -> a [] o = o3 -> b [] OTHER -> c]

\* what each slot runs
ReadSaveSave == [o \in Ops |-> IF o = o1 THEN {"read"} ELSE {"save"}]
ReadSaveWithdraw == (o1 :> {"read", "reload"}) @@ (o2 :> {"save"}) @@ (o3 :> {"save", "delete", "bypass"})
ReadAndSave == (o1 :> {"read"}) @@ (o3 :> {"save"})
ReadAndDelete == (o1 :> {"read"}) @@ (o2 :> {"delete"})
=============================================================================
