------------------------------ MODULE MCKVLease ------------------------------
(* KVLease for TLC: the pods are interchangeable where none retakes. *)
EXTENDS KVLease, TLC

Interchangeable == Permutations(Pods)
=============================================================================
