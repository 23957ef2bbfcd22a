--------------------- MODULE MCServiceBindingController ---------------------
(***************************************************************************)
(* Instances of ServiceBindingController for TLC.                          *)
(***************************************************************************)
EXTENDS ServiceBindingController, TLC

CONSTANTS b1, b2, w1, w2, s1, s2

Interchangeable == Permutations(Workloads) \cup Permutations(Secrets)
=============================================================================
