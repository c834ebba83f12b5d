------------------------------- MODULE MCMounts -------------------------------
(* Processes and object names are interchangeable. *)
EXTENDS Mounts, TLC

Names == Permutations(Process) \cup Permutations(Object)
=============================================================================
