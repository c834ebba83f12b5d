----------------------------- MODULE MCIterMemory -----------------------------
(* A btree of three levels and an empty one, two clients. *)
EXTENDS IterMemory

MCLevels == <<3, 1>>
=============================================================================
