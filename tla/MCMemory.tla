----------------------------- MODULE MCMemory -----------------------------
(* Instances of Memory for TLC. *)
EXTENDS Memory

CONSTANT p1
=============================================================================
