------------------------------- MODULE MCBuffer -------------------------------
(* Instance of Buffer for TLC. *)
EXTENDS Buffer, TLC

Symmetry == Permutations(Buffers)
=============================================================================
