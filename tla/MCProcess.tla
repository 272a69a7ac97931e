------------------------------ MODULE MCProcess ------------------------------
(* Small instances of a process for TLC. *)
EXTENDS Process, TLC

Symmetry == Permutations(Callers) \cup Permutations(Files)
=============================================================================
