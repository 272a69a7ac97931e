------------------------------ MODULE MCHandles ------------------------------
(* Small instances of the owners of SQLite's handles for TLC. *)
EXTENDS Handles, TLC

Symmetry == Permutations(Conns) \cup Permutations(Sessions) \cup Permutations(Snapshots)
                \cup Permutations(Memory)
=============================================================================
