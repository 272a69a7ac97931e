---------------------------- MODULE MCQueryCursor ----------------------------
(* Small instances of a query and its results for TLC. *)
EXTENDS QueryCursor, TLC

Symmetry == Permutations(Results) \cup Permutations(Values)
=============================================================================
