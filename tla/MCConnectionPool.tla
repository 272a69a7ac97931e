-------------------------- MODULE MCConnectionPool --------------------------
(* Small instances of the connection pool for TLC. *)
EXTENDS ConnectionPool, TLC

Symmetry == Permutations(Threads) \cup Permutations(Conns)
=============================================================================
