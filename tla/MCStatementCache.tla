-------------------------- MODULE MCStatementCache --------------------------
(* Small instances of the statement cache for TLC. *)
EXTENDS StatementCache, TLC

Config(on, n) == [enabled |-> on, capacity |-> n]

\* Every kind of configuration.
AllConfigs == {Config(TRUE, 0), Config(TRUE, 1), Config(TRUE, 2), Config(FALSE, 1)}

OneEntry == Config(TRUE, 1)

Symmetry == Permutations(Stmts) \cup Permutations(Commands) \cup Permutations(Sqls \ Ddl)
=============================================================================
