--------------------------- MODULE MCTransactions ---------------------------
(* Small instances of transactions and savepoints for TLC. *)
EXTENDS Transactions, TLC

Symmetry == Permutations(Txns) \cup Permutations(Sps) \cup Permutations(Names)
                \cup Permutations(Writes)
=============================================================================
