---------------------------- MODULE MCJournalMode ----------------------------
(* JournalMode over a rollback journal and WAL, on a build without WAL2. *)
EXTENDS JournalMode

MCModes == {"delete", "wal", "wal2"}
MCSupported == {"delete", "wal"}
=============================================================================
