\* A database in rollback mode, two writes.
CONSTANTS
    Modes <- MCModes
    Supported <- MCSupported
    Initial = "delete"
    Writes = {w1, w2}
SPECIFICATION Spec
INVARIANTS TypeOK Kept NamesMode FallsBackIfIdle
