\* The objects are automatic variables; their member functions are called in any order,
\* and SQLite may refuse or give up.
SPECIFICATION Spec
CONSTANTS
    Txns = {t1, t2}
    Sps = {s1, s2, s3}
    Names = {a, b}
    NoName = NoName
    Writes = {w1, w2}
    Faults = {"busy", "abort"}
    Scoped = TRUE
SYMMETRY Symmetry
CHECK_DEADLOCK FALSE
INVARIANTS
    TypeOK
    ClosedOnScopeExit
    NamesAccounted
    FlagsMatch
    NeverTerminates
PROPERTIES
    ImplementsScopes
