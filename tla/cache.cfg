\* Commands of different threads release and look up statements concurrently, and
\* reset() runs at any time, between their unlocked tests of config_ and their locked
\* parts too.  The connection's end stops the system.
SPECIFICATION Spec
CONSTANTS
    Commands = {k1, k2, k3}
    Sqls = {q1, q2, ddl}
    Ddl = {ddl}
    NoSql = NoSql
    Stmts = {s1, s2, s3}
    NoStmt = NoStmt
    Configs <- AllConfigs
    InitialConfig <- OneEntry
    NoConfig = NoConfig
SYMMETRY Symmetry
CHECK_DEADLOCK FALSE
INVARIANTS
    TypeOK
    StatementsOwned
    CacheCoherent
    CapacityRespected
    ClosesCleanly
PROPERTIES
    CacheIsTransparent
