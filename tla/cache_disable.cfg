\* What disabling the cache does to its entries.  The connection's end stops the system.
SPECIFICATION Spec
CONSTANTS
    Commands = {k1, k2}
    Sqls = {q1, q2, ddl}
    Ddl = {ddl}
    NoSql = NoSql
    Stmts = {s1, s2, s3}
    NoStmt = NoStmt
    Configs <- AllConfigs
    InitialConfig <- OneEntry
    NoConfig = NoConfig
SYMMETRY Symmetry
CHECK_DEADLOCK FALSE
PROPERTIES
    DisablingKeepsEntries
