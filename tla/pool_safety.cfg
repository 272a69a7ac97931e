\* Every fault and every way of holding on to connections.  A thread that calls
\* acquire() while it holds the last connection blocks for good, so the system
\* may stop.
SPECIFICATION Spec
CONSTANTS
    Threads = {t1, t2, t3}
    Conns = {c1, c2, c3}
    NoConn = NoConn
    Capacity = 2
    Faults = {"throw", "null", "alloc"}
    HoldAndWait = TRUE
SYMMETRY Symmetry
CHECK_DEADLOCK FALSE
INVARIANTS
    TypeOK
    IdleUnreferenced
    ExclusiveLease
