\* The documented use: a thread gives up its connection before it asks again,
\* and the factory returns a connection or throws.
SPECIFICATION FairSpec
CONSTANTS
    Threads = {t1, t2, t3, t4}
    Conns = {c1, c2, c3}
    NoConn = NoConn
    Capacity = 2
    Faults = {"throw"}
    HoldAndWait = FALSE
INVARIANTS
    SlotsConserved
    NoLostWakeup
    BlockedByHolders
PROPERTIES
    ImplementsContract
    WaiterServed
