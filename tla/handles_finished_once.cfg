\* A backup whose step fails and whose finish() reports the error.
SPECIFICATION Spec
CONSTANTS
    Conns = {c1, c2}
    Backups = {b1}
    Sessions = {s1, s2}
    Snapshots = {n1, n2}
    Memory = {m1, m2, m3, m4}
    Nil = Nil
    Faults = {"finish"}
SYMMETRY Symmetry
CHECK_DEADLOCK FALSE
PROPERTIES
    FinishedOnce
