\* Everything that may go wrong does; the system stops when it is undefined.
SPECIFICATION Spec
CONSTANTS
    Conns = {c1, c2}
    Backups = {b1}
    Sessions = {s1, s2}
    Snapshots = {n1, n2}
    Memory = {m1, m2, m3, m4}
    Nil = Nil
    Faults = {"finish", "register", "image", "nocopy", "outlive"}
SYMMETRY Symmetry
CHECK_DEADLOCK FALSE
INVARIANTS
    TypeOK
    OneOwner
    FreedOnce
