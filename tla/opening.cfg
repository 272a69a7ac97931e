\* Two calls of configure_threading, a connection to a path that other processes
\* change, and a connection to another path.  A process may stop at any time.
SPECIFICATION ProcessSpec
CONSTANTS
    Callers = {c1, c2}
    NoCaller = NoCaller
    Openers = {o1, o2}
    Modes = {serialized, multi_thread, single_thread}
    Default = serialized
    Unmutexed = single_thread
    NoMode = NoMode
    InitMayFail = TRUE
    ConfigMayFail = TRUE
    Conns = {o1}
    Files = {f1, f2, f3}
    NoFile = NoFile
    NonFile = NonFile
    Memory = Memory
SYMMETRY Symmetry
CHECK_DEADLOCK FALSE
INVARIANTS
    ProcessTypeOK
    ConfirmedInForce
    ReportedMode
    ShutdownAlone
    StartsAfresh
    LossOnlyIfRefused
PROPERTIES
    NeverCreated
