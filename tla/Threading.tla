------------------------------ MODULE Threading ------------------------------
(***************************************************************************)
(* sqlite::configure_threading and current_threading_mode, called while    *)
(* other threads open and close connections.                               *)
(*                                                                         *)
(* threading_mutex keeps the callers of configure_threading apart, but     *)
(* nothing keeps them apart from the threads that open connections, and    *)
(* sqlite3_open_v2 initializes SQLite when nobody has.  So each call       *)
(* configure_threading makes into SQLite is a step of its own.             *)
(***************************************************************************)
CONSTANTS
    Callers,      \* calls of configure_threading that may be in flight
    NoCaller,     \* threading_mutex is free
    Openers,      \* connection objects
    Modes,        \* threading_mode
    Default,      \* threading_mode::serialized, also SQLite's default
    Unmutexed,    \* threading_mode::single_thread
    NoMode,       \* no connection
    InitMayFail,  \* TRUE: sqlite3_initialize may fail
    ConfigMayFail \* TRUE: sqlite3_config may refuse, as it does in a build without mutexes

ASSUME ThreadingAssumption ==
    /\ NoCaller \notin Callers
    /\ Default \in Modes
    /\ Unmutexed \in Modes \ {Default}
    /\ NoMode \notin Modes
    /\ InitMayFail \in BOOLEAN
    /\ ConfigMayFail \in BOOLEAN

VARIABLES
    holder,       \* who holds threading_mutex
    step,         \* what the holder does next
    flag,         \* the mode the holder asks for
    locked,       \* threading_locked
    reported,     \* configured_mode
    initialized,  \* SQLite is initialized
    mode,         \* the mode SQLite is configured for
    under,        \* under[o]: the mode connection o works in, or NoMode
    confirmed,    \* history: the modes a call has returned true for
    early,        \* history: a connection was opened before a mode was confirmed
    torn,         \* history: SQLite was shut down while a connection was open
    botched       \* history: sqlite3_initialize failed after a new mode was set

call     == <<holder, step, flag>>
settings == <<locked, reported>>
sqlite   == <<initialized, mode>>
past     == <<confirmed, early, torn, botched>>

threadingVars == <<call, settings, sqlite, under, past>>

Steps == {"none", "shutdown", "config", "initialize", "store"}

InUse == {o \in Openers : under[o] # NoMode}

\* Every connection is opened with SQLITE_OPEN_FULLMUTEX: it is serialized, whatever mode
\* SQLite is configured for, unless SQLite has no mutexes to give it.
FullMutex(m) == IF m = Unmutexed THEN m ELSE Default

\* sqlite3_initialize, as initialized becomes
InitializeResult == {TRUE} \cup (IF InitMayFail THEN {initialized} ELSE {})

ThreadingInit ==
    /\ holder = NoCaller
    /\ step = "none"
    /\ flag = Default
    /\ locked = FALSE
    /\ reported = Default
    /\ initialized = FALSE
    /\ mode = Default
    /\ under = [o \in Openers |-> NoMode]
    /\ confirmed = {}
    /\ early = FALSE
    /\ torn = FALSE
    /\ botched = FALSE

-----------------------------------------------------------------------------
(* configure_threading *)

\* Deviation: the mode is not compared.
ConfigureAgainAlways(c) ==
    /\ holder = NoCaller
    /\ locked
    /\ \E m \in Modes : confirmed' = confirmed \cup {m}
    /\ UNCHANGED <<call, settings, sqlite, under, early, torn, botched>>

\* A mode is in force already: true for the same one, false (and no effect) for another.
ConfigureAgain(c) ==
    /\ holder = NoCaller
    /\ locked
    /\ \E m \in Modes : confirmed' = IF reported = m THEN confirmed \cup {m} ELSE confirmed
    /\ UNCHANGED <<call, settings, sqlite, under, early, torn, botched>>

\* Deviation: threading_locked is not tested.
ConfigureUnlocked(c) ==
    /\ holder = NoCaller
    /\ holder' = c
    /\ flag' \in Modes
    /\ step' = "shutdown"
    /\ UNCHANGED <<settings, sqlite, under, past>>

Configure(c) ==
    /\ holder = NoCaller
    /\ ~locked
    /\ holder' = c
    /\ flag' \in Modes
    /\ step' = "shutdown"
    /\ UNCHANGED <<settings, sqlite, under, past>>

\* sqlite3_shutdown(): SQLite has no meaning for this under an open connection.
Shutdown(c) ==
    /\ holder = c
    /\ step = "shutdown"
    /\ initialized' = FALSE
    /\ torn' = (torn \/ InUse # {})
    /\ step' = "config"
    /\ UNCHANGED <<holder, flag, settings, mode, under, confirmed, early, botched>>

Config(c) ==
    /\ holder = c
    /\ step = "config"
    /\ ~initialized
    /\ mode' = flag
    /\ step' = "initialize"
    /\ UNCHANGED <<holder, flag, settings, initialized, under, past>>

Leave == holder' = NoCaller /\ step' = "none" /\ flag' = Default

\* Deviation: the result of sqlite3_config is ignored.
ConfigRefusedIgnored(c) ==
    /\ holder = c
    /\ step = "config"
    /\ initialized
    /\ step' = "initialize"
    /\ UNCHANGED <<holder, flag, settings, sqlite, under, past>>

\* Deviation: this return leaves the mutex locked.
ConfigRefusedKeepsMutex(c) ==
    /\ holder = c
    /\ step = "config"
    /\ initialized
    /\ step' = "none"
    /\ UNCHANGED <<holder, flag, settings, sqlite, under, past>>

\* sqlite3_config refuses: somebody opened a connection after the shutdown, or this SQLite
\* takes no mode.  The result of the sqlite3_initialize that follows is ignored, and the
\* call returns false.
ConfigRefused(c) ==
    /\ holder = c
    /\ step = "config"
    /\ initialized \/ ConfigMayFail
    /\ initialized' \in InitializeResult
    /\ Leave
    /\ UNCHANGED <<settings, mode, under, past>>

Initialize(c) ==
    /\ holder = c
    /\ step = "initialize"
    /\ initialized' = TRUE
    /\ step' = "store"
    /\ UNCHANGED <<holder, flag, settings, mode, under, past>>

\* The call returns false, but SQLite keeps the new mode for whoever initializes it next.
InitializeFails(c) ==
    /\ InitMayFail
    /\ holder = c
    /\ step = "initialize"
    /\ ~initialized
    /\ botched' = TRUE
    /\ Leave
    /\ UNCHANGED <<settings, sqlite, under, confirmed, early, torn>>

\* Deviation: the new mode is not stored.
StoreNothing(c) ==
    /\ holder = c
    /\ step = "store"
    /\ locked' = TRUE
    /\ confirmed' = confirmed \cup {flag}
    /\ Leave
    /\ UNCHANGED <<reported, sqlite, under, early, torn, botched>>

\* configured_mode, threading_locked, return true
Store(c) ==
    /\ holder = c
    /\ step = "store"
    /\ reported' = flag
    /\ locked' = TRUE
    /\ confirmed' = confirmed \cup {flag}
    /\ Leave
    /\ UNCHANGED <<sqlite, under, early, torn, botched>>

-----------------------------------------------------------------------------
(* Connections *)

\* sqlite3_open_v2: what mutexes there are depends on the mode in force now.
OpenConnection(o) ==
    /\ under[o] = NoMode
    /\ initialized' = TRUE
    /\ under' = [under EXCEPT ![o] = FullMutex(mode)]
    /\ early' = (early \/ confirmed = {})
    /\ UNCHANGED <<call, settings, mode, confirmed, torn, botched>>

\* An open that fails has initialized SQLite too, unless that is what failed.
OpenFails(o) ==
    /\ under[o] = NoMode
    /\ initialized' \in InitializeResult
    /\ UNCHANGED <<call, settings, mode, under, past>>

CloseConnection(o) ==
    /\ under[o] # NoMode
    /\ under' = [under EXCEPT ![o] = NoMode]
    /\ UNCHANGED <<call, settings, sqlite, past>>

-----------------------------------------------------------------------------

ConfigureNext(c) ==
    \/ ConfigureAgain(c) \/ Configure(c) \/ Shutdown(c) \/ Config(c) \/ ConfigRefused(c)
    \/ Initialize(c) \/ InitializeFails(c) \/ Store(c)

ThreadingNext ==
    \/ \E c \in Callers : ConfigureNext(c)
    \/ \E o \in Openers : OpenConnection(o) \/ OpenFails(o) \/ CloseConnection(o)

ThreadingSpec == ThreadingInit /\ [][ThreadingNext]_threadingVars

-----------------------------------------------------------------------------
(* Properties *)

\* Every variable has its type, and the mutex is held exactly while a call is under way.
ThreadingTypeOK ==
    /\ holder \in Callers \cup {NoCaller}
    /\ step \in Steps
    /\ flag \in Modes
    /\ locked \in BOOLEAN
    /\ reported \in Modes
    /\ initialized \in BOOLEAN
    /\ mode \in Modes
    /\ under \in [Openers -> Modes \cup {NoMode}]
    /\ confirmed \in SUBSET Modes
    /\ early \in BOOLEAN
    /\ torn \in BOOLEAN
    /\ botched \in BOOLEAN
    /\ holder = NoCaller <=> step = "none"

\* configure_threading never answers true to callers who asked for different modes, and
\* once it has answered true, SQLite stays initialized in the confirmed mode, which is
\* what current_threading_mode() returns, whoever opens connections between its steps and
\* whatever failed before.
ConfirmedInForce == confirmed # {} => initialized /\ confirmed = {mode} /\ reported = mode

\* current_threading_mode() differs from SQLite's mode only while configure_threading
\* runs, or after an sqlite3_initialize that failed and as long as no mode is confirmed.
ReportedMode == holder = NoCaller /\ reported # mode => botched /\ confirmed = {}

\* "SQLite needs to be configured exactly once before any connections are opened": if
\* connections wait for an answer of true, SQLite is never shut down under one of them
\* and they all have their mutexes or all have none.
ShutdownAlone ==
    ~early => /\ ~torn
              /\ \A o, p \in InUse : under[o] = under[p]
=============================================================================
