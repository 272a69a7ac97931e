------------------------------- MODULE Process -------------------------------
(***************************************************************************)
(* A process: threads that configure SQLite (Threading) and threads that   *)
(* open connections, one kind of them on a path whose file matters         *)
(* (Opening), the others on paths of their own.                            *)
(*                                                                         *)
(* The two meet in sqlite3_open_v2, which initializes SQLite, and in       *)
(* sqlite3_close.                                                          *)
(***************************************************************************)
EXTENDS Threading, Opening

ASSUME ProcessAssumption == Conns \subseteq Openers

processVars == <<threadingVars, openingVars>>

ProcessInit == ThreadingInit /\ OpeningInit

\* sqlite3_open_v2 and sqlite3_close of a connection to the path.
Open(o) == (Connect(o) \/ ConnectSpecial(o)) /\ OpenConnection(o)

FailToOpen(o) == ConnectThrows(o) /\ OpenFails(o)

Close(o) == Destroy(o) /\ CloseConnection(o)

ProcessNext ==
    \/ \E c \in Callers : ConfigureNext(c) /\ UNCHANGED openingVars
    \/ \E o \in Conns : LocalNext(o) /\ UNCHANGED threadingVars
    \/ \E o \in Conns : Open(o) \/ FailToOpen(o) \/ Close(o)
    \/ OtherNext /\ UNCHANGED threadingVars
    \/ \E o \in Openers \ Conns : /\ OpenConnection(o) \/ CloseConnection(o)
                                  /\ UNCHANGED openingVars

ProcessSpec == ProcessInit /\ [][ProcessNext]_processVars

\* Every variable of both parts has its type, threading_mutex is held exactly during a
\* call, and objects have a database from constructor to destructor.
ProcessTypeOK == ThreadingTypeOK /\ OpeningTypeOK
=============================================================================
