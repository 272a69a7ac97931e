---------------------------- MODULE ProcessProofs ----------------------------
(***************************************************************************)
(* Theorems about a process, for any number of callers, connections, files *)
(* and threading modes.  What concerns the threading mode is proved of     *)
(* Threading alone, what concerns the files of Opening alone; a process    *)
(* implements both.                                                        *)
(***************************************************************************)
EXTENDS Process, TLAPS

-----------------------------------------------------------------------------
(* The threading mode *)

(***************************************************************************)
(* What the confirmed mode rests on: a caller inside configure_threading   *)
(* has found threading_locked false, and only its own steps change what    *)
(* SQLite is configured for.  What the connections rest on: those opened   *)
(* after a confirmed mode can only have been opened in it.                 *)
(***************************************************************************)
ThreadingInv ==
    /\ ThreadingTypeOK
    /\ locked <=> confirmed # {}
    /\ locked => /\ holder = NoCaller
                 /\ initialized
                 /\ confirmed = {mode}
                 /\ reported = mode
    /\ step \in {"initialize", "store"} => mode = flag
    /\ step = "store" => initialized
    /\ step \in {"none", "shutdown", "config"} /\ reported # mode => botched
    /\ ~early => /\ ~torn
                 /\ \A o \in InUse : locked /\ under[o] = FullMutex(mode)

LEMMA ThreadingInvInit == ThreadingInit => ThreadingInv
  BY ThreadingAssumption DEF ThreadingInit, ThreadingInv, ThreadingTypeOK, Steps, InUse

LEMMA ThreadingInvStep == ThreadingInv /\ [ThreadingNext]_threadingVars => ThreadingInv'
<1> SUFFICES ASSUME ThreadingInv, [ThreadingNext]_threadingVars PROVE ThreadingInv'
  OBVIOUS
<1> USE ThreadingAssumption
<1> USE DEF ThreadingInv, ThreadingTypeOK, Steps, InUse, call, settings, sqlite, past
<1>1. CASE UNCHANGED threadingVars
  BY <1>1 DEF threadingVars
<1>2. ASSUME NEW c \in Callers, ConfigureAgain(c) PROVE ThreadingInv'
  BY <1>2 DEF ConfigureAgain
<1>3. ASSUME NEW c \in Callers, Configure(c) PROVE ThreadingInv'
  BY <1>3 DEF Configure
<1>4. ASSUME NEW c \in Callers, Shutdown(c) PROVE ThreadingInv'
  BY <1>4 DEF Shutdown
<1>5. ASSUME NEW c \in Callers, Config(c) PROVE ThreadingInv'
  BY <1>5 DEF Config
<1>6. ASSUME NEW c \in Callers, ConfigRefused(c) PROVE ThreadingInv'
  BY <1>6 DEF ConfigRefused, Leave, InitializeResult
<1>7. ASSUME NEW c \in Callers, Initialize(c) PROVE ThreadingInv'
  BY <1>7 DEF Initialize
<1>8. ASSUME NEW c \in Callers, InitializeFails(c) PROVE ThreadingInv'
  BY <1>8 DEF InitializeFails, Leave
<1>9. ASSUME NEW c \in Callers, Store(c) PROVE ThreadingInv'
  BY <1>9 DEF Store, Leave
<1>10. ASSUME NEW o \in Openers, OpenConnection(o) PROVE ThreadingInv'
  BY <1>10 DEF OpenConnection, FullMutex
<1>11. ASSUME NEW o \in Openers, OpenFails(o) PROVE ThreadingInv'
  BY <1>11 DEF OpenFails, InitializeResult
<1>12. ASSUME NEW o \in Openers, CloseConnection(o) PROVE ThreadingInv'
  BY <1>12 DEF CloseConnection
<1> QED
  BY <1>1, <1>2, <1>3, <1>4, <1>5, <1>6, <1>7, <1>8, <1>9, <1>10, <1>11, <1>12
  DEF ThreadingNext, ConfigureNext

LEMMA ThreadingInvImplies ==
    ThreadingInv => ConfirmedInForce /\ ReportedMode /\ ShutdownAlone
  BY DEF ThreadingInv, ConfirmedInForce, ReportedMode, ShutdownAlone, ThreadingTypeOK

-----------------------------------------------------------------------------
(* The files *)

(***************************************************************************)
(* A constructor with always_create that is about to open has nothing old  *)
(* at the path: it saw nothing there or removed what there was, and what   *)
(* others have created since is new.  What it has removed is on record     *)
(* until the constructor ends.                                             *)
(***************************************************************************)
OpeningInv ==
    /\ OpeningTypeOK
    /\ \A o \in Conns :
        /\ before[o] \subseteq born
        /\ at[o] \in {"status", "remove"} => kind[o] = "always_create"
        /\ kind[o] = "always_create" =>
              /\ at[o] = "connect" => path \notin before[o]
              /\ at[o] \in {"open", "attach"} => main[o] \notin before[o]
        /\ removed[o] => /\ kind[o] = "always_create"
                         /\ at[o] \in {"connect", "open", "attach", "refused", "none"}

LEMMA OpeningInvInit == OpeningInit => OpeningInv
  BY OpeningAssumption
  DEF OpeningInit, OpeningInv, OpeningTypeOK, Places, Kinds

LEMMA OpeningInvStep == OpeningInv /\ [OpeningNext]_openingVars => OpeningInv'
<1> SUFFICES ASSUME OpeningInv, [OpeningNext]_openingVars PROVE OpeningInv'
  OBVIOUS
<1> USE OpeningAssumption
<1> USE DEF OpeningInv, OpeningTypeOK, Places, Kinds, MustExist, CreateFlag, Goes, disk, objects
<1>1. CASE UNCHANGED openingVars
  BY <1>1 DEF openingVars
<1>2. ASSUME NEW o \in Conns, Construct(o) PROVE OpeningInv'
  BY <1>2 DEF Construct
<1>3. ASSUME NEW o \in Conns, Validate(o) PROVE OpeningInv'
  BY <1>3 DEF Validate
<1>4. ASSUME NEW o \in Conns, ValidateThrows(o) PROVE OpeningInv'
  BY <1>4 DEF ValidateThrows
<1>5. ASSUME NEW o \in Conns, CannotExamine(o) PROVE OpeningInv'
  BY <1>5 DEF CannotExamine
<1>6. ASSUME NEW o \in Conns, Exists(o) PROVE OpeningInv'
  BY <1>6 DEF Exists
<1>7. ASSUME NEW o \in Conns, Status(o) PROVE OpeningInv'
  BY <1>7 DEF Status
<1>8. ASSUME NEW o \in Conns, Remove(o) PROVE OpeningInv'
  BY <1>8 DEF Remove
<1>9. ASSUME NEW o \in Conns, RemoveThrows(o) PROVE OpeningInv'
  BY <1>9 DEF RemoveThrows
<1>10. ASSUME NEW o \in Conns, Connect(o) PROVE OpeningInv'
  BY <1>10 DEF Connect, OpenFile
<1>11. ASSUME NEW o \in Conns, ConnectThrows(o) PROVE OpeningInv'
  BY <1>11 DEF ConnectThrows
<1>12. ASSUME NEW o \in Conns, ConnectSpecial(o) PROVE OpeningInv'
  BY <1>12 DEF ConnectSpecial
<1>13. ASSUME NEW o \in Conns, Attach(o) PROVE OpeningInv'
  BY <1>13 DEF Attach
<1>14. ASSUME NEW o \in Conns, AttachRuns(o) PROVE OpeningInv'
  BY <1>14 DEF AttachRuns, OpenFile
<1>15. ASSUME NEW o \in Conns, AttachThrows(o) PROVE OpeningInv'
  BY <1>15 DEF AttachThrows
<1>16. ASSUME NEW o \in Conns, Detach(o) PROVE OpeningInv'
  BY <1>16 DEF Detach
<1>17. ASSUME NEW o \in Conns, Destroy(o) PROVE OpeningInv'
  BY <1>17 DEF Destroy
<1>18. CASE OtherCreates
  BY <1>18 DEF OtherCreates
<1>19. CASE OtherRemoves
  BY <1>19 DEF OtherRemoves
<1> QED
  BY <1>1, <1>2, <1>3, <1>4, <1>5, <1>6, <1>7, <1>8, <1>9, <1>10, <1>11, <1>12, <1>13,
     <1>14, <1>15, <1>16, <1>17, <1>18, <1>19
  DEF OpeningNext, LocalNext, OtherNext

LEMMA OpeningInvImplies == OpeningInv => StartsAfresh /\ LossOnlyIfRefused
  BY DEF OpeningInv, StartsAfresh, LossOnlyIfRefused

\* A file is created by other processes, or by the one connection whose SQLite opens.
LEMMA CreatesOnlyIfAsked ==
    ASSUME OpeningInv, [OpeningNext]_openingVars,
           NEW o \in Conns, at'[o] # at[o], born' # born
    PROVE  kind[o] \notin MustExist
<1>1. PICK p \in Conns : Connect(p) \/ AttachRuns(p)
  BY DEF OpeningNext, LocalNext, OtherNext, openingVars, disk, objects, Goes, Construct,
         Validate, ValidateThrows, CannotExamine, Exists, Status, Remove, RemoveThrows,
         ConnectThrows, ConnectSpecial, Attach, AttachThrows, Detach, Destroy,
         OtherCreates, OtherRemoves
<1>2. p = o
  BY <1>1 DEF Connect, AttachRuns, Goes, OpeningInv, OpeningTypeOK
<1>3. kind[p] \in CreateFlag
  BY <1>1 DEF Connect, AttachRuns, OpenFile, disk
<1> QED
  BY <1>2, <1>3 DEF CreateFlag

-----------------------------------------------------------------------------
(* The process *)

\* Every step of a process is, to the threading mode and to the files, a step of
\* theirs or none.
LEMMA ProcessStep ==
    [ProcessNext]_processVars =>
        [ThreadingNext]_threadingVars /\ [OpeningNext]_openingVars
  BY ProcessAssumption
  DEF ProcessNext, processVars, ThreadingNext, OpeningNext, Open, FailToOpen, Close, OtherNext

\* A process is a threading configuration and a set of constructors, both as if the
\* other were not there (configure_threading and connection::connection).
THEOREM ProcessImplements == ProcessSpec => ThreadingSpec /\ OpeningSpec
  BY ProcessStep, PTL DEF ProcessSpec, ProcessInit, ThreadingSpec, OpeningSpec

LEMMA ThreadingInvariant == ThreadingSpec => []ThreadingInv
  BY ThreadingInvInit, ThreadingInvStep, PTL DEF ThreadingSpec

LEMMA OpeningInvariant == OpeningSpec => []OpeningInv
  BY OpeningInvInit, OpeningInvStep, PTL DEF OpeningSpec

\* The variables of configure_threading, of SQLite's configuration and of the constructors
\* have their types; threading_mutex is held exactly during a call, and an object has a
\* database from the end of its constructor to its destructor.
THEOREM ProcessTypeCorrect == ProcessSpec => []ProcessTypeOK
<1>1. ThreadingInv /\ OpeningInv => ProcessTypeOK
  BY DEF ThreadingInv, OpeningInv, ProcessTypeOK
<1> QED
  BY <1>1, ProcessImplements, ThreadingInvariant, OpeningInvariant, PTL

\* Once configure_threading has returned true, SQLite stays in that mode, whoever
\* opens connections between its steps and whatever failed before.
THEOREM ConfirmedStaysInForce == ProcessSpec => []ConfirmedInForce
  BY ThreadingInvImplies, ProcessImplements, ThreadingInvariant, PTL

\* current_threading_mode() is wrong outside a call of configure_threading only after
\* an sqlite3_initialize that failed.
THEOREM ModeReported == ProcessSpec => []ReportedMode
  BY ThreadingInvImplies, ProcessImplements, ThreadingInvariant, PTL

\* sqlite3_shutdown never runs under a connection that waited for a confirmed mode.
THEOREM NoShutdownUnderConnections == ProcessSpec => []ShutdownAlone
  BY ThreadingInvImplies, ProcessImplements, ThreadingInvariant, PTL

\* always_create never works on a file that was there when it was called, if nobody moves
\* a removed file back to the path (connection::open).
THEOREM AlwaysStartsAfresh == ProcessSpec => []StartsAfresh
  BY OpeningInvImplies, ProcessImplements, OpeningInvariant, PTL

\* A constructor that throws has removed a database only if SQLite itself refused.
THEOREM NoNeedlessLoss == ProcessSpec => []LossOnlyIfRefused
  BY OpeningInvImplies, ProcessImplements, OpeningInvariant, PTL

\* open_existing and open_readonly create no file, by opening or attaching.
THEOREM ExistingNeverCreated == ProcessSpec => NeverCreated
<1>1. OpeningInv /\ [OpeningNext]_openingVars =>
          [\A o \in Conns : at'[o] # at[o] /\ born' # born => kind[o] \notin MustExist]_openingVars
  BY CreatesOnlyIfAsked
<1> QED
  BY <1>1, ProcessImplements, OpeningInvariant, PTL DEF OpeningSpec, NeverCreated
=============================================================================
