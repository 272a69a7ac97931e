------------------------------- MODULE Opening -------------------------------
(***************************************************************************)
(* The constructors of sqlite::connection, attach and detach, on one path  *)
(* of a file system that other processes change too.                       *)
(*                                                                         *)
(* Every look at the file system, its removal and the call into SQLite is  *)
(* a step of its own: what was checked may be different when it is used.   *)
(* A file is an identity, so that one that was removed and one created     *)
(* under the same name later are told apart.                               *)
(***************************************************************************)
EXTENDS FiniteSets

CONSTANTS
    Conns,     \* connection objects
    Files,     \* the regular files there can be, one after another, at the path
    NoFile,    \* nothing
    NonFile,   \* a directory, a symbolic link, ...
    Memory     \* a database without a file

ASSUME OpeningAssumption ==
    /\ NoFile \notin Files
    /\ NonFile \notin Files \cup {NoFile}
    /\ Memory \notin Files \cup {NoFile, NonFile}

VARIABLES
    path,      \* what is at the path
    born,      \* history: the files that have existed
    at,        \* where each connection's constructor or attach is
    kind,      \* its open mode; "default" for the constructor without one
    main,      \* the main database of a connection
    attached,  \* its attached database
    before,    \* history: the files that had existed when the constructor was called
    removed    \* history: the constructor has removed what was at the path

openingVars == <<path, born, at, kind, main, attached, before, removed>>

disk    == <<path, born>>
objects == <<kind, main, attached, before, removed>>

Kinds == {"default", "open_readonly", "open_existing", "open_or_create", "always_create"}

MustExist == {"open_readonly", "open_existing"}

\* make_open_flags: the modes opened with SQLITE_OPEN_CREATE.
CreateFlag == Kinds \ MustExist

(***************************************************************************)
(* none      no object          validate  in validate_db_path              *)
(* exists    std::filesystem::exists      status  the second look          *)
(* remove    about to remove    connect   about to call sqlite3_open_v2    *)
(* open      constructed        attach    validated, about to ATTACH       *)
(* threw     the constructor threw, refused: out of sqlite3_open_v2        *)
(***************************************************************************)
Places == {"none", "validate", "exists", "status", "remove", "connect", "open", "attach",
           "threw", "refused"}

Goes(o, place) == at' = [at EXCEPT ![o] = place]

OpeningInit ==
    /\ \/ path = NoFile /\ born = {}
       \/ path = NonFile /\ born = {}
       \/ path \in Files /\ born = {path}
    /\ at = [o \in Conns |-> "none"]
    /\ kind = [o \in Conns |-> "default"]
    /\ main = [o \in Conns |-> NoFile]
    /\ attached = [o \in Conns |-> NoFile]
    /\ before = [o \in Conns |-> {}]
    /\ removed = [o \in Conns |-> FALSE]

-----------------------------------------------------------------------------
(* The constructor *)

Construct(o) ==
    /\ at[o] \in {"none", "threw", "refused"}
    /\ \E k \in Kinds : kind' = [kind EXCEPT ![o] = k]
    /\ before' = [before EXCEPT ![o] = born]
    /\ removed' = [removed EXCEPT ![o] = FALSE]
    /\ Goes(o, "validate")
    /\ UNCHANGED <<disk, main, attached>>

\* validate_db_path: the parent directory and the file.
Validate(o) ==
    /\ at[o] = "validate"
    /\ path # NonFile
    /\ kind[o] \in MustExist => path # NoFile
    /\ Goes(o, IF kind[o] = "default" THEN "connect" ELSE "exists")
    /\ UNCHANGED <<disk, objects>>

ValidateThrows(o) ==
    /\ at[o] = "validate"
    /\ path = NonFile \/ (path = NoFile /\ kind[o] \in MustExist)
    /\ Goes(o, "threw")
    /\ UNCHANGED <<disk, objects>>

\* status() or exists() reports an error of the file system.
CannotExamine(o) ==
    /\ at[o] \in {"validate", "exists", "status"}
    /\ Goes(o, "threw")
    /\ UNCHANGED <<disk, objects>>

\* Deviation: open_or_create falls through into always_create.
ExistsFallsThrough(o) ==
    /\ at[o] = "exists"
    /\ \/ path = NoFile /\ kind[o] \in MustExist /\ Goes(o, "threw")
       \/ path # NoFile /\ kind[o] \in CreateFlag /\ Goes(o, "status")
       \/ path = NoFile /\ kind[o] \notin MustExist /\ Goes(o, "connect")
       \/ path # NoFile /\ kind[o] \in MustExist /\ Goes(o, "connect")
    /\ UNCHANGED <<disk, objects>>

Exists(o) ==
    /\ at[o] = "exists"
    /\ \/ path = NoFile /\ kind[o] \in MustExist /\ Goes(o, "threw")
       \/ path # NoFile /\ kind[o] = "always_create" /\ Goes(o, "status")
       \/ path = NoFile /\ kind[o] \notin MustExist /\ Goes(o, "connect")
       \/ path # NoFile /\ kind[o] # "always_create" /\ Goes(o, "connect")
    /\ UNCHANGED <<disk, objects>>

\* A file that has gone since, or that is none: the constructor refuses to remove it.
Status(o) ==
    /\ at[o] = "status"
    /\ Goes(o, IF path \in Files THEN "remove" ELSE "threw")
    /\ UNCHANGED <<disk, objects>>

\* Deviation: a file that cannot be removed is opened.
RemoveIgnoresFailure(o) ==
    /\ at[o] = "remove"
    /\ \/ /\ path' = NoFile
          /\ removed' = [removed EXCEPT ![o] = path # NoFile]
       \/ UNCHANGED <<path, removed>>
    /\ Goes(o, "connect")
    /\ UNCHANGED <<born, kind, main, attached, before>>

\* Whatever is at the path now is removed.
Remove(o) ==
    /\ at[o] = "remove"
    /\ path # NoFile
    /\ path' = NoFile
    /\ removed' = [removed EXCEPT ![o] = TRUE]
    /\ Goes(o, "connect")
    /\ UNCHANGED <<born, kind, main, attached, before>>

\* There is nothing any more, or it cannot be removed.
RemoveThrows(o) ==
    /\ at[o] = "remove"
    /\ Goes(o, "threw")
    /\ UNCHANGED <<disk, objects>>

\* SQLite opens the file f at the path, or creates it there if it may.
OpenFile(may, o, f) ==
    \/ path = f /\ UNCHANGED disk
    \/ /\ path = NoFile
       /\ kind[o] \in may
       /\ f \notin born
       /\ path' = f
       /\ born' = born \cup {f}

\* Deviation: every mode but open_readonly opens with SQLITE_OPEN_CREATE.
ConnectCreates(o) ==
    /\ at[o] = "connect"
    /\ \E f \in Files : OpenFile(Kinds \ {"open_readonly"}, o, f) /\ main' = [main EXCEPT ![o] = f]
    /\ Goes(o, "open")
    /\ UNCHANGED <<kind, attached, before, removed>>

\* open_with_flags
Connect(o) ==
    /\ at[o] = "connect"
    /\ \E f \in Files : OpenFile(CreateFlag, o, f) /\ main' = [main EXCEPT ![o] = f]
    /\ Goes(o, "open")
    /\ UNCHANGED <<kind, attached, before, removed>>

\* Deviation: the handle of the failed open is kept.
ConnectThrowsKeepsHandle(o) ==
    /\ at[o] = "connect"
    /\ path \in Files
    /\ main' = [main EXCEPT ![o] = path]
    /\ Goes(o, "refused")
    /\ UNCHANGED <<disk, kind, attached, before, removed>>

\* SQLite refuses: open_with_flags closes the handle it got and throws.
ConnectThrows(o) ==
    /\ at[o] = "connect"
    /\ Goes(o, "refused")
    /\ UNCHANGED <<disk, objects>>

\* ":memory:" is neither examined nor removed, whatever the mode.
ConnectSpecial(o) ==
    /\ at[o] \in {"none", "threw", "refused"}
    /\ \E k \in Kinds : kind' = [kind EXCEPT ![o] = k]
    /\ before' = [before EXCEPT ![o] = born]
    /\ removed' = [removed EXCEPT ![o] = FALSE]
    /\ main' = [main EXCEPT ![o] = Memory]
    /\ Goes(o, "open")
    /\ UNCHANGED <<disk, attached>>

-----------------------------------------------------------------------------
(* attach, detach, the destructor *)

\* validate_db_path(db, false); a path that is not a file makes it throw.
Attach(o) ==
    /\ at[o] = "open"
    /\ attached[o] = NoFile
    /\ path # NonFile
    /\ Goes(o, "attach")
    /\ UNCHANGED <<disk, objects>>

\* ATTACH opens with the flags of the connection, and without SQLITE_OPEN_CREATE
\* for open_existing and open_readonly.
AttachRuns(o) ==
    /\ at[o] = "attach"
    /\ \E f \in Files : OpenFile(CreateFlag, o, f) /\ attached' = [attached EXCEPT ![o] = f]
    /\ Goes(o, "open")
    /\ UNCHANGED <<kind, main, before, removed>>

AttachThrows(o) ==
    /\ at[o] = "attach"
    /\ Goes(o, "open")
    /\ UNCHANGED <<disk, objects>>

Detach(o) ==
    /\ at[o] = "open"
    /\ attached[o] # NoFile
    /\ attached' = [attached EXCEPT ![o] = NoFile]
    /\ UNCHANGED <<disk, at, kind, main, before, removed>>

Destroy(o) ==
    /\ at[o] = "open"
    /\ main' = [main EXCEPT ![o] = NoFile]
    /\ attached' = [attached EXCEPT ![o] = NoFile]
    /\ Goes(o, "none")
    /\ UNCHANGED <<disk, kind, before, removed>>

-----------------------------------------------------------------------------
(* Other processes *)

\* A new file, or something that is no file.  Assumed: nobody moves a file that was
\* removed back to the path.
OtherCreates ==
    /\ path = NoFile
    /\ \/ path' = NonFile /\ UNCHANGED born
       \/ \E f \in Files \ born : path' = f /\ born' = born \cup {f}
    /\ UNCHANGED <<at, objects>>

OtherRemoves ==
    /\ path # NoFile
    /\ path' = NoFile
    /\ UNCHANGED <<born, at, objects>>

-----------------------------------------------------------------------------

\* What a connection does between its constructor's call and its end, except for
\* what involves SQLite's global state.
LocalNext(o) ==
    \/ Construct(o) \/ Validate(o) \/ ValidateThrows(o) \/ CannotExamine(o) \/ Exists(o)
    \/ Status(o) \/ Remove(o) \/ RemoveThrows(o) \/ Attach(o)
    \/ AttachRuns(o) \/ AttachThrows(o) \/ Detach(o)

OtherNext == OtherCreates \/ OtherRemoves

OpeningNext ==
    \/ \E o \in Conns : \/ LocalNext(o) \/ Connect(o) \/ ConnectThrows(o)
                        \/ ConnectSpecial(o) \/ Destroy(o)
    \/ OtherNext

OpeningSpec == OpeningInit /\ [][OpeningNext]_openingVars

-----------------------------------------------------------------------------
(* Properties *)

\* Every variable has its type; an object has a main database from the end of its
\* constructor to its destructor, and only then can it have an attached one.
OpeningTypeOK ==
    /\ path \in Files \cup {NoFile, NonFile}
    /\ born \in SUBSET Files
    /\ at \in [Conns -> Places]
    /\ kind \in [Conns -> Kinds]
    /\ main \in [Conns -> Files \cup {NoFile, Memory}]
    /\ attached \in [Conns -> Files \cup {NoFile}]
    /\ before \in [Conns -> SUBSET Files]
    /\ removed \in [Conns -> BOOLEAN]
    /\ path \in Files => path \in born
    /\ \A o \in Conns : /\ main[o] # NoFile <=> at[o] \in {"open", "attach"}
                        /\ attached[o] # NoFile => main[o] # NoFile

\* "Deletes any existing database file and recreates it": a connection made with
\* always_create never works on a file that existed when its constructor was called,
\* whichever files other constructors and other processes create and remove at the path
\* meanwhile, as long as nobody moves an old one back.
StartsAfresh ==
    \A o \in Conns :
        kind[o] = "always_create" /\ at[o] = "open" => main[o] \notin before[o]

\* "Opens an existing database; fails when it is missing": no file is ever created on
\* behalf of open_existing or open_readonly, not even one that has disappeared since it
\* was seen, nor by attaching one.
NeverCreated ==
    [][\A o \in Conns : at'[o] # at[o] /\ born' # born => kind[o] \notin MustExist]_openingVars

\* Only always_create removes, and one that throws has removed the old database only
\* if SQLite itself then refused to open the new one.
LossOnlyIfRefused ==
    \A o \in Conns :
        removed[o] => kind[o] = "always_create" /\ at[o] \notin {"validate", "threw"}
=============================================================================
