------------------------------- MODULE Handles -------------------------------
(***************************************************************************)
(* Who frees what: the objects and buffers SQLite hands out (or takes      *)
(* over), and the C++ objects that own them: backup, session, snapshot,    *)
(* the callable of create_function and the image of deserialize.           *)
(*                                                                         *)
(* A handle is allocated, has one owner at a time, and is freed.  The      *)
(* place a pointer to it is kept in is a slot: a C++ object, or what       *)
(* SQLite keeps for a connection, one registered function and one          *)
(* deserialized image.  One thread uses them all; a call is one action.    *)
(***************************************************************************)
EXTENDS FiniteSets

CONSTANTS
    Conns,      \* connection objects
    Backups,    \* backup objects
    Sessions,   \* session objects
    Snapshots,  \* snapshot objects
    Memory,     \* allocations
    Nil,        \* the null pointer
    Faults      \* what may happen: SQLite refuses to "finish" a backup without an
                \* error, to "register" a function, to host an "image"; a caller
                \* asks for an image with "nocopy"; objects "outlive" connections

ASSUME HandlesAssumption ==
    /\ Backups \cap Sessions = {}
    /\ Backups \cap Snapshots = {}
    /\ Sessions \cap Snapshots = {}
    /\ Nil \notin Memory \cup Conns
    /\ Faults \subseteq {"finish", "register", "image", "nocopy", "outlive"}

Objects == Backups \cup Sessions \cup Snapshots

Function(c) == <<c, "function">>
Image(c) == <<c, "image">>

ASSUME SlotsAssumption == \A c \in Conns : Function(c) \notin Objects /\ Image(c) \notin Objects

Slots == Objects \cup (Conns \X {"function", "image"})

VARIABLES
    con,        \* connections: "none", "open", or "leaked": the object is gone but
                \* SQLite's handle could not be closed
    exists,     \* the C++ objects that exist
    holds,      \* the pointer in each slot, or Nil
    of,         \* a backup's source or a session's connection
    target,     \* the connection a backup writes to
    failed,     \* the last step of the backup failed
    live,       \* the handles that are allocated
    provoked,   \* history: which of the Faults have happened
    undefined   \* a freed handle was freed or used: nothing is defined any more

vars == <<con, exists, holds, of, target, failed, live, provoked, undefined>>

Init ==
    /\ con = [c \in Conns |-> "none"]
    /\ exists = {}
    /\ holds = [s \in Slots |-> Nil]
    /\ of = [o \in Backups \cup Sessions |-> Nil]
    /\ target = [b \in Backups |-> Nil]
    /\ failed = [b \in Backups |-> FALSE]
    /\ live = {}
    /\ provoked = {}
    /\ undefined = FALSE

Running == ~undefined

\* Memory the allocator may hand out, as far as a dangling pointer can tell.
Fresh == {h \in Memory \ live : \A s \in Slots : holds[s] # h}

Set(s, h) == [holds EXCEPT ![s] = h]

\* The pointers of a set of slots are passed to the function that frees them.
FreeAll(slots) ==
    LET freed == {holds[s] : s \in slots} \ {Nil}
    IN  /\ live' = live \ freed
        /\ undefined' = ~(freed \subseteq live)

Provoke(fault) ==
    /\ fault \in Faults
    /\ provoked' = provoked \cup {fault}

-----------------------------------------------------------------------------
(* connection *)

Connect(c) ==
    /\ Running
    /\ con[c] = "none"
    /\ con' = [con EXCEPT ![c] = "open"]
    /\ UNCHANGED <<exists, holds, of, target, failed, live, provoked, undefined>>

\* Backups and sessions that still need the connection.
Using(c) ==
    {b \in Backups : holds[b] # Nil /\ c \in {of[b], target[b]}}
        \cup {s \in Sessions : holds[s] # Nil /\ of[s] = c}

\* sqlite3_close refuses while the connection is the source of a backup.
Busy(c) == \E b \in Backups : holds[b] \in live /\ of[b] = c

\* ~connection closes, and SQLite frees what it keeps for the connection; when it
\* refuses, the exception is swallowed and the handle stays.
Destroy(c) ==
    /\ Running
    /\ con[c] = "open"
    /\ IF Using(c) = {} THEN UNCHANGED provoked ELSE Provoke("outlive")
    /\ IF Busy(c)
       THEN /\ con' = [con EXCEPT ![c] = "leaked"]
            /\ UNCHANGED <<holds, live, undefined>>
       ELSE /\ con' = [con EXCEPT ![c] = "none"]
            /\ FreeAll({Function(c), Image(c)})
            /\ holds' = [holds EXCEPT ![Function(c)] = Nil, ![Image(c)] = Nil]
    /\ UNCHANGED <<exists, of, target, failed>>

-----------------------------------------------------------------------------
(* backup *)

ConstructBackup(b, to, from) ==
    /\ Running
    /\ b \notin exists
    /\ to # from
    /\ con[to] = "open"
    /\ con[from] = "open"
    /\ exists' = exists \cup {b}
    /\ \E h \in Fresh : /\ holds' = Set(b, h)
                        /\ live' = live \cup {h}
    /\ of' = [of EXCEPT ![b] = from]
    /\ target' = [target EXCEPT ![b] = to]
    /\ failed' = [failed EXCEPT ![b] = FALSE]
    /\ UNCHANGED <<con, provoked, undefined>>

\* The backup's handle and the databases it works on are there.
Intact(b) == holds[b] \in live /\ con[target[b]] # "none"

\* OK, DONE, or an error; in every case the object stays as it is.
Step(b) ==
    /\ Running
    /\ b \in exists
    /\ holds[b] # Nil
    /\ \E bad \in BOOLEAN : failed' = [failed EXCEPT ![b] = bad]
    /\ undefined' = ~Intact(b)
    /\ UNCHANGED <<con, exists, holds, of, target, live, provoked>>

\* Deviation: the pointer is not cleared.
FinishKeepsPointer(b) ==
    /\ Running
    /\ b \in exists
    /\ holds[b] # Nil
    /\ live' = live \ {holds[b]}
    /\ undefined' = ~Intact(b)
    /\ UNCHANGED <<con, exists, holds, of, target, failed, provoked>>

Finish(b) ==
    /\ Running
    /\ b \in exists
    /\ holds[b] # Nil
    /\ live' = live \ {holds[b]}
    /\ undefined' = ~Intact(b)
    /\ holds' = Set(b, Nil)
    /\ UNCHANGED <<con, exists, of, target, failed, provoked>>

\* sqlite3_backup_finish frees the handle and reports the error of the last step:
\* finish() throws before it clears the pointer.
FinishThrows(b) ==
    /\ Running
    /\ b \in exists
    /\ holds[b] # Nil
    /\ failed[b]
    /\ Provoke("finish")
    /\ live' = live \ {holds[b]}
    /\ undefined' = ~Intact(b)
    /\ UNCHANGED <<con, exists, holds, of, target, failed>>

\* ~backup finishes, whatever that reports.
DestroyBackup(b) ==
    /\ Running
    /\ b \in exists
    /\ exists' = exists \ {b}
    /\ live' = live \ {holds[b]}
    /\ undefined' = (holds[b] # Nil /\ ~Intact(b))
    /\ holds' = Set(b, Nil)
    /\ of' = [of EXCEPT ![b] = Nil]
    /\ target' = [target EXCEPT ![b] = Nil]
    /\ failed' = [failed EXCEPT ![b] = FALSE]
    /\ UNCHANGED <<con, provoked>>

-----------------------------------------------------------------------------
(* session, snapshot *)

ConstructSession(s, c) ==
    /\ Running
    /\ s \notin exists
    /\ con[c] = "open"
    /\ exists' = exists \cup {s}
    /\ \E h \in Fresh : /\ holds' = Set(s, h)
                        /\ live' = live \cup {h}
    /\ of' = [of EXCEPT ![s] = c]
    /\ UNCHANGED <<con, target, failed, provoked, undefined>>

\* attach, changeset, ...: on the session and on the connection object it points to.
UseSession(s) ==
    /\ Running
    /\ s \in exists
    /\ holds[s] # Nil
    /\ undefined' = ~(holds[s] \in live /\ con[of[s]] = "open")
    /\ UNCHANGED <<con, exists, holds, of, target, failed, live, provoked>>

\* An empty snapshot, or snapshot::take.
ConstructSnapshot(n) ==
    /\ Running
    /\ n \notin exists
    /\ exists' = exists \cup {n}
    /\ \/ UNCHANGED <<holds, live>>
       \/ \E c \in Conns, h \in Fresh : /\ con[c] = "open"
                                        /\ holds' = Set(n, h)
                                        /\ live' = live \cup {h}
    /\ UNCHANGED <<con, of, target, failed, provoked, undefined>>

\* Whatever o holds is freed.  A session's handle needs the database it was made on.
FreeOwn(o) ==
    /\ live' = live \ {holds[o]}
    /\ undefined' = /\ holds[o] # Nil
                    /\ \/ holds[o] \notin live
                       \/ o \in Sessions /\ con[of[o]] = "none"

\* The connection a session points to goes where its handle goes.
Point(p, c, o) == IF p \in Sessions THEN of' = [of EXCEPT ![p] = c, ![o] = Nil]
                  ELSE UNCHANGED of

SameClass(o, p) == {o, p} \subseteq Sessions \/ {o, p} \subseteq Snapshots

\* Deviation: the connection is not moved.
MoveConstructForgetsCon(o, p) ==
    /\ Running
    /\ SameClass(o, p)
    /\ o \in exists
    /\ p \notin exists
    /\ exists' = exists \cup {p}
    /\ holds' = [holds EXCEPT ![p] = holds[o], ![o] = Nil]
    /\ UNCHANGED <<con, of, target, failed, live, provoked, undefined>>

MoveConstruct(o, p) ==
    /\ Running
    /\ SameClass(o, p)
    /\ o \in exists
    /\ p \notin exists
    /\ exists' = exists \cup {p}
    /\ holds' = [holds EXCEPT ![p] = holds[o], ![o] = Nil]
    /\ Point(p, of[o], o)
    /\ UNCHANGED <<con, target, failed, live, provoked, undefined>>

\* Deviation: what p held is overwritten.
MoveAssignOverwrites(o, p) ==
    /\ Running
    /\ SameClass(o, p)
    /\ {o, p} \subseteq exists
    /\ o # p
    /\ holds' = [holds EXCEPT ![p] = holds[o], ![o] = Nil]
    /\ Point(p, of[o], o)
    /\ UNCHANGED <<con, exists, target, failed, live, provoked, undefined>>

\* An assignment to itself does nothing.
MoveAssign(o, p) ==
    /\ Running
    /\ SameClass(o, p)
    /\ {o, p} \subseteq exists
    /\ o # p
    /\ FreeOwn(p)
    /\ holds' = [holds EXCEPT ![p] = holds[o], ![o] = Nil]
    /\ Point(p, of[o], o)
    /\ UNCHANGED <<con, exists, target, failed, provoked>>

\* snapshot::reset
ResetSnapshot(n) ==
    /\ Running
    /\ n \in exists
    /\ FreeOwn(n)
    /\ holds' = Set(n, Nil)
    /\ UNCHANGED <<con, exists, of, target, failed, provoked>>

DestroyObject(o) ==
    /\ Running
    /\ o \in exists
    /\ exists' = exists \ {o}
    /\ FreeOwn(o)
    /\ holds' = Set(o, Nil)
    /\ IF o \in Sessions THEN of' = [of EXCEPT ![o] = Nil] ELSE UNCHANGED of
    /\ UNCHANGED <<con, target, failed, provoked>>

-----------------------------------------------------------------------------
(* create_function, serialize, deserialize *)

\* SQLite takes over the new allocation of a slot and frees the one it had there.
TakeOver(slot) ==
    \E h \in Fresh : /\ holds' = Set(slot, h)
                     /\ live' = (live \ {holds[slot]}) \cup {h}
                     /\ undefined' = (holds[slot] # Nil /\ holds[slot] \notin live)

\* Registers the function, or replaces it.
CreateFunction(c) ==
    /\ Running
    /\ con[c] = "open"
    /\ TakeOver(Function(c))
    /\ UNCHANGED <<con, exists, of, target, failed, provoked>>

\* The function is in use, its name is too long, ...: SQLite destroys the holder, and
\* so does the unique_ptr when create_function throws.
CreateFunctionRefused(c) ==
    /\ Running
    /\ con[c] = "open"
    /\ Provoke("register")
    /\ undefined' = TRUE
    /\ UNCHANGED <<con, exists, holds, of, target, failed, live>>

Deserialize(c) ==
    /\ Running
    /\ con[c] = "open"
    /\ TakeOver(Image(c))
    /\ UNCHANGED <<con, exists, of, target, failed, provoked>>

\* No such schema, the database is in use, ...: with SQLITE_DESERIALIZE_FREEONCLOSE
\* SQLite frees the buffer, and so does deserialize().
DeserializeRefused(c) ==
    /\ Running
    /\ con[c] = "open"
    /\ Provoke("image")
    /\ undefined' = TRUE
    /\ UNCHANGED <<con, exists, holds, of, target, failed, live>>

\* SQLITE_SERIALIZE_NOCOPY: SQLite returns the image it hosts, and serialize() frees
\* it.  Without the flag it is a copy that nobody else knows.
SerializeNoCopy(c) ==
    /\ Running
    /\ con[c] = "open"
    /\ holds[Image(c)] # Nil
    /\ Provoke("nocopy")
    /\ live' = live \ {holds[Image(c)]}
    /\ undefined' = (holds[Image(c)] \notin live)
    /\ UNCHANGED <<con, exists, holds, of, target, failed>>

-----------------------------------------------------------------------------

ConnNext(c) ==
    \/ Connect(c) \/ Destroy(c) \/ CreateFunction(c) \/ CreateFunctionRefused(c)
    \/ Deserialize(c) \/ DeserializeRefused(c) \/ SerializeNoCopy(c)

BackupNext(b) ==
    \/ \E to, from \in Conns : ConstructBackup(b, to, from)
    \/ Step(b) \/ Finish(b) \/ FinishThrows(b) \/ DestroyBackup(b)

Next ==
    \/ \E c \in Conns : ConnNext(c)
    \/ \E b \in Backups : BackupNext(b)
    \/ \E s \in Sessions : UseSession(s) \/ \E c \in Conns : ConstructSession(s, c)
    \/ \E n \in Snapshots : ConstructSnapshot(n) \/ ResetSnapshot(n)
    \/ \E o, p \in Sessions \cup Snapshots : MoveConstruct(o, p) \/ MoveAssign(o, p)
    \/ \E o \in Sessions \cup Snapshots : DestroyObject(o)

Spec == Init /\ [][Next]_vars

-----------------------------------------------------------------------------
(* Properties *)

\* Every variable has its type, and only what exists holds anything: an object, or what
\* SQLite has for a connection.
TypeOK ==
    /\ con \in [Conns -> {"none", "open", "leaked"}]
    /\ exists \in SUBSET Objects
    /\ holds \in [Slots -> Memory \cup {Nil}]
    /\ of \in [Backups \cup Sessions -> Conns \cup {Nil}]
    /\ target \in [Backups -> Conns \cup {Nil}]
    /\ failed \in [Backups -> BOOLEAN]
    /\ live \in SUBSET Memory
    /\ provoked \in SUBSET Faults
    /\ undefined \in BOOLEAN
    /\ \A o \in Objects \ exists : holds[o] = Nil
    /\ \A c \in Conns : con[c] = "none" => holds[Function(c)] = Nil /\ holds[Image(c)] = Nil
    /\ \A s \in Sessions : holds[s] # Nil => of[s] # Nil

\* Whatever is constructed, moved, assigned, refused and destroyed in whatever order,
\* every handle that is allocated is in exactly one slot: none is leaked, and none has
\* two owners who would both free it.
OneOwner ==
    Running => \A h \in live : \E s \in Slots :
                   /\ holds[s] = h
                   /\ \A t \in Slots \ {s} : holds[t] # h

\* A pointer dangles only in a backup whose last step failed and whose finish() reported
\* that, and in the image of a connection that was serialized without a copy; sessions,
\* snapshots and functions never have one.
Dangles(s) ==
    \/ s \in Backups /\ failed[s] /\ "finish" \in provoked
    \/ "nocopy" \in provoked /\ \E c \in Conns : s = Image(c)

\* The connections a backup or a session works on.
Needs(o) == IF o \in Backups THEN {of[o], target[o]} ELSE {of[o]}

PointersMeet == \A s \in Slots : holds[s] \in live \cup {Nil} \/ Dangles(s)

DatabasesOpen ==
    "outlive" \notin provoked =>
        \A o \in Backups \cup Sessions : holds[o] # Nil =>
            \A c \in Needs(o) : c \in Conns /\ con[c] = "open"

\* What goes wrong with one kind of handle does no harm to the others, and unless objects
\* outlive connections the databases of backups and sessions are open.
FaultsContained == Running => PointersMeet /\ DatabasesOpen

\* As long as objects do not outlive their connections, SQLite takes over what it is
\* given, and reports no error when a backup is finished, nothing is ever freed twice
\* or used after it was freed; and until that happens every fault stays where it occurred.
FreedOnce == (undefined => provoked # {}) /\ FaultsContained

\* When the objects are gone and the connections are closed, everything is freed.
NothingLeft == Running /\ exists = {} /\ (\A c \in Conns : con[c] = "none") => live = {}

\* "The backup operation is automatically finished after the object destructed": a
\* backup's destructor is defined, also after an explicit finish(), whatever that
\* reported.
FinishedOnce == [][\A b \in Backups : b \in exists \ exists' => ~undefined']_vars
=============================================================================
