----------------------------- MODULE JournalMode -----------------------------
(***************************************************************************)
(* set_wal_mode, enable_wal and get_wal_mode on a connection with a        *)
(* statement cache, between the user's statements and transactions.        *)
(*                                                                         *)
(* Each helper runs a PRAGMA through a query, takes its one row and lets   *)
(* the query go; the statement goes to the cache without being reset       *)
(* (statement_cache::release), so SQLite goes on counting it among the     *)
(* statements in progress.  A connection is used by one thread; a call is  *)
(* one action.                                                             *)
(***************************************************************************)
CONSTANTS
    Modes,      \* journal modes a caller may ask for, among them "wal" and "wal2"
    Supported,  \* those SQLite knows: all, but WAL2 only on its own branch
    Initial,    \* the journal mode of the database
    Writes      \* what the user's statements write

ASSUME JournalModeAssumption ==
    /\ {"wal", "wal2"} \subseteq Modes
    /\ Supported \subseteq Modes /\ Modes \ Supported \subseteq {"wal2"}
    /\ {"delete", "wal"} \subseteq Supported
    /\ Initial \in {"delete", "wal"}
    /\ {"get", "select", "none", "throws", "busy"} \cap Modes = {}

VARIABLES
    db,       \* SQLite's side of the connection, see Database
    caching,  \* statements are cached
    parked,   \* the texts in the cache
    answer,   \* history: the helper that returned last, what was asked of it and
              \* what it said; all "none" after any other call
    told,     \* history: writes outside a BEGIN, whose call returned
    promised, \* history: writes of a transaction whose commit() returned
    refused,  \* history: a commit() was refused
    stuck     \* history: a PRAGMA has been parked in progress

vars == <<db, caching, parked, answer, told, promised, refused, stuck>>

\* The text of a PRAGMA: the mode it sets, or "get".  "select" is the user's.
Pragmas == Modes \cup {"get"}
Texts == Pragmas \cup {"select"}

(***************************************************************************)
(* mode      the journal mode        explicit  a BEGIN is open             *)
(* file      the mode that the next connection to the file finds           *)
(* started   the parked statements that are in progress                    *)
(* pending   writes that are not committed                                 *)
(* switched  a change to or from WAL is not committed                      *)
(* durable   writes that are committed                                     *)
(***************************************************************************)
Database == [mode : Supported, file : Supported, explicit : BOOLEAN,
             started : SUBSET Texts, pending : SUBSET Writes, switched : BOOLEAN,
             durable : SUBSET Writes]

NoAnswer == [call |-> "none", asked |-> "none", said |-> "none"]

Init ==
    /\ db = [mode |-> Initial, file |-> Initial, explicit |-> FALSE, started |-> {},
             pending |-> {}, switched |-> FALSE, durable |-> {}]
    /\ caching \in BOOLEAN
    /\ parked = {}
    /\ answer = NoAnswer
    /\ told = {}
    /\ promised = {}
    /\ refused = FALSE
    /\ stuck = FALSE

-----------------------------------------------------------------------------
(* SQLite *)

\* Statements in progress that may write, as every PRAGMA of the journal mode does.
Writing(d) == d.started \cap Pragmas

Committed(d) == [d EXCEPT !.durable = @ \cup d.pending, !.pending = {}, !.explicit = FALSE,
                          !.file = IF d.switched THEN d.mode ELSE @, !.switched = FALSE]

\* The uncommitted is gone; the journal mode may be found changed back only later.
RolledBack(d) ==
    {[d EXCEPT !.pending = {}, !.explicit = FALSE, !.switched = FALSE, !.mode = m] :
        m \in {d.mode, IF d.switched THEN d.file ELSE d.mode}}

\* Statements are reset or finalized.  Without a BEGIN, the last one in progress that
\* may write commits what is pending.
Halt(d, texts) ==
    LET e == [d EXCEPT !.started = @ \ texts]
    IN  IF e.explicit \/ Writing(e) # {} THEN e ELSE Committed(e)

Unsaved(d) == d.pending # {} \/ d.switched

\* What PRAGMA journal_mode = m changes to: nothing while something is unsaved, or for
\* a mode SQLite does not know.
Goal(d, m) == IF m \in Supported /\ ~Unsaved(d) THEN m ELSE d.mode

SwitchesWal(d, m) == Goal(d, m) # d.mode /\ "wal" \in {Goal(d, m), d.mode}

\* "cannot change into (out of) wal mode from within a transaction"
Refuses(d, m) == SwitchesWal(d, m) /\ (d.explicit \/ d.started # {})

\* The PRAGMA has returned its row and is in progress.
Ran(d, m) == [d EXCEPT !.mode = Goal(d, m), !.switched = @ \/ SwitchesWal(d, m),
                       !.started = @ \cup {m}]

-----------------------------------------------------------------------------
(* Helpers of snapshot.cpp, as functions of the database and the cache *)

\* A query takes its statement from the cache, which resets it, or prepares it ...
Acquired(d, text) == IF text \in parked THEN Halt(d, {text}) ELSE d

\* ... and gives it back as it is, or finalizes it.
Released(d, text) == IF caching THEN d ELSE Halt(d, {text})

\* Deviation: the wal2 test is missing.
SetWalModeAccepts(d, m, busy) ==
    LET a == Acquired(d, m)
    IN  IF Refuses(a, m) THEN [db |-> a, said |-> "throws"]
        ELSE IF busy /\ SwitchesWal(a, m) THEN [db |-> a, said |-> "busy"]
        ELSE [db |-> Released(Ran(a, m), m), said |-> Ran(a, m).mode]

\* set_wal_mode: the database afterwards, and the mode it returns, or why it throws.
\* `busy`: other connections use the database.
SetWalMode(d, m, busy) ==
    LET a == Acquired(d, m)
    IN  IF Refuses(a, m) THEN [db |-> a, said |-> "throws"]
        ELSE IF busy /\ SwitchesWal(a, m) THEN [db |-> a, said |-> "busy"]
        ELSE [db |-> Released(Ran(a, m), m),
              said |-> IF m = "wal2" /\ Ran(a, m).mode # "wal2" THEN "throws"
                       ELSE Ran(a, m).mode]

\* Deviation: the fallback is missing.
EnableWalNoFallback(d, prefer, busy) ==
    SetWalMode(d, IF prefer THEN "wal2" ELSE "wal", busy)

\* enable_wal: any exception of the first attempt leads to the second.
EnableWal(d, prefer, busy) ==
    LET first == SetWalMode(d, "wal2", busy)
    IN  IF ~prefer THEN SetWalMode(d, "wal", busy)
        ELSE IF first.said = "wal2" THEN first
        ELSE SetWalMode(first.db, "wal", busy)

\* A helper has returned: the database d, the texts it ran, what it said.
Answers(d, texts, call, asked, said) ==
    /\ db' = d
    /\ parked' = IF caching THEN parked \cup texts ELSE parked
    /\ answer' = [call |-> call, asked |-> asked, said |-> said]
    /\ stuck' = (stuck \/ Writing(d) # {})
    /\ UNCHANGED <<caching, told, promised, refused>>

CallSet(m, busy) ==
    LET r == SetWalMode(db, m, busy) IN Answers(r.db, {m}, "set", m, r.said)

CallEnable(prefer, busy) ==
    LET r == EnableWal(db, prefer, busy)
        texts == IF prefer THEN {"wal2", "wal"} ELSE {"wal"}
    IN  Answers(r.db, texts, "enable", "wal", r.said)

CallGet ==
    LET a == Acquired(db, "get")
        d == Released([a EXCEPT !.started = @ \cup {"get"}], "get")
    IN  Answers(d, {"get"}, "get", "none", d.mode)

-----------------------------------------------------------------------------
(* The user's calls *)

\* A call that is no helper leaves the database d and the cached texts p.
Leaves(d, p) ==
    /\ db' = d
    /\ parked' = p
    /\ answer' = NoAnswer

\* An INSERT runs to its end: outside a BEGIN it commits unless another statement that
\* may write is in progress.
Insert(w) ==
    LET d == [db EXCEPT !.pending = @ \cup {w}]
    IN  /\ w \notin db.pending \cup db.durable
        /\ Leaves(Halt(d, {}), parked)
        /\ told' = IF db.explicit THEN told ELSE told \cup {w}
        /\ UNCHANGED <<caching, promised, refused, stuck>>

\* A SELECT is read to its end, or let go on a row.
Select(abandoned) ==
    LET a == Acquired(db, "select")
        d == IF abandoned
             THEN Released([a EXCEPT !.started = @ \cup {"select"}], "select") ELSE a
    IN  /\ Leaves(d, IF caching THEN parked \cup {"select"} ELSE parked)
        /\ UNCHANGED <<caching, told, promised, refused, stuck>>

Begin ==
    /\ ~db.explicit
    /\ Leaves([db EXCEPT !.explicit = TRUE], parked)
    /\ UNCHANGED <<caching, told, promised, refused, stuck>>

\* Deviation: the refusal is lost.
CommitSwallows ==
    /\ db.explicit
    /\ Leaves(IF Writing(db) # {} THEN db ELSE Committed(db), parked)
    /\ promised' = promised \cup db.pending
    /\ UNCHANGED <<caching, told, refused, stuck>>

\* transaction::commit; "cannot commit transaction - SQL statements in progress"
\* leaves the transaction open.
Commit ==
    /\ db.explicit
    /\ IF Writing(db) # {}
       THEN Leaves(db, parked) /\ refused' = TRUE /\ UNCHANGED promised
       ELSE /\ Leaves(Committed(db), parked)
            /\ promised' = promised \cup db.pending
            /\ UNCHANGED refused
    /\ UNCHANGED <<caching, told, stuck>>

\* transaction::rollback, which is also what its destructor does.
Rollback ==
    /\ db.explicit
    /\ \E d \in RolledBack(db) : Leaves(d, parked)
    /\ UNCHANGED <<caching, told, promised, refused, stuck>>

\* The cache finalizes texts: the least recently used one when it is full, all of them
\* at a schema change and when the cache is cleared.
Finalize(texts) ==
    /\ texts # {} /\ texts \subseteq parked
    /\ Leaves(Halt(db, texts), parked \ texts)
    /\ UNCHANGED <<caching, told, promised, refused, stuck>>

\* Deviation: the statements are forgotten.
ConfigureForgets(on) ==
    /\ Leaves(db, {})
    /\ caching' = on
    /\ UNCHANGED <<told, promised, refused, stuck>>

\* configure_statement_cache finalizes all of them.
Configure(on) ==
    /\ Leaves(Halt(db, parked), {})
    /\ caching' = on
    /\ UNCHANGED <<told, promised, refused, stuck>>

\* A connection to the same file, after what is left of d.
Reopened(d) ==
    LET m == IF d.file = "wal" THEN "wal" ELSE "delete"
    IN  [d EXCEPT !.mode = m, !.file = m, !.explicit = FALSE, !.started = {},
                  !.pending = {}, !.switched = FALSE]

\* The connection is destroyed, which finalizes what is cached, and made again.
Reconnect ==
    /\ Leaves(Reopened(Halt(db, parked)), {})
    /\ UNCHANGED <<caching, told, promised, refused, stuck>>

\* The process ends and another one connects.
Crash ==
    /\ Leaves(Reopened(db), {})
    /\ UNCHANGED <<caching, told, promised, refused, stuck>>

-----------------------------------------------------------------------------
Next ==
    \/ \E m \in Modes, busy \in BOOLEAN : CallSet(m, busy)
    \/ \E prefer, busy \in BOOLEAN : CallEnable(prefer, busy)
    \/ CallGet
    \/ \E w \in Writes : Insert(w)
    \/ \E abandoned \in BOOLEAN : Select(abandoned)
    \/ Begin \/ Commit \/ Rollback
    \/ \E texts \in SUBSET parked : Finalize(texts)
    \/ \E on \in BOOLEAN : Configure(on)
    \/ Reconnect \/ Crash

Spec == Init /\ [][Next]_vars

-----------------------------------------------------------------------------
(* Properties *)

\* Types; a statement in progress is one the cache can still finalize (nothing else
\* holds it), and without a cache there is none.
TypeOK ==
    /\ db \in Database
    /\ caching \in BOOLEAN
    /\ parked \subseteq (IF caching THEN Texts ELSE {})
    /\ db.started \subseteq parked
    /\ answer.call \in {"none", "set", "enable", "get"}
    /\ answer.asked \in Modes \cup {"none"}
    /\ answer.said \in Modes \cup {"none", "throws", "busy"}
    /\ told \subseteq Writes /\ promised \subseteq Writes
    /\ refused \in BOOLEAN /\ stuck \in BOOLEAN

\* What the caller was told is saved is in the file: always for a transaction whose
\* commit() returned, and for a statement of its own on a connection whose cache has
\* never held a PRAGMA in progress.  commit() throws on no other connection.
Kept ==
    /\ promised \subseteq db.durable
    /\ stuck \/ (told \subseteq db.durable /\ ~refused)

\* A helper names the mode that is in force, set_wal_mode another one than it was asked
\* for only while something is unsaved, and the mode named survives a reconnection and
\* a crash unless the cache has held a PRAGMA in progress.
NamesMode ==
    answer.said \in Modes =>
        /\ answer.said = db.mode
        /\ answer.call = "set" /\ answer.said # answer.asked => Unsaved(db)
        /\ stuck \/ (answer.said = "wal" <=> db.file = "wal")

\* enable_wal, asked for WAL2 or not, throws only inside a BEGIN or while a statement
\* is in progress.
FallsBackIfIdle ==
    answer.call = "enable" /\ answer.said = "throws" => db.explicit \/ db.started # {}

\* README.md:141: "the helper automatically falls back to classic WAL if WAL2 is
\* unavailable".  It does outside a BEGIN, with no SELECT of the caller's in progress.
FallsBack ==
    answer.call = "enable" /\ answer.said = "throws" =>
        db.explicit \/ "select" \in db.started

\* transaction.hpp:93: commit() "Commits a transaction", as in the example of
\* README.md:146-149 after enable_wal.
CommitCommits == ~refused

=============================================================================
