---------------------------- MODULE Transactions ----------------------------
(***************************************************************************)
(* sqlite::transaction and sqlite::savepoint objects on one connection.    *)
(*                                                                         *)
(* A connection serves one thread, so a member function is one action.     *)
(* A call SQLite refuses throws and changes nothing; it is an action only  *)
(* where the code's reaction could matter.  m_isEnding is true only while  *)
(* such a call runs and is never seen by another one.                      *)
(***************************************************************************)
EXTENDS Integers, Sequences

CONSTANTS
    Txns,      \* transaction objects
    Sps,       \* savepoint objects
    Names,     \* savepoint names
    NoName,    \* the level BEGIN opens has no name
    Writes,    \* what the user's statements write
    Faults,    \* "busy": SQLite refuses to commit; "abort": it rolls back by itself
    Scoped     \* TRUE: objects are destroyed in reverse order of construction

ASSUME TransactionsAssumption ==
    /\ Txns \cap Sps = {}
    /\ NoName \notin Names
    /\ Faults \subseteq {"busy", "abort"}
    /\ Scoped \in BOOLEAN

VARIABLES
    scope,       \* the objects that exist, in the order of their construction
    isActive,    \* m_isActive
    name,        \* m_name
    levels,      \* SQLite's transaction and savepoints: [name, by, writes], where
                 \* `by` (which SQLite does not know) is the object that opened it
    durable,     \* the writes that are committed
    terminated,  \* an exception has left a destructor
    disturbed,   \* SQLite has rolled back by itself, or refused to commit a release
    disciplined  \* history: every call was on the innermost active object, so the
                 \* objects have been used as scopes

vars == <<scope, isActive, name, levels, durable, terminated, disturbed, disciplined>>

Objects == Txns \cup Sps

Exists(o) == \E i \in 1..Len(scope) : scope[i] = o

\* Objects constructed after o.
After(o) == {scope[j] : j \in {j \in 1..Len(scope) :
                                  \E i \in 1..(j - 1) : scope[i] = o}}

Innermost(o) == \A p \in After(o) : ~isActive[p]

Running == ~terminated

\* Calls on o that begin or end something; any order is possible.
Begins(o) ==
    /\ Running
    /\ Exists(o)
    /\ disciplined' = (disciplined /\ Innermost(o) /\ ~isActive[o])

Ends(o) ==
    /\ Running
    /\ Exists(o)
    /\ disciplined' = (disciplined /\ Innermost(o) /\ isActive[o])

Init ==
    /\ scope = <<>>
    /\ isActive = [o \in Objects |-> FALSE]
    /\ name = [s \in Sps |-> NoName]
    /\ levels = <<>>
    /\ durable = {}
    /\ terminated = FALSE
    /\ disturbed = FALSE
    /\ disciplined = TRUE

-----------------------------------------------------------------------------
(* SQLite *)

Level(n, o) == [name |-> n, by |-> o, writes |-> {}]

\* The savepoint a name means: the most recent one (none, or exactly one).
Latest(n) == {k \in 1..Len(levels) : /\ levels[k].name = n
                                     /\ \A j \in (k + 1)..Len(levels) : levels[j].name # n}

WritesFrom(k) == UNION {levels[j].writes : j \in k..Len(levels)}

\* COMMIT, or RELEASE of level k: with the outermost one everything is durable.
KeepFrom(k) ==
    IF k = 1
    THEN levels' = <<>> /\ durable' = durable \cup WritesFrom(1)
    ELSE /\ levels' = [SubSeq(levels, 1, k - 1)
                           EXCEPT ![k - 1].writes = @ \cup WritesFrom(k)]
         /\ UNCHANGED durable

\* A statement of the user, alone or in the open transaction.
Write(w) ==
    /\ Running
    /\ w \notin durable \cup WritesFrom(1)
    /\ IF levels = <<>>
       THEN durable' = durable \cup {w} /\ UNCHANGED levels
       ELSE /\ levels' = [levels EXCEPT ![Len(levels)].writes = @ \cup {w}]
            /\ UNCHANGED durable
    /\ UNCHANGED <<scope, isActive, name, terminated, disturbed, disciplined>>

\* SQLITE_FULL, SQLITE_IOERR, SQLITE_NOMEM, ... roll the transaction back.
Abort ==
    /\ Running
    /\ "abort" \in Faults
    /\ levels # <<>>
    /\ levels' = <<>>
    /\ disturbed' = TRUE
    /\ UNCHANGED <<scope, isActive, name, durable, terminated, disciplined>>

-----------------------------------------------------------------------------
(* transaction *)

\* The constructor; when BEGIN is refused it throws and there is no object.
ConstructTxn(t) ==
    /\ Running
    /\ ~Exists(t)
    /\ levels = <<>>
    /\ levels' = <<Level(NoName, t)>>
    /\ scope' = Append(scope, t)
    /\ isActive' = [isActive EXCEPT ![t] = TRUE]
    /\ UNCHANGED <<name, durable, terminated, disturbed, disciplined>>

Begin(t) ==
    /\ Begins(t)
    /\ levels = <<>>
    /\ levels' = <<Level(NoName, t)>>
    /\ isActive' = [isActive EXCEPT ![t] = TRUE]
    /\ UNCHANGED <<scope, name, durable, terminated, disturbed>>

\* Deviation: the flag is not cleared.
CommitKeepsFlag(t) ==
    /\ Ends(t)
    /\ levels # <<>>
    /\ KeepFrom(1)
    /\ UNCHANGED <<scope, isActive, name, terminated, disturbed>>

\* commit() and end()
Commit(t) ==
    /\ Ends(t)
    /\ levels # <<>>
    /\ KeepFrom(1)
    /\ isActive' = [isActive EXCEPT ![t] = FALSE]
    /\ UNCHANGED <<scope, name, terminated, disturbed>>

\* Deviation: the flag is cleared before COMMIT is executed.
CommitRefusedClearsFlag(t) ==
    /\ Ends(t)
    /\ "busy" \in Faults
    /\ levels # <<>>
    /\ isActive' = [isActive EXCEPT ![t] = FALSE]
    /\ UNCHANGED <<scope, name, levels, durable, terminated, disturbed>>

\* SQLITE_BUSY: exec throws before the flag is cleared, the transaction is open.
CommitRefused(t) ==
    /\ Running
    /\ Exists(t)
    /\ "busy" \in Faults
    /\ levels # <<>>
    /\ UNCHANGED vars

Rollback(t) ==
    /\ Ends(t)
    /\ levels # <<>>
    /\ levels' = <<>>
    /\ isActive' = [isActive EXCEPT ![t] = FALSE]
    /\ UNCHANGED <<scope, name, durable, terminated, disturbed>>

\* o is destroyed: its storage ends.
Destroyed(o) ==
    /\ Running
    /\ \E i \in 1..Len(scope) :
          /\ scope[i] = o
          /\ Scoped => i = Len(scope)
          /\ scope' = SubSeq(scope, 1, i - 1) \o SubSeq(scope, i + 1, Len(scope))
    /\ isActive' = [isActive EXCEPT ![o] = FALSE]

\* Deviation: a destructor that commits.
DestroyTxnCommits(t) ==
    /\ Destroyed(t)
    /\ IF isActive[t] /\ levels # <<>> THEN KeepFrom(1) ELSE UNCHANGED <<levels, durable>>
    /\ UNCHANGED <<name, terminated, disturbed, disciplined>>

\* A ROLLBACK that is refused because nothing is open is swallowed.
DestroyTxn(t) ==
    /\ Destroyed(t)
    /\ levels' = IF isActive[t] THEN <<>> ELSE levels
    /\ UNCHANGED <<name, durable, terminated, disturbed, disciplined>>

-----------------------------------------------------------------------------
(* savepoint *)

\* Deviation: SAVEPOINT is executed before m_name has its value.
ConstructSpUnnamed(s) ==
    /\ Running
    /\ ~Exists(s)
    /\ levels' = Append(levels, Level(name[s], s))
    /\ \E n \in Names : name' = [name EXCEPT ![s] = n]
    /\ scope' = Append(scope, s)
    /\ isActive' = [isActive EXCEPT ![s] = TRUE]
    /\ UNCHANGED <<durable, terminated, disturbed, disciplined>>

\* Outside a transaction SAVEPOINT begins one.
ConstructSp(s) ==
    /\ Running
    /\ ~Exists(s)
    /\ \E n \in Names : /\ levels' = Append(levels, Level(n, s))
                        /\ name' = [name EXCEPT ![s] = n]
    /\ scope' = Append(scope, s)
    /\ isActive' = [isActive EXCEPT ![s] = TRUE]
    /\ UNCHANGED <<durable, terminated, disturbed, disciplined>>

\* Deviation: the flag is not cleared.
ReleaseKeepsFlag(s) ==
    /\ Ends(s)
    /\ \E k \in Latest(name[s]) : KeepFrom(k)
    /\ UNCHANGED <<scope, isActive, name, terminated, disturbed>>

\* Deviation: the flag is cleared before RELEASE is executed, which may fail.
ReleaseClearsFlagFirst(s) ==
    /\ Ends(s)
    /\ \/ \E k \in Latest(name[s]) : KeepFrom(k)
       \/ "busy" \in Faults /\ 1 \in Latest(name[s]) /\ UNCHANGED <<levels, durable>>
    /\ isActive' = [isActive EXCEPT ![s] = FALSE]
    /\ UNCHANGED <<scope, name, terminated, disturbed>>

Release(s) ==
    /\ Ends(s)
    /\ \E k \in Latest(name[s]) : KeepFrom(k)
    /\ isActive' = [isActive EXCEPT ![s] = FALSE]
    /\ UNCHANGED <<scope, name, terminated, disturbed>>

\* The savepoint stays, and so does the flag.
RollbackTo(s) ==
    /\ Ends(s)
    /\ \E k \in Latest(name[s]) : levels' = [SubSeq(levels, 1, k) EXCEPT ![k].writes = {}]
    /\ UNCHANGED <<scope, isActive, name, durable, terminated, disturbed>>

DestroyReleasedSp(s) ==
    /\ Destroyed(s)
    /\ ~isActive[s]
    /\ UNCHANGED <<name, levels, durable, terminated, disturbed, disciplined>>

\* The destructor releases, so the work is kept.
DestroyActiveSp(s) ==
    /\ Destroyed(s)
    /\ isActive[s]
    /\ \E k \in Latest(name[s]) : KeepFrom(k)
    /\ UNCHANGED <<name, terminated, disturbed, disciplined>>

\* RELEASE is refused: the savepoint is gone, or releasing it would commit and
\* SQLite is busy.  release() throws out of a destructor, which is noexcept.
DestroySpThrows(s) ==
    /\ Destroyed(s)
    /\ isActive[s]
    /\ \/ Latest(name[s]) = {} /\ UNCHANGED disturbed
       \/ "busy" \in Faults /\ 1 \in Latest(name[s]) /\ disturbed' = TRUE
    /\ terminated' = TRUE
    /\ UNCHANGED <<name, levels, durable, disciplined>>

-----------------------------------------------------------------------------

TxnNext(t) ==
    \/ ConstructTxn(t) \/ Begin(t) \/ Commit(t) \/ CommitRefused(t)
    \/ Rollback(t) \/ DestroyTxn(t)

SpNext(s) ==
    \/ ConstructSp(s) \/ Release(s) \/ RollbackTo(s)
    \/ DestroyReleasedSp(s) \/ DestroyActiveSp(s) \/ DestroySpThrows(s)

Next ==
    \/ \E t \in Txns : TxnNext(t)
    \/ \E s \in Sps : SpNext(s)
    \/ \E w \in Writes : Write(w)
    \/ Abort

Spec == Init /\ [][Next]_vars

-----------------------------------------------------------------------------
(* Properties *)

\* Every variable has its type, an object exists once, and BEGIN's level is the
\* outermost one.
TypeOK ==
    /\ scope \in Seq(Objects)
    /\ \A i, j \in 1..Len(scope) : scope[i] = scope[j] => i = j
    /\ isActive \in [Objects -> BOOLEAN]
    /\ name \in [Sps -> Names \cup {NoName}]
    /\ levels \in Seq([name : Names \cup {NoName}, by : Objects, writes : SUBSET Writes])
    /\ \A k \in 2..Len(levels) : levels[k].name # NoName
    /\ durable \in SUBSET Writes
    /\ terminated \in BOOLEAN
    /\ disturbed \in BOOLEAN
    /\ disciplined \in BOOLEAN
    /\ \A o \in Objects : isActive[o] => Exists(o)

\* "Guarantees that transactions are closed on scope exit": whatever calls were
\* refused and in whatever order the objects were used, a transaction that is
\* open was begun by an object that still exists.
ClosedOnScopeExit == Running /\ levels # <<>> => Exists(levels[1].by)

\* A name on SQLite's stack is accounted for: no more savepoints have it than
\* active objects do, so the destructors can end them all.
NamesAccounted ==
    Running => \A n \in Names :
        \E f \in [1..Len(levels) -> Sps \cup Txns] :
            \A j, k \in 1..Len(levels) :
                levels[j].name = n => /\ f[j] \in Sps /\ isActive[f[j]] /\ name[f[j]] = n
                                      /\ levels[k].name = n /\ f[j] = f[k] => j = k

\* Used as scopes, and while SQLite does not roll back by itself, objects and SQLite
\* agree: isActive() is right, and the open levels are those of the active objects,
\* in the order of their construction.
FlagsMatch ==
    disciplined /\ ~disturbed =>
        /\ \A o \in Objects : isActive[o] <=> \E k \in 1..Len(levels) : levels[k].by = o
        /\ \A j, k \in 1..Len(levels) :
              j < k => levels[k].by \in After(levels[j].by)
        /\ \A k \in 1..Len(levels) :
              levels[k].name = IF levels[k].by \in Txns THEN NoName ELSE name[levels[k].by]

\* Used as scopes, an exception leaves a destructor only if SQLite has rolled back by
\* itself or refuses to commit.
NeverTerminates == disciplined /\ terminated => disturbed

\* The levels without their names; when the process ends, everything does.
View(s) == [k \in 1..Len(s) |-> [by |-> s[k].by, writes |-> s[k].writes]]

ScopesAlive == IF terminated THEN {} ELSE {o \in Objects : Exists(o)}
ScopesLevels == IF terminated THEN <<>> ELSE View(levels)

Scopes == INSTANCE NestedScopes WITH
    alive <- ScopesAlive, levels <- ScopesLevels, excused <- disturbed

\* Used as scopes, each object keeps or undoes exactly the writes of its scope: a
\* transaction that goes out of scope undoes them, a savepoint keeps them, and
\* nothing becomes durable any other way, whatever SQLite refuses.  Writes are lost
\* otherwise only when SQLite rolls back by itself or refuses to commit a release.
ImplementsScopes ==
    /\ Scopes!Init
    /\ [][disciplined' => [Scopes!Next]_(Scopes!vars)]_vars
=============================================================================
