--------------------------- MODULE StatementCache ---------------------------
(***************************************************************************)
(* sqlite::statement_cache inside a sqlite::connection, used by            *)
(* sqlite::command objects that may live on different threads.             *)
(*                                                                         *)
(* A critical section of mutex_ is one action, except reset(): it writes   *)
(* the two fields of config_ under the mutex while acquire() and release() *)
(* read them without it, so each field is written, and read, in a step of  *)
(* its own.                                                                *)
(***************************************************************************)
EXTENDS Integers, Sequences

CONSTANTS
    Commands,          \* command objects
    Sqls,              \* SQL texts
    Ddl,               \* those that begin with ATTACH, DETACH, CREATE, DROP or ALTER
    NoSql,             \* the text of a finalized statement
    Stmts,             \* addresses of sqlite3_stmt objects, reused once finalized
    NoStmt,            \* the null sqlite3_stmt pointer
    Configs,           \* values of statement_cache_config
    InitialConfig,     \* the configuration the connection was opened with
    NoConfig           \* reset() is not running

ASSUME CacheAssumption ==
    /\ Ddl \subseteq Sqls
    /\ NoSql \notin Sqls
    /\ NoStmt \notin Stmts
    /\ Configs \subseteq [enabled : BOOLEAN, capacity : Nat]
    /\ InitialConfig \in Configs
    /\ NoConfig \notin Configs

VARIABLES
    con,       \* the connection: "open", "closed", "busy" (sqlite3_close failed)
               \* or "undefined" (the process did something undefined)
    config,    \* config_
    writing,   \* the configuration reset() is half-way through writing
    lru,       \* lru_: entries [sql, stmt], the most recently released first
    index,     \* map_: the statement of the entry an SQL text leads to
    st,        \* the sqlite3_stmt objects
    pc,        \* where each command object is
    sql,       \* m_sql
    stmt,      \* command::stmt
    raced      \* history: reset() ran while a command was inside the cache

vars == <<con, config, writing, lru, index, st, pc, sql, stmt, raced>>

(***************************************************************************)
(* none                  no object                                         *)
(* acquire, release      about to read config_.enabled                     *)
(* acquire2, release2    about to read config_.capacity                    *)
(* lookup, store         about to lock mutex_                              *)
(* prepare               about to call sqlite3_prepare_v2                  *)
(* ready                 usable                                            *)
(***************************************************************************)
Releasing == {"release", "release2", "store"}

PCs == {"none", "acquire", "acquire2", "lookup", "prepare", "ready"} \cup Releasing

Finalized == [sql |-> NoSql, bound |-> FALSE, active |-> FALSE]

Compiled(q) == [sql |-> q, bound |-> FALSE, active |-> FALSE]

Live == {s \in Stmts : st[s].sql # NoSql}

Cached == {lru[i].stmt : i \in 1..Len(lru)}

Held == {s \in Stmts : \E c \in Commands : stmt[c] = s}

Unlocked == writing = NoConfig

Quiescent == \A c \in Commands : pc[c] \in {"none", "ready"}

Init ==
    /\ con = "open"
    /\ config = InitialConfig
    /\ writing = NoConfig
    /\ lru = <<>>
    /\ index = [q \in Sqls |-> NoStmt]
    /\ st = [s \in Stmts |-> Finalized]
    /\ pc = [c \in Commands |-> "none"]
    /\ sql = [c \in Commands |-> NoSql]
    /\ stmt = [c \in Commands |-> NoStmt]
    /\ raced = FALSE

\* A command enters acquire() or release().
Enter == raced' = (raced \/ ~Unlocked)

\* std::list::erase, pop_back and push_front.
Erase(s, i) == SubSeq(s, 1, i - 1) \o SubSeq(s, i + 1, Len(s))
PopBack(s) == SubSeq(s, 1, Len(s) - 1)
PushFront(e, s) == <<e>> \o s

\* The entry release() makes for the statement of c.
Entry(c) == [sql |-> sql[c], stmt |-> stmt[c]]

Goto(c, label) == pc' = [pc EXCEPT ![c] = label]

\* The object is gone.
Gone(c) ==
    /\ Goto(c, "none")
    /\ sql' = [sql EXCEPT ![c] = NoSql]
    /\ stmt' = [stmt EXCEPT ![c] = NoStmt]

\* The loop of clear() and reset(): finalize every entry, empty both containers.
EmptyCache ==
    /\ st' = [s \in Stmts |-> IF s \in Cached THEN Finalized ELSE st[s]]
    /\ lru' = <<>>
    /\ index' = [q \in Sqls |-> NoStmt]

-----------------------------------------------------------------------------
(* command::prepare, called by the constructor *)

Construct(c) ==
    /\ con = "open"
    /\ pc[c] = "none"
    /\ \E q \in Sqls \ Ddl : sql' = [sql EXCEPT ![c] = q]
    /\ Goto(c, "acquire")
    /\ Enter
    /\ UNCHANGED <<con, config, writing, lru, index, st, stmt>>

\* A schema-changing text clears the cache first and is never looked up.
ConstructDdl(c) ==
    /\ con = "open"
    /\ Unlocked
    /\ pc[c] = "none"
    /\ \E q \in Ddl : sql' = [sql EXCEPT ![c] = q]
    /\ Goto(c, "prepare")
    /\ EmptyCache
    /\ UNCHANGED <<con, config, writing, stmt, raced>>

\* The two tests of statement_cache::acquire, outside the mutex.
TestAcquire(c) ==
    /\ con = "open"
    /\ \/ /\ pc[c] = "acquire"
          /\ Goto(c, IF config.enabled THEN "acquire2" ELSE "prepare")
       \/ /\ pc[c] = "acquire2"
          /\ Goto(c, IF config.capacity # 0 THEN "lookup" ELSE "prepare")
    /\ UNCHANGED <<con, config, writing, lru, index, st, sql, stmt, raced>>

\* Deviation: the checked-out entry stays in the list.
LookupHitKeepsEntry(c) ==
    /\ con = "open"
    /\ Unlocked
    /\ pc[c] = "lookup"
    /\ \E i \in 1..Len(lru) :
          /\ lru[i].stmt = index[sql[c]]
          /\ st' = [st EXCEPT ![lru[i].stmt] =
                        [@ EXCEPT !.active = FALSE, !.bound = FALSE]]
          /\ stmt' = [stmt EXCEPT ![c] = lru[i].stmt]
    /\ Goto(c, "ready")
    /\ UNCHANGED <<con, config, writing, lru, index, sql, raced>>

\* Deviation: the front of the list is handed out, not the entry that was found.
LookupHitTakesFront(c) ==
    /\ con = "open"
    /\ Unlocked
    /\ pc[c] = "lookup"
    /\ index[sql[c]] # NoStmt
    /\ lru' = Erase(lru, 1)
    /\ st' = [st EXCEPT ![lru[1].stmt] = [@ EXCEPT !.active = FALSE, !.bound = FALSE]]
    /\ stmt' = [stmt EXCEPT ![c] = lru[1].stmt]
    /\ index' = [index EXCEPT ![sql[c]] = NoStmt]
    /\ Goto(c, "ready")
    /\ UNCHANGED <<con, config, writing, sql, raced>>

\* The connection's handle never changes while it is open, so the test of
\* sqlite3_db_handle always finds the connection's own statement.
LookupHit(c) ==
    /\ con = "open"
    /\ Unlocked
    /\ pc[c] = "lookup"
    /\ \E i \in 1..Len(lru) :
          /\ lru[i].stmt = index[sql[c]]
          /\ lru' = Erase(lru, i)
          /\ st' = [st EXCEPT ![lru[i].stmt] =
                        [@ EXCEPT !.active = FALSE, !.bound = FALSE]]
          /\ stmt' = [stmt EXCEPT ![c] = lru[i].stmt]
    /\ index' = [index EXCEPT ![sql[c]] = NoStmt]
    /\ Goto(c, "ready")
    /\ UNCHANGED <<con, config, writing, sql, raced>>

LookupMiss(c) ==
    /\ con = "open"
    /\ Unlocked
    /\ pc[c] = "lookup"
    /\ index[sql[c]] = NoStmt
    /\ Goto(c, "prepare")
    /\ UNCHANGED <<con, config, writing, lru, index, st, sql, stmt, raced>>

Prepare(c) ==
    /\ con = "open"
    /\ pc[c] = "prepare"
    /\ \E s \in Stmts \ Live :
          /\ st' = [st EXCEPT ![s] = Compiled(sql[c])]
          /\ stmt' = [stmt EXCEPT ![c] = s]
    /\ Goto(c, "ready")
    /\ UNCHANGED <<con, config, writing, lru, index, sql, raced>>

\* Deviation: the error code of sqlite3_prepare_v2 is ignored.
PrepareFailsSilently(c) ==
    /\ con = "open"
    /\ pc[c] = "prepare"
    /\ Goto(c, "ready")
    /\ UNCHANGED <<con, config, writing, lru, index, st, sql, stmt, raced>>

\* sqlite3_prepare_v2 reports an error: the constructor throws.
PrepareFails(c) ==
    /\ con = "open"
    /\ pc[c] = "prepare"
    /\ Gone(c)
    /\ UNCHANGED <<con, config, writing, lru, index, st, raced>>

-----------------------------------------------------------------------------
(* Using a command *)

Bind(c) ==
    /\ con = "open"
    /\ pc[c] = "ready"
    /\ st' = [st EXCEPT ![stmt[c]].bound = TRUE]
    /\ UNCHANGED <<con, config, writing, lru, index, pc, sql, stmt, raced>>

\* A row leaves the statement started; the end of the rows or an error stops it.
Step(c) ==
    /\ con = "open"
    /\ pc[c] = "ready"
    /\ \E row \in BOOLEAN : st' = [st EXCEPT ![stmt[c]].active = row]
    /\ UNCHANGED <<con, config, writing, lru, index, pc, sql, stmt, raced>>

\* command::clear and reset_statement keep the bindings.
Reset(c) ==
    /\ con = "open"
    /\ pc[c] = "ready"
    /\ st' = [st EXCEPT ![stmt[c]].active = FALSE]
    /\ UNCHANGED <<con, config, writing, lru, index, pc, sql, stmt, raced>>

-----------------------------------------------------------------------------
(* command::finalize, called by the destructor *)

\* A schema-changing statement is finalized on the spot.
DestroyDdl(c) ==
    /\ con = "open"
    /\ pc[c] = "ready"
    /\ sql[c] \in Ddl
    /\ st' = [st EXCEPT ![stmt[c]] = Finalized]
    /\ Gone(c)
    /\ UNCHANGED <<con, config, writing, lru, index, raced>>

Destroy(c) ==
    /\ con = "open"
    /\ pc[c] = "ready"
    /\ sql[c] \notin Ddl
    /\ Goto(c, "release")
    /\ Enter
    /\ UNCHANGED <<con, config, writing, lru, index, st, sql, stmt>>

\* The two tests of statement_cache::release, outside the mutex.
TestRelease(c) ==
    /\ con = "open"
    /\ \/ /\ pc[c] = "release"
          /\ config.enabled
          /\ Goto(c, "release2")
       \/ /\ pc[c] = "release2"
          /\ config.capacity # 0
          /\ Goto(c, "store")
    /\ UNCHANGED <<con, config, writing, lru, index, st, sql, stmt, raced>>

ReleaseUncached(c) ==
    /\ con = "open"
    /\ \/ pc[c] = "release" /\ ~config.enabled
       \/ pc[c] = "release2" /\ config.capacity = 0
    /\ st' = [st EXCEPT ![stmt[c]] = Finalized]
    /\ Gone(c)
    /\ UNCHANGED <<con, config, writing, lru, index, raced>>

\* Deviation: the second statement with the same text is not finalized.
StoreDuplicateLeaks(c) ==
    /\ con = "open"
    /\ Unlocked
    /\ pc[c] = "store"
    /\ index[sql[c]] # NoStmt
    /\ Gone(c)
    /\ UNCHANGED <<con, config, writing, lru, index, st, raced>>

\* Another command with the same text was released first.
StoreDuplicate(c) ==
    /\ con = "open"
    /\ Unlocked
    /\ pc[c] = "store"
    /\ index[sql[c]] # NoStmt
    /\ st' = [st EXCEPT ![stmt[c]] = Finalized]
    /\ Gone(c)
    /\ UNCHANGED <<con, config, writing, lru, index, raced>>

\* Deviation: the capacity test is off by one.
StoreOffByOne(c) ==
    /\ con = "open"
    /\ Unlocked
    /\ pc[c] = "store"
    /\ index[sql[c]] = NoStmt
    /\ Len(lru) <= config.capacity
    /\ lru' = PushFront(Entry(c), lru)
    /\ index' = [index EXCEPT ![sql[c]] = stmt[c]]
    /\ Gone(c)
    /\ UNCHANGED <<con, config, writing, st, raced>>

Store(c) ==
    /\ con = "open"
    /\ Unlocked
    /\ pc[c] = "store"
    /\ index[sql[c]] = NoStmt
    /\ Len(lru) < config.capacity
    /\ lru' = PushFront(Entry(c), lru)
    /\ index' = [index EXCEPT ![sql[c]] = stmt[c]]
    /\ Gone(c)
    /\ UNCHANGED <<con, config, writing, st, raced>>

\* Deviation: the evicted entry stays in map_.
StoreEvictKeepsIndex(c) ==
    /\ con = "open"
    /\ Unlocked
    /\ pc[c] = "store"
    /\ index[sql[c]] = NoStmt
    /\ Len(lru) >= config.capacity
    /\ lru # <<>>
    /\ st' = [st EXCEPT ![lru[Len(lru)].stmt] = Finalized]
    /\ lru' = PushFront(Entry(c), PopBack(lru))
    /\ index' = [index EXCEPT ![sql[c]] = stmt[c]]
    /\ Gone(c)
    /\ UNCHANGED <<con, config, writing, raced>>

\* At capacity: the least recently released entry makes room.
StoreEvict(c) ==
    /\ con = "open"
    /\ Unlocked
    /\ pc[c] = "store"
    /\ index[sql[c]] = NoStmt
    /\ Len(lru) >= config.capacity
    /\ lru # <<>>
    /\ LET last == lru[Len(lru)] IN
          /\ st' = [st EXCEPT ![last.stmt] = Finalized]
          /\ lru' = PushFront(Entry(c), PopBack(lru))
          /\ index' = [index EXCEPT ![last.sql] = NoStmt, ![sql[c]] = stmt[c]]
    /\ Gone(c)
    /\ UNCHANGED <<con, config, writing, raced>>

\* lru_.back() of an empty list: whatever follows, the program has no meaning.
StoreBackOfEmpty(c) ==
    /\ con = "open"
    /\ Unlocked
    /\ pc[c] = "store"
    /\ index[sql[c]] = NoStmt
    /\ Len(lru) >= config.capacity
    /\ lru = <<>>
    /\ con' = "undefined"
    /\ UNCHANGED <<config, writing, lru, index, st, pc, sql, stmt, raced>>

-----------------------------------------------------------------------------
(* The connection *)

\* statement_cache::reset: the entries and one field of config_, in the order
\* the compiler chose; the mutex stays locked until the other field is written.
Configure ==
    /\ con = "open"
    /\ Unlocked
    /\ raced' = (raced \/ ~Quiescent)
    /\ \E cfg \in Configs :
          /\ writing' = cfg
          /\ \/ config' = [config EXCEPT !.capacity = cfg.capacity]
             \/ config' = [config EXCEPT !.enabled = cfg.enabled]
    /\ EmptyCache
    /\ UNCHANGED <<con, pc, sql, stmt>>

ConfigureDone ==
    /\ con = "open"
    /\ ~Unlocked
    /\ config' = writing
    /\ writing' = NoConfig
    /\ UNCHANGED <<con, lru, index, st, pc, sql, stmt, raced>>

\* connection::clear_statement_cache
ClearCache ==
    /\ con = "open"
    /\ Unlocked
    /\ EmptyCache
    /\ UNCHANGED <<con, config, writing, pc, sql, stmt, raced>>

\* The connection's destructor: no command object is left, and sqlite3_close
\* refuses while a statement is.
Close ==
    /\ con = "open"
    /\ Unlocked
    /\ \A c \in Commands : pc[c] = "none"
    /\ EmptyCache
    /\ con' = IF Live \subseteq Cached THEN "closed" ELSE "busy"
    /\ UNCHANGED <<config, writing, pc, sql, stmt, raced>>

-----------------------------------------------------------------------------

Acquire(c) ==
    TestAcquire(c) \/ LookupHit(c) \/ LookupMiss(c) \/ Prepare(c) \/ PrepareFails(c)

Release(c) ==
    \/ TestRelease(c) \/ ReleaseUncached(c)
    \/ StoreDuplicate(c) \/ Store(c) \/ StoreEvict(c) \/ StoreBackOfEmpty(c)

Next ==
    \/ \E c \in Commands :
          \/ Construct(c) \/ ConstructDdl(c) \/ Acquire(c)
          \/ Bind(c) \/ Step(c) \/ Reset(c)
          \/ DestroyDdl(c) \/ Destroy(c) \/ Release(c)
    \/ Configure \/ ConfigureDone \/ ClearCache \/ Close

Spec == Init /\ [][Next]_vars

-----------------------------------------------------------------------------
(* Properties *)

\* Every variable has its type, and a command object holds a statement exactly
\* while it is usable or on its way to the cache.
TypeOK ==
    /\ con \in {"open", "closed", "busy", "undefined"}
    /\ config \in [enabled : BOOLEAN, capacity : Nat]
    /\ writing \in Configs \cup {NoConfig}
    /\ lru \in Seq([sql : Sqls, stmt : Stmts])
    /\ index \in [Sqls -> Stmts \cup {NoStmt}]
    /\ st \in [Stmts -> [sql : Sqls \cup {NoSql}, bound : BOOLEAN, active : BOOLEAN]]
    /\ pc \in [Commands -> PCs]
    /\ sql \in [Commands -> Sqls \cup {NoSql}]
    /\ stmt \in [Commands -> Stmts \cup {NoStmt}]
    /\ raced \in BOOLEAN
    /\ \A c \in Commands :
          /\ pc[c] = "none" <=> sql[c] = NoSql
          /\ pc[c] \in {"ready"} \cup Releasing <=> stmt[c] # NoStmt

\* Every statement that exists has exactly one owner, a command or one entry of
\* the cache, and no owner names a finalized statement: nothing is leaked, used
\* after sqlite3_finalize or finalized twice.
StatementsOwned ==
    /\ Live = Cached \cup Held
    /\ Cached \cap Held = {}
    /\ \A c, d \in Commands : stmt[c] # NoStmt /\ stmt[c] = stmt[d] => c = d
    /\ \A i, j \in 1..Len(lru) : lru[i].stmt = lru[j].stmt => i = j

\* lru_ and map_ describe the same cache: each entry is found under its own
\* text, which is the text of its statement, and the map finds nothing else.
CacheCoherent ==
    /\ \A i \in 1..Len(lru) : /\ index[lru[i].sql] = lru[i].stmt
                              /\ st[lru[i].stmt].sql = lru[i].sql
    /\ \A q \in Sqls : index[q] # NoStmt =>
          \E i \in 1..Len(lru) : lru[i].sql = q /\ lru[i].stmt = index[q]

\* The cache never outgrows its configuration, whenever reset() runs.
CapacityRespected == con = "open" /\ Unlocked => Len(lru) <= config.capacity

\* Destroying a connection after its commands closes the database: no statement is left
\* for sqlite3_close to trip over, whenever reset() runs.  Without a reset() that runs
\* while a command is inside acquire() or release(), no step is undefined either.
ClosesCleanly == con # "busy" /\ (con = "undefined" => raced)

\* "Disable caching without destroying existing entries": setting enabled to false keeps
\* the statements that are in the cache.
DisablingKeepsEntries ==
    [][Unlocked /\ ~Unlocked' /\ config.enabled /\ ~writing'.enabled => lru' = lru]_vars

\* "Full mutexing that allows sharing a connection across threads": no use of
\* the cache has undefined behaviour.
SharingIsDefined == con # "undefined"

\* The text a command object exists for, and the statement its user works with.
TextOf(c) == IF pc[c] \in Releasing THEN NoSql ELSE sql[c]
UseOf(c) == IF pc[c] = "ready" THEN st[stmt[c]] ELSE Finalized

Fresh == INSTANCE FreshStatements WITH
    NoText <- NoSql,
    Unused <- Finalized,
    want <- [c \in Commands |-> TextOf(c)],
    use <- [c \in Commands |-> UseOf(c)]

\* "Cached statements reset/clear bindings on checkout": to the command that gets it, a
\* cached statement is what sqlite3_prepare_v2 would have made of that command's text, and
\* until it gives the statement up nobody else changes it.  What a parked statement that
\* is still in progress does to the rest of the connection is another matter.
CacheIsTransparent == Fresh!Spec
=============================================================================
