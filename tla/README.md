# A verification project for vsqlite++

This directory holds TLA+ models of vsqlite++, the C++ wrapper around SQLite in
`src/`, the TLC configurations that check them on small instances, and
machine-checked proofs of the results that hold for every size.

- [Inventory](#inventory): the parts of the library and what is hard in each
- [What is modelled](#what-is-modelled): modules and their correspondence with the code
- [The runs](#the-runs): bounds, fairness, results, disagreements found
- [The proofs](#the-proofs): theorems, assumptions and inductive invariants
- [Not modelled](#not-modelled) and [Plan](#plan)

To check everything: `tlc -config X.cfg M.tla` for each run of `PROJECT.json`,
`tlapm M.tla` for each `*Proofs` module.

## Inventory

vsqlite++ is a library: it starts no thread and owns no event loop. Concurrency
comes from its callers' threads (which the pool is made for and the statement
cache is locked against), ordering from the lifetimes of C++ objects that share
one `sqlite3*`, and failure from SQLite's error codes turned into exceptions
that unwind those objects.

| Component | State | Operations | Hard behaviour | What makes it correct |
|---|---|---|---|---|
| **Connection pool** `connection_pool` | `idle_`, `created_`, `mutex_`, `cv_`; per lease a `shared_state` counted by `shared_ptr` | `acquire`, `release`, lease move/release/`shared()`, `make_factory` | threads; the factory runs outside the mutex and may throw or return null; a wakeup per release; references dropped in any order | one user per connection, at most `capacity` connections, no slot and no wakeup lost, waiters served |
| **Statement cache** `statement_cache` | `config_`, `lru_`, `map_`, `mutex_` | `acquire`, `release`, `clear`, `reset` | `config_` is read outside the mutex; eviction at the limit; duplicates; reconfiguration under live commands | one owner per statement, list and map agree, capacity, transparency |
| **Command** `command`, `execute` | `stmt`, `m_sql`, `last_arg_idx` | construct/prepare, bind, `%`, step, clear, destroy | preparation fails; schema changes bypass and clear the cache; a throwing step leaves the argument index | a command always has its own statement compiled from its own text |
| **Connection** `connection` | `handle`, `filesystem`, the cache | open (four modes, path validation), `attach`, `detach`, close | checks before the open; removal of the file by `always_create`; `sqlite3_close` refuses while statements exist | `always_create` works on a new file, `open_existing` makes none; close succeeds once the commands are gone |
| **Query and result** `query`, `result`, `result_range` | `ended`, `changes`, the iterator's `end_`, `begin_called_` | `get_result`, `emit_result`, `each`, `next_row`, `reset` | several cursors over one statement; callbacks that capture the query by pointer | each row once, in order |
| **Transaction, savepoint** | `m_isActive`, `m_isEnding`, `m_name` | begin, commit/end, rollback, release, destructors | SQLite rolls back on its own; COMMIT refused; destructors that throw or swallow | a scope's work is kept or undone as a whole |
| **Backup** | `m_pBackup` | `step`, `finish`, destructor | finish reports an error and frees the handle anyway | the handle is finished once |
| **Threading** | `configured_mode`, `threading_locked`, and SQLite's global configuration | `configure_threading`, `current_threading_mode` | `sqlite3_open_v2` on another thread initializes SQLite between shutdown and config; config succeeds, initialize fails | a confirmed mode stays in force; the reported mode is SQLite's mode |
| **Function registration** | the callable's holder | `create_function` | who deletes the holder on failure | deleted once |
| **Serialization** | the image buffer | `serialize`, `deserialize` | who frees the buffer on failure | freed once |
| **Snapshot, WAL modes** | the snapshot handle | `take`, `open`, `set_wal_mode`, `enable_wal`, `get_wal_mode` | the PRAGMA's statement stays in progress in the cache; the WAL2 fallback after a failed attempt; a change of mode inside a transaction | handle freed once; the mode reported is the mode in force; what was committed is saved |
| **Session** | the session handle | attach, enable, collect, apply, moves | handle outliving its connection | handle deleted once |
| **Values** `bind_value`, `get<T>`, `get_variant`, `result_writer` | none | conversions between C++ and SQLite | widths, rounding of durations, NULL and empty values | a value comes back as it went in |
| **Views, JSON/FTS, symbols** | none | text composition, `dlsym` | quoting | a property of strings |

Interactions: a `lease` calls `connection_pool::release` from the destructor of
its shared state, on whichever thread drops the last reference. Every `command`
(and so `query`, `execute`, `transaction`, `savepoint`, `view`) goes to its
connection's cache through `private_accessor` when it is constructed and when it
is destroyed. `connection::~connection` clears the cache and closes the handle.
`result` calls back into the `query` that made it. The journal mode helpers run
their PRAGMAs through such a query. Opening a connection initializes SQLite, which
`configure_threading` shuts down and configures. Backups and sessions keep raw
pointers into their connections.

The hazards of each part, with the line where each bites and the properties
that watch it, are listed in `PROJECT.json` under `hazards`.

## What is modelled

### `ConnectionPool` (with `LeaseContract`, `MCConnectionPool`)

`src/sqlite/connection_pool.cpp`. The unit of interleaving is a critical section
of `mutex_`. Each thread has a program counter.

| Model | Code |
|---|---|
| `idle`, `created` | `idle_` (a vector used as a stack), `created_` |
| `hand[t]` | the local `conn` of `acquire()`, and `shared_state::connection` on its way to `release()` |
| `lease[t]`, `alias[t]` | the caller's `lease` object and a `shared_ptr` from `lease::shared()`; the reference count of the shared state is the number of those that name the connection |
| `Call`, `AcquireIdle`, `AcquireCreate`, `AcquireWait` | the loop of `acquire()` under the mutex |
| `SpuriousWakeup`, `NotifyOne` | `cv_.wait` and `cv_.notify_one` |
| `FactoryReturns`, `FactoryReturnsNull`, `FactoryThrows`, `CatchFactory` | the factory outside the mutex and the catch block that gives the slot back |
| `MakeLease`, `MakeLeaseFails` | the lease and its move into the caller's, or `bad_alloc` |
| `Share`, `DropLease`, `DropAlias`, `Unreference` | copies and destruction; the last reference runs `~shared_state` |
| `Release` | `connection_pool::release` |

`LeaseContract` is what callers are promised: grants of connections nobody else
can reach, within a limit, and sharing only by a holder. `ImplementsContract`
maps a pool state to the set of connections each thread can use.

`Faults` chooses what the environment may do ("throw": the factory throws;
"null": it returns a null pointer; "alloc": building a lease fails), and
`HoldAndWait` whether a thread may ask for a connection while it holds one.

### `StatementCache` (with `FreshStatements`, `MCStatementCache`)

`src/sqlite/statement_cache.cpp`, with the parts of `command.cpp` and
`connection.cpp` that use it. Commands may live on different threads, as
`tests/test_connection_thread_safety.cpp` uses them.

| Model | Code |
|---|---|
| `config`, `writing` | `config_`; `reset()` assigns its two fields one after the other, in either order, while other threads read them without the mutex |
| `lru`, `index` | `lru_` and `map_`; an iterator of the map is represented by the statement of the entry it points to |
| `st` | the `sqlite3_stmt` objects of the database: text (or finalized), bound, started |
| `pc`, `sql`, `stmt` | where a command is, `m_sql`, `stmt` |
| `Construct`, `ConstructDdl` | `command::prepare` up to the cache; a schema-changing text clears it first |
| `TestAcquire`, `LookupHit`, `LookupMiss` | `acquire()`: the unlocked reads of `enabled` and `capacity`, a step each, then the locked lookup |
| `Prepare`, `PrepareFails` | `sqlite3_prepare_v2`, and the constructor that throws |
| `Bind`, `Step`, `Reset` | the calls that change the statement; a step may leave a row, finish or fail |
| `DestroyDdl`, `Destroy` | `command::finalize` |
| `TestRelease`, `ReleaseUncached`, `StoreDuplicate`, `Store`, `StoreEvict`, `StoreBackOfEmpty` | `release()`: the unlocked reads, then each branch under the mutex |
| `raced` | for the properties: `reset()` ran while a command was inside `acquire()` or `release()` |
| `Configure`, `ConfigureDone`, `ClearCache`, `Close` | `reset()`, `clear()`, `connection::close` |

`con = "undefined"` marks a step the C++ standard gives no meaning to
(`lru_.back()` of an empty list); nothing happens after it. `configure_statement_cache`
runs at any time, `raced` remembers whether it ran while a command was inside the cache.

`FreshStatements` is the cache-less library as a command's owner sees it: the command is
asked for with a text (`want`), gets a statement compiled from that text, without bindings
and not started, or is refused, and nobody but its owner changes the statement (`use`).
`CacheIsTransparent` is the refinement, with `want` mapped to `m_sql`. It is about each
command by itself. To the rest of the connection a cache is not transparent: a statement
parked in progress keeps its transaction open, which is the subject of `JournalMode`.

Abstractions: an SQL text is a model value, and whether it changes the schema is
given by the set `Ddl`; bindings and rows are reduced to "some binding was made"
and "a row was returned and the statement not reset"; texts that compile to no
statement (only blanks or comments) are left out, since such a command can do
nothing; the owner test of `acquire()` (`sqlite3_db_handle`) always succeeds
because a cache belongs to one connection, whose handle does not change while it
is open; `bad_alloc` inside the containers is not modelled.

### `Transactions` (with `NestedScopes`, `MCTransactions`)

`src/sqlite/transaction.cpp`, `src/sqlite/savepoint.cpp`: objects of both kinds on
one connection, which one thread uses, so a member function is one action.

| Model | Code |
|---|---|
| `scope` | the objects that exist, in the order of their construction |
| `isActive`, `name` | `m_isActive`, `m_name`; `m_isEnding` is true only inside a call and its early return in the destructor is never taken by another one |
| `levels`, `durable` | SQLite: the open transaction and savepoints with their writes, and what is committed. `by`, the object that opened a level, is for the properties only |
| `terminated` | an exception has left `~savepoint`, which calls `std::terminate` |
| `disturbed` | for the properties: SQLite has rolled back by itself or refused to release |
| `disciplined` | for the properties: every call was on the innermost active object |
| `ConstructTxn`, `Begin`, `Commit`, `CommitRefused`, `Rollback`, `DestroyTxn` | `transaction`; `Commit` is `commit()` and `end()`, the type of the transaction only decides when locks are taken |
| `ConstructSp`, `Release`, `RollbackTo`, `DestroyReleasedSp`, `DestroyActiveSp`, `DestroySpThrows` | `savepoint`; the last is the destructor whose `RELEASE` fails |
| `Write`, `Abort` | a statement of the user; SQLite rolling back by itself |

SQLite's side (`Level`, `Latest`, `WritesFrom`, `KeepFrom`, `Abort`) is external: `BEGIN`
needs that nothing is open, `SAVEPOINT` opens a transaction when none is,
`RELEASE` and `ROLLBACK TO` mean the most recent savepoint of the name, releasing
the outermost level commits. A call SQLite refuses throws without effect on the
object; it is an action of its own only where a destructor swallows it
(`DestroyTxn`), dies of it (`DestroySpThrows`), or where the order of `exec` and of
the flag matters (`CommitRefused`).

`Faults` says whether SQLite refuses to commit ("busy") and rolls back by itself
("abort"), `Scoped` whether the objects are automatic variables. Member functions
are called in any order; `disciplined` remembers whether each call so far was on
the innermost active object, so that properties of objects used as scopes and of
objects used anyhow are checked in the same run.

`NestedScopes` is what such objects promise: the innermost scope collects the
writes; its object hands all of them on, or undoes all; an object that ends with
its scope open decides by its kind, a transaction undoes, a savepoint hands on.
`ImplementsScopes` is the refinement, for as long as the objects are used as scopes;
writes are lost otherwise only in its `Abort`, SQLite's own rollback, and its `Terminate`,
the end of the process, which is only allowed once SQLite has interfered (`excused`, mapped
to `disturbed`).

### `QueryCursor` (with `ForwardCursor`, `MCQueryCursor`)

`src/sqlite/query.cpp`, `src/sqlite/result.cpp` and the binding half of
`src/sqlite/command.cpp`. One query, used by one thread; a member function is one
action.

| Model | Code |
|---|---|
| `at`, `rows` | SQLite's statement: reset, on a row, halted (done or failed), and how many rows it returns. A step of a halted statement starts it again |
| `bound`, `last` | the statement's bindings, `last_arg_idx` |
| `asked`, `executed` | for the properties: the arguments given since `operator()` last succeeded, and whether it was executed with them |
| `live`, `ended` | the `result` objects somebody refers to, their `ended` |
| `read` | for the properties: the rows a result has delivered since it was made or reset, or since a step of it failed |
| `begun`, `it` | `begin_called_` and the iterator of a range |
| `Percent`, `Bind`, `StepOnce`, `Call`, `CallWith`, `CallWithTooMany`, `ResetStatement`, `Clear` | `operator%`, `bind`, `step_once`, `operator()` without and with arguments, `reset_statement`, `clear` |
| `GetResult`, `EmitResult`, `NextRow`, `NextRowFails`, `Rewind`, `Drop` | `get_result` (also inside `each`), `emit_result`, `next_row`, `result::reset`, the last reference dropped |
| `Begin`, `BeginFails`, `BeginAgain`, `Increment` | `result_range::begin` and the iterator; `each(args)` is `Percent` for each argument, then `GetResult` |
| `DestroyQuery`, `UseDangling` | the query ends; a result calls back into it afterwards |

All results of a query share its one statement, so they are independent cursors
only for callers who read one at a time, from its first row. The guards `Idle`,
`Quiet` and `AtStart` say precisely what that asks of callers, and `Liberties` lifts
two of them: "rewind" (a reset in the middle of the rows) and "outlive" (a result
used after its query). The run has "outlive"; with "rewind" the code breaks
`InOrder`, see the disagreements. `Faults` are failing steps, of a result ("row") or of the
command ("call"). SQLite refuses to bind a statement that is not reset
(`SQLITE_MISUSE`) or that has no such placeholder (`SQLITE_RANGE`); both cost
`operator%` its position.

`ForwardCursor` is the promise: cursors that deliver the rows 1, 2, ..., size once,
say that they ended after the last one only, and begin again only when rewound. A
cursor whose `next_row` throws is rewound in this sense: sqlite3_step starts a
failed statement over, so the rows come again from the first.

### `Process`: `Threading` and `Opening` (with `MCProcess`)

`src/sqlite/threading.cpp`, and the constructors, `attach`, `detach` and the
destructor of `src/sqlite/connection.cpp`. Each is a module of its own; `Process`
composes them: they share `sqlite3_open_v2`, which initializes SQLite when nobody
has, and `sqlite3_close`.

`threading_mutex` keeps callers of `configure_threading` apart, but not from
threads that open connections, so each call into SQLite is a step:

| Model (`Threading`) | Code |
|---|---|
| `holder`, `step`, `flag` | who holds `threading_mutex`, where it is, its argument |
| `locked`, `reported` | `threading_locked`, `configured_mode` |
| `initialized`, `mode`, `under` | SQLite: whether it is initialized, for which mode, and the mode each open connection was opened in |
| `confirmed`, `early`, `torn`, `botched` | for the properties: the modes answered with true; a connection was opened before one; SQLite was shut down under a connection; `sqlite3_initialize` failed after `sqlite3_config` |
| `ConfigureAgain`, `Configure`, `Shutdown`, `Config`, `ConfigRefused`, `Initialize`, `InitializeFails`, `Store` | `configure_threading`, in the order of its calls, with each early return |
| `OpenConnection`, `OpenFails`, `CloseConnection` | `sqlite3_open_v2` and `sqlite3_close`, as far as SQLite's global state goes |

Every connection is opened with `SQLITE_OPEN_FULLMUTEX` (`connection.cpp:128`), so that it
is serialized unless SQLite runs without mutexes: `FullMutex` is the mode `OpenConnection`
records. `ShutdownAlone` therefore says of the connections that all have their mutexes or
none of them has.

A constructor examines the path in `validate_db_path`, again with
`std::filesystem::exists`, and a third time before it removes the file; all of them
may see something else:

| Model (`Opening`) | Code |
|---|---|
| `path`, `born` | what is at the path: nothing, a file (an identity), or something that is no regular file; the files there have been |
| `at`, `kind`, `main`, `attached` | where a constructor or `attach` is, the open mode, the databases of the connection |
| `before`, `removed` | for the properties: the files there had been when the constructor was called; it has removed what was there |
| `Construct`, `Validate`, `ValidateThrows`, `CannotExamine`, `Exists`, `Status`, `Remove`, `RemoveThrows`, `Connect`, `ConnectThrows`, `ConnectSpecial` | `connection::open` and `open_with_flags`, one look or change at a time |
| `Attach`, `AttachRuns`, `AttachThrows`, `Detach`, `Destroy` | `attach` validates, then runs ATTACH, which inherits the connection's open flags; `detach`, `~connection` |
| `OtherCreates`, `OtherRemoves` | other processes, at any time; what they put there is a new file, nobody moves a removed one back |

The parent directory, the quoting of the path in ATTACH and the user's database
aliases are left out; a connection attaches at most one database here, since
attached ones do not influence one another.

### `Handles` (with `MCHandles`)

Who frees what: `backup`, `session` and `snapshot` objects with the handles SQLite
gave them, the callable handed over by `create_function`
(`include/sqlite/function.hpp`), the image handed over by `deserialize`
(`src/sqlite/serialization.cpp`).

| Model | Code |
|---|---|
| `con` | connection objects; "leaked" is one whose `sqlite3_close` was refused by a backup, which `~connection` swallows |
| `exists`, `holds` | the C++ objects; the pointer each of them, and SQLite for each connection, keeps (`m_pBackup`, `session_`, `handle_`, the callable, the image) |
| `of`, `target`, `failed` | a backup's source or a session's connection, a backup's target, and whether its last step failed |
| `live` | what is allocated |
| `provoked`, `undefined` | for the properties: which of the `Faults` have happened; something freed was freed or used |
| `Connect`, `Destroy` | `connection` and its destructor |
| `ConstructBackup`, `Step`, `Finish`, `FinishThrows`, `DestroyBackup` | `backup` |
| `ConstructSession`, `UseSession`, `ConstructSnapshot`, `ResetSnapshot`, `MoveConstruct`, `MoveAssign`, `DestroyObject` | `session`, `snapshot`, their moves and assignments |
| `CreateFunction`, `CreateFunctionRefused`, `Deserialize`, `DeserializeRefused`, `SerializeNoCopy` | `create_function`, `deserialize`, `serialize` |

A handle is the allocation it points to. An allocation that was freed may be handed
out again only when no pointer to it is left (`Fresh`), so that a dangling pointer
cannot seem valid by chance. The five `Faults` are precisely what breaks the code:
"finish" (a backup is finished after a failed step), "register" and "image" (SQLite
refuses a function or an image, which it then has freed already), "nocopy"
(`serialize` with `SQLITE_SERIALIZE_NOCOPY`), "outlive" (a connection is destroyed
before the objects that use it). `FreedOnce` says that there is no sixth, and
`FaultsContained`, a part of it, that each stays where it occurred: pointers dangle in
the backup or the image concerned only (`Dangles`).

### `JournalMode` (with `MCJournalMode`)

`set_wal_mode`, `enable_wal` and `get_wal_mode` of `src/sqlite/snapshot.cpp` between
the user's statements and transactions, on a connection with or without a statement
cache. A helper runs its PRAGMA through a `query`, takes the one row and lets the
query go. `statement_cache::release` does not reset a statement, so with a cache the
PRAGMA stays in progress, and SQLite then neither commits a single statement nor a
transaction until the text is used again, or the entry is evicted.

| Model | Code |
|---|---|
| `db.mode`, `db.file` | SQLite's journal mode now, and the one the next connection to the file finds |
| `db.explicit`, `db.pending`, `db.switched`, `db.durable` | a BEGIN is open; what is not committed: writes, a change to or from WAL; what is |
| `caching`, `parked`, `db.started` | whether there is a cache, the texts in it, those in progress |
| `answer`, `told`, `promised`, `refused`, `stuck` | for the properties: what the last helper said; writes whose statement, or whose `commit()`, returned; a commit was refused; a PRAGMA was parked in progress |
| `SetWalMode`, `EnableWal`, `CallSet`, `CallEnable`, `CallGet` | the helpers; the first two are functions of the database, because `enable_wal` is two attempts one after the other |
| `Insert`, `Select`, `Begin`, `Commit`, `Rollback` | the user's statements and `transaction` |
| `Finalize`, `Configure`, `Reconnect`, `Crash` | eviction, clearing and `configure_statement_cache`; the connection is made again; the process ends |

SQLite's side is external and was modelled from SQLite's documented behaviour: a
mode cannot change to or from WAL inside a transaction or under a statement in
progress, changes nothing while something is unsaved, and an unknown mode (WAL2 on a
standard build) leaves the mode as it is.

### `Values` (with `MCValues`)

`bind_value` (`include/sqlite/command.hpp`), `get<T>` and `get_variant`
(`include/sqlite/result.hpp`) and the arguments and results of SQL functions
(`include/sqlite/function.hpp`): a value is bound, passed through any number of
functions that return their argument, and read.

| Model | Code |
|---|---|
| `origin`, `cell`, `got` | what was bound, what SQLite has (storage class and value), what was read |
| `apt` | for the properties: the types of all functions on the way could carry the value |
| `Stored`, `AsIntegral`, `Fetched`, `NullAs`, `Written`, `Alternative` | the branches of `bind_value`, of the argument readers, of `get<T>`, of `result_writer` and of `get_variant` |
| `Bind`, `Call`, `CallThrows`, `Get`, `GetVariant` | one conversion each |

Integers wrap. `Wide` and `Narrow` are half the number of values of `std::int64_t`
(2^63) and `int` (2^31), so that a signed type has the values from minus its size to its
size less one and an unsigned one those from zero to twice its size less one. A duration
is finer ("fine", `Tick` to a microsecond), as fine, or coarser ("coarse", `Coarse`
microseconds) than what is stored. A column is read as a type of its own storage
class; SQLite's conversions between classes are SQLite's.

### Deviations

Operators commented `Deviation:` are plausible bugs (a missing `pop_back`, a
notification that was forgotten, an entry left in the map, ...). `Next` does not
use them. Substituted for the action they deviate from, each makes a property of
a run fail, which shows that the property really depends on the code.

## The runs

| Run | Instance | Shows |
|---|---|---|
| `pool_safety` | 3 threads, 3 connections, capacity 2, every fault, hold-and-wait | types, `IdleUnreferenced`, `ExclusiveLease` |
| `pool_discipline` | 4 threads, 3 connections, capacity 2, throwing factory, fairness | `SlotsConserved`, `NoLostWakeup`, `BlockedByHolders`, `ImplementsContract`, `WaiterServed`, no deadlock |
| `cache` | 3 commands, 2 texts and a schema change, 3 statements, capacities 0 to 2 and disabled, `reset()` at any time | types, `StatementsOwned`, `CacheCoherent`, `CapacityRespected`, `ClosesCleanly`, `CacheIsTransparent` |
| `cache_disable` | 2 commands, the same otherwise | finding: `DisablingKeepsEntries` fails |
| `txn` | 2 transactions, 3 savepoints, 2 names, 2 writes, every fault, any order of calls, automatic objects | types; always: `ClosedOnScopeExit`, `NamesAccounted`; used as scopes: `FlagsMatch`, `NeverTerminates`, `ImplementsScopes` |
| `cursor` | 2 results, 0 to 2 rows, 2 placeholders, 2 values, every fault, results that outlive the query | types, `ArgumentsLand`, `LoopSeesItsRow`, `ImplementsForwardCursor` |
| `opening` | 2 calls of `configure_threading`, 2 connections, 3 files, 3 modes, failing `sqlite3_config` and `sqlite3_initialize` | `ProcessTypeOK` (types of both modules), `ConfirmedInForce`, `ReportedMode`, `ShutdownAlone`, `StartsAfresh`, `LossOnlyIfRefused`, `NeverCreated` |
| `handles` | 2 connections, 1 backup, 2 sessions, 2 snapshots, 4 allocations, every fault | types, `OneOwner`, `FreedOnce` with `FaultsContained` |
| `handles_finished_once` | the same, only "finish" | finding: `FinishedOnce` fails |
| `wal` | modes delete, wal and wal2, of which SQLite does not know the last, 2 writes, with and without cache | types, `Kept`, `NamesMode`, `FallsBackIfIdle` |
| `wal_fallback` | the same | finding: `FallsBack` fails |
| `values` | integers of 32 and 8 values (`Wide` 16, `Narrow` 4), 2 units to a microsecond, 3 microseconds to a unit | `Intact` |

**Bounds.** Three threads on a pool of two is the smallest instance where one
sleeps while another runs the factory and a third returns a connection; four
give two sleepers and one notification. Three connections
make it possible to exceed the capacity, and to open a new one after an
allocation failure has destroyed another. Three commands over
two texts with capacity one or two make duplicates, eviction of another text's
entry and eviction races happen; three statements are shared by the commands and the
cache, and while all of them are in use a command can only fail to prepare (with four,
every property was checked too, in five minutes). Two transactions are needed for one to end what the other began, three
savepoints over two names for equal names with a different one between them, and
two writes for a level that holds one when another is made inside it; an object
may be destroyed and constructed again, so the runs are not limited to one use
of each, and a write is made once while it is not undone. Two rows tell the first
from the next and from the last, two placeholders let an argument land behind
another one, and two results are needed for one to be read after the other over
the same statement. At most one argument too many is given (the
next would be refused in the same way). Two calls of `configure_threading` are
needed for a refused one to be repeated with another mode, of which there are three, with
and without mutexes, and two connections, one
of them not on the modelled path, for one to be opened between the steps of a call
while another is open. The path sees three files one after another: the one that was
there, one that replaces it between two looks, and the one SQLite creates. Two
sessions and two snapshots are what a move or an assignment relates, two connections
what a backup does; four allocations let four of the objects hold one at the same
time. Two writes tell a transaction's from a statement's of its own. Of 32 values
and 8, a number fits both integer types, only the wider one, or, as unsigned or
after scaling, none; that nothing depends on these sizes is proved. No other counter is unbounded.

Symmetry permutes threads, connections, commands, statements, cacheable texts,
transactions, savepoints, names, writes, results, values, callers, files, sessions,
snapshots and allocations, none of which any property tells apart; no run with
symmetry checks liveness. `txn` keeps the objects automatic (`Scoped`) because
`ClosedOnScopeExit` is about scopes.

**Deadlock** is checked in `pool_discipline`. With hold-and-wait
a thread can block for good on connections that only sleepers hold, which the
code does not rule out, so `pool_safety` does not check it. `BlockedByHolders` says
that this is the only way to block: whenever everybody sleeps or is outside the pool,
every slot is taken by connections that callers hold, and one of the holders is awake
if nobody holds and waits. This is what the header's "Blocks until a connection is
available" comes to; the cache's system
ends when the connection is closed, and that of the transactions with
`std::terminate`, and that of a query when it and its results are gone. `opening`
may stop when files and callers are used up, `handles` stops where nothing is
defined any more. `wal` and `values` check deadlock too.

**Fairness** (`pool_discipline`). Weak fairness for every step of a thread that is
inside the pool (the operating system runs it; `mutex_` is free between
actions), and for dropping leases and aliases (scopes end). None for `Call`
(nobody has to use the pool) and none for `SpuriousWakeup` (nothing may rely on
it). A particular waiter may still be overtaken for ever by threads that barge
in, which neither `std::mutex` nor `std::condition_variable` excludes, so
`WaiterServed` says that the waiter wakes or the pool goes on serving.

**Disagreements found.** Three have a run whose counterexample shows them:

1. `handles_finished_once`: `sqlite3_backup_finish` frees the handle and reports the
   error of an earlier step; `finish()` (`backup.cpp:50`) throws before it clears
   `m_pBackup`, and the destructor, by which a backup "is automatically finished",
   finishes it again. Only this and a connection that is destroyed first have a backup
   finished twice (`BackupsFinishedOnce`).
2. `wal_fallback`: "the helper automatically falls back to classic WAL if WAL2 is
   unavailable" (`README.md:141`). With the statement cache on, the rejected
   `PRAGMA journal_mode = WAL2` is still in progress in the cache when the second
   attempt runs (`snapshot.cpp:243`), and SQLite refuses to change the mode: the
   helper throws, unless the database was in WAL mode before.
3. `cache_disable`: "Disable caching without destroying existing entries"
   (`statement_cache.hpp:61`, of `enabled`). The only way to set it on a connection is
   `configure_statement_cache`, that is `statement_cache::reset`, which finalizes and
   drops every entry whatever it is called with (`statement_cache.cpp:97-101`).

The following are properties of the modules that no run lists; each is violated when
it is added to the configuration named:

- `CreatedCountExact` (`pool_safety`): `acquire()` does not test what the factory
  returned. A null pointer becomes an empty lease and its slot is never given back,
  so `created_count()`, "Number of connections that have been created so far", counts
  connections that do not exist, and after `capacity` such calls every `acquire()`
  blocks. Where the factory returns a connection or throws, it holds (`CreatedCounted`).
- `SharingIsDefined` (`cache`): `release()` reads `config_` before it locks. If
  another thread sets the capacity to zero in between, `release()` evicts from an empty
  list. The header of `threading.hpp` and the concurrency test of the cache let threads
  share a connection; the repository's README says they may not. That only a `reset()`
  during `acquire()` or `release()` leads there is part of `ClosesCleanly` (`Closes`).
  (Reading `config_` while `reset()` writes it is a data race of its own; the model gives
  it the values such a read can return.)
- `InOrder` (`cursor` with "rewind" among `Liberties`): `result::reset()` "resets the
  cursor to the beginning" only when the rows had ended; in the middle the next row
  follows as if nothing happened. Nothing else breaks it (`RowsInOrder`).
- `NeverDangles` (`cursor`): a result does not keep the query alive, although its
  header says so; used afterwards it calls into the destroyed query. A query that is
  destroyed last is safe (`CallbacksSafe`).
- `IndexResets` (`cursor`): when the execution in `operator()` throws, the positional
  index is not reset and the next call's arguments are shifted; only such a failure does this
  (`IndexStartsOver`).
- `CommitCommits` (`wal`): after `enable_wal` with a cache, `commit()` is refused
  ("SQL statements in progress"), as in the example of `README.md:146-149`, and
  single statements are not saved until the PRAGMA is reset or finalized. `Kept` and
  `NamesMode` have `stuck` for this reason. Without a cache, this and the fallback of 2.
  are as documented (`PromisesWithoutCache`).

Smaller ones, read off the code:

- When the first step of a range-for loop throws, `begin_called_` is already set
  (`query.cpp:155`), so that a second loop over the range is one over nothing
  (`BeginFails`); `LoopSeesItsRow` speaks of loops that have reached a row.
- A `row_view` reads the statement's current row, which another result over the same
  statement may have moved (`query.cpp:117`). The model reads results one after the other
  (`Idle`), so that `LoopSeesItsRow` is about a loop that is not disturbed.
- `transaction::isActive()` returns the object's own flag, which does not change
  when SQLite rolls back by itself. The header of `savepoint` says so of its
  `isActive()`, the one of `transaction` does not (`FlagsMatch` has `~disturbed`
  for this reason).
- `query::get_result()` "needs a previous step_once() call" according to its header;
  with one, the first `next_row()` delivers the second row, hence `AtStart`.
- `create_function` and `deserialize` free what SQLite has freed already when it
  refuses, `serialize` with `SQLITE_SERIALIZE_NOCOPY` frees the image the connection
  works on ("register", "image" and "nocopy" of `Handles`).
- An SQL function that returns an empty blob returns NULL, as an empty vector has no
  address. `get<bool>` looks at 32 bits, so that 2^32 is false. `get<std::string>` of
  NULL is the text "NULL" (`Carries`, `AsIntegral` and `NullAs` of `Values`).
- `current_threading_mode()` is wrong after `sqlite3_config` succeeded and
  `sqlite3_initialize` failed, until a mode is confirmed (`ReportedMode`).
- `always_create` loses the old database when SQLite refuses to open the new one
  (`LossOnlyIfRefused`), and may remove a file that another connection has just
  created. When the file has gone before it is removed, the exception has code 0,
  because `remove` returns false without an error (`connection.cpp:241-245`).
- `validate_db_path` lets a `file:...?mode=memory` path pass unexamined, although
  SQLite takes it for an ordinary name when URIs are not enabled.
- `snapshot::open` compares with `SQLITE_BUSY` (`snapshot.cpp:196`), while the
  connection reports extended codes; `enable_wal` swallows every exception of its
  first attempt, not only that WAL2 is unknown.

## The proofs

Assumptions are the named ones of the modules: the capacity is a positive
number, the sets of threads and connections are finite, null values are not
members, configurations have a natural capacity, the classes of objects are
disjoint, the connections of the path are among those that open connections, `int` has
fewer values than `std::int64_t`, null values and texts are no numbers. Every
theorem holds for any number of threads, connections, commands, texts, statements,
objects, rows, placeholders, files, allocations and writes, and integers of any width. Each module with
theorems states in its comments which behaviour of the code they are about.

`ConnectionPoolProofs` goes through four inductive invariants, each using the
previous one:

- `Shape`, the types without the bounds of `created_`;
- `Ownership` = `Shape`, `IdleUnreferenced` and `ExclusiveLease`. Neither of the
  two is inductive alone: that a dropped last reference may park its connection
  needs exclusivity, and exclusivity of what `acquire()` pops needs that nothing
  idle is in use;
- `Slots` adds `SlotsConserved`, the bound of `created_`, and that a thread that
  got a connection has one when the factory only throws. `created_ <= capacity_`
  is part of `TypeOK` and rests on it;
- `Wakeups` = `Shape` and `NoLostWakeup`, by counting the threads on their way to
  the mutex before and after each notification;
- `EmptyHanded`: a thread that does not hold and wait has neither lease nor alias while
  it is inside `acquire()`.

`BlockedByHolders` needs all of them: that nothing is idle and no slot is free follows
from `Wakeups`, since nobody is on the way to the mutex; that what is taken is held by
callers from `Slots`, by counting; that one of them is awake from `EmptyHanded`.

Theorems: `IdleNeverReferenced`, `LeasesExclusive`, `SlotsNeverLost`,
`TypeCorrect`, `WakeupsNeverLost`, `BlocksOnlyOnCallers`, `CreatedCounted`, and
`PoolImplementsContract`, the refinement.

`StatementCacheProofs`: `Inv` = types, `StatementsOwned`, `CacheCoherent` and
`TextMatches` (a command's statement was compiled from its own text).
`StatementsOwned` alone is not inductive: a lookup must find an entry of the list,
which is coherence, and an entry is filed under its statement's text, which is
`TextMatches`. The lemmas `EraseProperties`, `PopBackProperties` and
`PushFrontProperties` say what the list operations do; `ParkInv` is the common
argument for `Store` and `StoreEvict`. `CapInv` adds that the cache is empty and
untouched while `reset()` writes `config_`, which is why the capacity is respected
although it is tested too early. `SerialInv` says that until `reset()` has run during a
command's visit (`raced`) nobody is inside the cache while it runs, so the configuration a
command tested is the one it stores under, and `lru_.back()` is never reached on an empty
list. That close always succeeds needs no such condition (`CloseSucceeds`). Theorems:
`TypeCorrect`, `OneOwner`, `Coherent`, `CapacityKept`, `Closes` and
`CacheTransparent`, the refinement of `FreshStatements`: a command gets a statement of the
text it asked for (`TextMatches`), every
step of a command leaves the statements held by others alone (`OthersUntouched`,
from `OneOwner`), and a checked-out statement equals a newly compiled one
(`CheckedOut`, from `Coherent` and the reset in `acquire()`).

`TransactionsProofs` has two invariants.

- `AccountInv`, for calls in any order: there is an injection from SQLite's levels to
  active objects of the level's name (`Matching`). `NamesAccounted` alone is not
  inductive, because it speaks of one name at a time and says nothing of the
  transaction's own level. The injection cannot simply be `by`: of two savepoints
  with one name, the object called may end the other's level, and then the levels left
  are matched with the objects left in another way. With automatic objects the
  matched objects are the one that began the transaction or are behind it, so that it
  exists (`ClosedOnExit`).
- `DisciplineInv`, up to the first call that is not on the innermost active object:
  `Nested` relates `levels` to `scope` (in the same order, each level's object active
  and of its name, an active object without a level only in front of all of them), and
  `HaveLevels` says that there is none of the latter unless SQLite has interfered.
  `FlagsMatch` says nothing once SQLite has rolled back, while `ScopesKept` needs to
  know even then whose level is the innermost, which `Nested` says.

Theorems: `TypeCorrect`, `SavepointsAccounted`, and with the assumption `Scoped`
(the objects are automatic variables) `ClosedOnExit`, `FlagsTrue`,
`DestructorsReturn` and `ScopesKept`, the refinement of `NestedScopes`: every call ends
the innermost level or none, as `InnermostLevel` says, and `HandOnStep`,
`DiscardStep`, `UndoneStep` and `OpenStep` map what SQLite does with it.

`QueryCursorProofs`: `BindInv` = types, `ArgumentsLand` and "`last_arg_idx` counts the
arguments that were given since the last successful execution", without which the next
argument could land anywhere. `ReadInv` = types, at most one result has not ended, and
for each result what it has delivered and where the statement is (`Cursor`: on the row it
delivered last; all rows if it ended) and what its loop has seen (`Loop`). Theorems: `TypeCorrect`,
`ArgumentsBound`, and for callers that do not reset a result in the middle
(`"rewind" \notin Liberties`) `LoopsSeeTheirRow`, `RowsInOrder` and `ForwardOnly`, the
refinement of `ForwardCursor`. `IndexStartsOver` and `CallbacksSafe` say that what the
headers promise and the code does not keep is kept where no step of the command fails, and
where the query is destroyed last.

`ProcessProofs`: `ProcessImplements` is the composition, a process implements both
`Threading` and `Opening`; so what is proved of each of them alone holds of a process.
`ThreadingInv` relates the caller's place in `configure_threading` to SQLite: the
mode is the one asked for once it is past `sqlite3_config`, and nobody is inside
once a mode is confirmed, as `threading_locked` is tested under the mutex. `OpeningInv`
says that from its removal on the path of `always_create` holds nothing old, because a
file that is removed does not come back (processes that move files in and out of the path
are not modelled). Theorems: `ConfirmedStaysInForce`,
`ModeReported`, `NoShutdownUnderConnections`, `AlwaysStartsAfresh`, `NoNeedlessLoss`,
`ExistingNeverCreated`, and `ProcessTypeCorrect`, the types of both.

`HandlesProofs`: `HandlesInv` = types, `OneOwner` and `FreedOnce` with its part
`FaultsContained` (`PointersMeet`: a pointer that does not dangle as `Dangles` allows
leads to something allocated; `DatabasesOpen`: the connections that backups and sessions
need are open unless one was destroyed too early). `OneOwner` says nothing of pointers to
what is not allocated, which is why freeing safely needs `PointersMeet`; that in turn
needs `OneOwner`, since freeing one owner's handle must not make another's dangle.
`TakesOver`, `Frees`, `FreesUnder` and `Moves` are the ways pointers change, common to all
five kinds of handles; `StillDangles` is why a fault in one of them stays there. Theorems:
`TypeCorrect`, `HandlesOwned`, `NothingFreedTwice`, `FaultsStayContained`, `NothingLeaked`
(`NothingLeft`, a property of the module that follows from `OneOwner` and the types) and
`BackupsFinishedOnce`, the action property `FinishedOnce` without the two faults that
break it.

`JournalModeProofs`: `JournalInv` adds to the properties `Waits` (outside a BEGIN, what
is not committed waits for a statement in progress that may write) and, until a PRAGMA
has been parked in progress, `Smooth` (no such statement, and the file knows the mode).
Lemmas like `HaltFacts` say what each of SQLite's operators does to the two. Theorems:
`TypeCorrect`, `NothingLost`, `ModeNamed`, `FallbackWorks`, and `PromisesWithoutCache`, by
which the two disagreements of this component come from the statement cache alone.

`ValuesProofs` proves `Intact` for every width instead of the run's. The arithmetic comes
first: `WrapIdentity`, `UnsignedRoundTrip` and `SignedRoundTrip` say when a `static_cast`
loses nothing, `TruncateExact` and `TruncateProduct` when a duration's does, all on top of
`ModShift`. `RoundTrip` puts them together for one value and one type, `CallStep` for a
function that takes and returns it. `Intact` speaks of what was read only; what makes it
inductive is `Kept`: while every function on the way could carry the value, SQLite has what
was bound. Theorems: `ValuesKept`, `ValuesIntact`.

Only model-checked: `WaiterServed`, as liveness under fairness is out of the
prover's reach, and freedom from deadlock where TLC checks it; the safety part of both,
that no wakeup is lost and that only holders block, is proved. Every other property of a
passing run is stated by a theorem.

## Not modelled

- The destruction of a pool under live leases: the code keeps a raw pointer and
  cannot notice.
- Copies of `transaction` and `savepoint` objects (both have implicit copy
  constructors, so that two objects would end the same transaction), and their
  `take_snapshot` and `open_snapshot`, which change no state of theirs.
- Column accessors of `result` (they change nothing), the column name cache of a
  range, and calls on a range's result through `row_view::raw()`.
- Commands whose text contains no statement: every call of theirs throws.
- The contents of backups, changesets, images and snapshots, and the order of events
  that `session` records: they are SQLite's, and the wrapper passes them on.
  `snapshot::open` and `take` change no state of the wrapper beyond their handle.
- `open_readonly` on a read-only file system, URI names, the parent directory's checks,
  and what an exotic `filesystem_adapter` may return: `CannotExamine` stands for all
  of its errors.
- SQLite's conversions between storage classes, the rounding of floating point
  durations, and enumerations (they are their underlying integers).
- `callable_traits` and the other compile-time parts of `function.hpp`, `deprecated.hpp`
  and the exception classes: no state at run time.
- Views, JSON/FTS helpers, `dlsym` lookups: no state, pure text or pure environment.

## Plan

What could be added, in this order:

1. A pool whose connections carry statement caches, so that a lease handed to the
   next thread brings no statement state with it. Both halves are proved
   (`PoolImplementsContract`, `CacheTransparent`); the composition would relate the
   commands of a cache to the lease they are used under.
2. `JournalMode` on top of `StatementCache` instead of its summary of the cache.
3. Two processes in `JournalMode`, with readers that keep a snapshot alive.
