--------------------------- MODULE ConnectionPool ---------------------------
(***************************************************************************)
(* sqlite::connection_pool: a bounded set of connections multiplexed over  *)
(* threads by scoped leases.                                               *)
(*                                                                         *)
(* A critical section of mutex_ is one action.  What the code does outside *)
(* the mutex (running the factory, building the lease, dropping the last   *)
(* reference to a lease before connection_pool::release locks) is a step   *)
(* of its own, so every interleaving of the threads around the mutex is a  *)
(* behaviour of this module.                                               *)
(***************************************************************************)
EXTENDS Integers, Sequences, FiniteSets

CONSTANTS
    Threads,      \* the threads that use the pool
    Conns,        \* the connections the factory can open
    NoConn,       \* the null std::shared_ptr<connection>
    Capacity,     \* capacity_
    Faults,       \* what may go wrong, a subset of {"throw", "null", "alloc"}
    HoldAndWait   \* TRUE: a thread may call acquire() while it holds a connection

\* The constructor rejects a capacity of zero.
ASSUME CapacityAssumption == Capacity \in Nat \ {0}
ASSUME SetsAssumption == /\ IsFiniteSet(Threads)
                         /\ IsFiniteSet(Conns)
                         /\ NoConn \notin Conns
ASSUME EnvironmentAssumption == /\ Faults \subseteq {"throw", "null", "alloc"}
                                /\ HoldAndWait \in BOOLEAN

VARIABLES
    idle,     \* idle_: the vector of parked connections, its back is reused first
    created,  \* created_
    pc,       \* where each thread is
    hand,     \* the connection the pool's own code holds for a thread
    lease,    \* the lease object of each thread: its connection_, or NoConn
    alias     \* a std::shared_ptr obtained from lease::shared(), or NoConn

vars == <<idle, created, pc, hand, lease, alias>>

(***************************************************************************)
(* ready  outside the pool         lock    in acquire(), about to lock     *)
(* wait   asleep in cv_.wait       create  running factory_()              *)
(* catch  factory_() threw         got     acquire() has its connection    *)
(* return last reference dropped, in ~shared_state, about to lock          *)
(***************************************************************************)
PCs == {"ready", "lock", "wait", "create", "catch", "got", "return"}

At(label) == {t \in Threads : pc[t] = label}

Idle == {idle[i] : i \in 1..Len(idle)}

\* Connections some lease, alias or hand of the pool's code still owns.
InUse == {c \in Conns : \E t \in Threads : c \in {hand[t], lease[t], alias[t]}}

\* The shared_state of c is kept alive by every lease and alias that names c.
LastReference(t, c) ==
    \A u \in Threads \ {t} : lease[u] # c /\ alias[u] # c

Holding(t) == lease[t] # NoConn \/ alias[t] # NoConn

Init ==
    /\ idle = <<>>
    /\ created = 0
    /\ pc = [t \in Threads |-> "ready"]
    /\ hand = [t \in Threads |-> NoConn]
    /\ lease = [t \in Threads |-> NoConn]
    /\ alias = [t \in Threads |-> NoConn]

-----------------------------------------------------------------------------
(* acquire() *)

Call(t) ==
    /\ pc[t] = "ready"
    /\ Holding(t) => HoldAndWait
    /\ pc' = [pc EXCEPT ![t] = "lock"]
    /\ UNCHANGED <<idle, created, hand, lease, alias>>

\* Deviation: the connection is copied out of idle_ but never popped.
AcquireIdleNoPop(t) ==
    /\ pc[t] = "lock"
    /\ idle # <<>>
    /\ hand' = [hand EXCEPT ![t] = idle[Len(idle)]]
    /\ pc' = [pc EXCEPT ![t] = "got"]
    /\ UNCHANGED <<idle, created, lease, alias>>

AcquireIdle(t) ==
    /\ pc[t] = "lock"
    /\ idle # <<>>
    /\ hand' = [hand EXCEPT ![t] = idle[Len(idle)]]
    /\ idle' = SubSeq(idle, 1, Len(idle) - 1)
    /\ pc' = [pc EXCEPT ![t] = "got"]
    /\ UNCHANGED <<created, lease, alias>>

\* Deviation: the capacity test is off by one.
AcquireCreateOffByOne(t) ==
    /\ pc[t] = "lock"
    /\ idle = <<>>
    /\ created <= Capacity
    /\ created' = created + 1
    /\ pc' = [pc EXCEPT ![t] = "create"]
    /\ UNCHANGED <<idle, hand, lease, alias>>

AcquireCreate(t) ==
    /\ pc[t] = "lock"
    /\ idle = <<>>
    /\ created < Capacity
    /\ created' = created + 1
    /\ pc' = [pc EXCEPT ![t] = "create"]
    /\ UNCHANGED <<idle, hand, lease, alias>>

AcquireWait(t) ==
    /\ pc[t] = "lock"
    /\ idle = <<>>
    /\ created >= Capacity
    /\ pc' = [pc EXCEPT ![t] = "wait"]
    /\ UNCHANGED <<idle, created, hand, lease, alias>>

\* cv_.wait may return without a notification; the loop re-tests.
SpuriousWakeup(t) ==
    /\ pc[t] = "wait"
    /\ pc' = [pc EXCEPT ![t] = "lock"]
    /\ UNCHANGED <<idle, created, hand, lease, alias>>

\* cv_.notify_one() by t, which goes on to `next`: one sleeper, if there is
\* any, leaves the wait and competes for the mutex again.
NotifyOne(t, next) ==
    LET moved == [pc EXCEPT ![t] = next] IN
    IF At("wait") = {}
    THEN pc' = moved
    ELSE \E u \in At("wait") : pc' = [moved EXCEPT ![u] = "lock"]

FactoryReturns(t) ==
    /\ pc[t] = "create"
    /\ \E c \in Conns \ (InUse \cup Idle) : hand' = [hand EXCEPT ![t] = c]
    /\ pc' = [pc EXCEPT ![t] = "got"]
    /\ UNCHANGED <<idle, created, lease, alias>>

\* A caller's factory may return a null pointer; nothing in acquire() tests it.
FactoryReturnsNull(t) ==
    /\ "null" \in Faults
    /\ pc[t] = "create"
    /\ pc' = [pc EXCEPT ![t] = "got"]
    /\ UNCHANGED <<idle, created, hand, lease, alias>>

FactoryThrows(t) ==
    /\ "throw" \in Faults
    /\ pc[t] = "create"
    /\ pc' = [pc EXCEPT ![t] = "catch"]
    /\ UNCHANGED <<idle, created, hand, lease, alias>>

\* Deviation: no catch block, the exception leaves acquire() with the slot.
CatchFactoryKeepsSlot(t) ==
    /\ pc[t] = "catch"
    /\ pc' = [pc EXCEPT ![t] = "ready"]
    /\ UNCHANGED <<idle, created, hand, lease, alias>>

\* Deviation: the slot is given back but no waiter is told.
CatchFactorySilent(t) ==
    /\ pc[t] = "catch"
    /\ created' = created - 1
    /\ pc' = [pc EXCEPT ![t] = "ready"]
    /\ UNCHANGED <<idle, hand, lease, alias>>

\* The catch block gives the slot back, wakes one waiter and rethrows.
CatchFactory(t) ==
    /\ pc[t] = "catch"
    /\ created' = created - 1
    /\ NotifyOne(t, "ready")
    /\ UNCHANGED <<idle, hand, lease, alias>>

-----------------------------------------------------------------------------
(* leases *)

\* Deviation: every lease and alias returns the connection, not the last one.
UnreferenceAlways(t, c, last) ==
    IF c # NoConn
    THEN /\ hand' = [hand EXCEPT ![t] = c]
         /\ pc' = [pc EXCEPT ![t] = "return"]
    ELSE /\ hand' = [hand EXCEPT ![t] = NoConn]
         /\ pc' = [pc EXCEPT ![t] = "ready"]

\* Thread t loses its reference to c.  The last reference runs ~shared_state,
\* which carries c back to the pool.
Unreference(t, c, last) ==
    IF c # NoConn /\ last
    THEN /\ hand' = [hand EXCEPT ![t] = c]
         /\ pc' = [pc EXCEPT ![t] = "return"]
    ELSE /\ hand' = [hand EXCEPT ![t] = NoConn]
         /\ pc' = [pc EXCEPT ![t] = "ready"]

\* return lease(this, conn), moved into the caller's lease: move assignment
\* releases what that lease held before.
MakeLease(t) ==
    /\ pc[t] = "got"
    /\ lease' = [lease EXCEPT ![t] = hand[t]]
    /\ Unreference(t, lease[t], LastReference(t, lease[t]) /\ alias[t] # lease[t])
    /\ UNCHANGED <<idle, created, alias>>

\* std::make_shared<shared_state>() throws std::bad_alloc out of acquire():
\* the connection is destroyed with the local pointer.
MakeLeaseFails(t) ==
    /\ "alloc" \in Faults
    /\ pc[t] = "got"
    /\ hand[t] # NoConn
    /\ hand' = [hand EXCEPT ![t] = NoConn]
    /\ pc' = [pc EXCEPT ![t] = "ready"]
    /\ UNCHANGED <<idle, created, lease, alias>>

\* lease::shared(), the copy given to thread u.
Share(t, u) ==
    /\ pc[t] = "ready"
    /\ lease[t] # NoConn
    /\ alias[u] = NoConn
    /\ pc[u] = "ready" \/ HoldAndWait
    /\ alias' = [alias EXCEPT ![u] = lease[t]]
    /\ UNCHANGED <<idle, created, pc, hand, lease>>

DropLease(t) ==
    /\ pc[t] = "ready"
    /\ lease[t] # NoConn
    /\ lease' = [lease EXCEPT ![t] = NoConn]
    /\ Unreference(t, lease[t], LastReference(t, lease[t]) /\ alias[t] # lease[t])
    /\ UNCHANGED <<idle, created, alias>>

DropAlias(t) ==
    /\ pc[t] = "ready"
    /\ alias[t] # NoConn
    /\ alias' = [alias EXCEPT ![t] = NoConn]
    /\ Unreference(t, alias[t], LastReference(t, alias[t]) /\ lease[t] # alias[t])
    /\ UNCHANGED <<idle, created, lease>>

\* Deviation: the connection is parked without waking a waiter.
ReleaseSilent(t) ==
    /\ pc[t] = "return"
    /\ idle' = Append(idle, hand[t])
    /\ hand' = [hand EXCEPT ![t] = NoConn]
    /\ pc' = [pc EXCEPT ![t] = "ready"]
    /\ UNCHANGED <<created, lease, alias>>

\* connection_pool::release, called by ~shared_state.
Release(t) ==
    /\ pc[t] = "return"
    /\ idle' = Append(idle, hand[t])
    /\ hand' = [hand EXCEPT ![t] = NoConn]
    /\ NotifyOne(t, "ready")
    /\ UNCHANGED <<created, lease, alias>>

-----------------------------------------------------------------------------

AcquireLoop(t) == AcquireIdle(t) \/ AcquireCreate(t) \/ AcquireWait(t)

RunFactory(t) == FactoryReturns(t) \/ FactoryReturnsNull(t) \/ FactoryThrows(t)

BuildLease(t) == MakeLease(t) \/ MakeLeaseFails(t)

Next ==
    \E t \in Threads :
        \/ Call(t)
        \/ AcquireLoop(t)
        \/ SpuriousWakeup(t)
        \/ RunFactory(t)
        \/ CatchFactory(t)
        \/ BuildLease(t)
        \/ \E u \in Threads : Share(t, u)
        \/ DropLease(t)
        \/ DropAlias(t)
        \/ Release(t)

Spec == Init /\ [][Next]_vars

\* The scheduler runs every thread that is inside the pool, and callers let
\* their leases go out of scope.  Nothing makes a thread call acquire(), and
\* nothing may count on a spurious wakeup.
Fairness ==
    \A t \in Threads :
        /\ WF_vars(AcquireLoop(t))
        /\ WF_vars(RunFactory(t))
        /\ WF_vars(CatchFactory(t))
        /\ WF_vars(BuildLease(t))
        /\ WF_vars(DropLease(t))
        /\ WF_vars(DropAlias(t))
        /\ WF_vars(Release(t))

FairSpec == Spec /\ Fairness

-----------------------------------------------------------------------------
(* Properties *)

\* Every variable has its type; created_ never exceeds capacity_, and the
\* pool's code holds a connection exactly where acquire()/release() do.
TypeOK ==
    /\ idle \in Seq(Conns)
    /\ created \in 0..Capacity
    /\ pc \in [Threads -> PCs]
    /\ hand \in [Threads -> Conns \cup {NoConn}]
    /\ lease \in [Threads -> Conns \cup {NoConn}]
    /\ alias \in [Threads -> Conns \cup {NoConn}]
    /\ \A t \in Threads : /\ hand[t] # NoConn => pc[t] \in {"got", "return"}
                          /\ pc[t] = "return" => hand[t] # NoConn

\* A connection that sits in idle_ is parked once and named by no lease, no
\* alias and no thread inside acquire() or release(): the last-reference rule
\* of shared_state never gives back a connection someone can still use.
IdleUnreferenced ==
    /\ \A i, j \in 1..Len(idle) : idle[i] = idle[j] => i = j
    /\ Idle \cap InUse = {}

\* Two threads never get the same connection from acquire(): one lease object
\* per connection, and what the pool's code carries for a thread is named by
\* no one else.
ExclusiveLease ==
    \A t, u \in Threads, c \in Conns :
        /\ lease[t] = c /\ lease[u] = c => t = u
        /\ hand[t] = c => /\ lease[u] # c /\ alias[u] # c
                          /\ hand[u] = c => t = u

\* Slots counted by created_: parked connections, connections in use, and
\* factory calls that still run or have thrown.
SlotsTaken == Len(idle) + Cardinality(InUse) + Cardinality(At("create") \cup At("catch"))

\* created_ covers every connection that exists or is being opened, so no more
\* than capacity_ ever exist; and with a factory that returns a connection or
\* throws, and no allocation failure, no slot is lost either.
SlotsConserved ==
    /\ SlotsTaken <= created
    /\ Faults \subseteq {"throw"} => SlotsTaken = created

\* What a sleeper in cv_.wait could take: parked connections and free slots.
Available == Len(idle) + (Capacity - created)

\* No wakeup is lost: while some thread sleeps, every connection or slot it
\* could take is matched by a thread that is awake and on its way to the mutex.
NoLostWakeup == At("wait") # {} => Available <= Cardinality(At("lock"))

\* What can block callers of acquire() for good.  When every thread is asleep or outside
\* the pool, a sleeper waits for the callers alone: nothing is idle and every slot is
\* taken; with a factory that returns a connection or throws, leases and aliases hold
\* capacity_ connections.  One of the holders is awake, unless threads hold and wait.
BlockedByHolders ==
    At("wait") # {} /\ At("wait") \cup At("ready") = Threads =>
        /\ idle = <<>> /\ created = Capacity
        /\ Faults \subseteq {"throw"} =>
              /\ Cardinality(InUse) = Capacity
              /\ HoldAndWait \/ \E t \in At("ready") : Holding(t)

\* A sleeper is not forgotten: it wakes up, or the pool goes on serving others
\* (a connection is handed out or a factory call fails).  Which waiter is
\* served is up to the mutex and the condition variable.
WaiterServed ==
    \A t \in Threads :
        pc[t] = "wait" ~> (pc[t] # "wait" \/ At("got") \cup At("catch") # {})

\* "Number of connections that have been created so far": once every thread
\* has left the pool and dropped its connections, created_count() is the number
\* of connections that exist, all of them idle.
CreatedCountExact ==
    (\A t \in Threads : pc[t] \in {"ready", "wait"} /\ ~Holding(t))
        => created = Len(idle)

\* What thread t can use: the connection of its lease, of its alias, and the one
\* acquire() is about to return to it.
HeldBy(t) ==
    ({lease[t], alias[t]} \cup {hand[u] : u \in {t} \cap At("got")}) \ {NoConn}

Contract == INSTANCE LeaseContract WITH
    Clients <- Threads,
    Resources <- Conns,
    Limit <- Capacity,
    held <- [t \in Threads |-> HeldBy(t)]

\* Whatever the interleaving, the pool behaves like the contract: exclusive
\* grants within the capacity, sharing only through lease::shared().
ImplementsContract == Contract!Spec
=============================================================================
