----------------------- MODULE ConnectionPoolProofs -----------------------
(***************************************************************************)
(* Theorems about the connection pool, for every set of threads, every set *)
(* of connections, every capacity and every combination of faults.         *)
(***************************************************************************)
EXTENDS ConnectionPool, FiniteSetTheorems, SequenceTheorems, TLAPS

(***************************************************************************)
(* The types every other argument needs.  They say nothing of the bounds   *)
(* of created_, which rest on the count of the slots.                      *)
(***************************************************************************)
Shape ==
    /\ idle \in Seq(Conns)
    /\ created \in Int
    /\ pc \in [Threads -> PCs]
    /\ hand \in [Threads -> Conns \cup {NoConn}]
    /\ lease \in [Threads -> Conns \cup {NoConn}]
    /\ alias \in [Threads -> Conns \cup {NoConn}]
    /\ \A t \in Threads : /\ hand[t] # NoConn => pc[t] \in {"got", "return"}
                          /\ pc[t] = "return" => hand[t] # NoConn

\* Who owns a connection: the first inductive invariant.
Ownership == Shape /\ IdleUnreferenced /\ ExclusiveLease

-----------------------------------------------------------------------------
(* What a notification does to the program counters. *)

\* notify_one() moves the notifier on and at most one sleeper to the mutex.
LEMMA NotifyOneMoves ==
    ASSUME Shape, NEW t \in Threads, NEW next \in PCs, pc[t] # "wait",
           NotifyOne(t, next)
    PROVE  \/ /\ At("wait") = {}
              /\ pc' = [pc EXCEPT ![t] = next]
           \/ \E u \in Threads :
                 /\ u # t
                 /\ pc[u] = "wait"
                 /\ pc' = [pc EXCEPT ![t] = next, ![u] = "lock"]
<1>1. CASE At("wait") = {}
  BY <1>1 DEF NotifyOne
<1>2. CASE At("wait") # {}
  <2>1. PICK u \in At("wait") : pc' = [pc EXCEPT ![t] = next, ![u] = "lock"]
    BY <1>2 DEF NotifyOne
  <2>2. u \in Threads /\ u # t /\ pc[u] = "wait"
    BY <2>1 DEF At
  <2> QED
    BY <2>1, <2>2
<1> QED
  BY <1>1, <1>2

\* A notification never touches a thread that carries a connection.
LEMMA NotifyOneShape ==
    ASSUME Shape, NEW t \in Threads, pc[t] # "wait", NotifyOne(t, "ready")
    PROVE  /\ pc' \in [Threads -> PCs]
           /\ pc'[t] = "ready"
           /\ \A v \in Threads \ {t} : \/ pc'[v] = pc[v]
                                       \/ pc[v] = "wait" /\ pc'[v] = "lock"
<1>1. "ready" \in PCs
  BY DEF PCs
<1>2. CASE pc' = [pc EXCEPT ![t] = "ready"]
  BY <1>1, <1>2 DEF Shape, PCs
<1>3. CASE \E u \in Threads : /\ u # t
                              /\ pc[u] = "wait"
                              /\ pc' = [pc EXCEPT ![t] = "ready", ![u] = "lock"]
  BY <1>1, <1>3 DEF Shape, PCs
<1> QED
  BY <1>1, <1>2, <1>3, NotifyOneMoves

-----------------------------------------------------------------------------
(* Each action preserves the types. *)

LEMMA ShapeInit == Init => Shape
  BY DEF Init, Shape, PCs

LEMMA ShapeStep == Shape /\ [Next]_vars => Shape'
<1> SUFFICES ASSUME Shape, [Next]_vars PROVE Shape'
  OBVIOUS
<1>1. CASE UNCHANGED vars
  BY <1>1 DEF Shape, vars
<1>2. ASSUME NEW t \in Threads, Call(t) PROVE Shape'
  BY <1>2 DEF Call, Shape, PCs
<1>3. ASSUME NEW t \in Threads, AcquireIdle(t) PROVE Shape'
  BY <1>3 DEF AcquireIdle, Shape, PCs
<1>4. ASSUME NEW t \in Threads, AcquireCreate(t) PROVE Shape'
  BY <1>4 DEF AcquireCreate, Shape, PCs
<1>5. ASSUME NEW t \in Threads, AcquireWait(t) PROVE Shape'
  BY <1>5 DEF AcquireWait, Shape, PCs
<1>6. ASSUME NEW t \in Threads, SpuriousWakeup(t) PROVE Shape'
  BY <1>6 DEF SpuriousWakeup, Shape, PCs
<1>7. ASSUME NEW t \in Threads, FactoryReturns(t) PROVE Shape'
  BY <1>7 DEF FactoryReturns, Shape, PCs
<1>8. ASSUME NEW t \in Threads, FactoryReturnsNull(t) PROVE Shape'
  BY <1>8 DEF FactoryReturnsNull, Shape, PCs
<1>9. ASSUME NEW t \in Threads, FactoryThrows(t) PROVE Shape'
  BY <1>9 DEF FactoryThrows, Shape, PCs
<1>10. ASSUME NEW t \in Threads, CatchFactory(t) PROVE Shape'
  BY <1>10, NotifyOneShape DEF CatchFactory, Shape
<1>11. ASSUME NEW t \in Threads, MakeLease(t) PROVE Shape'
  BY <1>11 DEF MakeLease, Unreference, Shape, PCs
<1>12. ASSUME NEW t \in Threads, MakeLeaseFails(t) PROVE Shape'
  BY <1>12 DEF MakeLeaseFails, Shape, PCs
<1>13. ASSUME NEW t \in Threads, NEW u \in Threads, Share(t, u) PROVE Shape'
  BY <1>13 DEF Share, Shape, PCs
<1>14. ASSUME NEW t \in Threads, DropLease(t) PROVE Shape'
  BY <1>14 DEF DropLease, Unreference, Shape, PCs
<1>15. ASSUME NEW t \in Threads, DropAlias(t) PROVE Shape'
  BY <1>15 DEF DropAlias, Unreference, Shape, PCs
<1>16. ASSUME NEW t \in Threads, Release(t) PROVE Shape'
  BY <1>16, NotifyOneShape DEF Release, Shape
<1> QED
  BY <1>1, <1>2, <1>3, <1>4, <1>5, <1>6, <1>7, <1>8, <1>9, <1>10, <1>11,
     <1>12, <1>13, <1>14, <1>15, <1>16
  DEF Next, AcquireLoop, RunFactory, BuildLease

-----------------------------------------------------------------------------
(* Ownership *)

\* pop_back() shortens idle_ by one and leaves the rest alone.
LEMMA PopBack ==
    ASSUME NEW t \in Threads, Shape, AcquireIdle(t)
    PROVE  /\ Len(idle) \in Nat \ {0}
           /\ Len(idle') = Len(idle) - 1
           /\ \A i \in 1..Len(idle') : idle'[i] = idle[i]
<1>1. Len(idle) \in Nat \ {0}
  BY DEF AcquireIdle, Shape
<1> DEFINE n == Len(idle) - 1
<1>2. n \in Nat
  BY <1>1
<1>3. idle' = SubSeq(idle, 1, n) /\ \A i \in 1..n : idle[i] \in Conns
  BY <1>1 DEF AcquireIdle, Shape
<1> HIDE DEF n
<1>4. /\ Len(idle') = IF 1 <= n THEN n - 1 + 1 ELSE 0
      /\ \A i \in 1..(n - 1 + 1) : idle'[i] = idle[1 + i - 1]
  BY <1>2, <1>3, SubSeqProperties
<1>5. Len(idle') = n
  BY <1>2, <1>4
<1>6. \A i \in 1..n : idle'[i] = idle[i]
  BY <1>2, <1>4
<1> QED
  BY <1>1, <1>5, <1>6 DEF n

\* Popping the back of idle_ removes exactly that connection, parked once.
LEMMA PopIdle ==
    ASSUME NEW t \in Threads, Ownership, AcquireIdle(t)
    PROVE  /\ idle[Len(idle)] \in Idle
           /\ idle[Len(idle)] \notin Idle'
           /\ Idle' \subseteq Idle
           /\ \A i, j \in 1..Len(idle') : idle'[i] = idle'[j] => i = j
BY PopBack DEF Idle, Ownership, IdleUnreferenced

\* Parking a connection that was not parked.
LEMMA PushIdle ==
    ASSUME NEW t \in Threads, Ownership, Release(t)
    PROVE  /\ Idle' = Idle \cup {hand[t]}
           /\ \A i, j \in 1..Len(idle') : idle'[i] = idle'[j] => i = j
<1>1. hand[t] \in Conns /\ hand[t] \notin Idle
  BY DEF Release, Ownership, Shape, IdleUnreferenced, InUse
<1>2. /\ Len(idle) \in Nat
      /\ Len(idle') = Len(idle) + 1
      /\ \A i \in 1..Len(idle) : idle'[i] = idle[i]
      /\ idle'[Len(idle) + 1] = hand[t]
  BY <1>1 DEF Release, Ownership, Shape
<1> QED
  BY <1>1, <1>2 DEF Idle, Ownership, IdleUnreferenced

LEMMA OwnershipInit == Init => Ownership
<1> SUFFICES ASSUME Init PROVE Ownership
  OBVIOUS
<1>1. Shape
  BY ShapeInit
<1>2. NoConn \notin Conns
  BY SetsAssumption
<1> QED
  BY <1>1, <1>2 DEF Init, Ownership, IdleUnreferenced, ExclusiveLease, Idle, InUse

LEMMA OwnershipStep == Ownership /\ [Next]_vars => Ownership'
<1> SUFFICES ASSUME Ownership, [Next]_vars PROVE Ownership'
  OBVIOUS
<1> USE SetsAssumption
<1>0. Shape'
  BY ShapeStep DEF Ownership
<1> SUFFICES IdleUnreferenced' /\ ExclusiveLease'
  BY <1>0 DEF Ownership
<1>a. ASSUME UNCHANGED <<idle, hand, lease, alias>>
      PROVE  IdleUnreferenced' /\ ExclusiveLease'
  BY <1>a DEF Ownership, IdleUnreferenced, ExclusiveLease, Idle, InUse
<1>1. CASE UNCHANGED vars
  BY <1>1, <1>a DEF vars
<1>2. ASSUME NEW t \in Threads, Call(t) PROVE IdleUnreferenced' /\ ExclusiveLease'
  BY <1>2, <1>a DEF Call
<1>3. ASSUME NEW t \in Threads, AcquireIdle(t)
      PROVE  IdleUnreferenced' /\ ExclusiveLease'
  <2> DEFINE c == idle[Len(idle)]
  <2>1. c \in Conns /\ c \notin InUse
    BY <1>3, PopIdle DEF Ownership, IdleUnreferenced, Idle, Shape
  <2>2. InUse' \subseteq InUse \cup {c}
    BY <1>3, <2>1 DEF AcquireIdle, InUse, Ownership, Shape
  <2>3. IdleUnreferenced'
    BY <1>3, <2>1, <2>2, PopIdle DEF Ownership, IdleUnreferenced
  <2>4. ExclusiveLease'
    BY <1>3, <2>1 DEF AcquireIdle, Ownership, ExclusiveLease, InUse, Shape
  <2> QED
    BY <2>3, <2>4
<1>4. ASSUME NEW t \in Threads, AcquireCreate(t)
      PROVE  IdleUnreferenced' /\ ExclusiveLease'
  BY <1>4, <1>a DEF AcquireCreate
<1>5. ASSUME NEW t \in Threads, AcquireWait(t)
      PROVE  IdleUnreferenced' /\ ExclusiveLease'
  BY <1>5, <1>a DEF AcquireWait
<1>6. ASSUME NEW t \in Threads, SpuriousWakeup(t)
      PROVE  IdleUnreferenced' /\ ExclusiveLease'
  BY <1>6, <1>a DEF SpuriousWakeup
<1>7. ASSUME NEW t \in Threads, FactoryReturns(t)
      PROVE  IdleUnreferenced' /\ ExclusiveLease'
  <2>1. PICK c \in Conns \ (InUse \cup Idle) : hand' = [hand EXCEPT ![t] = c]
    BY <1>7 DEF FactoryReturns
  <2>2. InUse' \subseteq InUse \cup {c} /\ Idle' = Idle /\ idle' = idle
    BY <1>7, <2>1 DEF FactoryReturns, InUse, Idle, Ownership, Shape
  <2>3. IdleUnreferenced'
    BY <2>1, <2>2 DEF Ownership, IdleUnreferenced
  <2>4. ExclusiveLease'
    BY <1>7, <2>1 DEF FactoryReturns, Ownership, ExclusiveLease, InUse, Shape
  <2> QED
    BY <2>3, <2>4
<1>8. ASSUME NEW t \in Threads, FactoryReturnsNull(t)
      PROVE  IdleUnreferenced' /\ ExclusiveLease'
  BY <1>8, <1>a DEF FactoryReturnsNull
<1>9. ASSUME NEW t \in Threads, FactoryThrows(t)
      PROVE  IdleUnreferenced' /\ ExclusiveLease'
  BY <1>9, <1>a DEF FactoryThrows
<1>10. ASSUME NEW t \in Threads, CatchFactory(t)
       PROVE  IdleUnreferenced' /\ ExclusiveLease'
  BY <1>10, <1>a DEF CatchFactory
<1>b. ASSUME idle' = idle, InUse' \subseteq InUse
      PROVE  IdleUnreferenced'
  BY <1>b DEF Ownership, IdleUnreferenced, Idle
<1>11. ASSUME NEW t \in Threads, MakeLease(t)
       PROVE  IdleUnreferenced' /\ ExclusiveLease'
  <2>1. idle' = idle /\ InUse' \subseteq InUse
    BY <1>11 DEF MakeLease, Unreference, InUse, Ownership, Shape
  <2>2. ExclusiveLease'
    BY <1>11 DEF MakeLease, Unreference, LastReference, ExclusiveLease, Ownership, Shape
  <2> QED
    BY <2>1, <2>2, <1>b
<1>12. ASSUME NEW t \in Threads, MakeLeaseFails(t)
       PROVE  IdleUnreferenced' /\ ExclusiveLease'
  <2>1. idle' = idle /\ InUse' \subseteq InUse
    BY <1>12 DEF MakeLeaseFails, InUse, Ownership, Shape
  <2>2. ExclusiveLease'
    BY <1>12 DEF MakeLeaseFails, ExclusiveLease, Ownership, Shape
  <2> QED
    BY <2>1, <2>2, <1>b
<1>13. ASSUME NEW t \in Threads, NEW u \in Threads, Share(t, u)
       PROVE  IdleUnreferenced' /\ ExclusiveLease'
  <2>1. idle' = idle /\ InUse' \subseteq InUse
    BY <1>13 DEF Share, InUse, Ownership, Shape
  <2>2. ExclusiveLease'
    BY <1>13 DEF Share, ExclusiveLease, Ownership, Shape
  <2> QED
    BY <2>1, <2>2, <1>b
<1>14. ASSUME NEW t \in Threads, DropLease(t)
       PROVE  IdleUnreferenced' /\ ExclusiveLease'
  <2>1. idle' = idle /\ InUse' \subseteq InUse
    BY <1>14 DEF DropLease, Unreference, InUse, Ownership, Shape
  <2>2. ExclusiveLease'
    BY <1>14 DEF DropLease, Unreference, LastReference, ExclusiveLease, Ownership, Shape
  <2> QED
    BY <2>1, <2>2, <1>b
<1>15. ASSUME NEW t \in Threads, DropAlias(t)
       PROVE  IdleUnreferenced' /\ ExclusiveLease'
  <2>1. idle' = idle /\ InUse' \subseteq InUse
    BY <1>15 DEF DropAlias, Unreference, InUse, Ownership, Shape
  <2>2. ExclusiveLease'
    BY <1>15 DEF DropAlias, Unreference, LastReference, ExclusiveLease, Ownership, Shape
  <2> QED
    BY <2>1, <2>2, <1>b
<1>16. ASSUME NEW t \in Threads, Release(t)
       PROVE  IdleUnreferenced' /\ ExclusiveLease'
  <2>1. hand[t] \in Conns
    BY <1>16 DEF Release, Ownership, Shape
  <2>2. InUse' \subseteq InUse \ {hand[t]}
    BY <1>16, <2>1 DEF Release, InUse, Ownership, ExclusiveLease, Shape
  <2>3. IdleUnreferenced'
    BY <1>16, <2>2, PushIdle DEF Ownership, IdleUnreferenced
  <2>4. ExclusiveLease'
    BY <1>16 DEF Release, ExclusiveLease, Ownership, Shape
  <2> QED
    BY <2>3, <2>4
<1> QED
  BY <1>1, <1>2, <1>3, <1>4, <1>5, <1>6, <1>7, <1>8, <1>9, <1>10, <1>11,
     <1>12, <1>13, <1>14, <1>15, <1>16
  DEF Next, AcquireLoop, RunFactory, BuildLease

\* No connection is parked while a lease, an alias or the pool's own code can
\* reach it, and none is parked twice (shared_state, acquire and release).
THEOREM IdleNeverReferenced == Spec => []IdleUnreferenced
<1>1. Ownership => IdleUnreferenced
  BY DEF Ownership
<1> QED
  BY OwnershipInit, OwnershipStep, <1>1, PTL DEF Spec

\* acquire() never hands one connection to two threads.
THEOREM LeasesExclusive == Spec => []ExclusiveLease
<1>1. Ownership => ExclusiveLease
  BY DEF Ownership
<1> QED
  BY OwnershipInit, OwnershipStep, <1>1, PTL DEF Spec

-----------------------------------------------------------------------------
(* Counting the slots *)

\* Threads whose slot is counted although it has no connection yet.
Opening == At("create") \cup At("catch")

\* The second inductive invariant: created_ covers every slot in use, exactly
\* so when the factory only returns a connection or throws.
Slots ==
    /\ Ownership
    /\ created <= Capacity
    /\ SlotsConserved
    /\ Faults \subseteq {"throw"} => \A t \in At("got") : hand[t] # NoConn

\* Everything that is counted is finite.
LEMMA Countable ==
    ASSUME Shape
    PROVE  /\ Len(idle) \in Nat
           /\ IsFiniteSet(InUse) /\ Cardinality(InUse) \in Nat
           /\ IsFiniteSet(Opening) /\ Cardinality(Opening) \in Nat
<1>1. InUse \in SUBSET Conns /\ Opening \in SUBSET Threads
  BY DEF InUse, Opening, At
<1>2. IsFiniteSet(InUse) /\ IsFiniteSet(Opening)
  BY <1>1, FS_Subset, SetsAssumption
<1> QED
  BY <1>2, FS_CardinalityType DEF Shape

\* A step that leaves every count alone leaves the balance alone.
LEMMA SameSlots ==
    ASSUME Slots, Len(idle') = Len(idle), InUse' = InUse, Opening' = Opening,
           created' = created
    PROVE  created' <= Capacity /\ SlotsConserved'
BY DEF Slots, SlotsConserved, SlotsTaken, Opening

\* A thread that takes or leaves the factory changes one count by one.
LEMMA OpeningChanges ==
    ASSUME Shape, NEW t \in Threads
    PROVE  /\ /\ t \notin Opening
              /\ Opening' = Opening \cup {t}
              => Cardinality(Opening') = Cardinality(Opening) + 1
           /\ /\ t \in Opening
              /\ Opening' = Opening \ {t}
              => Cardinality(Opening') = Cardinality(Opening) - 1
BY Countable, FS_AddElement, FS_RemoveElement

\* A connection that enters or leaves the set in use changes it by one.
LEMMA InUseChanges ==
    ASSUME Shape, NEW c
    PROVE  /\ /\ c \notin InUse
              /\ InUse' = InUse \cup {c}
              => Cardinality(InUse') = Cardinality(InUse) + 1
           /\ /\ c \in InUse
              /\ InUse' = InUse \ {c}
              => Cardinality(InUse') = Cardinality(InUse) - 1
BY Countable, FS_AddElement, FS_RemoveElement

LEMMA SlotsInit == Init => Slots
<1> SUFFICES ASSUME Init PROVE Slots
  OBVIOUS
<1>1. Ownership
  BY OwnershipInit
<1>2. InUse = {} /\ Opening = {} /\ At("got") = {}
  BY SetsAssumption DEF Init, InUse, Opening, At
<1>3. Len(idle) = 0 /\ created = 0
  BY DEF Init
<1> QED
  BY <1>1, <1>2, <1>3, FS_EmptySet, CapacityAssumption
  DEF Slots, SlotsConserved, SlotsTaken, Opening

\* Where the last reference goes is counted once before and once after.
LEMMA SlotsStep == Slots /\ [Next]_vars => Slots'
<1> SUFFICES ASSUME Slots, [Next]_vars PROVE Slots'
  OBVIOUS
<1> USE SetsAssumption, CapacityAssumption
<1> DEFINE Full == Faults \subseteq {"throw"} => \A t \in At("got") : hand[t] # NoConn
           Goal == created' <= Capacity /\ SlotsConserved' /\ Full'
<1>0. /\ Ownership /\ Ownership'
      /\ Shape /\ Shape'
      /\ created \in Int /\ created' \in Int
  BY OwnershipStep DEF Slots, Ownership, Shape
<1>a. /\ Len(idle) \in Nat /\ Len(idle') \in Nat
      /\ Cardinality(InUse) \in Nat
      /\ Cardinality(Opening) \in Nat
      /\ SlotsTaken = Len(idle) + Cardinality(InUse) + Cardinality(Opening)
      /\ SlotsTaken' = Len(idle') + Cardinality(InUse') + Cardinality(Opening')
  BY <1>0, Countable DEF Shape, SlotsTaken, Opening
<1> SUFFICES Goal
  BY <1>0 DEF Slots
<1>b. ASSUME idle' = idle, created' = created, hand' = hand, lease' = lease,
             alias' = alias, Opening' = Opening, At("got")' \subseteq At("got")
      PROVE  Goal
  <2>1. InUse' = InUse
    BY <1>b DEF InUse
  <2> QED
    BY <1>b, <2>1, SameSlots DEF Slots
<1>1. CASE UNCHANGED vars
  BY <1>1, <1>b DEF vars, Opening, At
<1>2. ASSUME NEW t \in Threads, Call(t) PROVE Goal
  BY <1>2, <1>b, <1>0 DEF Call, Opening, At, Shape
<1>3. ASSUME NEW t \in Threads, AcquireIdle(t) PROVE Goal
  <2> DEFINE c == idle[Len(idle)]
  <2>1. c \in Conns /\ c \notin InUse
    BY <1>3, <1>0, PopIdle DEF Ownership, IdleUnreferenced, Idle, Shape
  <2>2. InUse' = InUse \cup {c}
    BY <1>3, <1>0, <2>1 DEF AcquireIdle, InUse, Shape
  <2>3. Cardinality(InUse') = Cardinality(InUse) + 1
    BY <1>0, <2>1, <2>2, InUseChanges
  <2>4. Len(idle') = Len(idle) - 1
    BY <1>3, <1>0, PopBack
  <2>5. Opening' = Opening /\ created' = created
    BY <1>3, <1>0 DEF AcquireIdle, Opening, At, Shape
  <2>6. Full'
    BY <1>3, <1>0, <2>1 DEF AcquireIdle, Slots, At, Shape
  <2> QED
    BY <1>0, <1>a, <2>3, <2>4, <2>5, <2>6 DEF Slots, SlotsConserved
<1>4. ASSUME NEW t \in Threads, AcquireCreate(t) PROVE Goal
  <2>1. t \notin Opening /\ Opening' = Opening \cup {t}
    BY <1>4, <1>0 DEF AcquireCreate, Opening, At, Shape
  <2>2. Cardinality(Opening') = Cardinality(Opening) + 1
    BY <1>0, <2>1, OpeningChanges
  <2>3. InUse' = InUse /\ idle' = idle /\ created' = created + 1 /\ created < Capacity
    BY <1>4 DEF AcquireCreate, InUse
  <2>4. Full'
    BY <1>4, <1>0 DEF AcquireCreate, Slots, At, Shape
  <2> QED
    BY <1>0, <1>a, <2>2, <2>3, <2>4 DEF Slots, SlotsConserved
<1>5. ASSUME NEW t \in Threads, AcquireWait(t) PROVE Goal
  BY <1>5, <1>b, <1>0 DEF AcquireWait, Opening, At, Shape
<1>6. ASSUME NEW t \in Threads, SpuriousWakeup(t) PROVE Goal
  BY <1>6, <1>b, <1>0 DEF SpuriousWakeup, Opening, At, Shape
<1>7. ASSUME NEW t \in Threads, FactoryReturns(t) PROVE Goal
  <2>1. PICK c \in Conns \ (InUse \cup Idle) : hand' = [hand EXCEPT ![t] = c]
    BY <1>7 DEF FactoryReturns
  <2>2. hand[t] = NoConn
    BY <1>7, <1>0 DEF FactoryReturns, Shape
  <2>3. InUse' = InUse \cup {c}
    BY <1>7, <1>0, <2>1, <2>2 DEF FactoryReturns, InUse, Shape
  <2>4. Cardinality(InUse') = Cardinality(InUse) + 1
    BY <1>0, <2>1, <2>3, InUseChanges
  <2>5. t \in Opening /\ Opening' = Opening \ {t}
    BY <1>7, <1>0 DEF FactoryReturns, Opening, At, Shape
  <2>6. Cardinality(Opening') = Cardinality(Opening) - 1
    BY <1>0, <2>5, OpeningChanges
  <2>7. idle' = idle /\ created' = created
    BY <1>7 DEF FactoryReturns
  <2>8. Full'
    BY <1>7, <1>0, <2>1 DEF FactoryReturns, Slots, At, Shape
  <2> QED
    BY <1>0, <1>a, <2>4, <2>6, <2>7, <2>8 DEF Slots, SlotsConserved
<1>c. ASSUME "null" \in Faults \/ "alloc" \in Faults, created' = created, idle' = idle,
             Cardinality(InUse') <= Cardinality(InUse), Cardinality(InUse') \in Nat,
             Cardinality(Opening') <= Cardinality(Opening), Cardinality(Opening') \in Nat
      PROVE  Goal
  BY <1>0, <1>a, <1>c DEF Slots, SlotsConserved
<1>d. Cardinality(InUse') \in Nat /\ Cardinality(Opening') \in Nat
  <2>1. InUse' \in SUBSET Conns /\ Opening' \in SUBSET Threads
    BY DEF InUse, Opening, At
  <2> QED
    BY <2>1, FS_Subset, FS_CardinalityType
<1>8. ASSUME NEW t \in Threads, FactoryReturnsNull(t) PROVE Goal
  <2>1. t \in Opening /\ Opening' = Opening \ {t}
    BY <1>8, <1>0 DEF FactoryReturnsNull, Opening, At, Shape
  <2>2. Cardinality(Opening') = Cardinality(Opening) - 1
    BY <1>0, <2>1, OpeningChanges
  <2>3. /\ InUse' = InUse /\ idle' = idle /\ created' = created
        /\ "null" \in Faults
    BY <1>8 DEF FactoryReturnsNull, InUse
  <2> QED
    BY <1>a, <1>c, <1>d, <2>2, <2>3
<1>9. ASSUME NEW t \in Threads, FactoryThrows(t) PROVE Goal
  BY <1>9, <1>b, <1>0 DEF FactoryThrows, Opening, At, Shape
<1>10. ASSUME NEW t \in Threads, CatchFactory(t) PROVE Goal
  <2>1. /\ pc[t] = "catch"
        /\ pc'[t] = "ready"
        /\ \A v \in Threads \ {t} : \/ pc'[v] = pc[v]
                                    \/ pc[v] = "wait" /\ pc'[v] = "lock"
    BY <1>10, <1>0, NotifyOneShape DEF CatchFactory
  <2>2. t \in Opening /\ Opening' = Opening \ {t}
    BY <2>1 DEF Opening, At
  <2>3. Cardinality(Opening') = Cardinality(Opening) - 1
    BY <1>0, <2>2, OpeningChanges
  <2>4. InUse' = InUse /\ idle' = idle /\ created' = created - 1 /\ hand' = hand
    BY <1>10 DEF CatchFactory, InUse
  <2>5. Full'
    BY <2>1, <2>4 DEF Slots, At
  <2> QED
    BY <1>0, <1>a, <2>3, <2>4, <2>5 DEF Slots, SlotsConserved
<1>e. ASSUME idle' = idle, created' = created, InUse' = InUse, Opening' = Opening,
             At("got")' \subseteq At("got"),
             \A u \in At("got")' : hand'[u] = hand[u]
      PROVE  Goal
  BY <1>e, SameSlots DEF Slots
<1>11. ASSUME NEW t \in Threads, MakeLease(t) PROVE Goal
  <2>1. InUse' = InUse
    BY <1>11, <1>0 DEF MakeLease, Unreference, LastReference, InUse, Shape
  <2>2. /\ Opening' = Opening /\ At("got")' \subseteq At("got")
        /\ \A u \in At("got")' : hand'[u] = hand[u]
    BY <1>11, <1>0 DEF MakeLease, Unreference, Opening, At, Shape
  <2> QED
    BY <1>11, <1>e, <2>1, <2>2 DEF MakeLease
<1>12. ASSUME NEW t \in Threads, MakeLeaseFails(t) PROVE Goal
  <2>1. InUse' \in SUBSET InUse
    BY <1>12, <1>0 DEF MakeLeaseFails, InUse, Shape
  <2>2. Cardinality(InUse') <= Cardinality(InUse)
    BY <1>0, <2>1, Countable, FS_Subset
  <2>3. /\ Opening' = Opening /\ idle' = idle /\ created' = created
        /\ "alloc" \in Faults
    BY <1>12, <1>0 DEF MakeLeaseFails, Opening, At, Shape
  <2> QED
    BY <1>a, <1>c, <1>d, <2>2, <2>3
<1>13. ASSUME NEW t \in Threads, NEW u \in Threads, Share(t, u) PROVE Goal
  <2>1. InUse' = InUse
    BY <1>13, <1>0 DEF Share, InUse, Shape
  <2> QED
    BY <1>13, <1>e, <2>1 DEF Share, Opening, At
<1>14. ASSUME NEW t \in Threads, DropLease(t) PROVE Goal
  <2>0. hand[t] = NoConn
    BY <1>14, <1>0 DEF DropLease, Shape
  <2>1. InUse' = InUse
    BY <1>14, <1>0, <2>0 DEF DropLease, Unreference, LastReference, InUse, Shape
  <2>2. /\ Opening' = Opening /\ At("got")' \subseteq At("got")
        /\ \A u \in At("got")' : hand'[u] = hand[u]
    BY <1>14, <1>0 DEF DropLease, Unreference, Opening, At, Shape
  <2> QED
    BY <1>14, <1>e, <2>1, <2>2 DEF DropLease
<1>15. ASSUME NEW t \in Threads, DropAlias(t) PROVE Goal
  <2>0. hand[t] = NoConn
    BY <1>15, <1>0 DEF DropAlias, Shape
  <2>1. InUse' = InUse
    BY <1>15, <1>0, <2>0 DEF DropAlias, Unreference, LastReference, InUse, Shape
  <2>2. /\ Opening' = Opening /\ At("got")' \subseteq At("got")
        /\ \A u \in At("got")' : hand'[u] = hand[u]
    BY <1>15, <1>0 DEF DropAlias, Unreference, Opening, At, Shape
  <2> QED
    BY <1>15, <1>e, <2>1, <2>2 DEF DropAlias
<1>16. ASSUME NEW t \in Threads, Release(t) PROVE Goal
  <2>1. hand[t] \in Conns /\ hand[t] \in InUse
    BY <1>16, <1>0 DEF Release, InUse, Shape
  <2>2. InUse' = InUse \ {hand[t]}
    BY <1>16, <1>0, <2>1 DEF Release, InUse, Ownership, ExclusiveLease, Shape
  <2>3. Cardinality(InUse') = Cardinality(InUse) - 1
    BY <1>0, <2>1, <2>2, InUseChanges
  <2>4. Len(idle') = Len(idle) + 1 /\ created' = created
    BY <1>16, <1>0, <2>1 DEF Release, Shape
  <2>5. /\ pc[t] = "return"
        /\ pc'[t] = "ready"
        /\ \A v \in Threads \ {t} : \/ pc'[v] = pc[v]
                                    \/ pc[v] = "wait" /\ pc'[v] = "lock"
    BY <1>16, <1>0, NotifyOneShape DEF Release
  <2>6. Opening' = Opening /\ At("got")' \subseteq At("got") \ {t}
    BY <2>5 DEF Opening, At
  <2>7. Full'
    BY <1>16, <1>0, <2>6 DEF Slots, Release, At, Shape
  <2> QED
    BY <1>0, <1>a, <2>3, <2>4, <2>6, <2>7 DEF Slots, SlotsConserved
<1> QED
  BY <1>1, <1>2, <1>3, <1>4, <1>5, <1>6, <1>7, <1>8, <1>9, <1>10, <1>11,
     <1>12, <1>13, <1>14, <1>15, <1>16
  DEF Next, AcquireLoop, RunFactory, BuildLease

\* created_ never loses a slot and never exceeds capacity_ (acquire, release).
THEOREM SlotsNeverLost == Spec => []SlotsConserved
<1>1. Slots => SlotsConserved
  BY DEF Slots
<1> QED
  BY SlotsInit, SlotsStep, <1>1, PTL DEF Spec

LEMMA SlotsType == Slots => TypeOK
<1> SUFFICES ASSUME Slots PROVE created \in 0..Capacity
  BY DEF Slots, Ownership, Shape, TypeOK
<1>1. Shape
  BY DEF Slots, Ownership
<1>2. SlotsTaken \in Nat
  BY <1>1, Countable DEF SlotsTaken, Opening
<1> QED
  BY <1>1, <1>2, CapacityAssumption DEF Slots, SlotsConserved, Shape

\* Type correctness, with the bound of created_: no more than capacity_
\* connections are ever opened (connection_pool::acquire).
THEOREM TypeCorrect == Spec => []TypeOK
BY SlotsInit, SlotsStep, SlotsType, PTL DEF Spec

-----------------------------------------------------------------------------
(* Wakeups *)

\* The third inductive invariant.
Wakeups == Shape /\ NoLostWakeup

\* The threads at a label are finitely many.
LEMMA AtFinite ==
    ASSUME NEW label
    PROVE  IsFiniteSet(At(label)) /\ Cardinality(At(label)) \in Nat
BY FS_Subset, FS_CardinalityType, SetsAssumption DEF At

\* Whoever notifies after giving back one connection or one slot keeps the
\* balance: either nobody sleeps, or one more thread heads for the mutex.
LEMMA NotifyOneServes ==
    ASSUME Wakeups, NEW t \in Threads, pc[t] \notin {"wait", "lock"},
           NotifyOne(t, "ready"), Available' = Available + 1
    PROVE  NoLostWakeup'
<1>1. Shape /\ Available \in Int /\ Cardinality(At("lock")) \in Nat
  BY AtFinite, CapacityAssumption DEF Wakeups, Shape, Available
<1>2. CASE At("wait") = {} /\ pc' = [pc EXCEPT ![t] = "ready"]
  <2>1. At("wait")' = {}
    BY <1>1, <1>2 DEF At, Shape
  <2> QED
    BY <2>1 DEF NoLostWakeup
<1>3. ASSUME NEW u \in Threads, u # t, pc[u] = "wait",
             pc' = [pc EXCEPT ![t] = "ready", ![u] = "lock"]
      PROVE  NoLostWakeup'
  <2>1. u \notin At("lock") /\ At("lock")' = At("lock") \cup {u}
    BY <1>1, <1>3 DEF At, Shape
  <2>2. Cardinality(At("lock")') = Cardinality(At("lock")) + 1
    BY <2>1, AtFinite, FS_AddElement
  <2>3. At("wait") # {}
    BY <1>3 DEF At
  <2> QED
    BY <1>1, <2>2, <2>3 DEF Wakeups, NoLostWakeup
<1>4. "ready" \in PCs
  BY DEF PCs
<1> QED
  BY <1>1, <1>2, <1>3, <1>4, NotifyOneMoves

LEMMA WakeupsInit == Init => Wakeups
<1> SUFFICES ASSUME Init PROVE Wakeups
  OBVIOUS
<1>1. Shape
  BY ShapeInit
<1>2. At("wait") = {}
  BY DEF Init, At
<1> QED
  BY <1>1, <1>2 DEF Wakeups, NoLostWakeup

LEMMA WakeupsStep == Wakeups /\ [Next]_vars => Wakeups'
<1> SUFFICES ASSUME Wakeups, [Next]_vars PROVE Wakeups'
  OBVIOUS
<1>0. /\ Shape /\ Shape'
      /\ Len(idle) \in Nat /\ created \in Int
      /\ Capacity \in Nat
      /\ Cardinality(At("lock")) \in Nat /\ Cardinality(At("lock")') \in Nat
  <2>1. Shape /\ Shape'
    BY ShapeStep DEF Wakeups
  <2>2. At("lock")' \in SUBSET Threads
    BY DEF At
  <2>3. Cardinality(At("lock")') \in Nat
    BY <2>2, FS_Subset, FS_CardinalityType, SetsAssumption
  <2> QED
    BY <2>1, <2>3, AtFinite, CapacityAssumption DEF Shape
<1> SUFFICES NoLostWakeup'
  BY <1>0 DEF Wakeups
<1>a. ASSUME idle' = idle, created' = created, At("lock")' = At("lock"),
             At("wait")' = At("wait")
      PROVE  NoLostWakeup'
  BY <1>a DEF Wakeups, NoLostWakeup, Available
<1>1. CASE UNCHANGED vars
  BY <1>1, <1>a DEF vars, At
<1>2. ASSUME NEW t \in Threads, Call(t) PROVE NoLostWakeup'
  <2>1. At("wait")' = At("wait") /\ t \notin At("lock") /\ At("lock")' = At("lock") \cup {t}
    BY <1>2, <1>0 DEF Call, At, Shape
  <2>2. Cardinality(At("lock")') = Cardinality(At("lock")) + 1
    BY <2>1, AtFinite, FS_AddElement
  <2> QED
    BY <1>2, <1>0, <2>1, <2>2 DEF Call, Wakeups, NoLostWakeup, Available
<1>b. ASSUME NEW t \in Threads, t \in At("lock"), At("lock")' = At("lock") \ {t},
             At("wait")' = At("wait"), Available' = Available - 1
      PROVE  NoLostWakeup'
  <2>1. Cardinality(At("lock")') = Cardinality(At("lock")) - 1
    BY <1>b, AtFinite, FS_RemoveElement
  <2>2. Available \in Int
    BY <1>0 DEF Available
  <2> QED
    BY <1>0, <1>b, <2>1, <2>2 DEF Wakeups, NoLostWakeup
<1>3. ASSUME NEW t \in Threads, AcquireIdle(t) PROVE NoLostWakeup'
  <2>1. /\ t \in At("lock")
        /\ At("lock")' = At("lock") \ {t}
        /\ At("wait")' = At("wait")
    BY <1>3, <1>0 DEF AcquireIdle, At, Shape
  <2>2. Len(idle') = Len(idle) - 1 /\ created' = created
    BY <1>3, <1>0, PopBack DEF AcquireIdle
  <2>3. Available' = Available - 1
    BY <1>0, <2>2 DEF Available
  <2> QED
    BY <1>b, <2>1, <2>3
<1>4. ASSUME NEW t \in Threads, AcquireCreate(t) PROVE NoLostWakeup'
  <2>1. /\ t \in At("lock")
        /\ At("lock")' = At("lock") \ {t}
        /\ At("wait")' = At("wait")
    BY <1>4, <1>0 DEF AcquireCreate, At, Shape
  <2>2. Available' = Available - 1
    BY <1>4, <1>0 DEF AcquireCreate, Available
  <2> QED
    BY <1>b, <2>1, <2>2
<1>5. ASSUME NEW t \in Threads, AcquireWait(t) PROVE NoLostWakeup'
  <2>1. Len(idle') = 0 /\ created' = created /\ created >= Capacity
    BY <1>5 DEF AcquireWait
  <2>2. Available' <= 0
    BY <1>0, <2>1 DEF Available
  <2>3. Available' \in Int
    BY <1>0, <2>1 DEF Available
  <2> QED
    BY <1>0, <2>2, <2>3 DEF NoLostWakeup
<1>6. ASSUME NEW t \in Threads, SpuriousWakeup(t) PROVE NoLostWakeup'
  <2>1. /\ At("wait") # {}
        /\ t \notin At("lock")
        /\ At("lock")' = At("lock") \cup {t}
    BY <1>6, <1>0 DEF SpuriousWakeup, At, Shape
  <2>2. Cardinality(At("lock")') = Cardinality(At("lock")) + 1
    BY <2>1, AtFinite, FS_AddElement
  <2>3. Available' = Available /\ Available \in Int
    BY <1>6, <1>0 DEF SpuriousWakeup, Available
  <2> QED
    BY <1>0, <2>1, <2>2, <2>3 DEF Wakeups, NoLostWakeup
<1>7. ASSUME NEW t \in Threads, FactoryReturns(t) PROVE NoLostWakeup'
  BY <1>7, <1>a, <1>0 DEF FactoryReturns, At, Shape
<1>8. ASSUME NEW t \in Threads, FactoryReturnsNull(t) PROVE NoLostWakeup'
  BY <1>8, <1>a, <1>0 DEF FactoryReturnsNull, At, Shape
<1>9. ASSUME NEW t \in Threads, FactoryThrows(t) PROVE NoLostWakeup'
  BY <1>9, <1>a, <1>0 DEF FactoryThrows, At, Shape
<1>10. ASSUME NEW t \in Threads, CatchFactory(t) PROVE NoLostWakeup'
  <2>1. Available' = Available + 1
    BY <1>10, <1>0 DEF CatchFactory, Available
  <2> QED
    BY <1>10, <2>1, NotifyOneServes DEF CatchFactory
<1>11. ASSUME NEW t \in Threads, MakeLease(t) PROVE NoLostWakeup'
  BY <1>11, <1>a, <1>0 DEF MakeLease, Unreference, At, Shape
<1>12. ASSUME NEW t \in Threads, MakeLeaseFails(t) PROVE NoLostWakeup'
  BY <1>12, <1>a, <1>0 DEF MakeLeaseFails, At, Shape
<1>13. ASSUME NEW t \in Threads, NEW u \in Threads, Share(t, u) PROVE NoLostWakeup'
  BY <1>13, <1>a DEF Share, At
<1>14. ASSUME NEW t \in Threads, DropLease(t) PROVE NoLostWakeup'
  BY <1>14, <1>a, <1>0 DEF DropLease, Unreference, At, Shape
<1>15. ASSUME NEW t \in Threads, DropAlias(t) PROVE NoLostWakeup'
  BY <1>15, <1>a, <1>0 DEF DropAlias, Unreference, At, Shape
<1>16. ASSUME NEW t \in Threads, Release(t) PROVE NoLostWakeup'
  <2>1. hand[t] \in Conns
    BY <1>16, <1>0 DEF Release, Shape
  <2>2. Len(idle') = Len(idle) + 1 /\ created' = created
    BY <1>16, <1>0, <2>1 DEF Release, Shape
  <2>3. Available' = Available + 1
    BY <1>0, <2>2 DEF Available
  <2> QED
    BY <1>16, <2>3, NotifyOneServes DEF Release
<1> QED
  BY <1>1, <1>2, <1>3, <1>4, <1>5, <1>6, <1>7, <1>8, <1>9, <1>10, <1>11,
     <1>12, <1>13, <1>14, <1>15, <1>16
  DEF Next, AcquireLoop, RunFactory, BuildLease

\* The notify_one() calls of release() and of the catch block in acquire() are
\* enough: no thread sleeps next to a connection or slot nobody is fetching.
THEOREM WakeupsNeverLost == Spec => []NoLostWakeup
<1>1. Wakeups => NoLostWakeup
  BY DEF Wakeups
<1> QED
  BY WakeupsInit, WakeupsStep, <1>1, PTL DEF Spec

-----------------------------------------------------------------------------
(* What callers can wait for *)

\* A caller that gives up its connection before it asks for another holds none while
\* it is inside acquire().
EmptyHanded ==
    ~HoldAndWait =>
        \A t \in Threads : pc[t] \in {"lock", "wait", "create", "catch", "got"} => ~Holding(t)

LEMMA EmptyHandedInit == Init => EmptyHanded
BY DEF Init, EmptyHanded, Holding

LEMMA EmptyHandedStep == Shape /\ EmptyHanded /\ [Next]_vars => EmptyHanded'
<1> SUFFICES ASSUME Shape, EmptyHanded, [Next]_vars, ~HoldAndWait
             PROVE  \A t \in Threads : pc'[t] \in {"lock", "wait", "create", "catch", "got"}
                                          => ~Holding(t)'
  BY DEF EmptyHanded
<1> USE DEF Holding
<1>0. \A t \in Threads : pc[t] \in {"lock", "wait", "create", "catch", "got"} => ~Holding(t)
  BY DEF EmptyHanded
<1>1. CASE UNCHANGED vars
  BY <1>0, <1>1 DEF vars
<1> SUFFICES ASSUME NEW u \in Threads,
                    pc'[u] \in {"lock", "wait", "create", "catch", "got"}
             PROVE  Holding(u)' = FALSE
  BY <1>1
<1>2. ASSUME NEW t \in Threads, Call(t) PROVE ~Holding(u)'
  BY <1>0, <1>2 DEF Call, Shape
<1>3. ASSUME NEW t \in Threads, AcquireLoop(t) PROVE ~Holding(u)'
  BY <1>0, <1>3 DEF AcquireLoop, AcquireIdle, AcquireCreate, AcquireWait, Shape
<1>4. ASSUME NEW t \in Threads, SpuriousWakeup(t) PROVE ~Holding(u)'
  BY <1>0, <1>4 DEF SpuriousWakeup, Shape
<1>5. ASSUME NEW t \in Threads, RunFactory(t) PROVE ~Holding(u)'
  BY <1>0, <1>5 DEF RunFactory, FactoryReturns, FactoryReturnsNull, FactoryThrows, Shape
<1>6. ASSUME NEW t \in Threads, CatchFactory(t) PROVE ~Holding(u)'
  BY <1>0, <1>6, NotifyOneShape DEF CatchFactory
<1>7. ASSUME NEW t \in Threads, MakeLease(t) PROVE ~Holding(u)'
  BY <1>0, <1>7 DEF MakeLease, Unreference, Shape
<1>8. ASSUME NEW t \in Threads, MakeLeaseFails(t) PROVE ~Holding(u)'
  BY <1>0, <1>8 DEF MakeLeaseFails, Shape
<1>9. ASSUME NEW t \in Threads, NEW v \in Threads, Share(t, v) PROVE ~Holding(u)'
  BY <1>0, <1>9 DEF Share, Shape
<1>10. ASSUME NEW t \in Threads, DropLease(t) PROVE ~Holding(u)'
  BY <1>0, <1>10 DEF DropLease, Unreference, Shape
<1>11. ASSUME NEW t \in Threads, DropAlias(t) PROVE ~Holding(u)'
  BY <1>0, <1>11 DEF DropAlias, Unreference, Shape
<1>12. ASSUME NEW t \in Threads, Release(t) PROVE ~Holding(u)'
  BY <1>0, <1>12, NotifyOneShape DEF Release
<1> QED
  BY <1>1, <1>2, <1>3, <1>4, <1>5, <1>6, <1>7, <1>8, <1>9, <1>10, <1>11, <1>12
  DEF Next, BuildLease

\* Outside the pool and asleep, the pool's code carries nothing for a thread, and no
\* factory runs.
LEMMA Quiet ==
    ASSUME Shape, \A t \in Threads : pc[t] \in {"ready", "wait"}
    PROVE  /\ At("lock") = {} /\ Opening = {}
           /\ InUse = {c \in Conns : \E t \in Threads : c \in {lease[t], alias[t]}}
<1>1. \A t \in Threads : hand[t] = NoConn
  BY DEF Shape
<1>2. At("lock") = {} /\ Opening = {}
  BY DEF At, Opening
<1> QED
  BY <1>1, <1>2, SetsAssumption DEF InUse

LEMMA BlockedStuck == Slots /\ Wakeups /\ EmptyHanded => BlockedByHolders
<1> SUFFICES ASSUME Slots, Wakeups, EmptyHanded,
                    At("wait") # {}, At("wait") \cup At("ready") = Threads
             PROVE  /\ idle = <<>> /\ created = Capacity
                    /\ Faults \subseteq {"throw"} =>
                          /\ Cardinality(InUse) = Capacity
                          /\ HoldAndWait \/ \E t \in At("ready") : Holding(t)
  BY DEF BlockedByHolders
<1>1. Shape /\ \A t \in Threads : pc[t] \in {"ready", "wait"}
  BY DEF Slots, Ownership, At
<1>2. At("lock") = {} /\ Opening = {}
  BY <1>1, Quiet
<1>3. Cardinality(At("lock")) = 0 /\ Cardinality(Opening) = 0
  BY <1>2, FS_EmptySet
<1>4. /\ Len(idle) \in Nat /\ created \in Int /\ created <= Capacity /\ Capacity \in Nat \ {0}
      /\ Cardinality(InUse) \in Nat /\ IsFiniteSet(InUse)
  BY <1>1, Countable, CapacityAssumption DEF Slots, Shape
<1>5. Len(idle) + (Capacity - created) <= 0
  BY <1>3 DEF Wakeups, NoLostWakeup, Available
<1>6. Len(idle) = 0 /\ created = Capacity
  BY <1>4, <1>5
<1>7. idle = <<>>
  BY <1>1, <1>6, EmptySeq DEF Shape
<1>8. ASSUME Faults \subseteq {"throw"}
      PROVE  /\ Cardinality(InUse) = Capacity
             /\ HoldAndWait \/ \E t \in At("ready") : Holding(t)
  <2>1. Len(idle) + Cardinality(InUse) + Cardinality(Opening) = created
    BY <1>8 DEF Slots, SlotsConserved, SlotsTaken, Opening
  <2>2. Cardinality(InUse) = Capacity
    BY <2>1, <1>3, <1>4, <1>6
  <2>3. PICK c \in InUse : TRUE
    BY <2>2, <1>4, FS_EmptySet
  <2>4. PICK t \in Threads : c \in {lease[t], alias[t]}
    BY <1>1, <2>3, Quiet
  <2>5. Holding(t)
    BY <2>3, <2>4, SetsAssumption DEF InUse, Holding
  <2>6. ~HoldAndWait => t \in At("ready")
    BY <1>1, <2>5 DEF EmptyHanded, At
  <2> QED
    BY <2>2, <2>5, <2>6
<1> QED
  BY <1>6, <1>7, <1>8

\* acquire() blocks for good only on connections that its callers hold: if every thread
\* sleeps in cv_.wait, or is outside the pool, then nothing is idle, every slot is taken,
\* and with a factory that returns a connection or throws all capacity_ connections are
\* named by leases and aliases.  Threads that do not hold and wait never all sleep.
THEOREM BlocksOnlyOnCallers == Spec => []BlockedByHolders
<1>1. Shape /\ EmptyHanded /\ [Next]_vars => (Shape /\ EmptyHanded)'
  BY ShapeStep, EmptyHandedStep
<1>2. Spec => [](Shape /\ EmptyHanded)
  BY <1>1, ShapeInit, EmptyHandedInit, PTL DEF Spec
<1>3. Spec => []Slots
  BY SlotsInit, SlotsStep, PTL DEF Spec
<1>4. Spec => []Wakeups
  BY WakeupsInit, WakeupsStep, PTL DEF Spec
<1> QED
  BY <1>2, <1>3, <1>4, BlockedStuck, PTL

\* created_count() is the number of connections when none is used, as its comment
\* promises, provided that the factory returns a connection or throws and no allocation
\* fails: acquire() loses a slot in no other way.
THEOREM CreatedCounted ==
    ASSUME Faults \subseteq {"throw"}
    PROVE  Spec => []CreatedCountExact
<1>1. Slots => CreatedCountExact
  <2> SUFFICES ASSUME Slots, \A t \in Threads : pc[t] \in {"ready", "wait"} /\ ~Holding(t)
               PROVE  created = Len(idle)
    BY DEF CreatedCountExact
  <2>1. Shape
    BY DEF Slots, Ownership
  <2>2. InUse = {} /\ Opening = {}
    BY <2>1, Quiet, SetsAssumption DEF Holding
  <2>3. Len(idle) + Cardinality(InUse) + Cardinality(Opening) = created
    BY DEF Slots, SlotsConserved, SlotsTaken, Opening
  <2>4. Cardinality({}) = 0 /\ Len(idle) \in Nat
    BY <2>1, FS_EmptySet, Countable
  <2> QED
    BY <2>2, <2>3, <2>4
<1> QED
  BY <1>1, SlotsInit, SlotsStep, PTL DEF Spec

-----------------------------------------------------------------------------
(* The pool implements the lease contract *)

\* The refinement mapping.
Held == [t \in Threads |-> HeldBy(t)]

\* What a thread can use, spelt out: its lease, its alias and the connection
\* acquire() is about to return to it.
LEMMA HeldByIs ==
    ASSUME NEW t \in Threads
    PROVE  Held[t] = {c \in {lease[t], alias[t], hand[t]} :
                        /\ c # NoConn
                        /\ c = lease[t] \/ c = alias[t] \/ t \in At("got")}
BY DEF Held, HeldBy

\* A connection somebody can use is in use.
LEMMA OutInUse ==
    ASSUME Shape
    PROVE  Contract!Out \subseteq InUse
BY HeldByIs DEF Contract!Out, HeldBy, InUse, At, Shape

\* The instance brings its own copy of the cardinality of FiniteSets.
LEMMA SameCardinality ==
    ASSUME NEW S
    PROVE  Contract!Cardinality(S) = Cardinality(S)
BY DEF Contract!Cardinality, Cardinality, Contract!IsFiniteSet, IsFiniteSet

\* A thread that gets a connection nobody uses, while a slot that is not in
\* use covers it, makes a Grant of the contract.
LEMMA GrantStep ==
    ASSUME Slots, NEW t \in Threads, NEW c \in Conns, c \notin InUse,
           Cardinality(InUse) < Capacity,
           hand' = [hand EXCEPT ![t] = c], pc' = [pc EXCEPT ![t] = "got"],
           UNCHANGED <<lease, alias>>, hand[t] = NoConn
    PROVE  Contract!Next
<1>0. Shape
  BY DEF Slots, Ownership
<1>1. Held' = [Held EXCEPT ![t] = @ \cup {c}]
  <2>1. ASSUME NEW u \in Threads, u # t PROVE HeldBy(u)' = HeldBy(u)
    BY <2>1, <1>0 DEF HeldBy, At, Shape
  <2>2. HeldBy(t)' = HeldBy(t) \cup {c}
    BY <1>0, SetsAssumption DEF HeldBy, At, Shape
  <2> QED
    BY <2>1, <2>2 DEF Held
<1>2. c \notin Contract!Out
  BY <1>0, OutInUse
<1>3. Cardinality(Contract!Out) < Capacity
  <2>1. IsFiniteSet(InUse) /\ Cardinality(InUse) \in Nat
    BY <1>0, Countable
  <2>2. IsFiniteSet(Contract!Out) /\ Cardinality(Contract!Out) <= Cardinality(InUse)
    BY <1>0, <2>1, OutInUse, FS_Subset
  <2>3. Cardinality(Contract!Out) \in Nat
    BY <2>2, FS_CardinalityType
  <2> QED
    BY <2>1, <2>2, <2>3, CapacityAssumption
<1>4. Contract!Grant(t)
  BY <1>1, <1>2, <1>3, SameCardinality DEF Held, Contract!Grant
<1> QED
  BY <1>4 DEF Contract!Next

\* A thread that can use one connection less makes a Drop of the contract.
LEMMA DropStep ==
    ASSUME NEW t \in Threads, NEW c \in Held[t],
           Held' = [Held EXCEPT ![t] = @ \ {c}]
    PROVE  Contract!Next
BY DEF Held, Contract!Next, Contract!Drop

LEMMA ContractInit == Init => Contract!Init
BY SetsAssumption DEF Init, Contract!Init, HeldBy, At

LEMMA ContractStep == Slots /\ [Next]_vars => [Contract!Next]_Held
<1> SUFFICES ASSUME Slots, [Next]_vars PROVE Contract!Next \/ Held' = Held
  OBVIOUS
<1> USE SetsAssumption
<1>0. /\ Ownership /\ Shape /\ SlotsTaken <= created /\ created <= Capacity
      /\ created \in Int /\ Capacity \in Nat
      /\ Len(idle) \in Nat
      /\ Cardinality(InUse) \in Nat
      /\ Cardinality(Opening) \in Nat
      /\ SlotsTaken = Len(idle) + Cardinality(InUse) + Cardinality(Opening)
  BY Countable, CapacityAssumption
  DEF Slots, Ownership, Shape, SlotsConserved, SlotsTaken, Opening
<1>a. ASSUME UNCHANGED <<lease, alias>>, At("got")' = At("got"),
             \A u \in At("got") : hand'[u] = hand[u]
      PROVE  Held' = Held
  BY <1>a DEF Held, HeldBy
<1>1. CASE UNCHANGED vars
  BY <1>1, <1>a DEF vars, At
<1>2. ASSUME NEW t \in Threads, Call(t) PROVE Held' = Held
  BY <1>2, <1>0, <1>a DEF Call, At, Shape
<1>3. ASSUME NEW t \in Threads, AcquireIdle(t) PROVE Contract!Next
  <2> DEFINE c == idle[Len(idle)]
  <2>1. c \in Conns /\ c \notin InUse /\ Len(idle) > 0
    BY <1>3, <1>0, PopIdle, PopBack DEF Ownership, IdleUnreferenced, Idle, Shape
  <2>2. Cardinality(InUse) < Capacity
    BY <1>0, <2>1
  <2>3. hand[t] = NoConn
    BY <1>3, <1>0 DEF AcquireIdle, Shape
  <2> QED
    BY <1>3, <2>1, <2>2, <2>3, GrantStep DEF AcquireIdle
<1>4. ASSUME NEW t \in Threads, AcquireCreate(t) PROVE Held' = Held
  BY <1>4, <1>0, <1>a DEF AcquireCreate, At, Shape
<1>5. ASSUME NEW t \in Threads, AcquireWait(t) PROVE Held' = Held
  BY <1>5, <1>0, <1>a DEF AcquireWait, At, Shape
<1>6. ASSUME NEW t \in Threads, SpuriousWakeup(t) PROVE Held' = Held
  BY <1>6, <1>0, <1>a DEF SpuriousWakeup, At, Shape
<1>7. ASSUME NEW t \in Threads, FactoryReturns(t) PROVE Contract!Next
  <2>1. PICK c \in Conns \ (InUse \cup Idle) : hand' = [hand EXCEPT ![t] = c]
    BY <1>7 DEF FactoryReturns
  <2>2. t \in Opening
    BY <1>7 DEF FactoryReturns, Opening, At
  <2>3. Cardinality(Opening) # 0
    BY <1>0, <2>2, Countable, FS_EmptySet
  <2>4. Cardinality(InUse) < Capacity
    BY <1>0, <2>3
  <2>5. hand[t] = NoConn
    BY <1>7, <1>0 DEF FactoryReturns, Shape
  <2> QED
    BY <1>7, <2>1, <2>4, <2>5, GrantStep DEF FactoryReturns
<1>8. ASSUME NEW t \in Threads, FactoryReturnsNull(t) PROVE Held' = Held
  <2>1. hand[t] = NoConn
    BY <1>8, <1>0 DEF FactoryReturnsNull, Shape
  <2> QED
    BY <1>8, <1>0, <2>1 DEF FactoryReturnsNull, Held, HeldBy, At, Shape
<1>9. ASSUME NEW t \in Threads, FactoryThrows(t) PROVE Held' = Held
  BY <1>9, <1>0, <1>a DEF FactoryThrows, At, Shape
<1>10. ASSUME NEW t \in Threads, CatchFactory(t) PROVE Held' = Held
  <2>1. /\ pc[t] = "catch"
        /\ pc'[t] = "ready"
        /\ \A v \in Threads \ {t} : \/ pc'[v] = pc[v]
                                    \/ pc[v] = "wait" /\ pc'[v] = "lock"
    BY <1>10, <1>0, NotifyOneShape DEF CatchFactory
  <2>2. At("got")' = At("got")
    BY <2>1 DEF At
  <2> QED
    BY <1>10, <1>a, <2>2 DEF CatchFactory
<1>b. ASSUME NEW t \in Threads, NEW c \in Held[t], HeldBy(t)' = HeldBy(t) \ {c},
             \A u \in Threads \ {t} : HeldBy(u)' = HeldBy(u)
      PROVE  Contract!Next
  <2>1. Held' = [Held EXCEPT ![t] = @ \ {c}]
    BY <1>b DEF Held
  <2> QED
    BY <2>1, DropStep
<1>c. ASSUME NEW t \in Threads, HeldBy(t)' = HeldBy(t),
             \A u \in Threads \ {t} : HeldBy(u)' = HeldBy(u)
      PROVE  Held' = Held
  BY <1>c DEF Held
<1>11. ASSUME NEW t \in Threads, MakeLease(t) PROVE Contract!Next \/ Held' = Held
  <2>1. \A u \in Threads \ {t} : HeldBy(u)' = HeldBy(u)
    BY <1>11, <1>0 DEF MakeLease, Unreference, HeldBy, At, Shape
  <2>2. HeldBy(t) = {lease[t], alias[t], hand[t]} \ {NoConn}
    BY <1>11 DEF MakeLease, HeldBy, At
  <2>3. HeldBy(t)' = {hand[t], alias[t]} \ {NoConn}
    BY <1>11, <1>0 DEF MakeLease, Unreference, HeldBy, At, Shape
  <2>4. lease[t] # NoConn => lease[t] # hand[t]
    BY <1>0, <1>11 DEF Ownership, ExclusiveLease, Shape
  <2>5. CASE lease[t] = NoConn \/ lease[t] = alias[t]
    BY <1>c, <2>1, <2>2, <2>3, <2>5
  <2>6. CASE lease[t] # NoConn /\ lease[t] # alias[t]
    <3>1. HeldBy(t)' = HeldBy(t) \ {lease[t]} /\ lease[t] \in Held[t]
      BY <2>2, <2>3, <2>4, <2>6 DEF Held
    <3> QED
      BY <1>b, <2>1, <3>1
  <2> QED
    BY <2>5, <2>6
<1>12. ASSUME NEW t \in Threads, MakeLeaseFails(t) PROVE Contract!Next
  <2>1. \A u \in Threads \ {t} : HeldBy(u)' = HeldBy(u)
    BY <1>12, <1>0 DEF MakeLeaseFails, HeldBy, At, Shape
  <2>2. HeldBy(t) = {lease[t], alias[t], hand[t]} \ {NoConn} /\ hand[t] # NoConn
    BY <1>12 DEF MakeLeaseFails, HeldBy, At
  <2>3. HeldBy(t)' = {lease[t], alias[t]} \ {NoConn}
    BY <1>12, <1>0 DEF MakeLeaseFails, HeldBy, At, Shape
  <2>4. hand[t] # lease[t] /\ hand[t] # alias[t]
    BY <1>0, <2>2 DEF Ownership, ExclusiveLease, Shape
  <2>5. HeldBy(t)' = HeldBy(t) \ {hand[t]} /\ hand[t] \in Held[t]
    BY <2>2, <2>3, <2>4 DEF Held
  <2> QED
    BY <1>b, <2>1, <2>5
<1>13. ASSUME NEW t \in Threads, NEW u \in Threads, Share(t, u) PROVE Contract!Next
  <2>1. lease[t] \in Held[t]
    BY <1>13 DEF Share, Held, HeldBy
  <2>2. HeldBy(u)' = HeldBy(u) \cup {lease[t]}
    BY <1>13, <1>0 DEF Share, HeldBy, At, Shape
  <2>3. \A v \in Threads \ {u} : HeldBy(v)' = HeldBy(v)
    BY <1>13, <1>0 DEF Share, HeldBy, At, Shape
  <2>4. Held' = [Held EXCEPT ![u] = @ \cup {lease[t]}]
    BY <2>2, <2>3 DEF Held
  <2>5. Contract!Share(t, u)
    BY <2>1, <2>4 DEF Held, Contract!Share
  <2> QED
    BY <2>5 DEF Contract!Next
<1>14. ASSUME NEW t \in Threads, DropLease(t) PROVE Contract!Next \/ Held' = Held
  <2>1. \A u \in Threads \ {t} : HeldBy(u)' = HeldBy(u)
    BY <1>14, <1>0 DEF DropLease, Unreference, HeldBy, At, Shape
  <2>2. HeldBy(t) = {lease[t], alias[t]} \ {NoConn} /\ lease[t] # NoConn
    BY <1>14 DEF DropLease, HeldBy, At
  <2>3. HeldBy(t)' = {alias[t]} \ {NoConn}
    BY <1>14, <1>0 DEF DropLease, Unreference, HeldBy, At, Shape
  <2>4. CASE lease[t] = alias[t]
    BY <1>c, <2>1, <2>2, <2>3, <2>4
  <2>5. CASE lease[t] # alias[t]
    <3>1. HeldBy(t)' = HeldBy(t) \ {lease[t]} /\ lease[t] \in Held[t]
      BY <2>2, <2>3, <2>5 DEF Held
    <3> QED
      BY <1>b, <2>1, <3>1
  <2> QED
    BY <2>4, <2>5
<1>15. ASSUME NEW t \in Threads, DropAlias(t) PROVE Contract!Next \/ Held' = Held
  <2>1. \A u \in Threads \ {t} : HeldBy(u)' = HeldBy(u)
    BY <1>15, <1>0 DEF DropAlias, Unreference, HeldBy, At, Shape
  <2>2. HeldBy(t) = {lease[t], alias[t]} \ {NoConn} /\ alias[t] # NoConn
    BY <1>15 DEF DropAlias, HeldBy, At
  <2>3. HeldBy(t)' = {lease[t]} \ {NoConn}
    BY <1>15, <1>0 DEF DropAlias, Unreference, HeldBy, At, Shape
  <2>4. CASE lease[t] = alias[t]
    BY <1>c, <2>1, <2>2, <2>3, <2>4
  <2>5. CASE lease[t] # alias[t]
    <3>1. HeldBy(t)' = HeldBy(t) \ {alias[t]} /\ alias[t] \in Held[t]
      BY <2>2, <2>3, <2>5 DEF Held
    <3> QED
      BY <1>b, <2>1, <3>1
  <2> QED
    BY <2>4, <2>5
<1>16. ASSUME NEW t \in Threads, Release(t) PROVE Held' = Held
  <2>1. /\ pc[t] = "return"
        /\ pc'[t] = "ready"
        /\ \A v \in Threads \ {t} : \/ pc'[v] = pc[v]
                                    \/ pc[v] = "wait" /\ pc'[v] = "lock"
    BY <1>16, <1>0, NotifyOneShape DEF Release
  <2>2. At("got")' = At("got") /\ t \notin At("got")
    BY <2>1 DEF At
  <2>3. \A u \in At("got") : hand'[u] = hand[u]
    BY <1>16, <1>0, <2>2 DEF Release, Shape, At
  <2> QED
    BY <1>16, <1>a, <2>2, <2>3 DEF Release
<1> QED
  BY <1>1, <1>2, <1>3, <1>4, <1>5, <1>6, <1>7, <1>8, <1>9, <1>10, <1>11,
     <1>12, <1>13, <1>14, <1>15, <1>16
  DEF Next, AcquireLoop, RunFactory, BuildLease

\* The pool behaves like its contract, whatever the factory does and whatever
\* its callers hold: exclusive grants within capacity_, sharing only through
\* lease::shared() (the whole of connection_pool.cpp).
THEOREM PoolImplementsContract == Spec => ImplementsContract
<1>1. Slots /\ [Next]_vars => [Contract!Next]_([t \in Threads |-> HeldBy(t)])
  BY ContractStep DEF Held
<1> QED
  BY SlotsInit, SlotsStep, ContractInit, <1>1, PTL
  DEF Spec, ImplementsContract, Contract!Spec
=============================================================================
