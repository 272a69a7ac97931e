---------------------------- MODULE HandlesProofs ----------------------------
(***************************************************************************)
(* Theorems about the owners of SQLite's handles, for any number of        *)
(* connections, backups, sessions, snapshots and allocations, whatever     *)
(* goes wrong.                                                             *)
(***************************************************************************)
EXTENDS Handles, TLAPS

HandlesInv == TypeOK /\ OneOwner /\ FreedOnce

\* The slots of SQLite are apart from the objects, and those of a connection from the
\* ones of another.
LEMMA SlotsApart ==
    /\ Objects \subseteq Slots
    /\ Backups \subseteq Objects /\ Sessions \subseteq Objects /\ Snapshots \subseteq Objects
    /\ \A c \in Conns : /\ {Function(c), Image(c)} \subseteq Slots \ Objects
                        /\ \A d \in Conns : Function(c) # Image(d)
                        /\ \A d \in Conns \ {c} : Function(c) # Function(d) /\ Image(c) # Image(d)
    /\ \A s \in Slots \ Objects : \E c \in Conns : s \in {Function(c), Image(c)}
  BY SlotsAssumption DEF Slots, Objects, Function, Image

\* Pointers in sessions, snapshots and functions never dangle.
LEMMA NeverDangling ==
    ASSUME NEW s \in Slots
    PROVE  /\ s \in Sessions \cup Snapshots => ~Dangles(s)
           /\ \A c \in Conns : s = Function(c) => ~Dangles(s)
  BY HandlesAssumption, SlotsApart DEF Dangles

LEMMA InvInit == Init => HandlesInv
  BY HandlesAssumption, SlotsApart
  DEF Init, HandlesInv, TypeOK, OneOwner, FreedOnce, FaultsContained, PointersMeet,
      DatabasesOpen, Running

-----------------------------------------------------------------------------
(* The ways pointers and handles change *)

\* A fault stays: a pointer that dangles does so after a step that leaves it alone.
LEMMA StillDangles ==
    ASSUME NEW s \in Slots, Dangles(s), provoked \subseteq provoked',
           s \in Backups => failed'[s] = failed[s]
    PROVE  Dangles(s)'
BY DEF Dangles

\* A pointer that nobody keeps goes to a slot whose old one is freed or null.
LEMMA TakesOver ==
    ASSUME HandlesInv, Running, NEW s \in Slots, NEW h \in Fresh,
           holds' = Set(s, h), live' = (live \ {holds[s]}) \cup {h},
           provoked \subseteq provoked', \A b \in Backups \ {s} : failed'[b] = failed[b]
    PROVE  /\ holds' \in [Slots -> Memory \cup {Nil}]
           /\ live' \in SUBSET Memory
           /\ OneOwner' /\ PointersMeet'
<1> USE HandlesAssumption DEF HandlesInv, TypeOK
<1>1. /\ h \in Memory /\ h \notin live
      /\ \A t \in Slots : holds[t] # h
  BY DEF Fresh
<1>2. /\ holds'[s] = h
      /\ \A t \in Slots \ {s} : holds'[t] = holds[t]
  BY DEF Set
<1>3. ASSUME NEW g \in live'
      PROVE  \E u \in Slots : holds'[u] = g /\ \A t \in Slots \ {u} : holds'[t] # g
  <2>1. CASE g = h
    BY <1>1, <1>2, <2>1
  <2>2. CASE g # h
    <3>1. g \in live /\ g # holds[s]
      BY <2>2
    <3>2. PICK u \in Slots : holds[u] = g /\ \A t \in Slots \ {u} : holds[t] # g
      BY <3>1 DEF OneOwner
    <3> QED
      BY <1>2, <2>2, <3>1, <3>2
  <2> QED
    BY <2>1, <2>2
<1>4. ASSUME NEW t \in Slots PROVE holds'[t] \in live' \cup {Nil} \/ Dangles(t)'
  <2>1. CASE t = s
    BY <1>2, <2>1
  <2>2. CASE t # s /\ holds[t] \in live
    <3>1. holds[s] # holds[t]
      BY <2>2 DEF OneOwner
    <3> QED
      BY <1>2, <2>2, <3>1
  <2>3. CASE t # s /\ holds[t] \notin live
    BY <1>2, <2>3, StillDangles DEF FreedOnce, FaultsContained, PointersMeet
  <2> QED
    BY <2>1, <2>2, <2>3
<1> QED
  BY <1>1, <1>3, <1>4 DEF Set, OneOwner, PointersMeet

\* Handles are freed, and of the slots only those that held them change, to null.
LEMMA Frees ==
    ASSUME HandlesInv, Running, NEW S \in SUBSET Slots,
           holds' \in [Slots -> Memory \cup {Nil}],
           \A s \in S : holds'[s] = Nil,
           \A s \in Slots \ S : holds'[s] = holds[s],
           live' = live \ {holds[s] : s \in S},
           provoked \subseteq provoked', \A b \in Backups \ S : failed'[b] = failed[b]
    PROVE  live' \in SUBSET Memory /\ OneOwner' /\ PointersMeet'
<1> USE HandlesAssumption DEF HandlesInv, TypeOK
<1>1. ASSUME NEW g \in live'
      PROVE  \E u \in Slots : holds'[u] = g /\ \A t \in Slots \ {u} : holds'[t] # g
  <2>1. PICK u \in Slots : holds[u] = g /\ \A t \in Slots \ {u} : holds[t] # g
    BY DEF OneOwner
  <2>2. u \notin S /\ g # Nil
    BY <2>1
  <2> QED
    BY <2>1, <2>2
<1>2. ASSUME NEW t \in Slots PROVE holds'[t] \in live' \cup {Nil} \/ Dangles(t)'
  <2>1. CASE t \in S
    BY <2>1
  <2>2. CASE t \notin S /\ holds[t] \in live
    <3>1. \A s \in S : holds[s] # holds[t]
      BY <2>2 DEF OneOwner
    <3> QED
      BY <2>2, <3>1
  <2>3. CASE t \notin S /\ holds[t] \notin live
    BY <2>3, StillDangles DEF FreedOnce, FaultsContained, PointersMeet
  <2> QED
    BY <2>1, <2>2, <2>3
<1> QED
  BY <1>1, <1>2 DEF OneOwner, PointersMeet

\* A handle is freed under the pointer in s, which dangles from then on.
LEMMA FreesUnder ==
    ASSUME HandlesInv, Running, NEW s \in Slots, Dangles(s)',
           UNCHANGED holds, live' = live \ {holds[s]},
           provoked \subseteq provoked', UNCHANGED failed
    PROVE  live' \in SUBSET Memory /\ OneOwner' /\ PointersMeet'
<1> USE DEF HandlesInv, TypeOK
<1>1. ASSUME NEW t \in Slots PROVE holds'[t] \in live' \cup {Nil} \/ Dangles(t)'
  <2>1. CASE t = s
    BY <2>1
  <2>2. CASE t # s /\ holds[t] \in live
    BY <2>2 DEF OneOwner
  <2>3. CASE t # s /\ holds[t] \notin live
    BY <2>3, StillDangles DEF FreedOnce, FaultsContained, PointersMeet
  <2> QED
    BY <2>1, <2>2, <2>3
<1> QED
  BY <1>1 DEF OneOwner, PointersMeet

\* What p held is freed, or was null, and p takes over what o held.
LEMMA Moves ==
    ASSUME HandlesInv, Running, NEW o \in Sessions \cup Snapshots,
           NEW p \in Sessions \cup Snapshots, o # p,
           holds' = [holds EXCEPT ![p] = holds[o], ![o] = Nil],
           live' = live \ {holds[p]},
           provoked \subseteq provoked', UNCHANGED failed
    PROVE  /\ holds' \in [Slots -> Memory \cup {Nil}]
           /\ live' \in SUBSET Memory
           /\ OneOwner' /\ PointersMeet'
<1> USE HandlesAssumption, SlotsApart DEF HandlesInv, TypeOK
<1>1. /\ holds'[p] = holds[o] /\ holds'[o] = Nil
      /\ \A t \in Slots \ {o, p} : holds'[t] = holds[t]
  OBVIOUS
<1>2. ASSUME NEW g \in live'
      PROVE  \E u \in Slots : holds'[u] = g /\ \A t \in Slots \ {u} : holds'[t] # g
  <2>1. PICK u \in Slots : holds[u] = g /\ \A t \in Slots \ {u} : holds[t] # g
    BY DEF OneOwner
  <2>2. g # holds[p] /\ g # Nil
    OBVIOUS
  <2>3. CASE u = o
    BY <1>1, <2>1, <2>2, <2>3
  <2>4. CASE u # o
    BY <1>1, <2>1, <2>2, <2>4
  <2> QED
    BY <2>3, <2>4
<1>3. ASSUME NEW t \in Slots PROVE holds'[t] \in live' \cup {Nil} \/ Dangles(t)'
  <2>1. CASE t = o
    BY <1>1, <2>1
  <2>2. CASE t = p
    <3>1. holds[o] \in live \cup {Nil}
      BY NeverDangling DEF FreedOnce, FaultsContained, PointersMeet
    <3>2. holds[o] \in live => holds[p] # holds[o]
      BY DEF OneOwner
    <3> QED
      BY <1>1, <2>2, <3>1, <3>2
  <2>3. CASE t \notin {o, p} /\ holds[t] \in live
    <3>1. holds[p] # holds[t]
      BY <2>3 DEF OneOwner
    <3> QED
      BY <1>1, <2>3, <3>1
  <2>4. CASE t \notin {o, p} /\ holds[t] \notin live
    BY <1>1, <2>4, StillDangles DEF FreedOnce, FaultsContained, PointersMeet
  <2> QED
    BY <2>1, <2>2, <2>3, <2>4
<1> QED
  BY <1>2, <1>3 DEF OneOwner, PointersMeet

-----------------------------------------------------------------------------
(* Each action preserves the invariant. *)

LEMMA InvStep == HandlesInv /\ [Next]_vars => HandlesInv'
<1> SUFFICES ASSUME HandlesInv, [Next]_vars PROVE HandlesInv'
  OBVIOUS
<1> USE HandlesAssumption, SlotsApart
<1>0. /\ TypeOK /\ OneOwner /\ FreedOnce
      /\ Running => PointersMeet /\ DatabasesOpen
  BY DEF HandlesInv, FreedOnce, FaultsContained
<1>q. ASSUME TypeOK', OneOwner', PointersMeet', DatabasesOpen', undefined' => provoked' # {}
      PROVE  HandlesInv'
  BY <1>q DEF HandlesInv, FreedOnce, FaultsContained
<1>d. ASSUME Running, UNCHANGED <<con, of, target>>, provoked \subseteq provoked',
             \A o \in Backups \cup Sessions : holds'[o] \in {holds[o], Nil}
      PROVE  DatabasesOpen'
  BY <1>0, <1>d DEF DatabasesOpen, Needs
<1>1. CASE UNCHANGED vars
  BY <1>1 DEF vars, HandlesInv, TypeOK, OneOwner, FreedOnce, FaultsContained, PointersMeet,
              DatabasesOpen, Dangles, Needs, Running
<1>2. ASSUME NEW c \in Conns, Connect(c) PROVE HandlesInv'
  <2>1. /\ Running /\ con[c] = "none" /\ con' = [con EXCEPT ![c] = "open"]
        /\ UNCHANGED <<exists, holds, of, target, failed, live, provoked, undefined>>
    BY <1>2 DEF Connect
  <2>2. TypeOK' /\ OneOwner' /\ PointersMeet'
    BY <1>0, <2>1 DEF TypeOK, OneOwner, PointersMeet, Dangles, Running
  <2>3. DatabasesOpen'
    BY <1>0, <2>1 DEF TypeOK, DatabasesOpen, Needs
  <2> QED
    BY <1>q, <2>1, <2>2, <2>3 DEF Running
<1>3. ASSUME NEW c \in Conns, Destroy(c) PROVE HandlesInv'
  <2>p. /\ Running /\ UNCHANGED <<exists, of, target, failed>>
        /\ Using(c) = {} => provoked' = provoked
        /\ Using(c) # {} => provoked' = provoked \cup {"outlive"} /\ "outlive" \in Faults
    BY <1>3 DEF Destroy, Provoke
  <2>1. CASE Busy(c)
    <3>1. Using(c) # {}
      BY <1>0, <2>1 DEF Busy, Using, TypeOK
    <3>2. con' = [con EXCEPT ![c] = "leaked"] /\ UNCHANGED <<holds, live, undefined>>
      BY <1>3, <2>1, <3>1 DEF Destroy
    <3>3. TypeOK' /\ OneOwner' /\ PointersMeet'
      BY <1>0, <2>p, <3>1, <3>2 DEF TypeOK, OneOwner, PointersMeet, Dangles, Running
    <3>4. DatabasesOpen'
      BY <2>p, <3>1 DEF DatabasesOpen
    <3> QED
      BY <1>q, <2>p, <3>1, <3>3, <3>4
  <2>2. CASE ~Busy(c)
    <3> DEFINE S == {Function(c), Image(c)}
    <3>0. S \subseteq Slots \ Objects
      OBVIOUS
    <3>1. /\ con' = [con EXCEPT ![c] = "none"]
          /\ holds' = [holds EXCEPT ![Function(c)] = Nil, ![Image(c)] = Nil]
          /\ live' = live \ ({holds[s] : s \in S} \ {Nil})
          /\ undefined' = ~(({holds[s] : s \in S} \ {Nil}) \subseteq live)
      BY <1>3, <2>2 DEF Destroy, FreeAll
    <3>2. live' = live \ {holds[s] : s \in S}
      BY <1>0, <3>1 DEF TypeOK
    <3>3. /\ holds' \in [Slots -> Memory \cup {Nil}]
          /\ \A s \in S : holds'[s] = Nil
          /\ \A s \in Slots \ S : holds'[s] = holds[s]
      BY <1>0, <3>0, <3>1 DEF TypeOK
    <3>9. holds'[Function(c)] = Nil /\ holds'[Image(c)] = Nil
      BY <3>3
    <3>s. ASSUME NEW d \in Conns, d # c PROVE Function(d) \notin S /\ Image(d) \notin S
      BY <3>s
    <3> HIDE DEF S
    <3>4. live' \in SUBSET Memory /\ OneOwner' /\ PointersMeet'
      BY <2>p, <3>0, <3>2, <3>3, Frees
    <3>5. TypeOK'
      <4>1. \A d \in Conns : con'[d] = "none" => holds'[Function(d)] = Nil /\ holds'[Image(d)] = Nil
        BY <1>0, <3>1, <3>3, <3>9, <3>s DEF TypeOK
      <4> QED
        BY <1>0, <2>p, <3>0, <3>1, <3>3, <3>4, <4>1 DEF TypeOK
    <3>6. ASSUME provoked' = {} PROVE ~undefined'
      <4>1. provoked = {} /\ Using(c) = {}
        BY <2>p, <3>6
      <4>2. \A s \in S : holds[s] \in live \cup {Nil}
        BY <1>0, <2>p, <3>0, <4>1 DEF PointersMeet, Dangles
      <4>3. {holds[s] : s \in S} \ {Nil} \subseteq live
        BY <4>2
      <4> QED
        BY <3>1, <4>3
    <3>7. DatabasesOpen'
      <4> SUFFICES ASSUME "outlive" \notin provoked', NEW o \in Backups \cup Sessions,
                          holds'[o] # Nil, NEW d \in Needs(o)'
                   PROVE  d \in Conns /\ con'[d] = "open"
        BY DEF DatabasesOpen
      <4>1. "outlive" \notin provoked /\ Using(c) = {}
        BY <2>p
      <4>2. holds[o] = holds'[o] /\ d \in Needs(o)
        BY <2>p, <3>0, <3>3 DEF Needs
      <4>3. d \in Conns /\ con[d] = "open"
        BY <1>0, <2>p, <4>1, <4>2 DEF DatabasesOpen
      <4>4. d # c
        BY <4>1, <4>2 DEF Using, Needs
      <4> QED
        BY <1>0, <3>1, <4>3, <4>4 DEF TypeOK
    <3> QED
      BY <1>q, <3>4, <3>5, <3>6, <3>7
  <2> QED
    BY <2>1, <2>2
<1>4. ASSUME NEW b \in Backups, NEW to \in Conns, NEW from \in Conns,
             ConstructBackup(b, to, from)
      PROVE  HandlesInv'
  <2>1. PICK h \in Fresh : holds' = Set(b, h) /\ live' = live \cup {h}
    BY <1>4 DEF ConstructBackup
  <2>2. /\ Running
        /\ holds[b] = Nil
        /\ con[to] = "open" /\ con[from] = "open"
        /\ exists' = exists \cup {b}
        /\ of' = [of EXCEPT ![b] = from]
        /\ target' = [target EXCEPT ![b] = to]
        /\ failed' = [failed EXCEPT ![b] = FALSE]
        /\ UNCHANGED <<con, provoked, undefined>>
    BY <1>0, <1>4 DEF ConstructBackup, TypeOK
  <2>3. live' = (live \ {holds[b]}) \cup {h}
    BY <1>0, <2>1, <2>2 DEF TypeOK
  <2>4. /\ holds' \in [Slots -> Memory \cup {Nil}]
        /\ live' \in SUBSET Memory
        /\ OneOwner' /\ PointersMeet'
    BY <1>0, <2>1, <2>2, <2>3, TakesOver DEF TypeOK
  <2>5. TypeOK'
    BY <1>0, <2>1, <2>2, <2>4 DEF TypeOK, Set
  <2>6. DatabasesOpen'
    BY <1>0, <2>1, <2>2 DEF TypeOK, DatabasesOpen, Needs, Set
  <2> QED
    BY <1>q, <2>2, <2>4, <2>5, <2>6 DEF Running
<1>5. ASSUME NEW b \in Backups, Step(b) PROVE HandlesInv'
  <2>1. /\ Running /\ holds[b] # Nil
        /\ undefined' = ~Intact(b)
        /\ failed' \in [Backups -> BOOLEAN]
        /\ \A a \in Backups \ {b} : failed'[a] = failed[a]
        /\ UNCHANGED <<con, exists, holds, of, target, live, provoked>>
    BY <1>0, <1>5 DEF Step, TypeOK
  <2>2. provoked = {} => ~undefined'
    BY <1>0, <2>1 DEF Intact, PointersMeet, DatabasesOpen, Dangles, Needs, TypeOK
  <2>3. TypeOK' /\ OneOwner'
    BY <1>0, <2>1 DEF TypeOK, OneOwner, Running
  <2>4. DatabasesOpen'
    BY <1>d, <2>1
  <2>5. ASSUME ~undefined' PROVE PointersMeet'
    <3>1. holds[b] \in live
      BY <2>1, <2>5 DEF Intact
    <3> QED
      BY <1>0, <2>1, <3>1, StillDangles DEF PointersMeet
  <2> QED
    BY <2>1, <2>2, <2>3, <2>4, <2>5 DEF HandlesInv, FreedOnce, FaultsContained, Running
<1>6. ASSUME NEW b \in Backups, Finish(b) PROVE HandlesInv'
  <2>1. provoked = {} => ~undefined'
    BY <1>0, <1>6 DEF Finish, Intact, PointersMeet, DatabasesOpen, Dangles, Needs, TypeOK
  <2>2. holds' \in [Slots -> Memory \cup {Nil}]
    BY <1>0, <1>6 DEF Finish, Set, TypeOK
  <2>3. live' \in SUBSET Memory /\ OneOwner' /\ PointersMeet'
    <3>1. /\ {b} \in SUBSET Slots
          /\ \A s \in {b} : holds'[s] = Nil
          /\ \A s \in Slots \ {b} : holds'[s] = holds[s]
          /\ live' = live \ {holds[s] : s \in {b}}
      BY <1>0, <1>6 DEF Finish, Set, TypeOK
    <3> QED
      BY <1>6, <2>2, <3>1, Frees DEF Finish
  <2>4. TypeOK'
    BY <1>0, <1>6, <2>2, <2>3 DEF Finish, Set, TypeOK
  <2>5. DatabasesOpen'
    BY <1>0, <1>d, <1>6 DEF Finish, Set, TypeOK
  <2> QED
    BY <1>q, <2>1, <2>3, <2>4, <2>5, <1>6 DEF Finish
<1>7. ASSUME NEW b \in Backups, FinishThrows(b) PROVE HandlesInv'
  <2>1. /\ Running /\ failed[b]
        /\ provoked' = provoked \cup {"finish"} /\ "finish" \in Faults
        /\ live' = live \ {holds[b]} /\ undefined' \in BOOLEAN
        /\ UNCHANGED <<con, exists, holds, of, target, failed>>
    BY <1>7 DEF FinishThrows, Provoke
  <2>2. Dangles(b)'
    BY <2>1 DEF Dangles
  <2>3. live' \in SUBSET Memory /\ OneOwner' /\ PointersMeet'
    BY <2>1, <2>2, FreesUnder
  <2>4. TypeOK'
    BY <1>0, <2>1, <2>3 DEF TypeOK
  <2> QED
    BY <1>d, <1>q, <2>1, <2>3, <2>4
<1>8. ASSUME NEW b \in Backups, DestroyBackup(b) PROVE HandlesInv'
  <2>1. provoked = {} => ~undefined'
    BY <1>0, <1>8 DEF DestroyBackup, Intact, PointersMeet, DatabasesOpen, Dangles, Needs, TypeOK
  <2>2. holds' \in [Slots -> Memory \cup {Nil}]
    BY <1>0, <1>8 DEF DestroyBackup, Set, TypeOK
  <2>3. live' \in SUBSET Memory /\ OneOwner' /\ PointersMeet'
    <3>1. /\ {b} \in SUBSET Slots
          /\ \A s \in {b} : holds'[s] = Nil
          /\ \A s \in Slots \ {b} : holds'[s] = holds[s]
          /\ live' = live \ {holds[s] : s \in {b}}
          /\ \A a \in Backups \ {b} : failed'[a] = failed[a]
      BY <1>0, <1>8 DEF DestroyBackup, Set, TypeOK
    <3> QED
      BY <1>8, <2>2, <3>1, Frees DEF DestroyBackup
  <2>4. TypeOK'
    BY <1>0, <1>8, <2>2, <2>3 DEF DestroyBackup, Set, TypeOK
  <2>5. DatabasesOpen'
    BY <1>0, <1>8 DEF DestroyBackup, Set, TypeOK, DatabasesOpen, Needs
  <2> QED
    BY <1>q, <2>1, <2>3, <2>4, <2>5, <1>8 DEF DestroyBackup
<1>9. ASSUME NEW s \in Sessions, NEW c \in Conns, ConstructSession(s, c) PROVE HandlesInv'
  <2>1. PICK h \in Fresh : holds' = Set(s, h) /\ live' = live \cup {h}
    BY <1>9 DEF ConstructSession
  <2>2. /\ Running
        /\ holds[s] = Nil
        /\ con[c] = "open"
        /\ exists' = exists \cup {s}
        /\ of' = [of EXCEPT ![s] = c]
        /\ UNCHANGED <<con, target, failed, provoked, undefined>>
    BY <1>0, <1>9 DEF ConstructSession, TypeOK
  <2>3. live' = (live \ {holds[s]}) \cup {h}
    BY <1>0, <2>1, <2>2 DEF TypeOK
  <2>4. /\ holds' \in [Slots -> Memory \cup {Nil}]
        /\ live' \in SUBSET Memory
        /\ OneOwner' /\ PointersMeet'
    BY <2>1, <2>2, <2>3, TakesOver
  <2>5. TypeOK'
    BY <1>0, <2>1, <2>2, <2>4 DEF TypeOK, Set
  <2>6. DatabasesOpen'
    BY <1>0, <2>1, <2>2 DEF TypeOK, DatabasesOpen, Needs, Set
  <2> QED
    BY <1>0, <1>q, <2>2, <2>4, <2>5, <2>6 DEF FreedOnce
<1>10. ASSUME NEW s \in Sessions, UseSession(s) PROVE HandlesInv'
  <2>1. /\ Running /\ holds[s] # Nil
        /\ undefined' = ~(holds[s] \in live /\ con[of[s]] = "open")
        /\ UNCHANGED <<con, exists, holds, of, target, failed, live, provoked>>
    BY <1>10 DEF UseSession
  <2>2. provoked = {} => ~undefined'
    BY <1>0, <2>1, NeverDangling DEF PointersMeet, DatabasesOpen, Needs
  <2>3. TypeOK' /\ OneOwner' /\ PointersMeet'
    BY <1>0, <2>1 DEF TypeOK, OneOwner, PointersMeet, Dangles, Running
  <2> QED
    BY <1>d, <1>q, <2>1, <2>2, <2>3
<1>11. ASSUME NEW n \in Snapshots, ConstructSnapshot(n) PROVE HandlesInv'
  <2>1. /\ Running
        /\ holds[n] = Nil
        /\ exists' = exists \cup {n}
        /\ UNCHANGED <<con, of, target, failed, provoked, undefined>>
    BY <1>0, <1>11 DEF ConstructSnapshot, TypeOK
  <2>2. CASE UNCHANGED <<holds, live>>
    <3>1. TypeOK' /\ OneOwner' /\ PointersMeet'
      BY <1>0, <2>1, <2>2 DEF TypeOK, OneOwner, PointersMeet, Dangles, Running
    <3> QED
      BY <1>0, <1>d, <1>q, <2>1, <2>2, <3>1 DEF FreedOnce
  <2>3. CASE \E h \in Fresh : holds' = Set(n, h) /\ live' = live \cup {h}
    <3>1. PICK h \in Fresh : holds' = Set(n, h) /\ live' = live \cup {h}
      BY <2>3
    <3>2. live' = (live \ {holds[n]}) \cup {h}
      BY <1>0, <2>1, <3>1 DEF TypeOK
    <3>3. /\ holds' \in [Slots -> Memory \cup {Nil}]
          /\ live' \in SUBSET Memory
          /\ OneOwner' /\ PointersMeet'
      BY <2>1, <3>1, <3>2, TakesOver
    <3>4. TypeOK'
      BY <1>0, <2>1, <3>1, <3>3 DEF TypeOK, Set
    <3>5. DatabasesOpen'
      BY <1>0, <1>d, <2>1, <3>1 DEF TypeOK, Set, Objects
    <3> QED
      BY <1>0, <1>q, <2>1, <3>3, <3>4, <3>5 DEF FreedOnce
  <2> QED
    BY <1>11, <2>2, <2>3 DEF ConstructSnapshot
<1>m. ASSUME NEW o \in Sessions \cup Snapshots, NEW p \in Sessions \cup Snapshots, o # p,
             Running, SameClass(o, p), Point(p, of[o], o), o \in exists,
             exists' = exists \cup {p},
             holds' = [holds EXCEPT ![p] = holds[o], ![o] = Nil],
             live' = live \ {holds[p]},
             UNCHANGED <<con, target, failed, provoked>>, undefined' \in BOOLEAN,
             undefined' => provoked' # {}
      PROVE  HandlesInv'
  <2>1. /\ holds' \in [Slots -> Memory \cup {Nil}]
        /\ live' \in SUBSET Memory
        /\ OneOwner' /\ PointersMeet'
    BY <1>m, Moves
  <2>2. TypeOK'
    BY <1>0, <1>m, <2>1 DEF TypeOK, SameClass, Point
  <2>3. DatabasesOpen'
    BY <1>0, <1>m DEF TypeOK, DatabasesOpen, Needs, SameClass, Point
  <2> QED
    BY <1>m, <1>q, <2>1, <2>2, <2>3
<1>12. ASSUME NEW o \in Sessions \cup Snapshots, NEW p \in Sessions \cup Snapshots,
              MoveConstruct(o, p)
       PROVE  HandlesInv'
  <2>1. o # p /\ holds[p] = Nil /\ live' = live \ {holds[p]}
    BY <1>0, <1>12 DEF MoveConstruct, TypeOK, Objects
  <2> QED
    BY <1>0, <1>m, <1>12, <2>1 DEF MoveConstruct, FreedOnce, TypeOK
<1>f. ASSUME NEW o \in Sessions \cup Snapshots, Running, FreeOwn(o), UNCHANGED provoked
      PROVE  undefined' \in BOOLEAN /\ (undefined' => provoked' # {})
  <2>1. holds[o] \in live \cup {Nil}
    BY <1>0, <1>f, NeverDangling DEF PointersMeet
  <2> QED
    BY <1>0, <1>f, <2>1 DEF FreeOwn, DatabasesOpen, Needs
<1>13. ASSUME NEW o \in Sessions \cup Snapshots, NEW p \in Sessions \cup Snapshots,
              MoveAssign(o, p)
       PROVE  HandlesInv'
  <2>1. undefined' \in BOOLEAN /\ (undefined' => provoked' # {})
    BY <1>f, <1>13 DEF MoveAssign
  <2>2. exists' = exists \cup {p} /\ live' = live \ {holds[p]}
    BY <1>13 DEF MoveAssign, FreeOwn
  <2> QED
    BY <1>m, <1>13, <2>1, <2>2 DEF MoveAssign
<1>g. ASSUME NEW o \in Sessions \cup Snapshots, Running, FreeOwn(o), holds' = Set(o, Nil),
             UNCHANGED <<con, target, failed, provoked>>,
             exists' = exists \/ exists' = exists \ {o},
             of' = of \/ (o \in Sessions /\ of' = [of EXCEPT ![o] = Nil])
      PROVE  HandlesInv'
  <2>1. undefined' \in BOOLEAN /\ (undefined' => provoked' # {})
    BY <1>f, <1>g
  <2>2. /\ holds' \in [Slots -> Memory \cup {Nil}]
        /\ {o} \in SUBSET Slots
        /\ \A s \in {o} : holds'[s] = Nil
        /\ \A s \in Slots \ {o} : holds'[s] = holds[s]
        /\ live' = live \ {holds[s] : s \in {o}}
    BY <1>0, <1>g DEF FreeOwn, Set, TypeOK
  <2>3. live' \in SUBSET Memory /\ OneOwner' /\ PointersMeet'
    BY <1>g, <2>2, Frees
  <2>4. TypeOK'
    BY <1>0, <1>g, <2>1, <2>2, <2>3 DEF TypeOK
  <2>5. DatabasesOpen'
    BY <1>0, <1>g, <2>2 DEF TypeOK, DatabasesOpen, Needs
  <2> QED
    BY <1>q, <2>1, <2>3, <2>4, <2>5
<1>14. ASSUME NEW n \in Snapshots, ResetSnapshot(n) PROVE HandlesInv'
  <2>1. /\ Running /\ FreeOwn(n) /\ holds' = Set(n, Nil)
        /\ UNCHANGED <<con, target, failed, provoked>> /\ exists' = exists /\ UNCHANGED of
    BY <1>14 DEF ResetSnapshot
  <2> QED
    BY <1>g, <2>1
<1>15. ASSUME NEW o \in Sessions \cup Snapshots, DestroyObject(o) PROVE HandlesInv'
  <2>1. /\ Running /\ FreeOwn(o) /\ holds' = Set(o, Nil)
        /\ UNCHANGED <<con, target, failed, provoked>> /\ exists' = exists \ {o}
        /\ of' = of \/ (o \in Sessions /\ of' = [of EXCEPT ![o] = Nil])
    BY <1>15 DEF DestroyObject
  <2> QED
    BY <1>g, <2>1
<1>16. ASSUME NEW c \in Conns, NEW s \in {Function(c), Image(c)}, Running, TakeOver(s),
              con[c] = "open", UNCHANGED <<con, exists, of, target, failed, provoked>>
       PROVE  HandlesInv'
  <2>1. s \in Slots \ Objects /\ \A d \in Conns \ {c} : s \notin {Function(d), Image(d)}
    OBVIOUS
  <2>2. PICK h \in Fresh : /\ holds' = Set(s, h)
                           /\ live' = (live \ {holds[s]}) \cup {h}
                           /\ undefined' = (holds[s] # Nil /\ holds[s] \notin live)
    BY <1>16 DEF TakeOver
  <2>3. /\ holds' \in [Slots -> Memory \cup {Nil}]
        /\ live' \in SUBSET Memory
        /\ OneOwner' /\ PointersMeet'
    BY <1>16, <2>1, <2>2, TakesOver
  <2>4. provoked = {} => ~undefined'
    BY <1>0, <1>16, <2>1, <2>2 DEF PointersMeet, Dangles
  <2>5. \A d \in Conns : con[d] = "none" => holds'[Function(d)] = Nil /\ holds'[Image(d)] = Nil
    BY <1>0, <1>16, <2>1, <2>2 DEF TypeOK, Set
  <2>6. TypeOK'
    BY <1>0, <1>16, <2>1, <2>2, <2>3, <2>5 DEF TypeOK, Set
  <2>7. DatabasesOpen'
    BY <1>0, <1>d, <1>16, <2>1, <2>2 DEF TypeOK, Set
  <2> QED
    BY <1>q, <1>16, <2>3, <2>4, <2>6, <2>7
<1>17. ASSUME NEW c \in Conns, CreateFunctionRefused(c) \/ DeserializeRefused(c)
       PROVE  HandlesInv'
  <2>1. /\ undefined' = TRUE /\ provoked' # {} /\ provoked' \in SUBSET Faults
        /\ UNCHANGED <<con, exists, holds, of, target, failed, live>>
    BY <1>0, <1>17 DEF CreateFunctionRefused, DeserializeRefused, Provoke, TypeOK
  <2> QED
    BY <1>0, <2>1 DEF HandlesInv, TypeOK, OneOwner, FreedOnce, FaultsContained, Running
<1>18. ASSUME NEW c \in Conns, SerializeNoCopy(c) PROVE HandlesInv'
  <2>1. /\ Running
        /\ provoked' = provoked \cup {"nocopy"} /\ "nocopy" \in Faults
        /\ live' = live \ {holds[Image(c)]} /\ undefined' \in BOOLEAN
        /\ UNCHANGED <<con, exists, holds, of, target, failed>>
    BY <1>18 DEF SerializeNoCopy, Provoke
  <2>2. Dangles(Image(c))'
    BY <2>1 DEF Dangles
  <2>3. live' \in SUBSET Memory /\ OneOwner' /\ PointersMeet'
    BY <2>1, <2>2, FreesUnder
  <2>4. TypeOK'
    BY <1>0, <2>1, <2>3 DEF TypeOK
  <2> QED
    BY <1>d, <1>q, <2>1, <2>3, <2>4
<1>19. ASSUME NEW c \in Conns, ConnNext(c) PROVE HandlesInv'
  BY <1>2, <1>3, <1>16, <1>17, <1>18, <1>19 DEF ConnNext, CreateFunction, Deserialize
<1> QED
  BY <1>1, <1>4, <1>5, <1>6, <1>7, <1>8, <1>9, <1>10, <1>11, <1>12, <1>13, <1>14, <1>15,
     <1>19
  DEF Next, BackupNext

LEMMA Invariant == Spec => []HandlesInv
  BY InvInit, InvStep, PTL DEF Spec

\* Every variable has its type and only objects that exist hold a handle, in every order
\* of the member functions of backup, session and snapshot.
THEOREM TypeCorrect == Spec => []TypeOK
<1>1. HandlesInv => TypeOK
  BY DEF HandlesInv
<1> QED
  BY <1>1, Invariant, PTL

\* No handle is leaked and none has two owners, over every sequence of constructors,
\* moves, assignments, refusals and destructors (the special members of session.cpp and
\* snapshot.cpp, backup.cpp, create_function and deserialize).
THEOREM HandlesOwned == Spec => []OneOwner
<1>1. HandlesInv => OneOwner
  BY DEF HandlesInv
<1> QED
  BY <1>1, Invariant, PTL

\* Nothing is freed twice or used after it was freed, unless one of the named
\* circumstances has come about: a backup whose finish() reports an error, a refused
\* create_function or deserialize, an image serialized without a copy, an object that
\* outlives its connection.  Until then a fault does no harm to what it did not occur in.
THEOREM NothingFreedTwice == Spec => []FreedOnce
<1>1. HandlesInv => FreedOnce
  BY DEF HandlesInv
<1> QED
  BY <1>1, Invariant, PTL

\* Every fault stays with the kind of handle it occurs in: only a backup whose failed
\* step finish() reported, and an image serialized without a copy, dangle.  Sessions,
\* snapshots and registered functions never do, and the databases that backups and
\* sessions work on are open unless an object outlives its connection.
THEOREM FaultsStayContained == Spec => []FaultsContained
<1>1. HandlesInv => FaultsContained
  BY DEF HandlesInv, FreedOnce
<1> QED
  BY <1>1, Invariant, PTL

\* Nothing is leaked: once every object is gone and every connection has been closed,
\* everything SQLite allocated has been freed, whatever was moved, refused or replaced.
THEOREM NothingLeaked == Spec => []NothingLeft
<1>1. HandlesInv => NothingLeft
  <2> SUFFICES ASSUME HandlesInv, Running, exists = {}, \A c \in Conns : con[c] = "none",
                      NEW h \in live
               PROVE  FALSE
    BY DEF NothingLeft
  <2>1. PICK s \in Slots : holds[s] = h
    BY DEF HandlesInv, OneOwner
  <2>2. holds[s] = Nil
    BY SlotsApart DEF HandlesInv, TypeOK
  <2>3. h # Nil
    BY HandlesAssumption DEF HandlesInv, TypeOK
  <2> QED
    BY <2>1, <2>2, <2>3
<1> QED
  BY <1>1, Invariant, PTL

\* A backup is finished once, by finish() or by its destructor, if finish() reports no
\* error and no connection is destroyed under it: nothing else breaks the promise that
\* the destructor finishes the backup.
THEOREM BackupsFinishedOnce ==
    ASSUME Faults \cap {"finish", "outlive"} = {}
    PROVE  Spec => FinishedOnce
<1>1. ASSUME HandlesInv, [Next]_vars, NEW b \in Backups, b \in exists \ exists'
      PROVE  ~undefined'
  <2>1. DestroyBackup(b)
    <3>1. Next /\ exists' # exists
      BY <1>1 DEF vars
    <3>2. ASSUME NEW a \in Backups, BackupNext(a) PROVE DestroyBackup(b)
      BY <1>1, <3>2
      DEF BackupNext, ConstructBackup, Step, Finish, FinishThrows, DestroyBackup
    <3>3. ASSUME NEW c \in Conns, ConnNext(c) PROVE FALSE
      BY <3>1, <3>3
      DEF ConnNext, Connect, Destroy, CreateFunction, CreateFunctionRefused, Deserialize,
          DeserializeRefused, SerializeNoCopy
    <3>4. ASSUME NEW o \in Sessions \cup Snapshots, DestroyObject(o) PROVE FALSE
      BY <1>1, <3>4, HandlesAssumption DEF DestroyObject
    <3> QED
      BY <1>1, <3>1, <3>2, <3>3, <3>4
      DEF Next, UseSession, ConstructSession, ConstructSnapshot, ResetSnapshot,
          MoveConstruct, MoveAssign
  <2>2. /\ Running /\ TypeOK
        /\ undefined' = (holds[b] # Nil /\ ~Intact(b))
    BY <1>1, <2>1 DEF DestroyBackup, HandlesInv
  <2>3. "finish" \notin provoked /\ "outlive" \notin provoked
    BY <2>2 DEF TypeOK
  <2>4. holds[b] \in live \cup {Nil}
    BY <1>1, <2>2, <2>3, SlotsApart
    DEF HandlesInv, FreedOnce, FaultsContained, PointersMeet, Dangles
  <2>5. holds[b] # Nil => con[target[b]] = "open"
    BY <1>1, <2>2, <2>3 DEF HandlesInv, FreedOnce, FaultsContained, DatabasesOpen, Needs
  <2> QED
    BY <2>2, <2>4, <2>5 DEF Intact
<1>2. HandlesInv /\ [Next]_vars
        => [\A b \in Backups : b \in exists \ exists' => ~undefined']_vars
  BY <1>1
<1> QED
  BY <1>2, Invariant, PTL DEF Spec, FinishedOnce
=============================================================================
