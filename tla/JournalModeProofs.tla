-------------------------- MODULE JournalModeProofs --------------------------
(***************************************************************************)
(* Theorems about the journal mode helpers, for any set of modes and       *)
(* writes, with and without a statement cache.                             *)
(***************************************************************************)
EXTENDS JournalMode, TLAPS

\* Outside a BEGIN, what is not committed waits for a statement in progress.
Waits(d) == d \in Database /\ (Unsaved(d) => d.explicit \/ Writing(d) # {})

\* Nothing waits for a parked PRAGMA, and the file knows the journal mode.
Smooth(d) ==
    /\ Writing(d) = {}
    /\ ~d.switched
    /\ d.mode = "wal" <=> d.file = "wal"

(***************************************************************************)
(* A cached PRAGMA is the only thing that can keep a statement from being  *)
(* committed when it ends, and a switch of the journal mode from reaching  *)
(* the file.                                                               *)
(***************************************************************************)
JournalInv ==
    /\ TypeOK
    /\ Waits(db)
    /\ stuck \/ Smooth(db)
    /\ Kept
    /\ NamesMode
    /\ FallsBackIfIdle

LEMMA InvInit == Init => JournalInv
<1> SUFFICES ASSUME Init PROVE JournalInv
  OBVIOUS
<1>1. /\ db \in Database
      /\ db.started = {} /\ db.pending = {} /\ db.switched = FALSE /\ db.explicit = FALSE
      /\ db.mode = db.file
  BY JournalModeAssumption DEF Init, Database
<1>2. answer.call = "none" /\ answer.asked = "none" /\ answer.said = "none"
  BY DEF Init, NoAnswer
<1>3. TypeOK
  BY <1>1, <1>2 DEF Init, TypeOK
<1>4. Waits(db) /\ Smooth(db)
  BY <1>1 DEF Waits, Smooth, Unsaved, Writing
<1>5. Kept /\ NamesMode /\ FallsBackIfIdle
  BY <1>2, JournalModeAssumption DEF Init, Kept, NamesMode, FallsBackIfIdle
<1> QED
  BY <1>3, <1>4, <1>5 DEF JournalInv

-----------------------------------------------------------------------------
(* What SQLite does with the database *)

\* A statement that ends commits what waited for it, and changes nothing else.
LEMMA HaltFacts ==
    ASSUME NEW d \in Database, NEW texts
    PROVE  /\ Waits(Halt(d, texts))
           /\ Halt(d, texts).started = d.started \ texts
           /\ Halt(d, texts).mode = d.mode
           /\ d.durable \subseteq Halt(d, texts).durable
           /\ Halt(d, texts).explicit = d.explicit
           /\ d.explicit => /\ Halt(d, texts).pending = d.pending
                            /\ Halt(d, texts).switched = d.switched
           /\ Smooth(d) => Smooth(Halt(d, texts))
<1> DEFINE e == [d EXCEPT !.started = @ \ texts]
<1>1. /\ e \in Database
      /\ e.started = d.started \ texts
      /\ e.mode = d.mode /\ e.file = d.file /\ e.explicit = d.explicit
      /\ e.pending = d.pending /\ e.switched = d.switched /\ e.durable = d.durable
  BY DEF Database
<1>2. Writing(e) \subseteq Writing(d)
  BY <1>1 DEF Writing
<1> HIDE DEF e
<1>3. CASE e.explicit \/ Writing(e) # {}
  <2>1. Halt(d, texts) = e
    BY <1>3 DEF Halt, e
  <2> QED
    BY <1>1, <1>2, <1>3, <2>1 DEF Waits, Smooth
<1>4. CASE ~(e.explicit \/ Writing(e) # {})
  <2> DEFINE c == Committed(e)
  <2>1. Halt(d, texts) = c
    BY <1>4 DEF Halt, e
  <2>2. /\ c \in Database
        /\ c.started = e.started
        /\ c.mode = e.mode /\ c.file = (IF e.switched THEN e.mode ELSE e.file)
        /\ c.explicit = FALSE /\ c.pending = {} /\ c.switched = FALSE
        /\ c.durable = e.durable \cup e.pending
    BY <1>1 DEF Committed, Database
  <2> HIDE DEF c
  <2>3. Writing(c) = {} /\ ~Unsaved(c)
    BY <1>4, <2>2 DEF Writing, Unsaved
  <2>4. e.explicit = FALSE
    BY <1>4, <1>1 DEF Database
  <2> QED
    BY <1>1, <1>2, <2>1, <2>2, <2>3, <2>4 DEF Waits, Smooth
<1> QED
  BY <1>3, <1>4

\* A PRAGMA in progress changes the mode, and only that.
LEMMA RanFacts ==
    ASSUME NEW d \in Database, NEW m \in Modes
    PROVE  /\ Ran(d, m) \in Database
           /\ Ran(d, m).mode = Goal(d, m)
           /\ Ran(d, m).started = d.started \cup {m}
           /\ Ran(d, m).switched = (d.switched \/ SwitchesWal(d, m))
           /\ Ran(d, m).file = d.file /\ Ran(d, m).explicit = d.explicit
           /\ Ran(d, m).pending = d.pending /\ Ran(d, m).durable = d.durable
<1>1. Goal(d, m) \in Supported /\ SwitchesWal(d, m) \in BOOLEAN /\ m \in Texts
  BY DEF Goal, SwitchesWal, Database, Texts, Pragmas
<1> QED
  BY <1>1 DEF Ran, Database

-----------------------------------------------------------------------------
(* The helpers *)

\* What a query leaves of the database d after it has run a PRAGMA, whose effect is r,
\* in progress as the text m.
Leftover(d, r, m) ==
    /\ Waits(r)
    /\ r.started \subseteq (IF caching THEN d.started \cup {m} ELSE {})
    /\ d.started \ {m} \subseteq r.started
    /\ d.durable \subseteq r.durable
    /\ Smooth(d) /\ Writing(r) = {} => Smooth(r)

\* The cache is consistent with d: what is in progress is in it.
Caches(d) == d.started \subseteq (IF caching THEN Texts ELSE {})

LEMMA AcquiredFacts ==
    ASSUME NEW d, Waits(d), Caches(d), TypeOK, NEW m \in Pragmas
    PROVE  /\ Leftover(d, Acquired(d, m), m)
           /\ Acquired(d, m).started \subseteq d.started
           /\ Acquired(d, m).mode = d.mode
           /\ Smooth(d) => Smooth(Acquired(d, m))
           /\ ~caching => Acquired(d, m) = d
<1>1. d \in Database
  BY DEF Waits
<1>2. CASE m \in parked
  <2>1. Acquired(d, m) = Halt(d, {m}) /\ caching
    BY <1>2 DEF Acquired, TypeOK
  <2>2. Acquired(d, m).started = d.started \ {m}
    BY <1>1, <2>1, HaltFacts
  <2> QED
    BY <1>1, <2>1, <2>2, HaltFacts DEF Leftover
<1>3. CASE m \notin parked
  <2>1. Acquired(d, m) = d
    BY <1>3 DEF Acquired
  <2> QED
    BY <2>1 DEF Leftover, Caches
<1> QED
  BY <1>2, <1>3

\* set_wal_mode: what it leaves, what it says, and why it throws.
LEMMA SetFacts ==
    ASSUME NEW d, Waits(d), Caches(d), TypeOK, NEW m \in Modes, NEW busy \in BOOLEAN
    PROVE  LET r == SetWalMode(d, m, busy)
           IN  /\ Leftover(d, r.db, m)
               /\ r.said \in Modes \cup {"throws", "busy"}
               /\ r.said \in Modes => /\ r.said = r.db.mode
                                      /\ r.said # m => Unsaved(r.db)
               /\ r.said = "throws" =>
                     m = "wal2" \/ r.db.explicit \/ r.db.started # {}
<1> DEFINE a == Acquired(d, m)
           e == Ran(a, m)
           f == Released(e, m)
           r == SetWalMode(d, m, busy)
<1> USE JournalModeAssumption
<1>0. m \in Pragmas /\ "throws" \notin Modes /\ "busy" \notin Modes
  BY DEF Pragmas
<1>1. /\ Leftover(d, a, m) /\ Waits(a) /\ a \in Database
      /\ a.started \subseteq d.started
      /\ Smooth(d) => Smooth(a)
      /\ ~caching => a = d /\ a.started = {}
  BY <1>0, AcquiredFacts DEF Leftover, Waits, Caches
<1>2. r = IF Refuses(a, m) THEN [db |-> a, said |-> "throws"]
          ELSE IF busy /\ SwitchesWal(a, m) THEN [db |-> a, said |-> "busy"]
          ELSE [db |-> f, said |-> IF m = "wal2" /\ e.mode # "wal2" THEN "throws" ELSE e.mode]
  BY DEF SetWalMode
<1> HIDE DEF a, r
<1>3. CASE Refuses(a, m)
  <2>1. r.db = a /\ r.said = "throws"
    BY <1>2, <1>3
  <2>2. a.explicit \/ a.started # {}
    BY <1>3 DEF Refuses
  <2> QED
    BY <1>0, <1>1, <2>1, <2>2 DEF r
<1>4. CASE ~Refuses(a, m) /\ busy /\ SwitchesWal(a, m)
  <2>1. r.db = a /\ r.said = "busy"
    BY <1>2, <1>4
  <2> QED
    BY <1>0, <1>1, <2>1 DEF r
<1>5. CASE ~Refuses(a, m) /\ ~(busy /\ SwitchesWal(a, m))
  <2>1. /\ e \in Database
        /\ e.mode = Goal(a, m)
        /\ e.started = a.started \cup {m}
        /\ e.switched = (a.switched \/ SwitchesWal(a, m))
        /\ e.file = a.file /\ e.explicit = a.explicit
        /\ e.pending = a.pending /\ e.durable = a.durable
    BY <1>1, RanFacts
  <2> HIDE DEF e
  <2>2. f = IF caching THEN e ELSE Halt(e, {m})
    BY DEF Released, f
  <2> HIDE DEF f
  <2>3. r.db = f /\ r.said = IF m = "wal2" /\ e.mode # "wal2" THEN "throws" ELSE e.mode
    BY <1>2, <1>5
  <2>4. f.mode = e.mode /\ e.mode \in Modes
    BY <1>1, <2>1, <2>2, HaltFacts DEF Goal, Database
  <2>5. Leftover(d, f, m)
    <3>1. Waits(f)
      <4>1. CASE caching
        <5>1. m \in Writing(e)
          BY <1>0, <2>1 DEF Writing
        <5> QED
          BY <2>1, <2>2, <4>1, <5>1 DEF Waits
      <4>2. CASE ~caching
        BY <2>1, <2>2, <4>2, HaltFacts
      <4> QED
        BY <4>1, <4>2
    <3>2. /\ f.started \subseteq (IF caching THEN d.started \cup {m} ELSE {})
          /\ d.started \ {m} \subseteq f.started
      BY <1>1, <2>1, <2>2, HaltFacts DEF Leftover
    <3>3. d.durable \subseteq f.durable
      BY <1>1, <2>1, <2>2, HaltFacts DEF Leftover
    <3>4. ASSUME Smooth(d), Writing(f) = {} PROVE Smooth(f)
      <4>1. ~caching
        BY <1>0, <2>1, <2>2, <3>4 DEF Writing
      <4>2. a = d /\ a.started = {} /\ e.started = {m} /\ Smooth(a)
        BY <1>1, <2>1, <3>4, <4>1
      <4>3. CASE e.explicit
        <5>1. ~SwitchesWal(a, m)
          BY <1>5, <2>1, <4>3 DEF Refuses
        <5>2. e.mode = "wal" <=> a.mode = "wal"
          BY <2>1, <5>1 DEF SwitchesWal
        <5>3. f.switched = e.switched /\ f.file = e.file
          BY <2>1, <2>2, <4>1, <4>3 DEF Halt, Database
        <5> QED
          BY <2>1, <2>4, <3>4, <4>2, <5>1, <5>2, <5>3 DEF Smooth
      <4>4. CASE ~e.explicit
        <5> DEFINE g == [e EXCEPT !.started = @ \ {m}]
        <5>1. /\ g \in Database /\ g.started = {} /\ ~g.explicit
              /\ g.mode = e.mode /\ g.file = e.file /\ g.switched = e.switched
          BY <2>1, <4>2, <4>4 DEF Database
        <5>2. f = Committed(g)
          BY <2>2, <4>1, <5>1 DEF Halt, Writing
        <5> HIDE DEF g
        <5>3. f.switched = FALSE /\ f.file = IF g.switched THEN g.mode ELSE g.file
          BY <5>1, <5>2 DEF Committed, Database
        <5>4. f.mode = "wal" <=> f.file = "wal"
          BY <2>1, <2>4, <4>2, <5>1, <5>3 DEF Smooth, SwitchesWal
        <5> QED
          BY <3>4, <5>3, <5>4 DEF Smooth
      <4> QED
        BY <4>3, <4>4
    <3> QED
      BY <3>1, <3>2, <3>3, <3>4 DEF Leftover
  <2>6. ASSUME r.said \in Modes, r.said # m PROVE Unsaved(f)
    <3>1. e.mode # m /\ m \in Supported
      <4>1. e.mode # m /\ ~(m = "wal2" /\ e.mode # "wal2")
        BY <1>0, <2>3, <2>6
      <4> QED
        BY <4>1
    <3>2. Unsaved(a)
      BY <2>1, <3>1 DEF Goal
    <3>3. CASE caching
      BY <2>1, <2>2, <3>2, <3>3 DEF Unsaved
    <3>4. CASE ~caching
      <4>1. e.explicit
        BY <1>1, <2>1, <3>2, <3>4 DEF Waits, Writing
      <4>2. f.pending = e.pending /\ f.switched = e.switched
        BY <2>1, <2>2, <3>4, <4>1, HaltFacts
      <4>3. Unsaved(e)
        BY <2>1, <3>2 DEF Unsaved
      <4> QED
        BY <4>2, <4>3 DEF Unsaved
    <3> QED
      BY <3>3, <3>4
  <2> QED
    BY <1>0, <2>3, <2>4, <2>5, <2>6 DEF r
<1> QED
  BY <1>3, <1>4, <1>5

\* enable_wal: both attempts leave the connection as one does, and what it says is what
\* the last one said.
LEMMA EnableFacts ==
    ASSUME NEW d, Waits(d), Caches(d), TypeOK, NEW prefer \in BOOLEAN, NEW busy \in BOOLEAN
    PROVE  LET r == EnableWal(d, prefer, busy)
               texts == IF prefer THEN {"wal2", "wal"} ELSE {"wal"}
           IN  /\ Waits(r.db)
               /\ r.db.started \subseteq (IF caching THEN d.started \cup texts ELSE {})
               /\ d.durable \subseteq r.db.durable
               /\ Smooth(d) /\ Writing(r.db) = {} => Smooth(r.db)
               /\ r.said \in Modes \cup {"throws", "busy"}
               /\ r.said \in Modes => r.said = r.db.mode
               /\ r.said = "throws" => r.db.explicit \/ r.db.started # {}
<1> DEFINE first == SetWalMode(d, "wal2", busy)
           last == SetWalMode(first.db, "wal", busy)
           r == EnableWal(d, prefer, busy)
<1> USE JournalModeAssumption
<1>1. /\ Leftover(d, first.db, "wal2")
      /\ first.said \in Modes => first.said = first.db.mode
  BY SetFacts
<1>2. Waits(first.db) /\ Caches(first.db)
  <2>1. "wal2" \in Texts
    BY DEF Texts, Pragmas
  <2> QED
    BY <1>1, <2>1 DEF Leftover, Caches
<1>3. CASE ~prefer
  <2>1. r = SetWalMode(d, "wal", busy)
    BY <1>3 DEF EnableWal
  <2> HIDE DEF r
  <2> QED
    BY <1>3, <2>1, SetFacts DEF Leftover, r
<1>4. CASE prefer /\ first.said = "wal2"
  <2>1. r = first
    BY <1>4 DEF EnableWal
  <2> HIDE DEF r, first
  <2> QED
    BY <1>1, <1>4, <2>1 DEF Leftover, r
<1>5. CASE prefer /\ first.said # "wal2"
  <2>1. r = last
    BY <1>5 DEF EnableWal
  <2>2. /\ Leftover(first.db, last.db, "wal")
        /\ last.said \in Modes \cup {"throws", "busy"}
        /\ last.said \in Modes => last.said = last.db.mode
        /\ last.said = "throws" => last.db.explicit \/ last.db.started # {}
    BY <1>2, SetFacts
  <2> HIDE DEF r, first, last
  <2>3. ASSUME Smooth(d), Writing(last.db) = {} PROVE Smooth(last.db)
    <3>1. Writing(first.db) = {}
      <4> SUFFICES ASSUME NEW x \in Writing(first.db) PROVE FALSE
        OBVIOUS
      <4>1. x = "wal2"
        BY <1>1, <2>3 DEF Leftover, Smooth, Writing
      <4>2. "wal2" \in Writing(last.db)
        BY <2>2, <4>1 DEF Leftover, Writing
      <4> QED
        BY <2>3, <4>2
    <3> QED
      BY <1>1, <2>2, <2>3, <3>1 DEF Leftover
  <2> QED
    BY <1>1, <1>5, <2>1, <2>2, <2>3 DEF Leftover, r
<1> QED
  BY <1>3, <1>4, <1>5

-----------------------------------------------------------------------------
(* Each call preserves the invariant. *)

\* A helper that leaves d and says what it should.
LEMMA AnswersInv ==
    ASSUME JournalInv, NEW d, NEW texts, NEW asked \in Modes \cup {"none"},
           NEW kind \in {"set", "enable", "get"}, NEW said \in Modes \cup {"throws", "busy"},
           texts \subseteq Texts,
           Answers(d, texts, kind, asked, said),
           Waits(d),
           d.started \subseteq (IF caching THEN db.started \cup texts ELSE {}),
           db.durable \subseteq d.durable,
           Smooth(db) /\ Writing(d) = {} => Smooth(d),
           said \in Modes => said = d.mode,
           kind = "set" /\ said \in Modes /\ said # asked => Unsaved(d),
           kind = "enable" /\ said = "throws" => d.explicit \/ d.started # {}
    PROVE  JournalInv'
<1>1. /\ db' = d
      /\ parked' = IF caching THEN parked \cup texts ELSE parked
      /\ answer' = [call |-> kind, asked |-> asked, said |-> said]
      /\ stuck' = (stuck \/ Writing(d) # {})
      /\ UNCHANGED <<caching, told, promised, refused>>
  BY DEF Answers
<1>2. TypeOK /\ Kept /\ (stuck \/ Smooth(db))
  BY DEF JournalInv
<1>3. TypeOK'
  BY <1>1, <1>2 DEF TypeOK, Waits
<1>4. Writing(db)' = Writing(d)
  BY <1>1 DEF Writing
<1>5. stuck' \/ Smooth(db')
  BY <1>1, <1>2
<1>6. Waits(db') /\ Smooth(db') = Smooth(d) /\ Unsaved(db') = Unsaved(d)
  BY <1>1
<1>7. Kept'
  BY <1>1, <1>2 DEF Kept
<1>8. NamesMode'
  BY <1>1, <1>5 DEF NamesMode, Smooth
<1>9. FallsBackIfIdle'
  BY <1>1 DEF FallsBackIfIdle
<1> QED
  BY <1>3, <1>5, <1>6, <1>7, <1>8, <1>9 DEF JournalInv

\* A call of the user's that leaves d and the texts p in the cache.
LEMMA LeavesInv ==
    ASSUME JournalInv, NEW d, NEW p, Leaves(d, p), Waits(d),
           caching' \in BOOLEAN, p \subseteq (IF caching' THEN Texts ELSE {}),
           d.started \subseteq p,
           UNCHANGED stuck, stuck \/ Smooth(d),
           told' \subseteq Writes, promised' \subseteq Writes, refused' \in BOOLEAN,
           promised' \subseteq d.durable,
           stuck \/ (told' \subseteq d.durable /\ ~refused')
    PROVE  JournalInv'
<1>1. /\ db' = d /\ parked' = p
      /\ answer' = [call |-> "none", asked |-> "none", said |-> "none"]
  BY DEF Leaves, NoAnswer
<1>2. TypeOK'
  BY <1>1 DEF JournalInv, TypeOK, Waits
<1>3. Waits(db)' /\ (stuck \/ Smooth(db))'
  BY <1>1 DEF Waits, Smooth, Unsaved, Writing
<1>4. Kept'
  BY <1>1 DEF Kept
<1>5. NamesMode' /\ FallsBackIfIdle'
  BY <1>1, JournalModeAssumption DEF NamesMode, FallsBackIfIdle
<1> QED
  BY <1>2, <1>3, <1>4, <1>5 DEF JournalInv

\* What a new connection to the file finds.
LEMMA ReopenedFacts ==
    ASSUME NEW d \in Database
    PROVE  /\ Waits(Reopened(d)) /\ Smooth(Reopened(d))
           /\ Reopened(d).started = {}
           /\ Reopened(d).durable = d.durable
<1> DEFINE r == Reopened(d)
<1>1. /\ r \in Database
      /\ r.started = {} /\ r.pending = {} /\ r.switched = FALSE /\ r.explicit = FALSE
      /\ r.mode = r.file /\ r.durable = d.durable
  BY JournalModeAssumption DEF Reopened, Database
<1> HIDE DEF r
<1>2. Waits(r) /\ Smooth(r)
  BY <1>1 DEF Waits, Smooth, Unsaved, Writing
<1> QED
  BY <1>1, <1>2 DEF r

LEMMA InvStep == JournalInv /\ [Next]_vars => JournalInv'
<1> SUFFICES ASSUME JournalInv, [Next]_vars PROVE JournalInv'
  OBVIOUS
<1>0. /\ TypeOK /\ Kept /\ Waits(db) /\ db \in Database
      /\ stuck \/ Smooth(db)
      /\ Caches(db)
      /\ db.started \subseteq parked
  BY DEF JournalInv, TypeOK, Caches
<1>1. CASE UNCHANGED vars
  BY <1>1
  DEF vars, JournalInv, TypeOK, Waits, Smooth, Unsaved, Writing, Kept, NamesMode,
      FallsBackIfIdle
<1>2. ASSUME NEW m \in Modes, NEW busy \in BOOLEAN, CallSet(m, busy) PROVE JournalInv'
  <2> DEFINE r == SetWalMode(db, m, busy)
  <2>1. Answers(r.db, {m}, "set", m, r.said)
    BY <1>2 DEF CallSet
  <2>2. /\ Leftover(db, r.db, m)
        /\ r.said \in Modes \cup {"throws", "busy"}
        /\ r.said \in Modes => r.said = r.db.mode /\ (r.said # m => Unsaved(r.db))
    BY <1>0, SetFacts
  <2>3. {m} \subseteq Texts
    BY DEF Texts, Pragmas
  <2> HIDE DEF r
  <2> QED
    BY <2>1, <2>2, <2>3, AnswersInv DEF Leftover
<1>3. ASSUME NEW prefer \in BOOLEAN, NEW busy \in BOOLEAN, CallEnable(prefer, busy)
      PROVE  JournalInv'
  <2> DEFINE r == EnableWal(db, prefer, busy)
             texts == IF prefer THEN {"wal2", "wal"} ELSE {"wal"}
  <2>1. Answers(r.db, texts, "enable", "wal", r.said)
    BY <1>3 DEF CallEnable
  <2>2. /\ Waits(r.db)
        /\ r.db.started \subseteq (IF caching THEN db.started \cup texts ELSE {})
        /\ db.durable \subseteq r.db.durable
        /\ Smooth(db) /\ Writing(r.db) = {} => Smooth(r.db)
        /\ r.said \in Modes \cup {"throws", "busy"}
        /\ r.said \in Modes => r.said = r.db.mode
        /\ r.said = "throws" => r.db.explicit \/ r.db.started # {}
    BY <1>0, EnableFacts
  <2>3. texts \subseteq Texts /\ "wal" \in Modes
    BY JournalModeAssumption DEF Texts, Pragmas
  <2> HIDE DEF r, texts
  <2> QED
    BY <2>1, <2>2, <2>3, AnswersInv
<1>4. CASE CallGet
  <2> DEFINE a == Acquired(db, "get")
             e == [a EXCEPT !.started = @ \cup {"get"}]
             d == Released(e, "get")
  <2>1. Answers(d, {"get"}, "get", "none", d.mode)
    BY <1>4 DEF CallGet
  <2>2. "get" \in Pragmas /\ {"get"} \subseteq Texts
    BY DEF Texts, Pragmas
  <2>3. /\ Leftover(db, a, "get") /\ Waits(a) /\ a \in Database
        /\ Smooth(db) => Smooth(a)
        /\ ~caching => a = db /\ a.started = {}
    BY <1>0, <2>2, AcquiredFacts DEF Leftover, Waits, Caches
  <2> HIDE DEF a
  <2>4. /\ e \in Database
        /\ e.started = a.started \cup {"get"}
        /\ e.mode = a.mode /\ e.file = a.file /\ e.explicit = a.explicit
        /\ e.pending = a.pending /\ e.switched = a.switched /\ e.durable = a.durable
    BY <2>2, <2>3 DEF Database
  <2> HIDE DEF e
  <2>5. d = IF caching THEN e ELSE Halt(e, {"get"})
    BY DEF Released
  <2> HIDE DEF d
  <2>6. d.mode \in Modes
    BY <2>3, <2>4, <2>5, HaltFacts, JournalModeAssumption DEF Database
  <2>7. d.started \subseteq (IF caching THEN db.started \cup {"get"} ELSE {})
    BY <2>3, <2>4, <2>5, HaltFacts DEF Leftover
  <2>8. db.durable \subseteq d.durable
    BY <2>3, <2>4, <2>5, HaltFacts DEF Leftover
  <2>9. CASE caching
    <3>1. "get" \in Writing(d)
      BY <2>2, <2>4, <2>5, <2>9 DEF Writing
    <3>2. Waits(d)
      BY <2>4, <2>5, <2>9, <3>1 DEF Waits
    <3> QED
      BY <2>1, <2>2, <2>6, <2>7, <2>8, <3>1, <3>2, AnswersInv
  <2>10. CASE ~caching
    <3>1. Waits(d)
      BY <2>4, <2>5, <2>10, HaltFacts
    <3>2. ASSUME Smooth(db) PROVE Smooth(d)
      <4>1. Smooth(a)
        BY <2>3, <3>2
      <4>2. d.mode = e.mode /\ Writing(d) = {} /\ d.switched = FALSE /\ d.file = e.file
        BY <2>3, <2>4, <2>5, <2>10, <4>1 DEF Halt, Committed, Writing, Smooth, Database
      <4> QED
        BY <2>4, <4>1, <4>2 DEF Smooth
    <3> QED
      BY <2>1, <2>2, <2>6, <2>7, <2>8, <3>1, <3>2, AnswersInv
  <2> QED
    BY <2>9, <2>10
<1>5. ASSUME NEW w \in Writes, Insert(w) PROVE JournalInv'
  <2> DEFINE d == [db EXCEPT !.pending = @ \cup {w}]
             h == Halt(d, {})
  <2>1. /\ d \in Database
        /\ d.started = db.started /\ d.mode = db.mode /\ d.file = db.file
        /\ d.explicit = db.explicit /\ d.switched = db.switched
        /\ d.durable = db.durable /\ w \in d.pending
    BY <1>0 DEF Database
  <2>2. /\ Leaves(h, parked)
        /\ told' = IF db.explicit THEN told ELSE told \cup {w}
        /\ UNCHANGED <<caching, promised, refused, stuck>>
    BY <1>5 DEF Insert
  <2> HIDE DEF d
  <2>3. /\ Waits(h) /\ h.started \subseteq d.started /\ d.durable \subseteq h.durable
        /\ Smooth(d) => Smooth(h)
    BY <2>1, HaltFacts
  <2>4. Smooth(db) => Smooth(d)
    BY <2>1 DEF Smooth, Writing
  <2>5. Smooth(db) /\ ~db.explicit => w \in h.durable
    BY <2>1 DEF Smooth, Writing, Halt, Committed, Database
  <2> HIDE DEF h
  <2>6. told' \subseteq Writes /\ promised' \subseteq h.durable
    BY <1>0, <2>1, <2>2, <2>3 DEF TypeOK, Kept
  <2>7. stuck \/ (told' \subseteq h.durable /\ ~refused')
    BY <1>0, <2>1, <2>2, <2>3, <2>5 DEF Kept
  <2> QED
    BY <1>0, <2>1, <2>2, <2>3, <2>4, <2>6, <2>7, LeavesInv DEF TypeOK
<1>6. ASSUME NEW abandoned \in BOOLEAN, Select(abandoned) PROVE JournalInv'
  <2> DEFINE a == Acquired(db, "select")
             e == [a EXCEPT !.started = @ \cup {"select"}]
             d == IF abandoned THEN Released(e, "select") ELSE a
             p == IF caching THEN parked \cup {"select"} ELSE parked
  <2>1. Leaves(d, p) /\ UNCHANGED <<caching, told, promised, refused, stuck>>
    BY <1>6 DEF Select
  <2>2. "select" \in Texts /\ "select" \notin Pragmas
    BY JournalModeAssumption DEF Texts, Pragmas
  <2>3. /\ a \in Database /\ Waits(a) /\ a.started \subseteq db.started
        /\ db.durable \subseteq a.durable
        /\ Smooth(db) => Smooth(a)
    BY <1>0, HaltFacts DEF Acquired, Waits
  <2> HIDE DEF a
  <2>4. /\ e \in Database
        /\ e.started = a.started \cup {"select"}
        /\ e.mode = a.mode /\ e.file = a.file /\ e.explicit = a.explicit
        /\ e.pending = a.pending /\ e.switched = a.switched /\ e.durable = a.durable
    BY <2>2, <2>3 DEF Database
  <2>5. Writing(e) = Writing(a)
    BY <2>2, <2>4 DEF Writing
  <2>6. Waits(e) /\ (Smooth(a) => Smooth(e))
    BY <2>3, <2>4, <2>5 DEF Waits, Smooth, Unsaved
  <2> HIDE DEF e
  <2>7. d = a \/ (caching /\ d = e) \/ d = Halt(e, {"select"})
    BY DEF Released
  <2>8. /\ Waits(d) /\ (Smooth(db) => Smooth(d)) /\ db.durable \subseteq d.durable
    BY <2>3, <2>4, <2>6, <2>7, HaltFacts
  <2>9. d.started \subseteq p
    BY <1>0, <2>3, <2>4, <2>7, HaltFacts
  <2> HIDE DEF d
  <2> QED
    BY <1>0, <2>1, <2>2, <2>8, <2>9, LeavesInv DEF TypeOK, Kept
<1>7. CASE Begin
  <2> DEFINE d == [db EXCEPT !.explicit = TRUE]
  <2>1. Leaves(d, parked) /\ UNCHANGED <<caching, told, promised, refused, stuck>>
    BY <1>7 DEF Begin
  <2>2. /\ d \in Database /\ d.explicit
        /\ d.started = db.started /\ d.mode = db.mode /\ d.file = db.file
        /\ d.switched = db.switched /\ d.durable = db.durable
    BY <1>0 DEF Database
  <2> HIDE DEF d
  <2>3. Waits(d) /\ (Smooth(db) => Smooth(d))
    BY <2>2 DEF Waits, Smooth, Writing
  <2> QED
    BY <1>0, <2>1, <2>2, <2>3, LeavesInv DEF TypeOK, Kept
<1>8. CASE Commit
  <2>1. CASE Writing(db) # {}
    <3>1. Leaves(db, parked) /\ refused' = TRUE /\ UNCHANGED <<caching, told, promised, stuck>>
      BY <1>8, <2>1 DEF Commit
    <3>2. stuck
      BY <1>0, <2>1 DEF Smooth
    <3> QED
      BY <1>0, <3>1, <3>2, LeavesInv DEF TypeOK, Kept
  <2>2. CASE Writing(db) = {}
    <3> DEFINE c == Committed(db)
    <3>1. /\ Leaves(c, parked)
          /\ promised' = promised \cup db.pending
          /\ UNCHANGED <<caching, told, refused, stuck>>
      BY <1>8, <2>2 DEF Commit
    <3>2. /\ c \in Database
          /\ c.started = db.started /\ c.mode = db.mode
          /\ c.file = (IF db.switched THEN db.mode ELSE db.file)
          /\ c.pending = {} /\ c.switched = FALSE
          /\ c.durable = db.durable \cup db.pending
          /\ db.pending \subseteq Writes
      BY <1>0 DEF Committed, Database
    <3> HIDE DEF c
    <3>3. Waits(c) /\ (Smooth(db) => Smooth(c))
      BY <3>2 DEF Waits, Smooth, Unsaved, Writing
    <3> QED
      BY <1>0, <3>1, <3>2, <3>3, LeavesInv DEF TypeOK, Kept
  <2> QED
    BY <2>1, <2>2
<1>9. CASE Rollback
  <2>1. PICK d \in RolledBack(db) : Leaves(d, parked)
    BY <1>9 DEF Rollback
  <2>2. UNCHANGED <<caching, told, promised, refused, stuck>>
    BY <1>9 DEF Rollback
  <2>3. /\ d \in Database
        /\ d.started = db.started /\ d.file = db.file
        /\ d.mode = db.mode \/ db.switched
        /\ d.pending = {} /\ d.switched = FALSE
        /\ d.durable = db.durable
    BY <1>0 DEF RolledBack, Database
  <2>4. Waits(d) /\ (Smooth(db) => Smooth(d))
    BY <2>3 DEF Waits, Smooth, Unsaved, Writing
  <2> QED
    BY <1>0, <2>1, <2>2, <2>3, <2>4, LeavesInv DEF TypeOK, Kept
<1>10. ASSUME NEW texts \in SUBSET parked, Finalize(texts) PROVE JournalInv'
  <2>1. Leaves(Halt(db, texts), parked \ texts) /\ UNCHANGED <<caching, told, promised, refused, stuck>>
    BY <1>10 DEF Finalize
  <2> QED
    BY <1>0, <2>1, HaltFacts, LeavesInv DEF TypeOK, Kept
<1>11. ASSUME NEW on \in BOOLEAN, Configure(on) PROVE JournalInv'
  <2>1. /\ Leaves(Halt(db, parked), {})
        /\ caching' = on
        /\ UNCHANGED <<told, promised, refused, stuck>>
    BY <1>11 DEF Configure
  <2> QED
    BY <1>0, <2>1, HaltFacts, LeavesInv DEF TypeOK, Kept
<1>12. CASE Reconnect
  <2> DEFINE h == Halt(db, parked)
  <2>1. Leaves(Reopened(h), {}) /\ UNCHANGED <<caching, told, promised, refused, stuck>>
    BY <1>12 DEF Reconnect
  <2>2. h \in Database /\ db.durable \subseteq h.durable
    BY <1>0, HaltFacts DEF Waits
  <2> HIDE DEF h
  <2> QED
    BY <1>0, <2>1, <2>2, ReopenedFacts, LeavesInv DEF TypeOK, Kept
<1>13. CASE Crash
  <2>1. Leaves(Reopened(db), {}) /\ UNCHANGED <<caching, told, promised, refused, stuck>>
    BY <1>13 DEF Crash
  <2> QED
    BY <1>0, <2>1, ReopenedFacts, LeavesInv DEF TypeOK, Kept
<1> QED
  BY <1>1, <1>2, <1>3, <1>4, <1>5, <1>6, <1>7, <1>8, <1>9, <1>10, <1>11, <1>12, <1>13
  DEF Next

LEMMA Invariant == Spec => []JournalInv
  BY InvInit, InvStep, PTL DEF Spec

\* Every variable has its type, and what is in progress is in the cache, in every order
\* of the helpers of snapshot.cpp and the user's calls.
THEOREM TypeCorrect == Spec => []TypeOK
<1>1. JournalInv => TypeOK
  BY DEF JournalInv
<1> QED
  BY <1>1, Invariant, PTL

\* A transaction whose commit() returned is in the file for good; so is a statement of its
\* own, and commit() is never refused, while no PRAGMA has been parked in progress by
\* statement_cache::release.
THEOREM NothingLost == Spec => []Kept
<1>1. JournalInv => Kept
  BY DEF JournalInv
<1> QED
  BY <1>1, Invariant, PTL

\* set_wal_mode, enable_wal and get_wal_mode name the mode that is in force.
THEOREM ModeNamed == Spec => []NamesMode
<1>1. JournalInv => NamesMode
  BY DEF JournalInv
<1> QED
  BY <1>1, Invariant, PTL

\* enable_wal throws only inside a BEGIN or with a statement in progress, although it
\* relies on what a failed attempt for WAL2 leaves behind.
THEOREM FallbackWorks == Spec => []FallsBackIfIdle
<1>1. JournalInv => FallsBackIfIdle
  BY DEF JournalInv
<1> QED
  BY <1>1, Invariant, PTL

\* What the README and the header of transaction promise holds on connections without a
\* statement cache: enable_wal falls back to WAL unless the caller is inside a BEGIN or
\* reads a SELECT, and commit() is never refused for a PRAGMA in progress.
THEOREM PromisesWithoutCache ==
    Spec /\ []~caching => [](FallsBack /\ CommitCommits /\ told \subseteq db.durable)
<1>1. Init => ~stuck
  BY DEF Init
<1>2. JournalInv' /\ ~caching' /\ ~stuck /\ [Next]_vars => ~stuck'
  <2> SUFFICES ASSUME JournalInv', ~caching', ~stuck, [Next]_vars PROVE ~stuck'
    OBVIOUS
  <2>1. Writing(db') = {}
    BY DEF JournalInv, TypeOK, Writing
  <2>2. CASE \E d, texts, kind, asked, said : Answers(d, texts, kind, asked, said)
    BY <2>1, <2>2 DEF Answers
  <2>3. CASE UNCHANGED stuck
    BY <2>3
  <2> QED
    BY <2>2, <2>3
    DEF Next, vars, CallSet, CallEnable, CallGet, Insert, Select, Begin, Commit, Rollback,
        Finalize, Configure, Reconnect, Crash
<1>3. JournalInv /\ ~caching /\ ~stuck => FallsBack /\ CommitCommits /\ told \subseteq db.durable
  BY DEF JournalInv, TypeOK, Kept, FallsBackIfIdle, FallsBack, CommitCommits
<1> QED
  BY <1>1, <1>2, <1>3, Invariant, PTL DEF Spec
=============================================================================
