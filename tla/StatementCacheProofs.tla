------------------------ MODULE StatementCacheProofs ------------------------
(***************************************************************************)
(* Theorems about the statement cache, for every number of commands, SQL   *)
(* texts, statements and configurations, whenever reset() runs.            *)
(***************************************************************************)
EXTENDS StatementCache, SequenceTheorems, TLAPS

Entries == [sql : Sqls, stmt : Stmts]

-----------------------------------------------------------------------------
(* Sequences: what erase, push_front and pop_back do to a list *)

\* erase removes the i-th element and closes the gap.
LEMMA EraseProperties ==
    ASSUME NEW S, NEW s \in Seq(S), NEW i \in 1..Len(s)
    PROVE  /\ Erase(s, i) \in Seq(S)
           /\ Len(Erase(s, i)) = Len(s) - 1
           /\ \A j \in 1..(Len(s) - 1) :
                 Erase(s, i)[j] = IF j < i THEN s[j] ELSE s[j + 1]
<1> DEFINE n == Len(s)
           a == SubSeq(s, 1, i - 1)
           b == SubSeq(s, i + 1, n)
           r == a \o b
<1>1. n \in Nat /\ i \in Int /\ 1 <= i /\ i <= n
  OBVIOUS
<1>2. \A j \in 1..n : s[j] \in S
  OBVIOUS
<1>3. /\ a \in Seq(S)
      /\ Len(a) = IF 1 <= i - 1 THEN (i - 1) - 1 + 1 ELSE 0
      /\ \A j \in 1..((i - 1) - 1 + 1) : a[j] = s[1 + j - 1]
  <2>1. \A j \in 1..(i - 1) : s[j] \in S
    BY <1>1, <1>2
  <2> QED
    BY <1>1, <2>1, SubSeqProperties
<1>4. /\ b \in Seq(S)
      /\ Len(b) = IF i + 1 <= n THEN n - (i + 1) + 1 ELSE 0
      /\ \A j \in 1..(n - (i + 1) + 1) : b[j] = s[(i + 1) + j - 1]
  <2>1. \A j \in (i + 1)..n : s[j] \in S
    BY <1>1, <1>2
  <2> QED
    BY <1>1, <2>1, SubSeqProperties
<1> HIDE DEF a, b
<1>5. Len(a) = i - 1 /\ Len(b) = n - i
  BY <1>1, <1>3, <1>4
<1>6. /\ r \in Seq(S)
      /\ Len(r) = Len(a) + Len(b)
      /\ \A j \in 1..(Len(a) + Len(b)) :
            r[j] = IF j <= Len(a) THEN a[j] ELSE b[j - Len(a)]
  BY <1>3, <1>4, ConcatProperties
<1>7. Erase(s, i) = r
  BY DEF Erase, a, b
<1> HIDE DEF r, n
<1>8. Len(r) = n - 1
  BY <1>1, <1>5, <1>6
<1>9. ASSUME NEW j \in 1..(n - 1) PROVE r[j] = IF j < i THEN s[j] ELSE s[j + 1]
  <2>1. CASE j < i
    <3>1. j \in 1..(Len(a) + Len(b)) /\ j <= Len(a) /\ j \in 1..((i - 1) - 1 + 1)
      BY <2>1, <1>1, <1>5
    <3>2. r[j] = a[j] /\ a[j] = s[1 + j - 1] /\ 1 + j - 1 = j
      BY <3>1, <1>1, <1>3, <1>6
    <3> QED
      BY <2>1, <3>2
  <2>2. CASE ~(j < i)
    <3> DEFINE k == j - Len(a)
    <3>1. j \in 1..(Len(a) + Len(b)) /\ ~(j <= Len(a))
      BY <2>2, <1>1, <1>5
    <3>2. k \in 1..(n - (i + 1) + 1) /\ (i + 1) + k - 1 = j + 1
      BY <2>2, <1>1, <1>5
    <3>3. r[j] = b[k]
      BY <3>1, <1>6
    <3> HIDE DEF k
    <3>4. b[k] = s[(i + 1) + k - 1]
      BY <3>2, <1>4
    <3> QED
      BY <2>2, <3>2, <3>3, <3>4
  <2> QED
    BY <2>1, <2>2
<1> QED
  BY <1>6, <1>7, <1>8, <1>9 DEF n

\* pop_back of a list that is not empty.
LEMMA PopBackProperties ==
    ASSUME NEW S, NEW s \in Seq(S), s # <<>>
    PROVE  /\ Len(s) \in Nat \ {0}
           /\ PopBack(s) \in Seq(S)
           /\ Len(PopBack(s)) = Len(s) - 1
           /\ \A j \in 1..(Len(s) - 1) : PopBack(s)[j] = s[j]
<1>1. Len(s) \in Nat \ {0}
  OBVIOUS
<1> DEFINE n == Len(s) - 1
<1>2. n \in Nat
  BY <1>1
<1>3. PopBack(s) = SubSeq(s, 1, n) /\ \A j \in 1..n : s[j] \in S
  BY <1>1 DEF PopBack
<1> HIDE DEF n
<1>4. /\ PopBack(s) \in Seq(S)
      /\ Len(PopBack(s)) = IF 1 <= n THEN n - 1 + 1 ELSE 0
      /\ \A j \in 1..(n - 1 + 1) : PopBack(s)[j] = s[1 + j - 1]
  BY <1>2, <1>3, SubSeqProperties
<1>5. Len(PopBack(s)) = n /\ \A j \in 1..n : PopBack(s)[j] = s[j]
  BY <1>2, <1>4
<1> QED
  BY <1>1, <1>4, <1>5 DEF n

\* push_front.
LEMMA PushFrontProperties ==
    ASSUME NEW S, NEW s \in Seq(S), NEW e \in S
    PROVE  /\ PushFront(e, s) \in Seq(S)
           /\ Len(PushFront(e, s)) = Len(s) + 1
           /\ PushFront(e, s)[1] = e
           /\ \A j \in 1..Len(s) : PushFront(e, s)[j + 1] = s[j]
<1>1. <<e>> \in Seq(S) /\ Len(<<e>>) = 1 /\ <<e>>[1] = e /\ Len(s) \in Nat
  OBVIOUS
<1> DEFINE a == <<e>>
           r == a \o s
<1> HIDE DEF a
<1>2. a \in Seq(S) /\ Len(a) = 1 /\ a[1] = e
  BY <1>1 DEF a
<1>3. /\ r \in Seq(S)
      /\ Len(r) = Len(a) + Len(s)
      /\ \A j \in 1..(Len(a) + Len(s)) : r[j] = IF j <= Len(a) THEN a[j] ELSE s[j - Len(a)]
  BY <1>2, ConcatProperties
<1>4. PushFront(e, s) = r
  BY DEF PushFront, a
<1> HIDE DEF r
<1>5. Len(r) = Len(s) + 1 /\ r[1] = e
  BY <1>1, <1>2, <1>3
<1>6. ASSUME NEW j \in 1..Len(s) PROVE r[j + 1] = s[j]
  <2>1. j + 1 \in 1..(Len(a) + Len(s)) /\ ~(j + 1 <= Len(a)) /\ (j + 1) - Len(a) = j
    BY <1>1, <1>2
  <2> QED
    BY <2>1, <1>3
<1> QED
  BY <1>3, <1>4, <1>5, <1>6

-----------------------------------------------------------------------------
(* The inductive invariant *)

\* A command works with a statement compiled from its own text.
TextMatches == \A c \in Commands : stmt[c] # NoStmt => st[stmt[c]].sql = sql[c]

Inv == TypeOK /\ StatementsOwned /\ CacheCoherent /\ TextMatches

\* What the invariant says of the entry at position i.
LEMMA EntryFacts ==
    ASSUME Inv, NEW i \in 1..Len(lru)
    PROVE  /\ lru[i] \in Entries
           /\ lru[i].sql \in Sqls /\ lru[i].stmt \in Stmts
           /\ lru[i].stmt \in Cached /\ lru[i].stmt \in Live
           /\ lru[i].stmt \notin Held
           /\ index[lru[i].sql] = lru[i].stmt
           /\ st[lru[i].stmt].sql = lru[i].sql
           /\ \A c \in Commands : stmt[c] # lru[i].stmt
<1>0. lru \in Seq(Entries)
  BY DEF Inv, TypeOK, Entries
<1>1. lru[i] \in Entries
  BY <1>0
<1>2. lru[i].sql \in Sqls /\ lru[i].stmt \in Stmts
  BY <1>1 DEF Entries
<1>3. lru[i].stmt \in Cached
  BY DEF Cached
<1>4. lru[i].stmt \in Live /\ lru[i].stmt \notin Held
  BY <1>3 DEF Inv, StatementsOwned
<1>5. \A c \in Commands : stmt[c] # lru[i].stmt
  BY <1>2, <1>4 DEF Held
<1> QED
  BY <1>1, <1>2, <1>3, <1>4, <1>5 DEF Inv, CacheCoherent

\* What the invariant says of the statement a command holds.
LEMMA HolderFacts ==
    ASSUME Inv, NEW c \in Commands, stmt[c] # NoStmt
    PROVE  /\ stmt[c] \in Stmts
           /\ stmt[c] \in Held /\ stmt[c] \in Live /\ stmt[c] \notin Cached
           /\ sql[c] \in Sqls
           /\ st[stmt[c]].sql = sql[c]
           /\ \A d \in Commands : stmt[d] = stmt[c] => d = c
<1>1. stmt[c] \in Stmts
  BY DEF Inv, TypeOK
<1>2. stmt[c] \in Held
  BY <1>1 DEF Held
<1>3. sql[c] \in Sqls
  BY DEF Inv, TypeOK, Releasing
<1> QED
  BY <1>1, <1>2, <1>3 DEF Inv, StatementsOwned, TextMatches

LEMMA InvInit == Init => Inv
<1> SUFFICES ASSUME Init PROVE Inv
  OBVIOUS
<1> USE CacheAssumption
<1>1. TypeOK
  <2>1. config \in [enabled : BOOLEAN, capacity : Nat] /\ lru \in Seq(Entries)
    BY DEF Init
  <2>2. \A c \in Commands : /\ pc[c] = "none" /\ sql[c] = NoSql
                            /\ pc[c] \notin {"ready"} \cup Releasing /\ stmt[c] = NoStmt
    BY DEF Init, Releasing
  <2>3. /\ st \in [Stmts -> [sql : Sqls \cup {NoSql}, bound : BOOLEAN, active : BOOLEAN]]
        /\ pc \in [Commands -> PCs]
    BY DEF Init, Finalized, PCs
  <2> QED
    BY <2>1, <2>2, <2>3 DEF Init, TypeOK, Entries
<1>2. StatementsOwned
  BY DEF Init, StatementsOwned, Live, Cached, Held, Finalized
<1>3. CacheCoherent /\ TextMatches
  BY DEF Init, CacheCoherent, TextMatches
<1> QED
  BY <1>1, <1>2, <1>3 DEF Inv

\* A step that touches neither the statements nor who owns them.
LEMMA SameOwners ==
    ASSUME Inv, TypeOK', UNCHANGED <<lru, index, stmt>>,
           \A s \in Stmts : st'[s].sql = st[s].sql,
           \A c \in Commands : stmt[c] # NoStmt => sql'[c] = sql[c]
    PROVE  Inv'
<1>1. Cached' = Cached /\ Held' = Held /\ Live' = Live
  BY DEF Cached, Held, Live
<1>2. StatementsOwned'
  BY <1>1 DEF Inv, StatementsOwned
<1>3. CacheCoherent'
  BY <1>1, EntryFacts DEF Inv, CacheCoherent
<1>4. TextMatches'
  BY HolderFacts DEF Inv, TextMatches
<1> QED
  BY <1>2, <1>3, <1>4 DEF Inv

\* A step that empties the cache and leaves the commands' statements alone.
LEMMA EmptyCacheInv ==
    ASSUME Inv, TypeOK', EmptyCache, UNCHANGED stmt,
           \A c \in Commands : stmt[c] # NoStmt => sql'[c] = sql[c]
    PROVE  Inv' /\ Live' = Held
<1>1. Cached' = {} /\ Held' = Held
  BY DEF EmptyCache, Cached, Held
<1>2. Live' = Live \ Cached
  BY DEF EmptyCache, Live, Finalized
<1>3. StatementsOwned' /\ Live' = Held
  BY <1>1, <1>2 DEF Inv, StatementsOwned, EmptyCache
<1>4. CacheCoherent'
  BY <1>1 DEF EmptyCache, CacheCoherent
<1>5. TextMatches'
  <2>1. ASSUME NEW c \in Commands, stmt[c] # NoStmt PROVE st'[stmt[c]] = st[stmt[c]]
    BY <2>1, HolderFacts DEF EmptyCache
  <2> QED
    BY <2>1, HolderFacts DEF TextMatches
<1> QED
  BY <1>3, <1>4, <1>5 DEF Inv

\* A command that finalizes its statement and goes.
LEMMA FinalizeInv ==
    ASSUME Inv, NEW c \in Commands, stmt[c] # NoStmt,
           st' = [st EXCEPT ![stmt[c]] = Finalized], Gone(c),
           UNCHANGED <<lru, index>>, TypeOK'
    PROVE  Inv'
<1> USE CacheAssumption
<1>0. st \in [Stmts -> [sql : Sqls \cup {NoSql}, bound : BOOLEAN, active : BOOLEAN]]
      /\ stmt \in [Commands -> Stmts \cup {NoStmt}]
      /\ sql \in [Commands -> Sqls \cup {NoSql}]
  BY DEF Inv, TypeOK
<1>1. /\ Cached' = Cached
      /\ Held' = Held \ {stmt[c]}
      /\ Live' = Live \ {stmt[c]}
  BY <1>0, HolderFacts DEF Gone, Cached, Held, Live, Finalized
<1>2. StatementsOwned'
  BY <1>0, <1>1, HolderFacts DEF Inv, StatementsOwned, Gone
<1>3. CacheCoherent'
  BY <1>0, <1>1, HolderFacts, EntryFacts DEF Inv, CacheCoherent
<1>4. TextMatches'
  BY <1>0, HolderFacts DEF Inv, TextMatches, Gone
<1> QED
  BY <1>2, <1>3, <1>4 DEF Inv

-----------------------------------------------------------------------------
(* The steps that move entries in and out of the list *)

\* A checkout moves one statement from the cache to the command.
LEMMA LookupHitInv ==
    ASSUME Inv, NEW c \in Commands, LookupHit(c)
    PROVE  Inv'
<1> USE CacheAssumption
<1>0. /\ st \in [Stmts -> [sql : Sqls \cup {NoSql}, bound : BOOLEAN, active : BOOLEAN]]
      /\ stmt \in [Commands -> Stmts \cup {NoStmt}]
      /\ sql \in [Commands -> Sqls \cup {NoSql}]
      /\ pc \in [Commands -> PCs]
      /\ index \in [Sqls -> Stmts \cup {NoStmt}]
      /\ lru \in Seq(Entries)
      /\ stmt[c] = NoStmt
      /\ sql[c] \in Sqls
  BY DEF Inv, TypeOK, Releasing, Entries, LookupHit
<1>1. PICK i \in 1..Len(lru) :
          /\ lru[i].stmt = index[sql[c]]
          /\ lru' = Erase(lru, i)
          /\ st' = [st EXCEPT ![lru[i].stmt] =
                        [@ EXCEPT !.active = FALSE, !.bound = FALSE]]
          /\ stmt' = [stmt EXCEPT ![c] = lru[i].stmt]
  BY DEF LookupHit
<1> DEFINE s == lru[i].stmt
<1>2. /\ lru' \in Seq(Entries)
      /\ Len(lru) \in Nat
      /\ Len(lru') = Len(lru) - 1
      /\ \A j \in 1..(Len(lru) - 1) : lru'[j] = IF j < i THEN lru[j] ELSE lru[j + 1]
  BY <1>0, <1>1, EraseProperties
<1>3. ASSUME NEW j \in 1..Len(lru')
      PROVE  \E k \in 1..Len(lru) : k # i /\ lru'[j] = lru[k]
                                    /\ k = IF j < i THEN j ELSE j + 1
  BY <1>2
<1>4. ASSUME NEW k \in 1..Len(lru), k # i
      PROVE  \E j \in 1..Len(lru') : lru'[j] = lru[k]
  <2>1. CASE k < i
    BY <2>1, <1>2
  <2>2. CASE k > i
    <3>1. k - 1 \in 1..Len(lru') /\ ~(k - 1 < i) /\ (k - 1) + 1 = k
      BY <2>2, <1>2
    <3> QED
      BY <3>1, <1>2
  <2> QED
    BY <2>1, <2>2, <1>4
<1>5. /\ s \in Stmts /\ s \in Cached /\ s \in Live /\ s \notin Held
      /\ st[s].sql = sql[c] /\ lru[i].sql = sql[c]
      /\ \A k \in 1..Len(lru) : lru[k].stmt = s => k = i
  <2>1. s \in Stmts /\ s \in Cached /\ s \in Live /\ s \notin Held
        /\ st[s].sql = lru[i].sql
    BY EntryFacts
  <2>2. PICK k \in 1..Len(lru) : lru[k].sql = sql[c] /\ lru[k].stmt = s
    BY <1>0, <1>1, <2>1 DEF Inv, CacheCoherent
  <2>3. \A j \in 1..Len(lru) : lru[j].stmt = s => j = i
    BY DEF Inv, StatementsOwned
  <2> QED
    BY <2>1, <2>2, <2>3
<1> HIDE DEF s
<1>6. TypeOK'
  <2>1. st' \in [Stmts -> [sql : Sqls \cup {NoSql}, bound : BOOLEAN, active : BOOLEAN]]
    <3>1. st[s] \in [sql : Sqls \cup {NoSql}, bound : BOOLEAN, active : BOOLEAN]
      BY <1>0, <1>5
    <3>2. [st[s] EXCEPT !.active = FALSE, !.bound = FALSE]
             \in [sql : Sqls \cup {NoSql}, bound : BOOLEAN, active : BOOLEAN]
      BY <3>1
    <3>3. st' = [st EXCEPT ![s] = [st[s] EXCEPT !.active = FALSE, !.bound = FALSE]]
      BY <1>1 DEF s
    <3> QED
      BY <1>0, <3>2, <3>3
  <2>2. stmt' \in [Commands -> Stmts \cup {NoStmt}] /\ stmt'[c] # NoStmt
    BY <1>0, <1>1, <1>5 DEF s
  <2>3. pc' \in [Commands -> PCs] /\ pc'[c] = "ready"
    BY <1>0 DEF LookupHit, Goto, PCs, Releasing
  <2>4. index' \in [Sqls -> Stmts \cup {NoStmt}]
    BY <1>0 DEF LookupHit
  <2> QED
    BY <1>0, <1>1, <1>2, <2>1, <2>2, <2>3, <2>4
    DEF Inv, TypeOK, LookupHit, Goto, Entries
<1>7. \A x \in Stmts : st'[x].sql = st[x].sql
  BY <1>0, <1>1
<1>8. Live' = Live
  BY <1>7 DEF Live
<1>9. Held' = Held \cup {s}
  BY <1>0, <1>1, <1>5 DEF Held, s
<1>10. Cached' = Cached \ {s}
  <2>1. Cached' \subseteq Cached \ {s}
    BY <1>3, <1>5 DEF Cached
  <2>2. Cached \ {s} \subseteq Cached'
    BY <1>4 DEF Cached, s
  <2> QED
    BY <2>1, <2>2
<1>11. StatementsOwned'
  <2>1. Live' = Cached' \cup Held' /\ Cached' \cap Held' = {}
    BY <1>5, <1>8, <1>9, <1>10 DEF Inv, StatementsOwned
  <2>2. \A d \in Commands : stmt[d] # s
    BY <1>5 DEF Held
  <2>3. \A d, e \in Commands : stmt'[d] # NoStmt /\ stmt'[d] = stmt'[e] => d = e
    BY <1>0, <1>1, <2>2 DEF Inv, StatementsOwned, s
  <2>4. \A j, k \in 1..Len(lru') : lru'[j].stmt = lru'[k].stmt => j = k
    <3>1. ASSUME NEW j \in 1..Len(lru'), NEW k \in 1..Len(lru'),
                 lru'[j].stmt = lru'[k].stmt
          PROVE  j = k
      <4> DEFINE J == IF j < i THEN j ELSE j + 1
                 K == IF k < i THEN k ELSE k + 1
      <4>1. J \in 1..Len(lru) /\ lru'[j] = lru[J]
        BY <1>3
      <4>2. K \in 1..Len(lru) /\ lru'[k] = lru[K]
        BY <1>3
      <4>3. J = K
        BY <3>1, <4>1, <4>2 DEF Inv, StatementsOwned
      <4> QED
        BY <4>3, <1>2
    <3> QED
      BY <3>1
  <2> QED
    BY <2>1, <2>3, <2>4 DEF StatementsOwned
<1>12. CacheCoherent'
  <2>0. index' = [index EXCEPT ![sql[c]] = NoStmt]
    BY DEF LookupHit
  <2>1. ASSUME NEW k \in 1..Len(lru), k # i
        PROVE  /\ lru[k].sql \in Sqls /\ lru[k].sql # sql[c]
               /\ index[lru[k].sql] = lru[k].stmt
               /\ lru[k].stmt \in Stmts /\ st[lru[k].stmt].sql = lru[k].sql
    BY <2>1, <1>1, <1>5, EntryFacts DEF s
  <2>2. \A j \in 1..Len(lru') : /\ index'[lru'[j].sql] = lru'[j].stmt
                                /\ st'[lru'[j].stmt].sql = lru'[j].sql
    BY <1>0, <1>3, <1>7, <2>0, <2>1
  <2>3. ASSUME NEW q \in Sqls, index'[q] # NoStmt
        PROVE  \E j \in 1..Len(lru') : lru'[j].sql = q /\ lru'[j].stmt = index'[q]
    <3>1. q # sql[c] /\ index'[q] = index[q] /\ index[q] # NoStmt
      BY <1>0, <2>0, <2>3
    <3>2. PICK k \in 1..Len(lru) : lru[k].sql = q /\ lru[k].stmt = index[q]
      BY <3>1 DEF Inv, CacheCoherent
    <3>3. k # i
      BY <3>1, <3>2, <1>5
    <3> QED
      BY <3>1, <3>2, <3>3, <1>4
  <2> QED
    BY <2>2, <2>3 DEF CacheCoherent
<1>13. TextMatches'
  BY <1>0, <1>1, <1>5, <1>7, HolderFacts DEF TextMatches, LookupHit, s
<1> QED
  BY <1>6, <1>11, <1>12, <1>13 DEF Inv

\* What release() does to the cache when it keeps the statement of c: the new
\* entry goes in front of rest, a beginning of the list without this text; the
\* map leads to these entries, and what left the list is finalized.
Parks(c, rest) ==
    /\ lru' = PushFront(Entry(c), rest)
    /\ \A j \in 1..Len(rest) : /\ j \in 1..Len(lru)
                               /\ rest[j] = lru[j]
                               /\ rest[j].sql # sql[c]
                               /\ index'[rest[j].sql] = rest[j].stmt
    /\ index'[sql[c]] = stmt[c]
    /\ \A q \in Sqls \ {sql[c]} : index'[q] # NoStmt =>
          \E j \in 1..Len(rest) : rest[j].sql = q /\ rest[j].stmt = index'[q]
    /\ \A s \in Stmts :
          \/ /\ st'[s] = st[s]
             /\ s \in Live \ Held => \E j \in 1..Len(rest) : rest[j].stmt = s
          \/ /\ st'[s] = Finalized
             /\ s \notin Held
             /\ \A j \in 1..Len(rest) : rest[j].stmt # s

LEMMA ParkInv ==
    ASSUME Inv, NEW c \in Commands, stmt[c] # NoStmt, TypeOK', Gone(c),
           NEW rest \in Seq(Entries), Parks(c, rest)
    PROVE  Inv'
<1> USE CacheAssumption
<1>0. /\ stmt \in [Commands -> Stmts \cup {NoStmt}]
      /\ sql \in [Commands -> Sqls \cup {NoSql}]
      /\ Len(rest) \in Nat
  BY DEF Inv, TypeOK
<1>1. Entry(c) \in Entries /\ Entry(c).sql = sql[c] /\ Entry(c).stmt = stmt[c]
  BY HolderFacts DEF Entry, Entries
<1>2. /\ Len(lru') = Len(rest) + 1
      /\ lru'[1] = Entry(c)
      /\ \A j \in 1..Len(rest) : lru'[j + 1] = rest[j]
  <2>1. \A e \in Entries :
           /\ Len(PushFront(e, rest)) = Len(rest) + 1
           /\ PushFront(e, rest)[1] = e
           /\ \A j \in 1..Len(rest) : PushFront(e, rest)[j + 1] = rest[j]
    BY PushFrontProperties
  <2>2. lru' = PushFront(Entry(c), rest)
    BY DEF Parks
  <2> QED
    BY <1>1, <2>1, <2>2
<1>3. ASSUME NEW j \in 1..Len(lru'), j # 1
      PROVE  j - 1 \in 1..Len(rest) /\ lru'[j] = rest[j - 1]
  BY <1>0, <1>2, <1>3
<1>3a. ASSUME NEW j \in 1..Len(rest)
       PROVE  j + 1 \in 1..Len(lru') /\ lru'[j + 1] = rest[j]
  BY <1>0, <1>2
<1>4. ASSUME NEW j \in 1..Len(rest)
      PROVE  /\ rest[j].stmt \in Cached /\ rest[j].stmt \in Live
             /\ rest[j].stmt \in Stmts /\ rest[j].stmt \notin Held
             /\ rest[j].sql \in Sqls
             /\ st[rest[j].stmt].sql = rest[j].sql
             /\ rest[j].stmt # stmt[c]
             /\ st'[rest[j].stmt] = st[rest[j].stmt]
  <2>1. rest[j] = lru[j] /\ j \in 1..Len(lru)
    BY DEF Parks
  <2>2. /\ rest[j].stmt \in Cached /\ rest[j].stmt \in Live
        /\ rest[j].stmt \in Stmts /\ rest[j].stmt \notin Held
        /\ rest[j].sql \in Sqls
        /\ st[rest[j].stmt].sql = rest[j].sql
        /\ rest[j].stmt # stmt[c]
    BY <2>1, EntryFacts
  <2>3. st'[rest[j].stmt] = st[rest[j].stmt]
    BY <2>2 DEF Parks
  <2> QED
    BY <2>2, <2>3
<1>5. stmt' = [stmt EXCEPT ![c] = NoStmt] /\ sql' = [sql EXCEPT ![c] = NoSql]
  BY DEF Gone
<1>6. Held' = Held \ {stmt[c]}
  BY <1>0, <1>5, HolderFacts DEF Held
<1>7. \A s \in Held : s \in Stmts /\ st'[s] = st[s]
  BY DEF Held, Parks
<1>8. Cached' = {stmt[c]} \cup {rest[j].stmt : j \in 1..Len(rest)}
  <2>1. Cached' \subseteq {stmt[c]} \cup {rest[j].stmt : j \in 1..Len(rest)}
    BY <1>1, <1>2, <1>3 DEF Cached
  <2>2. stmt[c] \in Cached'
    BY <1>0, <1>1, <1>2 DEF Cached
  <2>3. \A j \in 1..Len(rest) : rest[j].stmt \in Cached'
    BY <1>3a DEF Cached
  <2> QED
    BY <2>1, <2>2, <2>3
<1>9. Live' = Cached' \cup Held'
  <2>1. ASSUME NEW s \in Live' PROVE s \in Cached' \cup Held'
    <3>1. s \in Stmts /\ st'[s] = st[s] /\ s \in Live
      BY <2>1 DEF Live, Finalized, Parks
    <3>2. s \in Held \/ \E j \in 1..Len(rest) : rest[j].stmt = s
      <4>1. CASE st'[s] = Finalized
        BY <4>1, <2>1 DEF Live, Finalized
      <4>2. CASE st'[s] # Finalized
        BY <4>2, <3>1 DEF Parks
      <4> QED
        BY <4>1, <4>2
    <3> QED
      BY <3>1, <3>2, <1>6, <1>8
  <2>2. Held' \subseteq Live' /\ stmt[c] \in Live'
    BY <1>6, <1>7, HolderFacts DEF Inv, StatementsOwned, Live
  <2>3. \A j \in 1..Len(rest) : rest[j].stmt \in Live'
    BY <1>4 DEF Live
  <2> QED
    BY <2>1, <2>2, <2>3, <1>8
<1>10. StatementsOwned'
  <2>1. Cached' \cap Held' = {}
    BY <1>4, <1>6, <1>8
  <2>2. \A d, e \in Commands : stmt'[d] # NoStmt /\ stmt'[d] = stmt'[e] => d = e
    BY <1>0, <1>5 DEF Inv, StatementsOwned
  <2>3. ASSUME NEW j \in 1..Len(lru'), NEW k \in 1..Len(lru'),
               lru'[j].stmt = lru'[k].stmt
        PROVE  j = k
    <3>1. CASE j = 1 /\ k # 1
      BY <3>1, <2>3, <1>1, <1>2, <1>3, <1>4
    <3>2. CASE j # 1 /\ k = 1
      BY <3>2, <2>3, <1>1, <1>2, <1>3, <1>4
    <3>3. CASE j # 1 /\ k # 1
      <4>1. /\ j - 1 \in 1..Len(lru) /\ lru'[j] = lru[j - 1]
            /\ k - 1 \in 1..Len(lru) /\ lru'[k] = lru[k - 1]
        BY <3>3, <1>3 DEF Parks
      <4>2. j - 1 = k - 1
        BY <4>1, <2>3 DEF Inv, StatementsOwned
      <4> QED
        BY <4>2, <1>0, <1>2
    <3> QED
      BY <3>1, <3>2, <3>3
  <2> QED
    BY <1>9, <2>1, <2>2, <2>3 DEF StatementsOwned
<1>11. CacheCoherent'
  <2>1. ASSUME NEW j \in 1..Len(lru')
        PROVE  /\ index'[lru'[j].sql] = lru'[j].stmt
               /\ st'[lru'[j].stmt].sql = lru'[j].sql
    <3>1. CASE j = 1
      BY <3>1, <1>1, <1>2, <1>7, HolderFacts DEF Parks
    <3>2. CASE j # 1
      BY <3>2, <1>3, <1>4 DEF Parks
    <3> QED
      BY <3>1, <3>2
  <2>2. ASSUME NEW q \in Sqls, index'[q] # NoStmt
        PROVE  \E j \in 1..Len(lru') : lru'[j].sql = q /\ lru'[j].stmt = index'[q]
    <3>1. CASE q = sql[c]
      <4>1. 1 \in 1..Len(lru')
        BY <1>0, <1>2
      <4> QED
        BY <3>1, <4>1, <1>1, <1>2 DEF Parks
    <3>2. CASE q # sql[c]
      BY <3>2, <2>2, <1>3a DEF Parks
    <3> QED
      BY <3>1, <3>2
  <2> QED
    BY <2>1, <2>2 DEF CacheCoherent
<1>12. TextMatches'
  BY <1>0, <1>5, <1>7, HolderFacts DEF TextMatches
<1> QED
  BY <1>10, <1>11, <1>12 DEF Inv

LEMMA StoreInv ==
    ASSUME Inv, NEW c \in Commands, Store(c)
    PROVE  Inv'
<1> USE CacheAssumption
<1>0. /\ lru \in Seq(Entries)
      /\ index \in [Sqls -> Stmts \cup {NoStmt}]
      /\ stmt[c] # NoStmt /\ stmt[c] \in Stmts /\ sql[c] \in Sqls
      /\ Entry(c) \in Entries
  BY DEF Inv, TypeOK, Releasing, Entries, Store, Entry
<1>1. lru' \in Seq(Entries)
  BY <1>0, PushFrontProperties DEF Store
<1>2. index' = [index EXCEPT ![sql[c]] = stmt[c]] /\ index[sql[c]] = NoStmt
  BY DEF Store
<1>3. TypeOK'
  BY <1>0, <1>1, <1>2 DEF Inv, TypeOK, Store, Gone, Goto, PCs, Releasing, Entries
<1>4. ASSUME NEW j \in 1..Len(lru)
      PROVE  /\ lru[j].sql # sql[c]
             /\ index'[lru[j].sql] = lru[j].stmt
  BY <1>0, <1>2, EntryFacts
<1>5. \A q \in Sqls \ {sql[c]} : index'[q] # NoStmt =>
         \E j \in 1..Len(lru) : lru[j].sql = q /\ lru[j].stmt = index'[q]
  BY <1>0, <1>2 DEF Inv, CacheCoherent
<1>6. \A s \in Live \ Held : \E j \in 1..Len(lru) : lru[j].stmt = s
  BY DEF Inv, StatementsOwned, Cached
<1>7. st' = st /\ Gone(c) /\ lru' = PushFront(Entry(c), lru)
  BY DEF Store
<1>8. index'[sql[c]] = stmt[c]
  BY <1>0, <1>2
<1>9. Parks(c, lru)
  BY <1>4, <1>5, <1>6, <1>7, <1>8 DEF Parks
<1> QED
  BY <1>0, <1>3, <1>7, <1>9, ParkInv

LEMMA StoreEvictInv ==
    ASSUME Inv, NEW c \in Commands, StoreEvict(c)
    PROVE  Inv'
<1> USE CacheAssumption
<1> DEFINE n == Len(lru)
           last == lru[n]
           rest == PopBack(lru)
<1>0. /\ lru \in Seq(Entries)
      /\ index \in [Sqls -> Stmts \cup {NoStmt}]
      /\ st \in [Stmts -> [sql : Sqls \cup {NoSql}, bound : BOOLEAN, active : BOOLEAN]]
      /\ stmt[c] # NoStmt /\ stmt[c] \in Stmts /\ sql[c] \in Sqls
      /\ Entry(c) \in Entries
  BY DEF Inv, TypeOK, Releasing, Entries, StoreEvict, Entry
<1>1. /\ n \in Nat \ {0}
      /\ rest \in Seq(Entries)
      /\ Len(rest) = n - 1
      /\ \A j \in 1..(n - 1) : rest[j] = lru[j]
  BY <1>0, PopBackProperties DEF StoreEvict
<1>2. /\ st' = [st EXCEPT ![last.stmt] = Finalized]
      /\ lru' = PushFront(Entry(c), rest)
      /\ index' = [index EXCEPT ![last.sql] = NoStmt, ![sql[c]] = stmt[c]]
      /\ index[sql[c]] = NoStmt
      /\ Gone(c)
  BY DEF StoreEvict
<1>3. /\ n \in 1..Len(lru)
      /\ last.stmt \in Stmts /\ last.sql \in Sqls
      /\ last.stmt \in Cached /\ last.stmt \notin Held
      /\ index[last.sql] = last.stmt
      /\ last.sql # sql[c]
  BY <1>0, <1>1, <1>2, EntryFacts
<1> HIDE DEF rest, last, n
<1>4. lru' \in Seq(Entries)
  BY <1>0, <1>1, <1>2, PushFrontProperties
<1>5. TypeOK'
  <2>1. index' \in [Sqls -> Stmts \cup {NoStmt}]
    BY <1>0, <1>2
  <2>2. Finalized \in [sql : Sqls \cup {NoSql}, bound : BOOLEAN, active : BOOLEAN]
    BY DEF Finalized
  <2>3. st' \in [Stmts -> [sql : Sqls \cup {NoSql}, bound : BOOLEAN, active : BOOLEAN]]
    BY <1>0, <1>2, <2>2
  <2>4. /\ pc' \in [Commands -> PCs]
        /\ sql' \in [Commands -> Sqls \cup {NoSql}]
        /\ stmt' \in [Commands -> Stmts \cup {NoStmt}]
        /\ \A d \in Commands :
              /\ pc'[d] = "none" <=> sql'[d] = NoSql
              /\ pc'[d] \in {"ready"} \cup Releasing <=> stmt'[d] # NoStmt
    BY <1>2 DEF Inv, TypeOK, Gone, Goto, PCs, Releasing
  <2> QED
    BY <1>4, <2>1, <2>3, <2>4 DEF Inv, TypeOK, StoreEvict, Entries
<1>6. ASSUME NEW j \in 1..Len(rest)
      PROVE  /\ j \in 1..Len(lru) /\ rest[j] = lru[j]
             /\ rest[j].sql \in Sqls
             /\ rest[j].sql # sql[c] /\ rest[j].sql # last.sql
             /\ rest[j].stmt # last.stmt
             /\ index'[rest[j].sql] = rest[j].stmt
  <2>1. j \in 1..Len(lru) /\ rest[j] = lru[j] /\ j # n
    BY <1>1 DEF n
  <2>2. rest[j].stmt # last.stmt
    BY <2>1, <1>3 DEF Inv, StatementsOwned, last
  <2>3. rest[j].sql \in Sqls /\ index[rest[j].sql] = rest[j].stmt /\ rest[j].stmt \in Stmts
    BY <2>1, EntryFacts
  <2> QED
    BY <2>1, <2>2, <2>3, <1>0, <1>2, <1>3
<1>7. ASSUME NEW q \in Sqls \ {sql[c]}, index'[q] # NoStmt
      PROVE  \E j \in 1..Len(rest) : rest[j].sql = q /\ rest[j].stmt = index'[q]
  <2>1. q # last.sql /\ index'[q] = index[q]
    BY <1>0, <1>2, <1>3, <1>7
  <2>2. PICK j \in 1..Len(lru) : lru[j].sql = q /\ lru[j].stmt = index[q]
    BY <2>1, <1>7 DEF Inv, CacheCoherent
  <2>3. j # n
    BY <2>1, <2>2 DEF last
  <2>4. j \in 1..Len(rest) /\ rest[j] = lru[j]
    BY <2>3, <1>1 DEF n
  <2> QED
    BY <2>1, <2>2, <2>4
<1>8. ASSUME NEW s \in Stmts
      PROVE  \/ /\ st'[s] = st[s]
                /\ s \in Live \ Held => \E j \in 1..Len(rest) : rest[j].stmt = s
             \/ /\ st'[s] = Finalized
                /\ s \notin Held
                /\ \A j \in 1..Len(rest) : rest[j].stmt # s
  <2>1. CASE s = last.stmt
    BY <2>1, <1>0, <1>2, <1>3, <1>6
  <2>2. CASE s # last.stmt
    <3>1. st'[s] = st[s]
      BY <2>2, <1>0, <1>2
    <3>2. ASSUME s \in Live, s \notin Held
          PROVE  \E j \in 1..Len(rest) : rest[j].stmt = s
      <4>1. PICK j \in 1..Len(lru) : lru[j].stmt = s
        BY <3>2 DEF Inv, StatementsOwned, Cached
      <4>2. j # n
        BY <4>1, <2>2 DEF last
      <4>3. j \in 1..Len(rest) /\ rest[j] = lru[j]
        BY <4>2, <1>1 DEF n
      <4> QED
        BY <4>1, <4>3
    <3> QED
      BY <3>1, <3>2
  <2> QED
    BY <2>1, <2>2
<1>9. index'[sql[c]] = stmt[c]
  BY <1>0, <1>2
<1>10. Parks(c, rest)
  BY <1>2, <1>6, <1>7, <1>8, <1>9 DEF Parks
<1> QED
  BY <1>0, <1>1, <1>2, <1>5, <1>10, ParkInv

-----------------------------------------------------------------------------
(* Every step preserves the invariant *)

Statements == [sql : Sqls \cup {NoSql}, bound : BOOLEAN, active : BOOLEAN]

\* Binding, stepping and resetting change a held statement's state only.
LEMMA UseInv ==
    ASSUME Inv, NEW c \in Commands, Bind(c) \/ Step(c) \/ Reset(c)
    PROVE  Inv'
<1>0. st \in [Stmts -> Statements] /\ stmt[c] \in Stmts
  BY DEF Inv, TypeOK, Statements, Bind, Step, Reset
<1>1. \A r \in Statements, t \in BOOLEAN :
         /\ [r EXCEPT !.bound = TRUE] \in Statements
         /\ [r EXCEPT !.bound = TRUE].sql = r.sql
         /\ [r EXCEPT !.active = t] \in Statements
         /\ [r EXCEPT !.active = t].sql = r.sql
  BY DEF Statements
<1>2. PICK r \in Statements : r.sql = st[stmt[c]].sql /\ st' = [st EXCEPT ![stmt[c]] = r]
  <2>1. CASE Bind(c)
    BY <1>0, <1>1, <2>1 DEF Bind
  <2>2. CASE Step(c)
    BY <1>0, <1>1, <2>2 DEF Step
  <2>3. CASE Reset(c)
    BY <1>0, <1>1, <2>3 DEF Reset
  <2> QED
    BY <2>1, <2>2, <2>3
<1>4. st' \in [Stmts -> Statements] /\ \A s \in Stmts : st'[s].sql = st[s].sql
  BY <1>0, <1>2
<1>5. UNCHANGED <<con, config, writing, lru, index, pc, sql, stmt, raced>>
  BY DEF Bind, Step, Reset
<1>6. TypeOK'
  BY <1>4, <1>5 DEF Inv, TypeOK, Releasing, Statements
<1> QED
  BY <1>4, <1>5, <1>6, SameOwners

\* A fresh statement goes to the command that prepared it.
LEMMA PrepareInv ==
    ASSUME Inv, NEW c \in Commands, Prepare(c)
    PROVE  Inv'
<1> USE CacheAssumption
<1>0. /\ st \in [Stmts -> Statements]
      /\ stmt \in [Commands -> Stmts \cup {NoStmt}]
      /\ pc \in [Commands -> PCs]
      /\ stmt[c] = NoStmt /\ sql[c] \in Sqls
  BY DEF Inv, TypeOK, Releasing, Statements, Prepare
<1>1. PICK s \in Stmts \ Live : /\ st' = [st EXCEPT ![s] = Compiled(sql[c])]
                                /\ stmt' = [stmt EXCEPT ![c] = s]
  BY DEF Prepare
<1>2. Compiled(sql[c]) \in Statements /\ Compiled(sql[c]).sql = sql[c]
  BY <1>0 DEF Compiled, Statements
<1>3. TypeOK'
  <2>1. st' \in [Stmts -> Statements]
    BY <1>0, <1>1, <1>2
  <2>2. pc' = [pc EXCEPT ![c] = "ready"] /\ pc[c] = "prepare"
    BY DEF Prepare, Goto
  <2> QED
    BY <1>0, <1>1, <2>1, <2>2 DEF Inv, TypeOK, Prepare, Statements, PCs, Releasing
<1>4. s \notin Cached /\ s \notin Held
  BY <1>1 DEF Inv, StatementsOwned
<1>5. lru' = lru /\ index' = index /\ sql' = sql
  BY DEF Prepare
<1>6. /\ Cached' = Cached
      /\ Held' = Held \cup {s}
      /\ Live' = Live \cup {s}
  <2>1. Cached' = Cached
    BY <1>5 DEF Cached
  <2>2. Held' = Held \cup {s}
    BY <1>0, <1>1 DEF Held
  <2>3. Live' = Live \cup {s}
    BY <1>0, <1>1, <1>2 DEF Live
  <2> QED
    BY <2>1, <2>2, <2>3
<1>7. StatementsOwned'
  <2>1. \A d \in Commands : stmt[d] # s
    BY <1>4 DEF Held
  <2>2. \A d, e \in Commands : stmt'[d] # NoStmt /\ stmt'[d] = stmt'[e] => d = e
    BY <1>0, <1>1, <2>1 DEF Inv, StatementsOwned
  <2> QED
    BY <1>4, <1>5, <1>6, <2>2 DEF Inv, StatementsOwned
<1>8. CacheCoherent'
  <2>1. \A i \in 1..Len(lru) : st'[lru[i].stmt] = st[lru[i].stmt]
    BY <1>0, <1>1, <1>4, EntryFacts
  <2> QED
    BY <1>5, <2>1 DEF Inv, CacheCoherent
<1>9. TextMatches'
  <2>1. ASSUME NEW d \in Commands, stmt'[d] # NoStmt PROVE st'[stmt'[d]].sql = sql'[d]
    <3>1. CASE d = c
      BY <3>1, <1>0, <1>1, <1>2, <1>5
    <3>2. CASE d # c
      <4>1. stmt'[d] = stmt[d] /\ stmt[d] # s /\ stmt[d] \in Stmts
        BY <3>2, <2>1, <1>0, <1>1, <1>4 DEF Held
      <4> QED
        BY <4>1, <2>1, <1>0, <1>1, <1>5 DEF Inv, TextMatches
    <3> QED
      BY <3>1, <3>2
  <2> QED
    BY <2>1 DEF TextMatches
<1> QED
  BY <1>3, <1>7, <1>8, <1>9 DEF Inv

\* clear() and reset() keep the types.
LEMMA EmptyCacheTypes ==
    ASSUME TypeOK, EmptyCache
    PROVE  /\ lru' \in Seq([sql : Sqls, stmt : Stmts])
           /\ index' \in [Sqls -> Stmts \cup {NoStmt}]
           /\ st' \in [Stmts -> [sql : Sqls \cup {NoSql}, bound : BOOLEAN, active : BOOLEAN]]
<1>1. Finalized \in [sql : Sqls \cup {NoSql}, bound : BOOLEAN, active : BOOLEAN]
  BY DEF Finalized
<1> QED
  BY <1>1 DEF TypeOK, EmptyCache

LEMMA ConfigureInv ==
    ASSUME Inv, Configure
    PROVE  Inv'
<1> USE CacheAssumption
<1>1. PICK cfg \in Configs :
          /\ writing' = cfg
          /\ \/ config' = [config EXCEPT !.capacity = cfg.capacity]
             \/ config' = [config EXCEPT !.enabled = cfg.enabled]
  BY DEF Configure
<1>2. config \in [enabled : BOOLEAN, capacity : Nat]
  BY DEF Inv, TypeOK
<1>3. cfg.capacity \in Nat /\ cfg.enabled \in BOOLEAN
  BY <1>1
<1>4. config' \in [enabled : BOOLEAN, capacity : Nat]
  BY <1>1, <1>2, <1>3
<1>5. TypeOK'
  BY <1>1, <1>4, EmptyCacheTypes DEF Inv, TypeOK, Configure
<1> QED
  BY <1>5, EmptyCacheInv DEF Configure

LEMMA InvStep == Inv /\ [Next]_vars => Inv'
<1> SUFFICES ASSUME Inv, [Next]_vars PROVE Inv'
  OBVIOUS
<1> USE CacheAssumption
<1>0. TypeOK
  BY DEF Inv
<1>1. CASE UNCHANGED vars
  BY <1>1 DEF vars, Inv, TypeOK, Releasing, StatementsOwned, CacheCoherent, TextMatches,
              Live, Cached, Held
<1>2. ASSUME NEW c \in Commands, Construct(c) PROVE Inv'
  <2>1. TypeOK'
    BY <1>2, <1>0 DEF Construct, Enter, Goto, TypeOK, PCs, Releasing
  <2>2. \A d \in Commands : stmt[d] # NoStmt => sql'[d] = sql[d]
    BY <1>2, <1>0 DEF Construct, TypeOK, Releasing
  <2> QED
    BY <1>2, <2>1, <2>2, SameOwners DEF Construct
<1>3. ASSUME NEW c \in Commands, ConstructDdl(c) PROVE Inv'
  <2>1. TypeOK'
    BY <1>3, <1>0, EmptyCacheTypes DEF ConstructDdl, Goto, TypeOK, PCs, Releasing
  <2>2. \A d \in Commands : stmt[d] # NoStmt => sql'[d] = sql[d]
    BY <1>3, <1>0 DEF ConstructDdl, TypeOK, Releasing
  <2> QED
    BY <1>3, <2>1, <2>2, EmptyCacheInv DEF ConstructDdl
<1>4. ASSUME NEW c \in Commands, TestAcquire(c) PROVE Inv'
  <2>1. TypeOK'
    BY <1>4, <1>0 DEF TestAcquire, Goto, TypeOK, PCs, Releasing
  <2> QED
    BY <1>4, <2>1, SameOwners DEF TestAcquire
<1>5. ASSUME NEW c \in Commands, LookupHit(c) PROVE Inv'
  BY <1>5, LookupHitInv
<1>6. ASSUME NEW c \in Commands, LookupMiss(c) PROVE Inv'
  <2>1. TypeOK'
    BY <1>6, <1>0 DEF LookupMiss, Goto, TypeOK, PCs, Releasing
  <2> QED
    BY <1>6, <2>1, SameOwners DEF LookupMiss
<1>7. ASSUME NEW c \in Commands, Prepare(c) PROVE Inv'
  BY <1>7, PrepareInv
<1>8. ASSUME NEW c \in Commands, PrepareFails(c) PROVE Inv'
  <2>0. stmt[c] = NoStmt /\ stmt' = stmt
    BY <1>8, <1>0 DEF PrepareFails, Gone, TypeOK, Releasing
  <2>1. TypeOK'
    BY <1>8, <1>0, <2>0 DEF PrepareFails, Gone, Goto, TypeOK, PCs, Releasing
  <2>2. \A d \in Commands : stmt[d] # NoStmt => sql'[d] = sql[d]
    BY <1>8, <1>0, <2>0 DEF PrepareFails, Gone, TypeOK
  <2> QED
    BY <1>8, <2>0, <2>1, <2>2, SameOwners DEF PrepareFails
<1>9. ASSUME NEW c \in Commands, Bind(c) \/ Step(c) \/ Reset(c) PROVE Inv'
  BY <1>9, UseInv
<1>a. ASSUME NEW c \in Commands, stmt[c] # NoStmt, Gone(c),
             st' = [st EXCEPT ![stmt[c]] = Finalized],
             UNCHANGED <<con, config, writing, lru, index, raced>>
      PROVE  Inv'
  <2>1. Finalized \in [sql : Sqls \cup {NoSql}, bound : BOOLEAN, active : BOOLEAN]
    BY DEF Finalized
  <2>2. st' \in [Stmts -> [sql : Sqls \cup {NoSql}, bound : BOOLEAN, active : BOOLEAN]]
    BY <1>a, <1>0, <2>1 DEF TypeOK
  <2>3. TypeOK'
    BY <1>a, <1>0, <2>2 DEF TypeOK, Gone, Goto, PCs, Releasing
  <2> QED
    BY <1>a, <2>3, FinalizeInv
<1>10. ASSUME NEW c \in Commands, DestroyDdl(c) PROVE Inv'
  BY <1>10, <1>a, <1>0 DEF DestroyDdl, TypeOK
<1>11. ASSUME NEW c \in Commands, Destroy(c) PROVE Inv'
  <2>1. TypeOK'
    BY <1>11, <1>0 DEF Destroy, Enter, Goto, TypeOK, PCs, Releasing
  <2> QED
    BY <1>11, <2>1, SameOwners DEF Destroy
<1>12. ASSUME NEW c \in Commands, TestRelease(c) PROVE Inv'
  <2>1. TypeOK'
    BY <1>12, <1>0 DEF TestRelease, Goto, TypeOK, PCs, Releasing
  <2> QED
    BY <1>12, <2>1, SameOwners DEF TestRelease
<1>13. ASSUME NEW c \in Commands, ReleaseUncached(c) PROVE Inv'
  BY <1>13, <1>a, <1>0 DEF ReleaseUncached, TypeOK, Releasing
<1>14. ASSUME NEW c \in Commands, StoreDuplicate(c) PROVE Inv'
  BY <1>14, <1>a, <1>0 DEF StoreDuplicate, TypeOK, Releasing
<1>15. ASSUME NEW c \in Commands, Store(c) PROVE Inv'
  BY <1>15, StoreInv
<1>16. ASSUME NEW c \in Commands, StoreEvict(c) PROVE Inv'
  BY <1>16, StoreEvictInv
<1>17. ASSUME NEW c \in Commands, StoreBackOfEmpty(c) PROVE Inv'
  <2>1. TypeOK'
    BY <1>17, <1>0 DEF StoreBackOfEmpty, TypeOK
  <2> QED
    BY <1>17, <2>1, SameOwners DEF StoreBackOfEmpty
<1>18. CASE Configure
  BY <1>18, ConfigureInv
<1>19. CASE ConfigureDone
  <2>1. TypeOK'
    BY <1>19, <1>0 DEF ConfigureDone, TypeOK, Unlocked
  <2> QED
    BY <1>19, <2>1, SameOwners DEF ConfigureDone
<1>20. CASE ClearCache
  <2>1. TypeOK'
    BY <1>20, <1>0, EmptyCacheTypes DEF ClearCache, TypeOK
  <2> QED
    BY <1>20, <2>1, EmptyCacheInv DEF ClearCache
<1>21. CASE Close
  <2>1. TypeOK'
    BY <1>21, <1>0, EmptyCacheTypes DEF Close, TypeOK
  <2> QED
    BY <1>21, <2>1, EmptyCacheInv DEF Close
<1> QED
  BY <1>1, <1>2, <1>3, <1>4, <1>5, <1>6, <1>7, <1>8, <1>9, <1>10, <1>11, <1>12,
     <1>13, <1>14, <1>15, <1>16, <1>17, <1>18, <1>19, <1>20, <1>21
  DEF Next, Acquire, Release

LEMMA InvAlways == Spec => []Inv
BY InvInit, InvStep, PTL DEF Spec

\* Type correctness of the cache and of the commands that use it.
THEOREM TypeCorrect == Spec => []TypeOK
<1>1. Inv => TypeOK
  BY DEF Inv
<1> QED
  BY InvAlways, <1>1, PTL

\* No statement is leaked, shared, finalized twice or used after it was
\* finalized (statement_cache and command::prepare, finalize).
THEOREM OneOwner == Spec => []StatementsOwned
<1>1. Inv => StatementsOwned
  BY DEF Inv
<1> QED
  BY InvAlways, <1>1, PTL

\* lru_ and map_ always describe the same entries (statement_cache).
THEOREM Coherent == Spec => []CacheCoherent
<1>1. Inv => CacheCoherent
  BY DEF Inv
<1> QED
  BY InvAlways, <1>1, PTL

-----------------------------------------------------------------------------
(* The capacity *)

\* While reset() is writing config_ the cache is empty and nobody fills it.
CapInv ==
    /\ CapacityRespected
    /\ ~Unlocked => lru = <<>>

LEMMA CapStep ==
    ASSUME Inv, CapInv, [Next]_vars
    PROVE  CapInv'
<1> USE CacheAssumption
<1>0. lru \in Seq(Entries) /\ config.capacity \in Nat /\ Len(lru) \in Nat
  BY DEF Inv, TypeOK, Entries
<1>1. ASSUME UNCHANGED <<con, config, writing, lru>> PROVE CapInv'
  BY <1>1 DEF CapInv, CapacityRespected, Unlocked
<1>2. ASSUME lru' = <<>>, config' = config PROVE CapInv'
  BY <1>0, <1>2 DEF CapInv, CapacityRespected
<1>3. ASSUME NEW c \in Commands, LookupHit(c) PROVE CapInv'
  <2>1. PICK i \in 1..Len(lru) : lru' = Erase(lru, i)
    BY <1>3 DEF LookupHit
  <2>2. Len(lru') = Len(lru) - 1
    BY <2>1, <1>0, EraseProperties
  <2> QED
    BY <1>0, <1>3, <2>2 DEF LookupHit, CapInv, CapacityRespected, Unlocked
<1>4. ASSUME NEW c \in Commands, Store(c) PROVE CapInv'
  <2>1. Entry(c) \in Entries
    <3>1. stmt[c] # NoStmt
      BY <1>4 DEF Store, Inv, TypeOK, Releasing
    <3>2. sql[c] \in Sqls /\ stmt[c] \in Stmts
      BY <3>1, HolderFacts
    <3> QED
      BY <3>2 DEF Entry, Entries
  <2>2. Len(lru') = Len(lru) + 1
    BY <1>0, <1>4, <2>1, PushFrontProperties DEF Store
  <2> QED
    BY <1>0, <1>4, <2>2 DEF Store, CapInv, CapacityRespected, Unlocked
<1>5. ASSUME NEW c \in Commands, StoreEvict(c) PROVE CapInv'
  <2>1. Entry(c) \in Entries
    <3>1. stmt[c] # NoStmt
      BY <1>5 DEF StoreEvict, Inv, TypeOK, Releasing
    <3>2. sql[c] \in Sqls /\ stmt[c] \in Stmts
      BY <3>1, HolderFacts
    <3> QED
      BY <3>2 DEF Entry, Entries
  <2>2. PopBack(lru) \in Seq(Entries) /\ Len(PopBack(lru)) = Len(lru) - 1
    BY <1>0, <1>5, PopBackProperties DEF StoreEvict
  <2>3. lru' = PushFront(Entry(c), PopBack(lru))
    BY <1>5 DEF StoreEvict
  <2>4. Len(lru') = Len(lru)
    BY <1>0, <2>1, <2>2, <2>3, PushFrontProperties
  <2> QED
    BY <1>0, <1>5, <2>4 DEF StoreEvict, CapInv, CapacityRespected, Unlocked
<1>6. CASE Configure
  <2>1. lru' = <<>> /\ writing' # NoConfig
    BY <1>6 DEF Configure, EmptyCache
  <2> QED
    BY <2>1 DEF CapInv, CapacityRespected, Unlocked
<1>7. CASE ConfigureDone
  <2>1. lru' = <<>> /\ Len(lru') = 0 /\ config' \in Configs
    BY <1>7 DEF ConfigureDone, CapInv, Unlocked, Inv, TypeOK
  <2>2. config'.capacity \in Nat
    BY <2>1
  <2> QED
    BY <2>1, <2>2 DEF CapInv, CapacityRespected
<1>8. ASSUME NEW c \in Commands, Construct(c) \/ ConstructDdl(c) \/ Acquire(c) \/ Bind(c)
                \/ Step(c) \/ Reset(c) \/ DestroyDdl(c) \/ Destroy(c) \/ Release(c)
      PROVE  CapInv'
  <2>1. CASE ConstructDdl(c)
    BY <2>1, <1>2 DEF ConstructDdl, EmptyCache
  <2>2. CASE Acquire(c)
    BY <2>2, <1>1, <1>3 DEF Acquire, TestAcquire, LookupMiss, Prepare, PrepareFails
  <2>3. CASE Release(c)
    <3>1. CASE StoreBackOfEmpty(c)
      BY <3>1 DEF StoreBackOfEmpty, CapInv, CapacityRespected, Unlocked
    <3> QED
      BY <2>3, <3>1, <1>1, <1>4, <1>5 DEF Release, TestRelease, ReleaseUncached, StoreDuplicate
  <2> QED
    BY <1>8, <2>1, <2>2, <2>3, <1>1
    DEF Construct, Bind, Step, Reset, DestroyDdl, Destroy
<1>9. CASE ClearCache
  BY <1>9, <1>2 DEF ClearCache, EmptyCache
<1>10. CASE Close
  BY <1>10, <1>2 DEF Close, EmptyCache
<1>11. CASE UNCHANGED vars
  BY <1>11, <1>1 DEF vars
<1> QED
  BY <1>6, <1>7, <1>8, <1>9, <1>10, <1>11 DEF Next

\* The cache never outgrows its configuration, although release() tests the
\* configuration before it takes the mutex and reset() may run in between.
THEOREM CapacityKept == Spec => []CapacityRespected
<1>1. Init => CapInv
  BY CacheAssumption DEF Init, CapInv, CapacityRespected, Unlocked
<1>2. Inv /\ CapInv /\ [Next]_vars => CapInv'
  BY CapStep
<1>3. CapInv => CapacityRespected
  BY DEF CapInv
<1> QED
  BY <1>1, <1>2, <1>3, InvAlways, PTL DEF Spec

-----------------------------------------------------------------------------
(* The end of a connection *)

\* A command about to store its statement has found a capacity; if reset() runs between
\* uses only, it still finds it when it has the mutex.
SerialInv ==
    ~raced => /\ con # "undefined"
              /\ ~Unlocked => Quiescent
              /\ \A c \in Commands : pc[c] = "store" => config.capacity # 0

\* A command inside acquire() or release(), reset() being between uses only.
LEMMA SerialMove ==
    ASSUME TypeOK, SerialInv, NEW c \in Commands, pc[c] \notin {"none", "ready"},
           con = "open", UNCHANGED <<con, config, writing, raced>>,
           \A d \in Commands : pc'[d] = "store" => pc[d] = "store" \/ config.capacity # 0
    PROVE  SerialInv'
BY DEF SerialInv, Unlocked, Quiescent

LEMMA SerialStep ==
    ASSUME Inv, SerialInv, [Next]_vars
    PROVE  SerialInv'
<1> USE CacheAssumption
<1>0. /\ TypeOK /\ pc \in [Commands -> PCs] /\ raced \in BOOLEAN
      /\ config \in [enabled : BOOLEAN, capacity : Nat]
  BY DEF Inv, TypeOK
<1>1. ASSUME NEW c \in Commands, Construct(c) \/ Destroy(c) PROVE SerialInv'
  <2>1. /\ con = "open" /\ UNCHANGED <<con, config, writing>>
        /\ ~raced' => ~raced /\ Unlocked
    BY <1>0, <1>1 DEF Construct, Destroy, Enter
  <2>2. \A d \in Commands : pc'[d] = "store" => pc[d] = "store"
    BY <1>0, <1>1 DEF Construct, Destroy, Goto
  <2> QED
    BY <2>1, <2>2 DEF SerialInv, Unlocked
<1>2. ASSUME NEW c \in Commands, ConstructDdl(c) \/ DestroyDdl(c) PROVE SerialInv'
  <2>1. con = "open" /\ UNCHANGED <<con, config, writing, raced>>
    BY <1>2 DEF ConstructDdl, DestroyDdl
  <2>2. \A d \in Commands : pc'[d] = "store" => pc[d] = "store"
    BY <1>0, <1>2 DEF ConstructDdl, DestroyDdl, Goto, Gone
  <2>3. Quiescent /\ ~Unlocked => Quiescent'
    BY <1>0, <1>2 DEF ConstructDdl, DestroyDdl, Goto, Gone, Quiescent
  <2> QED
    BY <2>1, <2>2, <2>3 DEF SerialInv, Unlocked
<1>3. ASSUME NEW c \in Commands, Bind(c) \/ Step(c) \/ Reset(c) PROVE SerialInv'
  BY <1>3 DEF Bind, Step, Reset, SerialInv, Unlocked, Quiescent
<1>4. ASSUME NEW c \in Commands, Acquire(c) \/ Release(c), ~StoreBackOfEmpty(c)
      PROVE  SerialInv'
  <2>1. pc[c] \notin {"none", "ready"}
    BY <1>4 DEF Acquire, TestAcquire, LookupHit, LookupMiss, Prepare, PrepareFails,
       Release, TestRelease, ReleaseUncached, StoreDuplicate, Store, StoreEvict
  <2>2. con = "open" /\ UNCHANGED <<con, config, writing, raced>>
    BY <1>4 DEF Acquire, TestAcquire, LookupHit, LookupMiss, Prepare, PrepareFails,
       Release, TestRelease, ReleaseUncached, StoreDuplicate, Store, StoreEvict
  <2>3. \A d \in Commands : pc'[d] = "store" => pc[d] = "store" \/ config.capacity # 0
    BY <1>0, <1>4 DEF Acquire, TestAcquire, LookupHit, LookupMiss, Prepare, PrepareFails,
       Release, TestRelease, ReleaseUncached, StoreDuplicate, Store, StoreEvict, Goto, Gone
  <2> QED
    BY <1>0, <2>1, <2>2, <2>3, SerialMove
<1>5. ASSUME NEW c \in Commands, StoreBackOfEmpty(c) PROVE SerialInv'
  <2>1. pc[c] = "store" /\ lru = <<>> /\ Len(lru) >= config.capacity /\ raced' = raced
    BY <1>5 DEF StoreBackOfEmpty
  <2>2. Len(lru) = 0
    BY <2>1
  <2>3. config.capacity = 0
    BY <1>0, <2>1, <2>2
  <2> QED
    BY <2>1, <2>3 DEF SerialInv
<1>6. CASE Configure
  <2>1. con = "open" /\ UNCHANGED <<con, pc>> /\ (~raced' => Quiescent)
    BY <1>0, <1>6 DEF Configure
  <2> QED
    BY <2>1 DEF SerialInv, Quiescent
<1>7. CASE ConfigureDone
  <2>1. con = "open" /\ UNCHANGED <<con, pc, raced>> /\ ~Unlocked
    BY <1>7 DEF ConfigureDone
  <2> QED
    BY <2>1 DEF SerialInv, Quiescent
<1>8. CASE ClearCache \/ Close
  <2>1. UNCHANGED <<config, writing, pc, raced>> /\ con' # "undefined"
    BY <1>8 DEF ClearCache, Close
  <2> QED
    BY <2>1 DEF SerialInv, Unlocked, Quiescent
<1>9. CASE UNCHANGED vars
  BY <1>9 DEF vars, SerialInv, Unlocked, Quiescent
<1> QED
  BY <1>1, <1>2, <1>3, <1>4, <1>5, <1>6, <1>7, <1>8, <1>9 DEF Next, Release

\* Only the connection's destructor calls sqlite3_close, and every statement it could trip
\* over is in the cache it has just emptied.
LEMMA CloseSucceeds ==
    ASSUME Inv, con # "busy", [Next]_vars
    PROVE  con' # "busy"
<1>1. CASE Close
  <2>1. \A c \in Commands : stmt[c] = NoStmt
    BY <1>1 DEF Close, Inv, TypeOK, Releasing
  <2>2. Held = {}
    BY <2>1, CacheAssumption DEF Held
  <2> QED
    BY <1>1, <2>2 DEF Close, Inv, StatementsOwned
<1>2. CASE ~Close
  BY <1>2 DEF Next, vars, Construct, ConstructDdl, Acquire, TestAcquire, LookupHit,
     LookupMiss, Prepare, PrepareFails, Bind, Step, Reset, DestroyDdl, Destroy, Release,
     TestRelease, ReleaseUncached, StoreDuplicate, Store, StoreEvict, StoreBackOfEmpty,
     Configure, ConfigureDone, ClearCache
<1> QED
  BY <1>1, <1>2

\* connection::close finds no statement left: sqlite3_close never refuses.  A step of the
\* cache is undefined only after a reset() that ran while a command was inside it.
THEOREM Closes == Spec => []ClosesCleanly
<1> DEFINE EndInv == con # "busy" /\ SerialInv
<1>1. Init => EndInv
  BY DEF Init, SerialInv, Unlocked, Quiescent
<1>2. Inv /\ EndInv /\ [Next]_vars => EndInv'
  BY SerialStep, CloseSucceeds
<1>3. EndInv => ClosesCleanly
  BY DEF SerialInv, ClosesCleanly
<1> QED
  BY <1>1, <1>2, <1>3, InvAlways, PTL DEF Spec

-----------------------------------------------------------------------------
(* Transparency: the cache implements FreshStatements *)

want == [c \in Commands |-> TextOf(c)]

use == [c \in Commands |-> UseOf(c)]

\* What a step of c does to the texts asked for.
LEMMA WantStep ==
    ASSUME NEW c \in Commands,
           \A d \in Commands \ {c} : pc'[d] = pc[d] /\ sql'[d] = sql[d]
    PROVE  /\ want' = [want EXCEPT ![c] = TextOf(c)']
           /\ TextOf(c)' = TextOf(c) => want' = want
<1>1. \A d \in Commands \ {c} : TextOf(d)' = TextOf(d)
  BY DEF TextOf
<1>2. want' = [d \in Commands |-> TextOf(d)']
  BY DEF want
<1> QED
  BY <1>1, <1>2 DEF want

\* Two statements in the same state are equal.
LEMMA SameStatement ==
    ASSUME NEW q \in Sqls, NEW r \in Statements,
           r.sql = q, r.bound = FALSE, r.active = FALSE
    PROVE  r = Compiled(q)
BY DEF Statements, Compiled

\* sqlite3_reset and sqlite3_clear_bindings.
LEMMA CheckedOut ==
    ASSUME NEW r \in Statements, r.sql \in Sqls
    PROVE  [r EXCEPT !.active = FALSE, !.bound = FALSE] = Compiled(r.sql)
<1> DEFINE t == [r EXCEPT !.active = FALSE, !.bound = FALSE]
<1>1. t \in Statements /\ t.sql = r.sql /\ t.bound = FALSE /\ t.active = FALSE
  BY DEF Statements
<1> HIDE DEF t
<1>2. t = Compiled(r.sql)
  BY <1>1, SameStatement
<1> QED
  BY <1>2 DEF t

\* A usable command holds a statement with a text.
LEMMA ReadyFacts ==
    ASSUME Inv, NEW c \in Commands, pc[c] = "ready"
    PROVE  /\ stmt[c] \in Stmts /\ stmt[c] # NoStmt
           /\ st[stmt[c]] # Finalized
           /\ use[c] = st[stmt[c]]
<1>1. stmt[c] # NoStmt
  BY DEF Inv, TypeOK
<1>2. stmt[c] \in Stmts /\ stmt[c] \in Live
  BY <1>1, HolderFacts
<1>3. st[stmt[c]] # Finalized
  BY <1>2 DEF Live, Finalized
<1> QED
  BY <1>1, <1>2, <1>3 DEF use, UseOf

\* What the step of c leaves alone: every statement another command holds.
LEMMA OthersUntouched ==
    ASSUME Inv, NEW c \in Commands,
           \A d \in Commands \ {c} : pc'[d] = pc[d] /\ stmt'[d] = stmt[d],
           \A s \in Held : s # stmt[c] => st'[s] = st[s]
    PROVE  use' = [use EXCEPT ![c] = UseOf(c)']
<1>1. ASSUME NEW d \in Commands \ {c} PROVE UseOf(d)' = UseOf(d)
  <2>1. CASE pc[d] = "ready"
    <3>1. stmt[d] # NoStmt
      BY <2>1, ReadyFacts
    <3>2. stmt[d] \in Held /\ stmt[d] # stmt[c]
      BY <3>1, HolderFacts
    <3> QED
      BY <3>2 DEF UseOf
  <2>2. CASE pc[d] # "ready"
    BY <2>2 DEF UseOf
  <2> QED
    BY <2>1, <2>2
<1>2. use' = [d \in Commands |-> UseOf(d)']
  BY DEF use
<1>3. [use EXCEPT ![c] = UseOf(c)'] = [d \in Commands |-> IF d = c THEN UseOf(c)' ELSE UseOf(d)]
  BY DEF use
<1> QED
  BY <1>1, <1>2, <1>3

\* A step of c on its way to or from a usable statement is not visible.
LEMMA HiddenStep ==
    ASSUME Inv, NEW c \in Commands,
           pc[c] # "ready", pc'[c] # "ready",
           \A d \in Commands \ {c} : pc'[d] = pc[d] /\ stmt'[d] = stmt[d],
           \A s \in Held : s # stmt[c] => st'[s] = st[s]
    PROVE  use' = use
<1>1. UseOf(c)' = UseOf(c)
  BY DEF UseOf
<1>2. [use EXCEPT ![c] = UseOf(c)] = use
  BY DEF use
<1> QED
  BY <1>1, <1>2, OthersUntouched

\* The commands' view of a step that only empties or resizes the cache.
LEMMA CacheStep ==
    ASSUME Inv, pc' = pc, stmt' = stmt, \A s \in Held : st'[s] = st[s]
    PROVE  use' = use
<1>1. ASSUME NEW d \in Commands PROVE UseOf(d)' = UseOf(d)
  <2>1. CASE pc[d] = "ready"
    <3>1. stmt[d] \in Held
      BY <2>1, ReadyFacts, HolderFacts
    <3> QED
      BY <3>1 DEF UseOf
  <2>2. CASE pc[d] # "ready"
    BY <2>2 DEF UseOf
  <2> QED
    BY <2>1, <2>2
<1> QED
  BY <1>1 DEF use

LEMMA EmptyCacheSparesHeld ==
    ASSUME Inv, EmptyCache
    PROVE  \A s \in Held : st'[s] = st[s]
BY DEF Inv, StatementsOwned, EmptyCache, Held

\* What a command does on its way to and from a usable statement changes no statement in use.
LEMMA HiddenSteps ==
    ASSUME Inv, NEW c \in Commands,
           \/ Construct(c) \/ ConstructDdl(c) \/ TestAcquire(c) \/ LookupMiss(c)
           \/ PrepareFails(c) \/ Release(c)
    PROVE  use' = use
<1>0. /\ pc \in [Commands -> PCs]
      /\ stmt \in [Commands -> Stmts \cup {NoStmt}]
      /\ st \in [Stmts -> Statements]
  BY DEF Inv, TypeOK, Statements
<1>1. pc[c] # "ready"
  BY DEF Construct, ConstructDdl, TestAcquire, LookupMiss, PrepareFails, Release,
         TestRelease, ReleaseUncached, StoreDuplicate, Store, StoreEvict, StoreBackOfEmpty
<1>2. pc'[c] # "ready" /\ \A d \in Commands \ {c} : pc'[d] = pc[d] /\ stmt'[d] = stmt[d]
  BY <1>0, <1>1 DEF Construct, ConstructDdl, TestAcquire, LookupMiss, PrepareFails, Release,
         TestRelease, ReleaseUncached, StoreDuplicate, Store, StoreEvict, StoreBackOfEmpty,
         Goto, Gone
<1>3. \A s \in Held : s # stmt[c] => st'[s] = st[s]
  <2>1. CASE ConstructDdl(c)
    BY <2>1, EmptyCacheSparesHeld DEF ConstructDdl
  <2>2. CASE StoreEvict(c)
    <3>1. Len(lru) \in 1..Len(lru)
      BY <2>2 DEF StoreEvict, Inv, TypeOK
    <3>2. lru[Len(lru)].stmt \notin Held
      BY <3>1, EntryFacts
    <3> QED
      BY <1>0, <2>2, <3>2 DEF StoreEvict, Held
  <2>3. CASE ReleaseUncached(c) \/ StoreDuplicate(c)
    BY <1>0, <2>3 DEF ReleaseUncached, StoreDuplicate, Held
  <2>4. CASE \/ Construct(c) \/ TestAcquire(c) \/ LookupMiss(c) \/ PrepareFails(c)
             \/ TestRelease(c) \/ Store(c) \/ StoreBackOfEmpty(c)
    BY <2>4 DEF Construct, TestAcquire, LookupMiss, PrepareFails, TestRelease, Store,
                StoreBackOfEmpty
  <2> QED
    BY <2>1, <2>2, <2>3, <2>4 DEF Release
<1> QED
  BY <1>1, <1>2, <1>3, HiddenStep

\* The constructor returns with a statement from the cache or a new one, of its own text.
LEMMA GiveStep ==
    ASSUME Inv, NEW c \in Commands, LookupHit(c) \/ Prepare(c)
    PROVE  Fresh!Give(c)
<1> USE CacheAssumption
<1>0. /\ st \in [Stmts -> Statements]
      /\ stmt \in [Commands -> Stmts \cup {NoStmt}]
      /\ pc \in [Commands -> PCs]
      /\ sql[c] \in Sqls /\ stmt[c] = NoStmt
      /\ use[c] = Finalized
  BY DEF Inv, TypeOK, Releasing, Statements, LookupHit, Prepare, use, UseOf
<1>1. PICK own \in Stmts : /\ own \notin Held
                           /\ stmt' = [stmt EXCEPT ![c] = own]
                           /\ st' = [st EXCEPT ![own] = Compiled(sql[c])]
  <2>1. CASE LookupHit(c)
    <3>1. PICK i \in 1..Len(lru) :
             /\ lru[i].stmt = index[sql[c]]
             /\ st' = [st EXCEPT ![lru[i].stmt] =
                           [@ EXCEPT !.active = FALSE, !.bound = FALSE]]
             /\ stmt' = [stmt EXCEPT ![c] = lru[i].stmt]
      BY <2>1 DEF LookupHit
    <3> DEFINE s == lru[i].stmt
               r == st[s]
    <3>2. s \in Stmts /\ s \notin Held
      BY EntryFacts
    <3>3. index[sql[c]] # NoStmt
      BY <3>1, <3>2
    <3>4. PICK j \in 1..Len(lru) : lru[j].sql = sql[c] /\ lru[j].stmt = index[sql[c]]
      BY <1>0, <3>3 DEF Inv, CacheCoherent
    <3>5. st[lru[j].stmt].sql = lru[j].sql
      BY EntryFacts
    <3>6. r \in Statements /\ r.sql = sql[c]
      BY <1>0, <3>1, <3>2, <3>4, <3>5
    <3>7. st' = [st EXCEPT ![s] = [r EXCEPT !.active = FALSE, !.bound = FALSE]]
      BY <3>1, <3>2
    <3> HIDE DEF r
    <3>8. [r EXCEPT !.active = FALSE, !.bound = FALSE] = Compiled(sql[c])
      BY <1>0, <3>6, CheckedOut
    <3> QED
      BY <3>1, <3>2, <3>7, <3>8
  <2>2. CASE Prepare(c)
    <3>1. PICK s \in Stmts \ Live : /\ stmt' = [stmt EXCEPT ![c] = s]
                                    /\ st' = [st EXCEPT ![s] = Compiled(sql[c])]
      BY <2>2 DEF Prepare
    <3>2. s \notin Held
      BY <3>1 DEF Inv, StatementsOwned
    <3> QED
      BY <3>1, <3>2
  <2> QED
    BY <2>1, <2>2
<1>2. pc' = [pc EXCEPT ![c] = "ready"]
  BY DEF LookupHit, Prepare, Goto
<1>3. UseOf(c)' = Compiled(sql[c])
  BY <1>0, <1>1, <1>2 DEF UseOf
<1>4. use' = [use EXCEPT ![c] = UseOf(c)']
  <2>1. \A d \in Commands \ {c} : pc'[d] = pc[d] /\ stmt'[d] = stmt[d]
    BY <1>0, <1>1, <1>2
  <2>2. \A s \in Held : s # stmt[c] => st'[s] = st[s]
    BY <1>0, <1>1 DEF Held
  <2> QED
    BY <2>1, <2>2, OthersUntouched
<1>5. TextOf(c) = sql[c] /\ TextOf(c)' = sql[c]
  BY <1>2, <1>0 DEF TextOf, Releasing, LookupHit, Prepare
<1>6. want[c] = sql[c] /\ want[c] # NoSql
  BY <1>0, <1>5 DEF want
<1>7. want' = want
  BY <1>0, <1>2, <1>5, WantStep DEF LookupHit, Prepare
<1>8. use' = [use EXCEPT ![c] = Fresh!Fresh(want[c])]
  BY <1>3, <1>4, <1>6 DEF Fresh!Fresh, Compiled
<1> QED
  BY <1>0, <1>6, <1>7, <1>8 DEF Fresh!Give, use, want

\* The constructor is called: the text is recorded, nothing else is visible.
LEMMA AskStep ==
    ASSUME Inv, NEW c \in Commands, Construct(c) \/ ConstructDdl(c)
    PROVE  Fresh!Ask(c)
<1> USE CacheAssumption
<1>0. /\ pc \in [Commands -> PCs] /\ sql \in [Commands -> Sqls \cup {NoSql}]
      /\ pc[c] = "none" /\ sql[c] = NoSql
  BY DEF Inv, TypeOK, Construct, ConstructDdl
<1>1. PICK q \in Sqls : sql' = [sql EXCEPT ![c] = q]
  BY DEF Construct, ConstructDdl
<1>2. pc'[c] \in {"acquire", "prepare"} /\ \A d \in Commands \ {c} : pc'[d] = pc[d]
  BY <1>0 DEF Construct, ConstructDdl, Goto
<1>3. TextOf(c) = NoSql /\ TextOf(c)' = q
  BY <1>0, <1>1, <1>2 DEF TextOf, Releasing
<1>4. want[c] = NoSql /\ want' = [want EXCEPT ![c] = q]
  BY <1>0, <1>1, <1>2, <1>3, WantStep DEF want
<1>5. use' = use
  BY HiddenSteps
<1> QED
  BY <1>4, <1>5 DEF Fresh!Ask, want, use

\* The constructor throws.
LEMMA RefuseStep ==
    ASSUME Inv, NEW c \in Commands, PrepareFails(c)
    PROVE  Fresh!Refuse(c)
<1>0. /\ pc \in [Commands -> PCs] /\ sql \in [Commands -> Sqls \cup {NoSql}]
      /\ pc[c] = "prepare"
  BY DEF Inv, TypeOK, PrepareFails
<1>1. /\ pc'[c] = "none" /\ sql'[c] = NoSql
      /\ \A d \in Commands \ {c} : pc'[d] = pc[d] /\ sql'[d] = sql[d]
  BY <1>0 DEF PrepareFails, Gone, Goto
<1>2. TextOf(c)' = NoSql
  BY <1>1 DEF TextOf
<1>3. want' = [want EXCEPT ![c] = NoSql]
  BY <1>1, <1>2, WantStep
<1>4. use' = use /\ use[c] = Finalized
  BY <1>0, HiddenSteps DEF use, UseOf
<1> QED
  BY <1>3, <1>4 DEF Fresh!Refuse, want, use

\* On its way to a statement, or to give one up, a command asks for nothing else.
LEMMA SilentStep ==
    ASSUME Inv, NEW c \in Commands, TestAcquire(c) \/ LookupMiss(c) \/ Release(c)
    PROVE  want' = want /\ use' = use
<1>0. pc \in [Commands -> PCs] /\ sql \in [Commands -> Sqls \cup {NoSql}]
  BY DEF Inv, TypeOK
<1>1. \A d \in Commands \ {c} : pc'[d] = pc[d] /\ sql'[d] = sql[d]
  BY <1>0 DEF TestAcquire, LookupMiss, Release, TestRelease, ReleaseUncached,
              StoreDuplicate, Store, StoreEvict, StoreBackOfEmpty, Goto, Gone
<1>2. TextOf(c)' = TextOf(c)
  <2>1. CASE TestAcquire(c) \/ LookupMiss(c)
    BY <1>0, <2>1 DEF TestAcquire, LookupMiss, Goto, TextOf, Releasing
  <2>2. CASE Release(c)
    BY <1>0, <2>2 DEF Release, TestRelease, ReleaseUncached, StoreDuplicate, Store,
       StoreEvict, StoreBackOfEmpty, Goto, Gone, TextOf, Releasing
  <2> QED
    BY <2>1, <2>2
<1> QED
  BY <1>1, <1>2, WantStep, HiddenSteps

\* Binding, stepping and resetting.
LEMMA UseStep ==
    ASSUME Inv, NEW c \in Commands, Bind(c) \/ Step(c) \/ Reset(c)
    PROVE  Fresh!Bind(c) \/ Fresh!Run(c)
<1>0. pc[c] = "ready" /\ pc' = pc /\ stmt' = stmt
  BY DEF Bind, Step, Reset
<1>1. /\ stmt[c] \in Stmts /\ use[c] # Finalized /\ use[c] = st[stmt[c]]
      /\ st \in [Stmts -> Statements]
  BY <1>0, ReadyFacts DEF Inv, TypeOK, Statements
<1>2. ASSUME NEW r, st' = [st EXCEPT ![stmt[c]] = r]
      PROVE  use' = [use EXCEPT ![c] = r]
  <2>1. UseOf(c)' = r
    BY <1>0, <1>1, <1>2 DEF UseOf
  <2>2. \A s \in Held : s # stmt[c] => st'[s] = st[s]
    BY <1>1, <1>2 DEF Held
  <2>3. use' = [use EXCEPT ![c] = UseOf(c)']
    BY <1>0, <2>2, OthersUntouched
  <2> QED
    BY <2>1, <2>3
<1>w. want' = want
  BY <1>0 DEF want, TextOf, Bind, Step, Reset
<1>3. CASE Bind(c)
  <2>1. st' = [st EXCEPT ![stmt[c]] = [st[stmt[c]] EXCEPT !.bound = TRUE]]
    BY <1>1, <1>3 DEF Bind
  <2>2. use' = [use EXCEPT ![c] = [use[c] EXCEPT !.bound = TRUE]]
    BY <1>1, <1>2, <2>1
  <2> QED
    BY <1>1, <1>w, <2>2 DEF Fresh!Bind, use, want
<1>4. ASSUME NEW row \in BOOLEAN, st' = [st EXCEPT ![stmt[c]].active = row]
      PROVE  Fresh!Run(c)
  <2>1. st' = [st EXCEPT ![stmt[c]] = [st[stmt[c]] EXCEPT !.active = row]]
    BY <1>1, <1>4
  <2>2. use' = [use EXCEPT ![c] = [use[c] EXCEPT !.active = row]]
    BY <1>1, <1>2, <2>1
  <2> QED
    BY <1>1, <1>w, <2>2 DEF Fresh!Run, use, want
<1> QED
  BY <1>3, <1>4 DEF Step, Reset

\* The destructor gives the statement up.
LEMMA DestroyStep ==
    ASSUME Inv, NEW c \in Commands, DestroyDdl(c) \/ Destroy(c)
    PROVE  Fresh!Destroy(c)
<1>0. /\ pc \in [Commands -> PCs] /\ pc[c] = "ready"
      /\ sql \in [Commands -> Sqls \cup {NoSql}]
      /\ stmt \in [Commands -> Stmts \cup {NoStmt}]
      /\ st \in [Stmts -> Statements] /\ stmt[c] \in Stmts
  BY ReadyFacts DEF Inv, TypeOK, Statements, DestroyDdl, Destroy
<1>1. pc'[c] # "ready" /\ \A d \in Commands \ {c} : pc'[d] = pc[d] /\ stmt'[d] = stmt[d]
  BY <1>0 DEF DestroyDdl, Destroy, Gone, Goto
<1>2. \A s \in Held : s # stmt[c] => st'[s] = st[s]
  BY <1>0 DEF DestroyDdl, Destroy, Held
<1>3. UseOf(c)' = Finalized
  BY <1>1 DEF UseOf
<1>4. use' = [use EXCEPT ![c] = Finalized]
  BY <1>1, <1>2, <1>3, OthersUntouched
<1>5. /\ TextOf(c)' = NoSql
      /\ \A d \in Commands \ {c} : pc'[d] = pc[d] /\ sql'[d] = sql[d]
  BY <1>0 DEF DestroyDdl, Destroy, Gone, Goto, TextOf, Releasing
<1>6. want' = [want EXCEPT ![c] = NoSql]
  BY <1>5, WantStep
<1>7. use[c] # Finalized
  BY <1>0, ReadyFacts
<1> QED
  BY <1>4, <1>6, <1>7 DEF Fresh!Destroy, use, want

\* Emptying the cache and configuring it are hidden as well.
LEMMA HiddenConnectionSteps ==
    ASSUME Inv, Configure \/ ConfigureDone \/ ClearCache \/ Close
    PROVE  want' = want /\ use' = use
<1>1. pc' = pc /\ stmt' = stmt /\ sql' = sql
  BY DEF Configure, ConfigureDone, ClearCache, Close
<1>2. \A s \in Held : st'[s] = st[s]
  BY EmptyCacheSparesHeld DEF Configure, ConfigureDone, ClearCache, Close
<1>3. want' = want
  BY <1>1 DEF want, TextOf
<1> QED
  BY <1>1, <1>2, <1>3, CacheStep

LEMMA TransparentStep ==
    ASSUME Inv, [Next]_vars
    PROVE  [Fresh!Next]_<<want, use>>
<1>1. ASSUME NEW c \in Commands, Construct(c) \/ ConstructDdl(c) \/ Acquire(c) \/ Bind(c)
                \/ Step(c) \/ Reset(c) \/ DestroyDdl(c) \/ Destroy(c) \/ Release(c)
      PROVE  [Fresh!Next]_<<want, use>>
  <2>1. CASE LookupHit(c) \/ Prepare(c)
    BY <2>1, GiveStep DEF Fresh!Next
  <2>2. CASE Bind(c) \/ Step(c) \/ Reset(c)
    BY <2>2, UseStep DEF Fresh!Next
  <2>3. CASE DestroyDdl(c) \/ Destroy(c)
    BY <2>3, DestroyStep DEF Fresh!Next
  <2>4. CASE Construct(c) \/ ConstructDdl(c)
    BY <2>4, AskStep DEF Fresh!Next
  <2>5. CASE PrepareFails(c)
    BY <2>5, RefuseStep DEF Fresh!Next
  <2> QED
    BY <1>1, <2>1, <2>2, <2>3, <2>4, <2>5, SilentStep DEF Acquire
<1>2. CASE Configure \/ ConfigureDone \/ ClearCache \/ Close
  BY <1>2, HiddenConnectionSteps
<1>3. CASE UNCHANGED vars
  BY <1>3 DEF vars, want, TextOf, use, UseOf
<1> QED
  BY <1>1, <1>2, <1>3 DEF Next

\* "Cached statements reset/clear bindings on checkout": every command gets a statement
\* compiled from the text it was constructed with, unbound and not started, from the cache
\* (statement_cache::acquire) or anew, and nobody else changes it while it is in use.
THEOREM CacheTransparent == Spec => CacheIsTransparent
<1>1. Init => Fresh!Init
  BY DEF Init, Fresh!Init, UseOf, TextOf
<1>2. Inv /\ [Next]_vars => [Fresh!Next]_<<want, use>>
  BY TransparentStep
<1> QED
  BY <1>1, <1>2, InvAlways, PTL DEF Spec, CacheIsTransparent, Fresh!Spec, want, use
=============================================================================
