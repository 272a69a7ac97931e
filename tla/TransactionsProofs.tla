-------------------------- MODULE TransactionsProofs --------------------------
(***************************************************************************)
(* Theorems about transaction and savepoint objects, for any number of     *)
(* objects, names and writes.                                              *)
(***************************************************************************)
EXTENDS Transactions, SequenceTheorems, TLAPS

\* What the proofs need of the list of objects.
ScopeOK ==
    /\ scope \in Seq(Objects)
    /\ \A i, j \in 1..Len(scope) : scope[i] = scope[j] => i = j

\* SQLite's stack without what is written.
LevelType == [name : Names \cup {NoName}, by : Objects, writes : SUBSET Writes]

-----------------------------------------------------------------------------
(* Construction and destruction *)

LEMMA ExistsIndex == ASSUME NEW o, Exists(o) PROVE \E i \in 1..Len(scope) : scope[i] = o
  BY DEF Exists

LEMMA AfterIndex ==
    ASSUME NEW o, NEW q
    PROVE  q \in After(o) <=>
              \E j \in 1..Len(scope) : scope[j] = q /\ \E i \in 1..(j - 1) : scope[i] = o
  BY DEF After

\* An object that is constructed is behind all the others.
LEMMA ConstructedLast ==
    ASSUME ScopeOK, NEW o \in Objects, ~Exists(o), scope' = Append(scope, o)
    PROVE  /\ ScopeOK'
           /\ \A p : Exists(p)' <=> Exists(p) \/ p = o
           /\ \A p, q : q \in After(p) => q \in After(p)'
           /\ \A p : Exists(p) => o \in After(p)'
<1>1. /\ scope \in Seq(Objects) /\ Len(scope) \in Nat
      /\ scope' \in Seq(Objects) /\ Len(scope') = Len(scope) + 1
      /\ \A i \in 1..Len(scope) : scope'[i] = scope[i]
      /\ scope'[Len(scope) + 1] = o
  BY DEF ScopeOK
<1>2. ScopeOK'
  BY <1>1 DEF ScopeOK, Exists
<1>3. ASSUME NEW p PROVE Exists(p)' <=> Exists(p) \/ p = o
  BY <1>1 DEF Exists
<1>4. ASSUME NEW p, NEW q, q \in After(p) PROVE q \in After(p)'
  <2>1. PICK j \in 1..Len(scope) : scope[j] = q /\ \E i \in 1..(j - 1) : scope[i] = p
    BY <1>4, AfterIndex
  <2>2. PICK i \in 1..(j - 1) : scope[i] = p
    BY <2>1
  <2>3. j \in 1..Len(scope') /\ scope'[j] = q /\ scope'[i] = p
    BY <1>1, <2>1, <2>2
  <2> QED
    BY <2>3 DEF After
<1>5. ASSUME NEW p, Exists(p) PROVE o \in After(p)'
  <2>1. PICK i \in 1..Len(scope) : scope[i] = p
    BY <1>5 DEF Exists
  <2>2. Len(scope) + 1 \in 1..Len(scope') /\ i \in 1..(Len(scope) + 1 - 1) /\ scope'[i] = p
    BY <1>1, <2>1
  <2> QED
    BY <1>1, <2>2 DEF After
<1> QED
  BY <1>2, <1>3, <1>4, <1>5

\* Nobody is behind himself.
LEMMA NotAfterSelf == ASSUME ScopeOK, NEW o PROVE o \notin After(o)
<1> SUFFICES ASSUME o \in After(o) PROVE FALSE
  OBVIOUS
<1>1. PICK j \in 1..Len(scope) : scope[j] = o /\ \E i \in 1..(j - 1) : scope[i] = o
  BY AfterIndex
<1>2. PICK i \in 1..(j - 1) : scope[i] = o
  BY <1>1
<1>3. i \in 1..Len(scope) /\ i # j
  BY <1>1, <1>2 DEF ScopeOK
<1> QED
  BY <1>1, <1>2, <1>3 DEF ScopeOK

\* The order of the others is kept when an object is destroyed.
LEMMA DestroyedGone ==
    ASSUME ScopeOK, NEW o \in Objects, Destroyed(o)
    PROVE  /\ ScopeOK'
           /\ \A p : Exists(p)' <=> Exists(p) /\ p # o
           /\ \A p, q : q \in After(p) /\ p # o /\ q # o => q \in After(p)'
           /\ Scoped => After(o) = {}
           /\ Exists(o)
<1>1. PICK i \in 1..Len(scope) :
          /\ scope[i] = o
          /\ Scoped => i = Len(scope)
          /\ scope' = SubSeq(scope, 1, i - 1) \o SubSeq(scope, i + 1, Len(scope))
  BY DEF Destroyed
<1>2. /\ scope \in Seq(Objects) /\ Len(scope) \in Nat
      /\ \A k, j \in 1..Len(scope) : scope[k] = scope[j] => k = j
  BY DEF ScopeOK
<1>3. /\ scope' \in Seq(Objects) /\ Len(scope') = Len(scope) - 1
      /\ \A j \in 1..(Len(scope) - 1) : scope'[j] = IF j < i THEN scope[j] ELSE scope[j + 1]
  <2> DEFINE a == SubSeq(scope, 1, i - 1)
             b == SubSeq(scope, i + 1, Len(scope))
  <2>1. /\ a \in Seq(Objects) /\ Len(a) = i - 1
        /\ \A j \in 1..(i - 1) : a[j] = scope[j]
    BY <1>2
  <2>2. /\ b \in Seq(Objects) /\ Len(b) = Len(scope) - i
        /\ \A j \in 1..(Len(scope) - i) : b[j] = scope[i + j]
    BY <1>2
  <2>3. scope' = a \o b
    BY <1>1
  <2> HIDE DEF a, b
  <2>4. /\ a \o b \in Seq(Objects) /\ Len(a \o b) = Len(a) + Len(b)
        /\ \A j \in 1..(Len(a) + Len(b)) : (a \o b)[j] = IF j <= Len(a) THEN a[j] ELSE b[j - Len(a)]
    BY <2>1, <2>2, ConcatProperties
  <2>5. ASSUME NEW j \in 1..(Len(scope) - 1)
        PROVE  scope'[j] = IF j < i THEN scope[j] ELSE scope[j + 1]
    <3>1. CASE j < i
      BY <1>2, <2>1, <2>2, <2>3, <2>4, <3>1
    <3>2. CASE ~(j < i)
      <4>1. j - (i - 1) \in 1..(Len(scope) - i) /\ i + (j - (i - 1)) = j + 1
        BY <1>2, <3>2
      <4>2. scope'[j] = b[j - (i - 1)]
        BY <1>2, <2>1, <2>2, <2>3, <2>4, <3>2
      <4> QED
        BY <2>2, <3>2, <4>1, <4>2
    <3> QED
      BY <3>1, <3>2
  <2> QED
    BY <1>2, <2>1, <2>2, <2>3, <2>4, <2>5
<1>4. ScopeOK'
  BY <1>2, <1>3 DEF ScopeOK
<1>5. ASSUME NEW k \in 1..Len(scope), k # i
      PROVE  \E m \in 1..Len(scope') : scope'[m] = scope[k] /\ m = IF k < i THEN k ELSE k - 1
  <2> DEFINE m == IF k < i THEN k ELSE k - 1
  <2>1. m \in 1..Len(scope')
    BY <1>2, <1>3, <1>5
  <2>2. scope'[m] = scope[k]
    BY <1>2, <1>3, <1>5
  <2> QED
    BY <2>1, <2>2
<1>6. ASSUME NEW p PROVE Exists(p)' <=> Exists(p) /\ p # o
  <2>1. Exists(p) /\ p # o => Exists(p)'
    BY <1>1, <1>5 DEF Exists
  <2>2. Exists(p)' => Exists(p) /\ p # o
    <3> SUFFICES ASSUME NEW m \in 1..Len(scope'), scope'[m] = p PROVE Exists(p) /\ p # o
      BY DEF Exists
    <3>1. \E k \in 1..Len(scope) : scope[k] = p /\ k # i
      BY <1>2, <1>3
    <3> QED
      BY <1>1, <1>2, <3>1 DEF Exists
  <2> QED
    BY <2>1, <2>2
<1>7. ASSUME NEW p, NEW q, q \in After(p), p # o, q # o PROVE q \in After(p)'
  <2>1. PICK j \in 1..Len(scope) : scope[j] = q /\ \E k \in 1..(j - 1) : scope[k] = p
    BY <1>7, AfterIndex
  <2>2. PICK k \in 1..(j - 1) : scope[k] = p
    BY <2>1
  <2>3. PICK m \in 1..Len(scope') : scope'[m] = q /\ m = IF j < i THEN j ELSE j - 1
    BY <1>1, <1>5, <1>7, <2>1
  <2>4. k \in 1..Len(scope) /\ k # i /\ j # i
    BY <1>1, <1>2, <1>7, <2>1, <2>2
  <2>5. PICK l \in 1..Len(scope') : scope'[l] = p /\ l = IF k < i THEN k ELSE k - 1
    BY <1>5, <2>2, <2>4
  <2>6. l \in 1..(m - 1)
    BY <1>2, <2>2, <2>3, <2>4, <2>5
  <2> QED
    BY <2>3, <2>5, <2>6 DEF After
<1>8. Scoped => After(o) = {}
  <2> SUFFICES ASSUME Scoped, NEW q \in After(o) PROVE FALSE
    OBVIOUS
  <2>1. PICK j \in 1..Len(scope) : scope[j] = q /\ \E k \in 1..(j - 1) : scope[k] = o
    BY AfterIndex
  <2>2. PICK k \in 1..(j - 1) : scope[k] = o
    BY <2>1
  <2>3. k \in 1..Len(scope) /\ k = i /\ i = Len(scope)
    BY <1>1, <1>2, <2>1, <2>2
  <2> QED
    BY <1>2, <2>1, <2>2, <2>3
<1> QED
  BY <1>1, <1>4, <1>6, <1>7, <1>8 DEF Exists

-----------------------------------------------------------------------------
(* SQLite's stack *)

\* The m outermost levels are left, with the names they had, and no others.
Pruned(m) ==
    /\ m \in 0..Len(levels)
    /\ levels' \in Seq(LevelType)
    /\ Len(levels') = m
    /\ \A j \in 1..m : levels'[j].name = levels[j].name /\ levels'[j].by = levels[j].by

\* Replacing a level by one of the same name and object.
LEMMA Replaced ==
    ASSUME NEW s \in Seq(LevelType), NEW k \in 1..Len(s),
           NEW l \in LevelType, l.name = s[k].name, l.by = s[k].by
    PROVE  /\ [s EXCEPT ![k] = l] \in Seq(LevelType)
           /\ Len([s EXCEPT ![k] = l]) = Len(s)
           /\ \A j \in 1..Len(s) : /\ [s EXCEPT ![k] = l][j].name = s[j].name
                                   /\ [s EXCEPT ![k] = l][j].by = s[j].by
<1> DEFINE t == [s EXCEPT ![k] = l]
<1>1. /\ t \in Seq(LevelType) /\ Len(t) = Len(s)
      /\ \A j \in 1..Len(s) : t[j] = IF j = k THEN l ELSE s[j]
  OBVIOUS
<1> QED
  BY <1>1

\* Only what it has written is replaced.
LEMMA Rewritten ==
    ASSUME NEW l \in LevelType, NEW w \in SUBSET Writes
    PROVE  /\ [l EXCEPT !.writes = w] \in LevelType
           /\ [l EXCEPT !.writes = w].name = l.name
           /\ [l EXCEPT !.writes = w].by = l.by
  BY DEF LevelType

LEMMA WritesFromType ==
    ASSUME levels \in Seq(LevelType), NEW k \in Nat \ {0}
    PROVE  WritesFrom(k) \in SUBSET Writes
<1>1. \A j \in k..Len(levels) : levels[j] \in LevelType
  OBVIOUS
<1>2. \A j \in k..Len(levels) : levels[j].writes \in SUBSET Writes
  BY <1>1 DEF LevelType
<1> QED
  BY <1>2 DEF WritesFrom

LEMMA KeepFromPrunes ==
    ASSUME levels \in Seq(LevelType), durable \in SUBSET Writes,
           NEW k \in 1..Len(levels), KeepFrom(k)
    PROVE  Pruned(k - 1) /\ durable' \in SUBSET Writes
<1>1. WritesFrom(1) \in SUBSET Writes /\ WritesFrom(k) \in SUBSET Writes /\ Len(levels) \in Nat
  BY WritesFromType
<1>2. CASE k = 1
  <2>1. <<>> \in Seq(LevelType) /\ Len(<<>>) = 0
    OBVIOUS
  <2> QED
    BY <1>1, <1>2, <2>1 DEF KeepFrom, Pruned
<1>3. CASE k # 1
  <2> DEFINE s == SubSeq(levels, 1, k - 1)
             w == s[k - 1].writes \cup WritesFrom(k)
  <2>1. s \in Seq(LevelType) /\ Len(s) = k - 1 /\ \A j \in 1..(k - 1) : s[j] = levels[j]
    BY <1>1
  <2>2. levels' = [s EXCEPT ![k - 1].writes = w] /\ durable' = durable
    BY <1>3 DEF KeepFrom
  <2> HIDE DEF s
  <2>3. k - 1 \in 1..Len(s) /\ s[k - 1] \in LevelType
    BY <1>3, <2>1
  <2>4. w \in SUBSET Writes
    BY <1>1, <2>3 DEF LevelType
  <2> HIDE DEF w
  <2> DEFINE l == [s[k - 1] EXCEPT !.writes = w]
  <2>a. l \in LevelType /\ l.name = s[k - 1].name /\ l.by = s[k - 1].by
    BY <2>3, <2>4, Rewritten
  <2>b. levels' = [s EXCEPT ![k - 1] = l]
    BY <2>2
  <2> HIDE DEF l
  <2>5. /\ levels' \in Seq(LevelType)
        /\ Len(levels') = Len(s)
        /\ \A j \in 1..Len(s) : levels'[j].name = s[j].name /\ levels'[j].by = s[j].by
    BY <2>1, <2>3, <2>a, <2>b, Replaced
  <2> QED
    BY <1>1, <2>1, <2>2, <2>5 DEF Pruned
<1> QED
  BY <1>2, <1>3

LEMMA LatestFacts ==
    ASSUME levels \in Seq(LevelType), NEW n, NEW k \in Latest(n)
    PROVE  /\ k \in 1..Len(levels)
           /\ levels[k].name = n
           /\ \A j \in 1..Len(levels) : levels[j].name = n => j <= k
<1>1. k \in 1..Len(levels) /\ levels[k].name = n
      /\ \A j \in (k + 1)..Len(levels) : levels[j].name # n
  BY DEF Latest
<1> QED
  BY <1>1

LEMMA RollbackPrunes ==
    ASSUME levels \in Seq(LevelType), NEW o \in Sps, RollbackTo(o)
    PROVE  \E k \in Latest(name[o]) : Pruned(k)
<1>0. PICK k \in Latest(name[o]) : levels' = [SubSeq(levels, 1, k) EXCEPT ![k].writes = {}]
  BY DEF RollbackTo
<1>a. k \in 1..Len(levels)
  BY LatestFacts
<1> DEFINE s == SubSeq(levels, 1, k)
<1>1. /\ s \in Seq(LevelType) /\ Len(s) = k /\ \A j \in 1..k : s[j] = levels[j]
      /\ k \in 0..Len(levels)
  BY <1>a
<1>2. levels' = [s EXCEPT ![k].writes = {}]
  BY <1>0
<1> HIDE DEF s
<1>3. /\ levels' \in Seq(LevelType)
      /\ Len(levels') = Len(s)
      /\ \A j \in 1..Len(s) : levels'[j].name = s[j].name /\ levels'[j].by = s[j].by
  <2> DEFINE l == [s[k] EXCEPT !.writes = {}]
  <2>1. k \in 1..Len(s) /\ {} \in SUBSET Writes /\ s[k] \in LevelType
    BY <1>a, <1>1
  <2>2. l \in LevelType /\ l.name = s[k].name /\ l.by = s[k].by
    BY <2>1, Rewritten
  <2>3. levels' = [s EXCEPT ![k] = l]
    BY <1>2
  <2> HIDE DEF l
  <2> QED
    BY <1>1, <2>1, <2>2, <2>3, Replaced
<1>4. \A j \in 1..k : levels'[j].name = levels[j].name /\ levels'[j].by = levels[j].by
  BY <1>1, <1>3
<1>5. Len(levels') = k
  BY <1>1, <1>3
<1> QED
  BY <1>1, <1>3, <1>4, <1>5 DEF Pruned

LEMMA WritePrunesNothing ==
    ASSUME levels \in Seq(LevelType), durable \in SUBSET Writes, NEW w \in Writes, Write(w)
    PROVE  Pruned(Len(levels)) /\ durable' \in SUBSET Writes
<1>1. Len(levels) \in Nat
  OBVIOUS
<1>2. CASE levels = <<>>
  BY <1>1, <1>2 DEF Write, Pruned
<1>3. CASE levels # <<>>
  <2> DEFINE v == levels[Len(levels)].writes \cup {w}
  <2>1. Len(levels) \in 1..Len(levels) /\ levels[Len(levels)] \in LevelType
    BY <1>1, <1>3
  <2>2. v \in SUBSET Writes
    BY <2>1 DEF LevelType
  <2>3. levels' = [levels EXCEPT ![Len(levels)].writes = v] /\ durable' = durable
    BY <1>3 DEF Write
  <2> HIDE DEF v
  <2> DEFINE l == [levels[Len(levels)] EXCEPT !.writes = v]
  <2>a. l \in LevelType /\ l.name = levels[Len(levels)].name /\ l.by = levels[Len(levels)].by
    BY <2>1, <2>2, Rewritten
  <2>b. levels' = [levels EXCEPT ![Len(levels)] = l]
    BY <2>3
  <2> HIDE DEF l
  <2>4. /\ levels' \in Seq(LevelType)
        /\ Len(levels') = Len(levels)
        /\ \A j \in 1..Len(levels) : /\ levels'[j].name = levels[j].name
                                     /\ levels'[j].by = levels[j].by
    BY <2>1, <2>a, <2>b, Replaced
  <2> QED
    BY <1>1, <2>3, <2>4 DEF Pruned
<1> QED
  BY <1>2, <1>3

-----------------------------------------------------------------------------
(* Types *)

LEMMA TypeFacts ==
    ASSUME TypeOK
    PROVE  /\ ScopeOK
           /\ levels \in Seq(LevelType) /\ Len(levels) \in Nat
           /\ \A k \in 1..Len(levels) : /\ levels[k].by \in Objects
                                        /\ levels[k].name \in Names \cup {NoName}
           /\ durable \in SUBSET Writes
<1>1. levels \in Seq(LevelType) /\ ScopeOK /\ durable \in SUBSET Writes
  BY DEF TypeOK, ScopeOK, LevelType
<1>2. \A k \in 1..Len(levels) : levels[k] \in LevelType
  BY <1>1
<1> QED
  BY <1>1, <1>2 DEF LevelType

\* What is said of the stack holds of what is left of it.
LEMMA PrunedType ==
    ASSUME TypeOK, NEW m, Pruned(m)
    PROVE  /\ levels' \in Seq([name : Names \cup {NoName}, by : Objects, writes : SUBSET Writes])
           /\ \A k \in 2..Len(levels') : levels'[k].name # NoName
<1>1. /\ Len(levels) \in Nat /\ m \in 0..Len(levels)
      /\ Len(levels') = m
      /\ \A j \in 1..m : levels'[j].name = levels[j].name
  BY TypeFacts DEF Pruned
<1>2. \A k \in 2..Len(levels) : levels[k].name # NoName
  BY DEF TypeOK
<1> QED
  BY <1>1, <1>2 DEF Pruned, LevelType

LEMMA PrunedAll == ASSUME TypeOK, levels' = <<>> PROVE Pruned(0)
<1>1. <<>> \in Seq(LevelType) /\ Len(<<>>) = 0
  OBVIOUS
<1> QED
  BY <1>1, TypeFacts DEF Pruned

LEMMA PrunedNothing == ASSUME TypeOK, levels' = levels PROVE Pruned(Len(levels))
  BY TypeFacts DEF Pruned

\* A new level is the innermost one.
LEMMA PushedFacts ==
    ASSUME TypeOK, NEW n \in Names \cup {NoName}, NEW o \in Objects,
           levels' = Append(levels, Level(n, o)), n = NoName => levels = <<>>
    PROVE  /\ levels' \in Seq([name : Names \cup {NoName}, by : Objects, writes : SUBSET Writes])
           /\ \A k \in 2..Len(levels') : levels'[k].name # NoName
           /\ Len(levels') = Len(levels) + 1
           /\ levels'[Len(levels) + 1].name = n
           /\ levels'[Len(levels) + 1].by = o
           /\ \A j \in 1..Len(levels) : levels'[j] = levels[j]
<1> DEFINE l == Level(n, o)
<1>1. l \in LevelType /\ l.name = n /\ l.by = o
  BY DEF Level, LevelType
<1> HIDE DEF l
<1>2. /\ levels' \in Seq(LevelType) /\ Len(levels') = Len(levels) + 1
      /\ levels'[Len(levels) + 1] = l
      /\ \A j \in 1..Len(levels) : levels'[j] = levels[j]
      /\ Len(levels) \in Nat
  BY <1>1, TypeFacts DEF l
<1>3. ASSUME NEW k \in 2..Len(levels') PROVE levels'[k].name # NoName
  <2>1. CASE k = Len(levels) + 1
    <3>1. levels # <<>>
      BY <1>2, <2>1
    <3> QED
      BY <1>1, <1>2, <2>1, <3>1
  <2>2. CASE k # Len(levels) + 1
    BY <1>2, <1>3, <2>2 DEF TypeOK
  <2> QED
    BY <2>1, <2>2
<1> QED
  BY <1>1, <1>2, <1>3 DEF LevelType

LEMMA BeginPushes ==
    ASSUME TypeOK, NEW t \in Txns, levels = <<>>, levels' = <<Level(NoName, t)>>
    PROVE  levels' = Append(levels, Level(NoName, t)) /\ t \in Objects
<1>1. Append(<<>>, Level(NoName, t)) = <<Level(NoName, t)>>
  OBVIOUS
<1> QED
  BY <1>1 DEF Objects

LEMMA TypeInit == Init => TypeOK
<1> SUFFICES ASSUME Init PROVE TypeOK
  OBVIOUS
<1>1. /\ <<>> \in Seq(Objects) /\ Len(<<>>) = 0
      /\ <<>> \in Seq([name : Names \cup {NoName}, by : Objects, writes : SUBSET Writes])
  OBVIOUS
<1>2. /\ isActive \in [Objects -> BOOLEAN] /\ name \in [Sps -> Names \cup {NoName}]
      /\ \A o \in Objects : ~isActive[o]
      /\ durable \in SUBSET Writes
      /\ terminated \in BOOLEAN /\ disturbed \in BOOLEAN /\ disciplined \in BOOLEAN
  BY DEF Init
<1>3. scope = <<>> /\ levels = <<>>
  BY DEF Init
<1>4. /\ \A i, j \in 1..Len(scope) : scope[i] = scope[j] => i = j
      /\ \A k \in 2..Len(levels) : levels[k].name # NoName
  BY <1>1, <1>3
<1> QED
  BY <1>1, <1>2, <1>3, <1>4 DEF TypeOK

\* An object stays in the list or leaves it inactive.
LEMMA ScopeType ==
    ASSUME TypeOK, NEW o \in Objects, NEW b \in BOOLEAN,
           isActive' = [isActive EXCEPT ![o] = b],
           \/ scope' = scope /\ (b => Exists(o))
           \/ scope' = Append(scope, o) /\ ~Exists(o)
           \/ Destroyed(o) /\ ~b
    PROVE  /\ scope' \in Seq(Objects)
           /\ \A i, j \in 1..Len(scope') : scope'[i] = scope'[j] => i = j
           /\ isActive' \in [Objects -> BOOLEAN]
           /\ \A p \in Objects : isActive'[p] => Exists(p)'
<1>1. /\ ScopeOK /\ isActive \in [Objects -> BOOLEAN]
      /\ \A p \in Objects : isActive[p] => Exists(p)
  BY TypeFacts DEF TypeOK
<1>2. isActive' \in [Objects -> BOOLEAN]
      /\ \A p \in Objects : isActive'[p] = IF p = o THEN b ELSE isActive[p]
  BY <1>1
<1>3. CASE scope' = scope /\ (b => Exists(o))
  BY <1>1, <1>2, <1>3 DEF ScopeOK, Exists
<1>4. CASE scope' = Append(scope, o) /\ ~Exists(o)
  <2>1. ScopeOK' /\ \A p : Exists(p)' <=> Exists(p) \/ p = o
    BY <1>1, <1>4, ConstructedLast
  <2> QED
    BY <1>1, <1>2, <2>1 DEF ScopeOK
<1>5. CASE Destroyed(o) /\ ~b
  <2>1. ScopeOK' /\ \A p : Exists(p)' <=> Exists(p) /\ p # o
    BY <1>1, <1>5, DestroyedGone
  <2> QED
    BY <1>1, <1>2, <1>5, <2>1 DEF ScopeOK
<1> QED
  BY <1>3, <1>4, <1>5

\* The parts of TypeOK that the actions change together.
LEMMA TypeParts ==
    ASSUME TypeOK,
           /\ scope' \in Seq(Objects)
           /\ \A i, j \in 1..Len(scope') : scope'[i] = scope'[j] => i = j
           /\ isActive' \in [Objects -> BOOLEAN]
           /\ \A p \in Objects : isActive'[p] => Exists(p)',
           /\ levels' \in Seq([name : Names \cup {NoName}, by : Objects, writes : SUBSET Writes])
           /\ \A k \in 2..Len(levels') : levels'[k].name # NoName,
           name' \in [Sps -> Names \cup {NoName}],
           durable' \in SUBSET Writes,
           terminated' \in BOOLEAN, disturbed' \in BOOLEAN, disciplined' \in BOOLEAN
    PROVE  TypeOK'
  BY DEF TypeOK

LEMMA TypeStep == TypeOK /\ [Next]_vars => TypeOK'
<1> SUFFICES ASSUME TypeOK, [Next]_vars PROVE TypeOK'
  OBVIOUS
<1> USE TransactionsAssumption
<1>0. /\ levels \in Seq(LevelType) /\ durable \in SUBSET Writes
      /\ name \in [Sps -> Names \cup {NoName}]
      /\ terminated \in BOOLEAN /\ disturbed \in BOOLEAN /\ disciplined \in BOOLEAN
      /\ Txns \subseteq Objects /\ Sps \subseteq Objects
  BY TypeFacts DEF TypeOK, Objects
<1>s. ASSUME scope' = scope, isActive' = isActive
      PROVE  /\ scope' \in Seq(Objects)
             /\ \A i, j \in 1..Len(scope') : scope'[i] = scope'[j] => i = j
             /\ isActive' \in [Objects -> BOOLEAN]
             /\ \A p \in Objects : isActive'[p] => Exists(p)'
  BY <1>s DEF TypeOK, Exists
<1>1. CASE UNCHANGED vars
  BY <1>1 DEF vars, TypeOK, Exists
<1>2. ASSUME NEW t \in Txns, ConstructTxn(t) PROVE TypeOK'
  BY <1>0, <1>2, BeginPushes, PushedFacts, ScopeType, TypeParts DEF ConstructTxn
<1>3. ASSUME NEW t \in Txns, Begin(t) PROVE TypeOK'
  BY <1>0, <1>3, BeginPushes, PushedFacts, ScopeType, TypeParts DEF Begin, Begins
<1>4. ASSUME NEW t \in Txns, Commit(t) PROVE TypeOK'
  <2>1. 1 \in 1..Len(levels)
    BY <1>0, <1>4 DEF Commit
  <2>2. Pruned(0) /\ durable' \in SUBSET Writes
    BY <1>0, <1>4, <2>1, KeepFromPrunes DEF Commit
  <2> QED
    BY <1>0, <1>4, <2>2, PrunedType, ScopeType, TypeParts DEF Commit, Ends
<1>5. ASSUME NEW t \in Txns, CommitRefused(t) PROVE TypeOK'
  BY <1>1, <1>5 DEF CommitRefused
<1>6. ASSUME NEW t \in Txns, Rollback(t) PROVE TypeOK'
  BY <1>0, <1>6, PrunedAll, PrunedType, ScopeType, TypeParts DEF Rollback, Ends
<1>7. ASSUME NEW t \in Txns, DestroyTxn(t) PROVE TypeOK'
  <2>1. \E m \in {0, Len(levels)} : Pruned(m)
    BY <1>7, PrunedAll, PrunedNothing DEF DestroyTxn
  <2>2. isActive' = [isActive EXCEPT ![t] = FALSE]
    BY <1>7 DEF DestroyTxn, Destroyed
  <2> QED
    BY <1>0, <1>7, <2>1, <2>2, PrunedType, ScopeType, TypeParts DEF DestroyTxn
<1>8. ASSUME NEW s \in Sps, ConstructSp(s) PROVE TypeOK'
  <2>1. PICK n \in Names : /\ levels' = Append(levels, Level(n, s))
                           /\ name' = [name EXCEPT ![s] = n]
    BY <1>8 DEF ConstructSp
  <2>2. name' \in [Sps -> Names \cup {NoName}]
    BY <1>0, <2>1
  <2>3. /\ levels' \in Seq([name : Names \cup {NoName}, by : Objects, writes : SUBSET Writes])
        /\ \A k \in 2..Len(levels') : levels'[k].name # NoName
    BY <1>0, <2>1, PushedFacts
  <2> QED
    BY <1>0, <1>8, <2>2, <2>3, ScopeType, TypeParts DEF ConstructSp
<1>9. ASSUME NEW s \in Sps, Release(s) PROVE TypeOK'
  <2>1. PICK k \in Latest(name[s]) : KeepFrom(k)
    BY <1>9 DEF Release
  <2>2. Pruned(k - 1) /\ durable' \in SUBSET Writes
    BY <1>0, <2>1, LatestFacts, KeepFromPrunes
  <2> QED
    BY <1>0, <1>9, <2>2, PrunedType, ScopeType, TypeParts DEF Release, Ends
<1>10. ASSUME NEW s \in Sps, RollbackTo(s) PROVE TypeOK'
  <2>1. PICK k \in Latest(name[s]) : Pruned(k)
    BY <1>0, <1>10, RollbackPrunes
  <2> QED
    BY <1>0, <1>10, <1>s, <2>1, PrunedType, TypeParts DEF RollbackTo, Ends
<1>11. ASSUME NEW s \in Sps, DestroyReleasedSp(s) PROVE TypeOK'
  <2>1. isActive' = [isActive EXCEPT ![s] = FALSE]
    BY <1>11 DEF DestroyReleasedSp, Destroyed
  <2> QED
    BY <1>0, <1>11, <2>1, PrunedNothing, PrunedType, ScopeType, TypeParts DEF DestroyReleasedSp
<1>12. ASSUME NEW s \in Sps, DestroyActiveSp(s) PROVE TypeOK'
  <2>1. PICK k \in Latest(name[s]) : KeepFrom(k)
    BY <1>12 DEF DestroyActiveSp
  <2>2. Pruned(k - 1) /\ durable' \in SUBSET Writes
    BY <1>0, <2>1, LatestFacts, KeepFromPrunes
  <2>3. isActive' = [isActive EXCEPT ![s] = FALSE]
    BY <1>12 DEF DestroyActiveSp, Destroyed
  <2> QED
    BY <1>0, <1>12, <2>2, <2>3, PrunedType, ScopeType, TypeParts DEF DestroyActiveSp
<1>13. ASSUME NEW s \in Sps, DestroySpThrows(s) PROVE TypeOK'
  <2>1. isActive' = [isActive EXCEPT ![s] = FALSE]
    BY <1>13 DEF DestroySpThrows, Destroyed
  <2> QED
    BY <1>0, <1>13, <2>1, PrunedNothing, PrunedType, ScopeType, TypeParts DEF DestroySpThrows
<1>14. ASSUME NEW w \in Writes, Write(w) PROVE TypeOK'
  <2>1. Pruned(Len(levels)) /\ durable' \in SUBSET Writes
    BY <1>0, <1>14, WritePrunesNothing
  <2> QED
    BY <1>0, <1>14, <1>s, <2>1, PrunedType, TypeParts DEF Write
<1>15. CASE Abort
  BY <1>0, <1>15, <1>s, PrunedAll, PrunedType, TypeParts DEF Abort
<1> QED
  BY <1>1, <1>2, <1>3, <1>4, <1>5, <1>6, <1>7, <1>8, <1>9, <1>10, <1>11, <1>12, <1>13,
     <1>14, <1>15
  DEF Next, TxnNext, SpNext

-----------------------------------------------------------------------------
(* Savepoints are accounted for *)

NameOf(o) == IF o \in Txns THEN NoName ELSE name[o]

(***************************************************************************)
(* Every level can be given an active object of its own that knows its     *)
(* name.  It need not be the one that opened the level: when two           *)
(* savepoints have the same name, the outer one's release() ends the inner *)
(* one's level.  Objects used as automatic variables are those constructed *)
(* since the outermost level was opened.                                   *)
(***************************************************************************)
Matching(f) ==
    /\ \A j \in 1..Len(levels) : isActive[f[j]] /\ NameOf(f[j]) = levels[j].name
    /\ \A j, k \in 1..Len(levels) : f[j] = f[k] => j = k
    /\ Scoped => \A j \in 1..Len(levels) :
                    f[j] = levels[1].by \/ f[j] \in After(levels[1].by)

Matched == \E f \in [1..Len(levels) -> Objects] : Matching(f)

AccountInv ==
    /\ TypeOK
    /\ \A s \in Sps : isActive[s] => name[s] \in Names
    /\ Running => Matched

\* The object that began the transaction exists.
LEMMA FirstExists ==
    ASSUME TypeOK, Scoped, levels # <<>>, Matched
    PROVE  Exists(levels[1].by)
<1>1. PICK f \in [1..Len(levels) -> Objects] : Matching(f)
  BY DEF Matched
<1>2. 1 \in 1..Len(levels)
  BY TypeFacts
<1>3. f[1] \in Objects /\ isActive[f[1]]
      /\ (f[1] = levels[1].by \/ f[1] \in After(levels[1].by))
  BY <1>1, <1>2 DEF Matching
<1>4. CASE f[1] = levels[1].by
  BY <1>3, <1>4 DEF TypeOK
<1>5. CASE f[1] \in After(levels[1].by)
  <2>1. PICK j \in 1..Len(scope) : \E i \in 1..(j - 1) : scope[i] = levels[1].by
    BY <1>5, AfterIndex
  <2>2. PICK i \in 1..(j - 1) : scope[i] = levels[1].by
    BY <2>1
  <2>3. i \in 1..Len(scope)
    BY <2>1, <2>2, TypeFacts DEF ScopeOK
  <2> QED
    BY <2>2, <2>3 DEF Exists
<1> QED
  BY <1>3, <1>4, <1>5

LEMMA EmptyMatched == (levels = <<>> => Matched) /\ (levels' = <<>> => Matched')
<1> DEFINE f == [j \in {} |-> CHOOSE o \in Objects : TRUE]
<1>0. 1..Len(<<>>) = {} /\ f \in [{} -> Objects]
  OBVIOUS
<1>1. levels = <<>> => Matching(f) /\ f \in [1..Len(levels) -> Objects]
  BY <1>0 DEF Matching
<1>2. levels' = <<>> => Matching(f)' /\ f \in [1..Len(levels') -> Objects]
  BY <1>0 DEF Matching
<1> HIDE DEF f
<1> QED
  BY <1>1, <1>2 DEF Matched

\* The outermost levels keep their objects if these are still active.
LEMMA PrunedMatched ==
    ASSUME AccountInv, Running, NEW m, Pruned(m), name' = name,
           \A p \in Objects : isActive[p] => isActive'[p],
           m > 0 /\ Scoped => \A q \in Objects :
               isActive[q] /\ q \in After(levels[1].by) => q \in After(levels[1].by)'
    PROVE  Matched'
<1>1. PICK f \in [1..Len(levels) -> Objects] : Matching(f)
  BY DEF AccountInv, Matched
<1>2. /\ Len(levels) \in Nat /\ m \in 0..Len(levels) /\ Len(levels') = m
      /\ \A j \in 1..m : levels'[j].name = levels[j].name /\ levels'[j].by = levels[j].by
  BY TypeFacts DEF Pruned, AccountInv
<1> DEFINE g == [j \in 1..m |-> f[j]]
<1>3. \A j \in 1..m : g[j] = f[j] /\ j \in 1..Len(levels) /\ f[j] \in Objects
  BY <1>2
<1>4. g \in [1..Len(levels') -> Objects]
  BY <1>2
<1> HIDE DEF g
<1>5. ASSUME NEW j \in 1..m PROVE isActive'[g[j]] /\ NameOf(g[j])' = levels'[j].name
  BY <1>1, <1>2, <1>3 DEF Matching, NameOf
<1>6. \A j, k \in 1..m : g[j] = g[k] => j = k
  BY <1>1, <1>3 DEF Matching
<1>7. ASSUME Scoped, NEW j \in 1..m
      PROVE  g[j] = levels'[1].by \/ g[j] \in After(levels[1].by)'
  <2>1. m > 0 /\ levels'[1].by = levels[1].by
    BY <1>2
  <2>2. isActive[f[j]] /\ (f[j] = levels[1].by \/ f[j] \in After(levels[1].by))
    BY <1>1, <1>3, <1>7 DEF Matching
  <2> QED
    BY <1>3, <1>7, <2>1, <2>2
<1>8. Matching(g)'
  BY <1>2, <1>5, <1>6, <1>7 DEF Matching
<1> QED
  BY <1>4, <1>8 DEF Matched

\* The level that ends need not be the one that was given to s; if it was another one's,
\* that object takes over the level of s.
LEMMA EndedMatched ==
    ASSUME AccountInv, Running, NEW s \in Sps, NEW k \in Latest(name[s]), Pruned(k - 1),
           name' = name, isActive[s], isActive' = [isActive EXCEPT ![s] = FALSE],
           NEW f \in [1..Len(levels) -> Objects], Matching(f),
           k > 1 /\ Scoped => \A q : q # s /\ q \in After(levels[1].by) => q \in After(levels[1].by)'
    PROVE  Matched'
<1>1. /\ Len(levels) \in Nat /\ k \in 1..Len(levels)
      /\ levels[k].name = name[s]
      /\ Len(levels') = k - 1
      /\ \A j \in 1..(k - 1) : levels'[j].name = levels[j].name /\ levels'[j].by = levels[j].by
      /\ s \in Objects /\ isActive \in [Objects -> BOOLEAN]
  BY TypeFacts, LatestFacts DEF AccountInv, Pruned, TypeOK, Objects
<1> DEFINE g == [j \in 1..(k - 1) |-> IF f[j] = s THEN f[k] ELSE f[j]]
<1>2. \A j \in 1..(k - 1) : /\ j \in 1..Len(levels) /\ j # k
                            /\ g[j] = IF f[j] = s THEN f[k] ELSE f[j]
  BY <1>1
<1>3. /\ g \in [1..(k - 1) -> Objects]
      /\ f[k] \in Objects
  BY <1>1
<1> HIDE DEF g
<1>4. \A i, j \in 1..Len(levels) : f[i] = f[j] => i = j
  BY DEF Matching
<1>5. ASSUME NEW j \in 1..(k - 1) PROVE isActive'[g[j]] /\ NameOf(g[j])' = levels'[j].name
  <2>1. NameOf(s) = name[s]
    BY TransactionsAssumption DEF NameOf
  <2>2. CASE f[j] = s
    <3>1. g[j] = f[k] /\ f[k] # s
      BY <1>1, <1>2, <1>4, <2>2
    <3>2. isActive[f[k]] /\ NameOf(f[k]) = name[s] /\ levels[j].name = name[s]
      BY <1>1, <1>2, <2>1, <2>2 DEF Matching
    <3>3. isActive'[f[k]]
      BY <1>1, <1>3, <3>1, <3>2
    <3> QED
      BY <1>1, <3>1, <3>2, <3>3 DEF NameOf
  <2>3. CASE f[j] # s
    <3>1. f[j] \in Objects /\ isActive[f[j]] /\ NameOf(f[j]) = levels[j].name
      BY <1>2 DEF Matching
    <3>2. isActive'[f[j]]
      BY <1>1, <2>3, <3>1
    <3> QED
      BY <1>1, <1>2, <2>3, <3>1, <3>2 DEF NameOf
  <2> QED
    BY <2>2, <2>3
<1>6. ASSUME NEW i \in 1..(k - 1), NEW j \in 1..(k - 1), g[i] = g[j] PROVE i = j
  BY <1>1, <1>2, <1>4, <1>6
<1>7. ASSUME Scoped, NEW j \in 1..(k - 1)
      PROVE  g[j] = levels'[1].by \/ g[j] \in After(levels[1].by)'
  <2>1. k > 1 /\ levels'[1].by = levels[1].by
    BY <1>1
  <2>2. g[j] # s /\ \E i \in 1..Len(levels) : g[j] = f[i]
    BY <1>1, <1>2, <1>4
  <2>3. g[j] = levels[1].by \/ g[j] \in After(levels[1].by)
    BY <1>7, <2>2 DEF Matching
  <2> QED
    BY <1>7, <2>1, <2>2, <2>3
<1>8. Matching(g)'
  BY <1>1, <1>5, <1>6, <1>7 DEF Matching
<1> QED
  BY <1>1, <1>3, <1>8 DEF Matched

\* The object that opens a level is given it.
LEMMA PushedMatched ==
    ASSUME AccountInv, Running, TypeOK', NEW o \in Objects, NEW n \in Names \cup {NoName},
           levels' = Append(levels, Level(n, o)),
           isActive' = [isActive EXCEPT ![o] = TRUE],
           NameOf(o)' = n,
           \A p \in Objects : p # o => NameOf(p)' = NameOf(p),
           levels = <<>> \/ (scope' = Append(scope, o) /\ ~Exists(o)),
           n = NoName => levels = <<>>
    PROVE  Matched'
<1>1. PICK f \in [1..Len(levels) -> Objects] : Matching(f)
  BY DEF AccountInv, Matched
<1>0. PICK m \in Nat : m = Len(levels)
  BY TypeFacts DEF AccountInv
<1> DEFINE g == [j \in 1..(m + 1) |-> IF j = m + 1 THEN o ELSE f[j]]
<1>2. /\ m \in Nat /\ Len(levels') = m + 1
      /\ levels'[m + 1].name = n /\ levels'[m + 1].by = o
      /\ \A j \in 1..m : levels'[j] = levels[j]
      /\ isActive \in [Objects -> BOOLEAN]
      /\ \A p \in Objects : isActive[p] => Exists(p)
  <2>1. TypeOK
    BY DEF AccountInv
  <2>2. /\ Len(levels') = Len(levels) + 1
        /\ levels'[Len(levels) + 1].name = n /\ levels'[Len(levels) + 1].by = o
        /\ \A j \in 1..Len(levels) : levels'[j] = levels[j]
    BY <2>1, PushedFacts
  <2>3. isActive \in [Objects -> BOOLEAN] /\ \A p \in Objects : isActive[p] => Exists(p)
    BY <2>1 DEF TypeOK
  <2> QED
    BY <1>0, <2>2, <2>3
<1>a. \A j \in 1..m : f[j] \in Objects /\ isActive[f[j]] /\ NameOf(f[j]) = levels[j].name
  BY <1>0, <1>1 DEF Matching
<1>b. g \in [1..(m + 1) -> Objects] /\ g[m + 1] = o /\ \A j \in 1..m : g[j] = f[j]
  BY <1>2, <1>a
<1>3. /\ g \in [1..(m + 1) -> Objects] /\ g[m + 1] = o
      /\ \A j \in 1..m : g[j] = f[j] /\ f[j] \in Objects /\ isActive[f[j]]
                         /\ NameOf(f[j]) = levels[j].name
  BY <1>a, <1>b
<1> HIDE DEF g
<1>4. \A j \in 1..m : f[j] # o /\ scope' = Append(scope, o) /\ ~Exists(o)
  BY <1>0, <1>2, <1>3
<1>5. ASSUME NEW j \in 1..(m + 1) PROVE isActive'[g[j]] /\ NameOf(g[j])' = levels'[j].name
  <2>1. CASE j = m + 1
    BY <1>2, <1>3, <2>1
  <2>2. CASE j # m + 1
    <3>1. j \in 1..m
      BY <1>2, <2>2
    <3> QED
      BY <1>2, <1>3, <1>4, <3>1
  <2> QED
    BY <2>1, <2>2
<1>6. ASSUME NEW i \in 1..(m + 1), NEW j \in 1..(m + 1), g[i] = g[j] PROVE i = j
  <2>1. \A a, b \in 1..m : f[a] = f[b] => a = b
    BY <1>0, <1>1 DEF Matching
  <2> QED
    BY <1>2, <1>3, <1>4, <1>6, <2>1
<1>7. ASSUME Scoped, NEW j \in 1..(m + 1)
      PROVE  g[j] = levels'[1].by \/ g[j] \in After(levels[1].by)'
  <2>1. CASE m = 0
    BY <1>2, <1>3, <2>1
  <2>2. CASE m # 0
    <3>1. 1 \in 1..m /\ levels'[1].by = levels[1].by /\ levels # <<>>
      BY <1>0, <1>2, <2>2
    <3>2. Exists(levels[1].by)
      BY <1>7, <3>1, FirstExists DEF AccountInv
    <3> DEFINE b == levels[1].by
    <3> HIDE DEF b
    <3>3. o \in After(b)' /\ \A q : q \in After(b) => q \in After(b)'
      <4>1. scope' = Append(scope, o) /\ ~Exists(o) /\ ScopeOK
        BY <1>4, <3>1, TypeFacts DEF AccountInv
      <4>2. /\ \A p, q : q \in After(p) => q \in After(p)'
            /\ \A p : Exists(p) => o \in After(p)'
        BY <4>1, ConstructedLast
      <4>3. levels'[1].by = levels[1].by
        BY <3>1
      <4> QED
        BY <3>2, <4>2, <4>3 DEF b
    <3>4. CASE j = m + 1
      BY <1>3, <3>3, <3>4 DEF b
    <3>5. CASE j # m + 1
      <4>1. j \in 1..m
        BY <1>2, <3>5
      <4>2. f[j] = levels[1].by \/ f[j] \in After(levels[1].by)
        BY <1>0, <1>1, <1>7, <4>1 DEF Matching
      <4> QED
        BY <1>3, <3>1, <3>3, <4>1, <4>2 DEF b
    <3> QED
      BY <3>4, <3>5
  <2> QED
    BY <2>1, <2>2
<1>8. Matching(g)'
  BY <1>2, <1>5, <1>6, <1>7 DEF Matching
<1> QED
  BY <1>2, <1>3, <1>8 DEF Matched

LEMMA AccountInit == Init => AccountInv
<1> SUFFICES ASSUME Init PROVE AccountInv
  OBVIOUS
<1>1. \A s \in Sps : ~isActive[s]
  BY DEF Init, Objects
<1> QED
  BY <1>1, TypeInit, EmptyMatched DEF Init, AccountInv

\* Nobody who has a level is behind or at the place of an inactive object that ends.
LEMMA InactiveDestroyed ==
    ASSUME AccountInv, NEW o \in Objects, Destroyed(o), ~isActive[o],
           levels' = levels, name' = name
    PROVE  Matched'
<1>1. /\ ScopeOK /\ TypeOK /\ Running /\ Matched /\ Pruned(Len(levels))
      /\ isActive' = [isActive EXCEPT ![o] = FALSE]
      /\ isActive \in [Objects -> BOOLEAN]
  BY TypeFacts, PrunedNothing DEF AccountInv, Destroyed, TypeOK
<1>2. \A p \in Objects : isActive[p] => isActive'[p]
  BY <1>1
<1>3. ASSUME Len(levels) > 0, Scoped, NEW q \in Objects, isActive[q], q \in After(levels[1].by)
      PROVE  q \in After(levels[1].by)'
  <2>1. levels[1].by # o
    BY <1>1, <1>3, DestroyedGone
  <2>2. q # o
    BY <1>3
  <2> QED
    BY <1>1, <1>3, <2>1, <2>2, DestroyedGone
<1> QED
  BY <1>1, <1>2, <1>3, PrunedMatched

LEMMA AccountStep == AccountInv /\ [Next]_vars => AccountInv'
<1> SUFFICES ASSUME AccountInv, [Next]_vars PROVE AccountInv'
  OBVIOUS
<1> USE TransactionsAssumption
<1>0. /\ TypeOK /\ TypeOK' /\ ScopeOK
      /\ Txns \subseteq Objects /\ Sps \subseteq Objects
      /\ isActive \in [Objects -> BOOLEAN] /\ name \in [Sps -> Names \cup {NoName}]
      /\ \A s \in Sps : isActive[s] => name[s] \in Names
  BY TypeStep, TypeFacts DEF AccountInv, TypeOK, Objects
<1>e. ASSUME levels' = <<>>, name' = name, \A s \in Sps : isActive'[s] => isActive[s]
      PROVE  AccountInv'
  BY <1>0, <1>e, EmptyMatched DEF AccountInv
<1>p. ASSUME NEW m, Pruned(m), Running, UNCHANGED <<scope, isActive, name>>
      PROVE  AccountInv'
  <2>1. \A q, p : q \in After(p) => q \in After(p)'
    BY <1>p DEF After
  <2>2. m > 0 => levels'[1].by = levels[1].by
    BY <1>0, <1>p, TypeFacts DEF Pruned
  <2>3. Matched'
    BY <1>p, <2>1, <2>2, PrunedMatched
  <2> QED
    BY <1>0, <1>p, <2>3 DEF AccountInv
<1>1. CASE UNCHANGED vars
  BY <1>0, <1>1 DEF vars, AccountInv, Running, Matched, Matching, NameOf, After
<1>2. ASSUME NEW t \in Txns, ConstructTxn(t) \/ Begin(t) PROVE AccountInv'
  <2>1. /\ Running /\ levels = <<>>
        /\ levels' = Append(levels, Level(NoName, t))
        /\ isActive' = [isActive EXCEPT ![t] = TRUE]
        /\ name' = name
    BY <1>0, <1>2, BeginPushes DEF ConstructTxn, Begin, Begins
  <2>2. NameOf(t)' = NoName /\ \A p : NameOf(p)' = NameOf(p)
    BY <2>1 DEF NameOf
  <2>3. Matched'
    <3>1. NoName \in Names \cup {NoName} /\ t \in Objects /\ TypeOK'
      BY <1>0
    <3>2. \A p \in Objects : p # t => NameOf(p)' = NameOf(p)
      BY <2>2
    <3>3. levels = <<>> \/ (scope' = Append(scope, t) /\ ~Exists(t))
      BY <2>1
    <3> QED
      BY <2>1, <2>2, <3>1, <3>2, <3>3, PushedMatched
  <2>4. \A s \in Sps : isActive'[s] => isActive[s]
    BY <1>0, <2>1
  <2> QED
    BY <1>0, <2>1, <2>3, <2>4 DEF AccountInv
<1>3. ASSUME NEW t \in Txns, Commit(t) PROVE AccountInv'
  <2>1. levels' = <<>> /\ name' = name /\ isActive' = [isActive EXCEPT ![t] = FALSE]
    BY <1>3 DEF Commit, KeepFrom
  <2> QED
    BY <1>0, <1>e, <2>1
<1>4. ASSUME NEW t \in Txns, CommitRefused(t) PROVE AccountInv'
  BY <1>1, <1>4 DEF CommitRefused
<1>5. ASSUME NEW t \in Txns, Rollback(t) PROVE AccountInv'
  <2>1. levels' = <<>> /\ name' = name /\ isActive' = [isActive EXCEPT ![t] = FALSE]
    BY <1>5 DEF Rollback
  <2> QED
    BY <1>0, <1>e, <2>1
<1>6. ASSUME NEW t \in Txns, DestroyTxn(t) PROVE AccountInv'
  <2>1. name' = name /\ isActive' = [isActive EXCEPT ![t] = FALSE] /\ Destroyed(t)
    BY <1>6 DEF DestroyTxn, Destroyed
  <2>2. CASE isActive[t]
    BY <1>0, <1>6, <1>e, <2>1, <2>2 DEF DestroyTxn
  <2>3. CASE ~isActive[t]
    <3>1. Matched'
      BY <1>0, <1>6, <2>1, <2>3, InactiveDestroyed DEF DestroyTxn
    <3> QED
      BY <1>0, <2>1, <3>1 DEF AccountInv
  <2> QED
    BY <2>2, <2>3
<1>7. ASSUME NEW s \in Sps, ConstructSp(s) PROVE AccountInv'
  <2>1. PICK n \in Names : /\ levels' = Append(levels, Level(n, s))
                           /\ name' = [name EXCEPT ![s] = n]
    BY <1>7 DEF ConstructSp
  <2>2. /\ Running /\ ~Exists(s) /\ scope' = Append(scope, s)
        /\ isActive' = [isActive EXCEPT ![s] = TRUE]
    BY <1>7 DEF ConstructSp
  <2>3. name'[s] = n /\ \A p \in Sps : p # s => name'[p] = name[p]
    BY <1>0, <2>1
  <2>4. NameOf(s)' = n /\ \A p \in Objects : p # s => NameOf(p)' = NameOf(p)
    BY <1>0, <2>3 DEF NameOf, Objects
  <2>5. Matched'
    BY <1>0, <2>1, <2>2, <2>4, PushedMatched
  <2>6. \A p \in Sps : isActive'[p] => name'[p] \in Names
    BY <1>0, <2>2, <2>3
  <2> QED
    BY <1>0, <2>2, <2>5, <2>6 DEF AccountInv
<1>8. ASSUME NEW s \in Sps, Release(s) PROVE AccountInv'
  <2>1. PICK k \in Latest(name[s]) : KeepFrom(k)
    BY <1>8 DEF Release
  <2>2. Pruned(k - 1)
    BY <1>0, <2>1, TypeFacts, LatestFacts, KeepFromPrunes
  <2>3. /\ Running /\ name' = name /\ scope' = scope
        /\ isActive' = [isActive EXCEPT ![s] = FALSE]
    BY <1>8 DEF Release, Ends
  <2>4. PICK f \in [1..Len(levels) -> Objects] : Matching(f)
    BY <2>3 DEF AccountInv, Matched
  <2>5. \A q, p : q \in After(p) => q \in After(p)'
    BY <2>3 DEF After
  <2>6. k > 1 => levels'[1].by = levels[1].by
    BY <1>0, <2>2, TypeFacts, LatestFacts DEF Pruned
  <2>7. CASE isActive[s]
    <3>1. Matched'
      BY <2>2, <2>3, <2>4, <2>5, <2>6, <2>7, EndedMatched
    <3> QED
      BY <1>0, <2>3, <3>1 DEF AccountInv
  <2>8. CASE ~isActive[s]
    <3>1. isActive' = isActive
      BY <1>0, <2>3, <2>8
    <3> QED
      BY <1>p, <2>2, <2>3, <3>1
  <2> QED
    BY <2>7, <2>8
<1>9. ASSUME NEW s \in Sps, RollbackTo(s) PROVE AccountInv'
  <2>1. PICK k \in Latest(name[s]) : Pruned(k)
    BY <1>0, <1>9, TypeFacts, RollbackPrunes
  <2> QED
    BY <1>9, <1>p, <2>1 DEF RollbackTo, Ends
<1>10. ASSUME NEW s \in Sps, DestroyReleasedSp(s) PROVE AccountInv'
  <2>1. /\ name' = name /\ isActive' = [isActive EXCEPT ![s] = FALSE] /\ Destroyed(s)
        /\ ~isActive[s] /\ levels' = levels
    BY <1>10 DEF DestroyReleasedSp, Destroyed
  <2>2. Matched'
    BY <1>0, <2>1, InactiveDestroyed
  <2> QED
    BY <1>0, <2>1, <2>2 DEF AccountInv
<1>11. ASSUME NEW s \in Sps, DestroyActiveSp(s) PROVE AccountInv'
  <2>1. PICK k \in Latest(name[s]) : KeepFrom(k)
    BY <1>11 DEF DestroyActiveSp
  <2>2. Pruned(k - 1)
    BY <1>0, <2>1, TypeFacts, LatestFacts, KeepFromPrunes
  <2>3. /\ Running /\ name' = name /\ isActive[s] /\ Destroyed(s)
        /\ isActive' = [isActive EXCEPT ![s] = FALSE]
    BY <1>11 DEF DestroyActiveSp, Destroyed
  <2>4. PICK f \in [1..Len(levels) -> Objects] : Matching(f)
    BY <2>3 DEF AccountInv, Matched
  <2>5. k > 1 /\ Scoped => levels[1].by # s
    <3> SUFFICES ASSUME k > 1, Scoped, levels[1].by = s PROVE FALSE
      OBVIOUS
    <3>1. 1 \in 1..Len(levels) /\ k \in 1..Len(levels)
      BY <1>0, TypeFacts, LatestFacts
    <3>2. After(s) = {}
      BY <1>0, <2>3, DestroyedGone
    <3>3. f[1] = s /\ f[k] = s
      BY <2>4, <3>1, <3>2 DEF Matching
    <3> QED
      BY <2>4, <3>1, <3>3 DEF Matching
  <2>6. k > 1 => levels'[1].by = levels[1].by
    BY <1>0, <2>2, TypeFacts, LatestFacts DEF Pruned
  <2>7. k > 1 /\ Scoped =>
            \A q : q # s /\ q \in After(levels[1].by) => q \in After(levels[1].by)'
    BY <1>0, <2>3, <2>5, <2>6, DestroyedGone
  <2>8. Matched'
    BY <2>2, <2>3, <2>4, <2>7, EndedMatched
  <2> QED
    BY <1>0, <2>3, <2>8 DEF AccountInv
<1>12. ASSUME NEW s \in Sps, DestroySpThrows(s) PROVE AccountInv'
  <2>1. terminated' /\ name' = name /\ isActive' = [isActive EXCEPT ![s] = FALSE]
    BY <1>12 DEF DestroySpThrows, Destroyed
  <2> QED
    BY <1>0, <2>1 DEF AccountInv, Running
<1>13. ASSUME NEW w \in Writes, Write(w) PROVE AccountInv'
  <2>1. Pruned(Len(levels))
    BY <1>0, <1>13, TypeFacts, WritePrunesNothing
  <2> QED
    BY <1>13, <1>p, <2>1 DEF Write
<1>14. CASE Abort
  BY <1>14, <1>e DEF Abort
<1> QED
  BY <1>1, <1>2, <1>3, <1>4, <1>5, <1>6, <1>7, <1>8, <1>9, <1>10, <1>11, <1>12, <1>13, <1>14
  DEF Next, TxnNext, SpNext

-----------------------------------------------------------------------------
(* Objects used as scopes *)

\* Two objects that exist are in an order.
LEMMA AfterTotal ==
    ASSUME ScopeOK, NEW p, NEW q, Exists(p), Exists(q), p # q
    PROVE  p \in After(q) \/ q \in After(p)
<1>1. PICK i \in 1..Len(scope) : scope[i] = p
  BY DEF Exists
<1>2. PICK j \in 1..Len(scope) : scope[j] = q
  BY DEF Exists
<1>3. Len(scope) \in Nat
  BY DEF ScopeOK
<1>4. CASE i < j
  <2>1. i \in 1..(j - 1)
    BY <1>3, <1>4
  <2> QED
    BY <1>1, <1>2, <2>1, AfterIndex
<1>5. CASE j < i
  <2>1. j \in 1..(i - 1)
    BY <1>3, <1>5
  <2> QED
    BY <1>1, <1>2, <2>1, AfterIndex
<1> QED
  BY <1>1, <1>2, <1>3, <1>4, <1>5

\* The levels are those of active objects, in the order of their construction.  An
\* active object that has none lost it when SQLite rolled back, and what is open now
\* was opened behind it.
Nested ==
    /\ \A k \in 1..Len(levels) : /\ isActive[levels[k].by]
                                 /\ levels[k].name = NameOf(levels[k].by)
    /\ \A j, k \in 1..Len(levels) : j < k => levels[k].by \in After(levels[j].by)
    /\ \A o \in Objects : isActive[o] =>
          \/ \E k \in 1..Len(levels) : levels[k].by = o
          \/ \A k \in 1..Len(levels) : levels[k].by \in After(o)

HaveLevels == \A o \in Objects : isActive[o] => \E k \in 1..Len(levels) : levels[k].by = o

DisciplineInv ==
    /\ TypeOK
    /\ disciplined /\ Running => Nested /\ (~disturbed => HaveLevels)
    /\ disciplined /\ terminated => disturbed

\* The innermost active object is that of the innermost level, and of no other.
LEMMA InnermostLevel ==
    ASSUME TypeOK, Nested, levels # <<>>, NEW o \in Objects, isActive[o], Innermost(o)
    PROVE  /\ levels[Len(levels)].by = o
           /\ \A k \in 1..Len(levels) : levels[k].by = o => k = Len(levels)
<1>1. Len(levels) \in Nat /\ 1 \in 1..Len(levels) /\ Len(levels) \in 1..Len(levels) /\ ScopeOK
  BY TypeFacts
<1>2. PICK k \in 1..Len(levels) : levels[k].by = o
  BY <1>1 DEF Nested, Innermost
<1>3. k = Len(levels)
  BY <1>1, <1>2 DEF Nested, Innermost
<1>4. ASSUME NEW j \in 1..Len(levels), levels[j].by = o PROVE j = Len(levels)
  BY <1>1, <1>4 DEF Nested, Innermost
<1> QED
  BY <1>2, <1>3, <1>4

\* A transaction that is the innermost active object is the only one that has a level.
LEMMA InnermostTxn ==
    ASSUME TypeOK, Nested, NEW t \in Txns, isActive[t], Innermost(t), levels # <<>>
    PROVE  Len(levels) = 1 /\ levels[1].by = t
<1>1. Len(levels) \in Nat /\ Len(levels) \in 1..Len(levels) /\ t \in Objects
  BY TypeFacts DEF Objects
<1>2. levels[Len(levels)].by = t
  BY <1>1, InnermostLevel
<1>3. levels[Len(levels)].name = NoName
  BY <1>1, <1>2 DEF Nested, NameOf
<1>4. \A k \in 2..Len(levels) : levels[k].name # NoName
  BY DEF TypeOK
<1>5. PICK n \in Nat : n = Len(levels)
  BY <1>1
<1>6. n >= 1 /\ (n = 1 \/ n \in 2..n)
  BY <1>1, <1>5
<1> QED
  BY <1>2, <1>3, <1>4, <1>5, <1>6

\* The name of a savepoint that is the innermost active object means its own level.
LEMMA InnermostSp ==
    ASSUME TypeOK, Nested, NEW s \in Sps, isActive[s], Innermost(s), levels # <<>>
    PROVE  /\ Len(levels) \in Latest(name[s])
           /\ \A k \in Latest(name[s]) : k = Len(levels)
<1>1. Len(levels) \in Nat /\ Len(levels) \in 1..Len(levels) /\ s \in Objects
      /\ levels \in Seq(LevelType)
  BY TypeFacts DEF Objects
<1>2. levels[Len(levels)].by = s
  BY <1>1, InnermostLevel
<1>3. levels[Len(levels)].name = name[s]
  BY <1>1, <1>2, TransactionsAssumption DEF Nested, NameOf
<1>4. Len(levels) \in Latest(name[s])
  BY <1>1, <1>3 DEF Latest
<1>5. ASSUME NEW k \in Latest(name[s]) PROVE k = Len(levels)
  BY <1>1, <1>3, <1>5, LatestFacts
<1> QED
  BY <1>4, <1>5

LEMMA EmptyNested ==
    ASSUME TypeOK', levels' = <<>>, \A o \in Objects : ~isActive'[o]
    PROVE  Nested' /\ HaveLevels'
<1>1. 1..Len(<<>>) = {}
  OBVIOUS
<1> QED
  BY <1>1 DEF Nested, HaveLevels

\* o ends, and its level, if it has one, is the innermost one.
LEMMA PrunedNested ==
    ASSUME TypeOK, Nested, NEW o \in Objects, NEW m, Pruned(m), name' = name,
           isActive' = [isActive EXCEPT ![o] = FALSE],
           \A k \in 1..Len(levels) : levels[k].by = o <=> k > m,
           \A p, q : q \in After(p) /\ p # o /\ q # o => q \in After(p)'
    PROVE  Nested' /\ (HaveLevels => HaveLevels')
<1>1. /\ Len(levels) \in Nat /\ m \in 0..Len(levels) /\ Len(levels') = m
      /\ \A j \in 1..m : levels'[j].name = levels[j].name /\ levels'[j].by = levels[j].by
      /\ isActive \in [Objects -> BOOLEAN]
      /\ \A j \in 1..Len(levels) : levels[j].by \in Objects
  BY TypeFacts DEF Pruned, TypeOK
<1>2. \A j \in 1..m : j \in 1..Len(levels) /\ levels[j].by # o
  BY <1>1
<1>3. ASSUME NEW k \in 1..m
      PROVE  (isActive[levels[k].by] /\ levels[k].name = NameOf(levels[k].by))'
  <2>1. isActive[levels[k].by] /\ levels[k].name = NameOf(levels[k].by)
    BY <1>2 DEF Nested
  <2>2. levels'[k].by = levels[k].by /\ levels'[k].name = levels[k].name
    BY <1>1
  <2>3. isActive'[levels'[k].by]
    BY <1>1, <1>2, <2>1, <2>2
  <2>4. NameOf(levels[k].by)' = NameOf(levels[k].by)
    BY <2>2 DEF NameOf
  <2> QED
    BY <2>1, <2>2, <2>3, <2>4
<1>4. ASSUME NEW j \in 1..m, NEW k \in 1..m, j < k
      PROVE  levels'[k].by \in After(levels[j].by)'
  <2>1. levels[k].by \in After(levels[j].by)
    BY <1>2, <1>4 DEF Nested
  <2> QED
    BY <1>1, <1>2, <2>1
<1>5. ASSUME NEW p \in Objects, isActive'[p],
             NEW k \in 1..Len(levels), levels[k].by = p
      PROVE  \E j \in 1..m : levels'[j].by = p
  <2>1. p # o
    BY <1>1, <1>5
  <2>2. k \in 1..m
    BY <1>1, <1>5, <2>1
  <2> QED
    BY <1>1, <1>5, <2>2
<1>6. ASSUME NEW p \in Objects, isActive'[p]
      PROVE  \/ \E k \in 1..m : levels'[k].by = p
             \/ \A k \in 1..m : levels'[k].by \in After(p)'
  <2>1. p # o /\ isActive[p]
    BY <1>1, <1>6
  <2>2. CASE \E k \in 1..Len(levels) : levels[k].by = p
    BY <1>5, <1>6, <2>2
  <2>3. CASE \A k \in 1..Len(levels) : levels[k].by \in After(p)
    BY <1>1, <1>2, <2>1, <2>3
  <2> QED
    BY <2>1, <2>2, <2>3 DEF Nested
<1>7. Nested'
  BY <1>1, <1>3, <1>4, <1>6 DEF Nested
<1>8. ASSUME HaveLevels PROVE HaveLevels'
  <2>1. ASSUME NEW p \in Objects, isActive'[p] PROVE \E j \in 1..m : levels'[j].by = p
    <3>1. isActive[p]
      BY <1>1, <2>1
    <3> QED
      BY <1>5, <1>8, <2>1, <3>1 DEF HaveLevels
  <2> QED
    BY <1>1, <2>1 DEF HaveLevels
<1> QED
  BY <1>7, <1>8

\* Nothing but what is written changes.
LEMMA SameNested ==
    ASSUME TypeOK, Pruned(Len(levels)), UNCHANGED <<scope, isActive, name>>
    PROVE  (Nested => Nested') /\ (HaveLevels => HaveLevels')
<1>1. /\ Len(levels) \in Nat /\ Len(levels') = Len(levels)
      /\ \A j \in 1..Len(levels) : levels'[j].name = levels[j].name /\ levels'[j].by = levels[j].by
  BY TypeFacts DEF Pruned
<1>2. ASSUME NEW p PROVE NameOf(p)' = NameOf(p) /\ After(p)' = After(p)
  BY DEF NameOf, After
<1>3. ASSUME Nested PROVE Nested'
  BY <1>1, <1>2, <1>3 DEF Nested
<1> QED
  BY <1>1, <1>3 DEF HaveLevels

\* o opens a level behind all the others.
LEMMA PushedNested ==
    ASSUME TypeOK, Nested, NEW o \in Objects, NEW n \in Names \cup {NoName},
           levels' = Append(levels, Level(n, o)),
           isActive' = [isActive EXCEPT ![o] = TRUE],
           NameOf(o)' = n,
           \A p \in Objects : p # o => NameOf(p)' = NameOf(p),
           n = NoName => levels = <<>>,
           \/ scope' = Append(scope, o) /\ ~Exists(o)
           \/ scope' = scope /\ Exists(o) /\ levels = <<>> /\ ~isActive[o] /\ Innermost(o)
    PROVE  Nested' /\ (HaveLevels => HaveLevels')
<1>0. PICK m \in Nat : m = Len(levels)
  BY TypeFacts
<1>1. /\ Len(levels') = m + 1
      /\ levels'[m + 1].name = n /\ levels'[m + 1].by = o
      /\ \A j \in 1..m : levels'[j] = levels[j]
      /\ isActive \in [Objects -> BOOLEAN]
      /\ \A p \in Objects : isActive[p] => Exists(p)
      /\ \A j \in 1..m : levels[j].by \in Objects
      /\ ScopeOK
  BY <1>0, TypeFacts, PushedFacts DEF TypeOK
<1>2. /\ \A p, q : q \in After(p) => q \in After(p)'
      /\ \A p \in Objects : isActive[p] => p # o /\ o \in After(p)'
  <2>1. CASE scope' = Append(scope, o) /\ ~Exists(o)
    BY <1>1, <2>1, ConstructedLast
  <2>2. CASE scope' = scope /\ Exists(o) /\ levels = <<>> /\ ~isActive[o] /\ Innermost(o)
    <3>1. \A p : After(p)' = After(p)
      BY <2>2 DEF After
    <3>2. ASSUME NEW p \in Objects, isActive[p] PROVE p # o /\ o \in After(p)
      <4>1. p # o /\ p \notin After(o)
        BY <2>2, <3>2 DEF Innermost
      <4> QED
        BY <1>1, <2>2, <3>2, <4>1, AfterTotal
    <3> QED
      BY <3>1, <3>2
  <2> QED
    BY <2>1, <2>2
<1>3. ASSUME NEW k \in 1..(m + 1)
      PROVE  (isActive[levels[k].by] /\ levels[k].name = NameOf(levels[k].by))'
  <2>1. CASE k = m + 1
    BY <1>1, <2>1
  <2>2. CASE k # m + 1
    <3>1. k \in 1..m
      BY <2>2
    <3>2. isActive[levels[k].by] /\ levels[k].name = NameOf(levels[k].by)
      BY <1>0, <3>1 DEF Nested
    <3>3. levels[k].by \in Objects /\ levels[k].by # o /\ levels'[k] = levels[k]
      BY <1>1, <1>2, <3>1, <3>2
    <3> QED
      BY <1>1, <3>2, <3>3
  <2> QED
    BY <2>1, <2>2
<1>4. ASSUME NEW j \in 1..(m + 1), NEW k \in 1..(m + 1), j < k
      PROVE  levels'[k].by \in After(levels[j].by)'
  <2>1. j \in 1..m /\ levels'[j] = levels[j] /\ levels[j].by \in Objects
    BY <1>1, <1>4
  <2>2. CASE k = m + 1
    <3>1. isActive[levels[j].by]
      BY <1>0, <2>1 DEF Nested
    <3> QED
      BY <1>1, <1>2, <2>1, <2>2, <3>1
  <2>3. CASE k # m + 1
    <3>1. k \in 1..m /\ levels'[k] = levels[k]
      BY <1>1, <2>3
    <3>2. levels[k].by \in After(levels[j].by)
      BY <1>0, <1>4, <2>1, <3>1 DEF Nested
    <3> QED
      BY <1>2, <2>1, <3>1, <3>2
  <2> QED
    BY <2>2, <2>3
<1>5. ASSUME NEW p \in Objects, isActive'[p]
      PROVE  \/ \E k \in 1..(m + 1) : levels'[k].by = p
             \/ isActive[p] /\ p # o
  BY <1>1, <1>5
<1>6. ASSUME NEW p \in Objects, NEW k \in 1..m, levels[k].by = p
      PROVE  \E j \in 1..(m + 1) : levels'[j].by = p
  BY <1>1, <1>6
<1>7. ASSUME NEW p \in Objects, isActive'[p]
      PROVE  \/ \E k \in 1..(m + 1) : levels'[k].by = p
             \/ \A k \in 1..(m + 1) : levels'[k].by \in After(p)'
  <2>1. CASE isActive[p] /\ p # o
    <3>1. CASE \A k \in 1..m : levels[k].by \in After(p)
      <4>1. o \in After(p)' /\ \A k \in 1..m : levels'[k].by \in After(p)'
        BY <1>1, <1>2, <2>1, <3>1
      <4>2. \A k \in 1..(m + 1) : k = m + 1 \/ k \in 1..m
        OBVIOUS
      <4> QED
        BY <1>1, <4>1, <4>2
    <3>2. CASE \E k \in 1..m : levels[k].by = p
      BY <1>6, <3>2
    <3> QED
      BY <1>0, <2>1, <3>1, <3>2 DEF Nested
  <2> QED
    BY <1>5, <1>7, <2>1
<1>8. Nested'
  BY <1>1, <1>3, <1>4, <1>7 DEF Nested
<1>9. ASSUME HaveLevels PROVE HaveLevels'
  <2>1. ASSUME NEW p \in Objects, isActive'[p] PROVE \E j \in 1..(m + 1) : levels'[j].by = p
    BY <1>0, <1>5, <1>6, <1>9, <2>1 DEF HaveLevels
  <2> QED
    BY <1>1, <2>1 DEF HaveLevels
<1> QED
  BY <1>8, <1>9

LEMMA DisciplineInit == Init => DisciplineInv
<1> SUFFICES ASSUME Init PROVE DisciplineInv
  OBVIOUS
<1>1. levels = <<>> /\ 1..Len(<<>>) = {} /\ \A o \in Objects : ~isActive[o]
  BY DEF Init
<1> QED
  BY <1>1, TypeInit DEF Init, DisciplineInv, Nested, HaveLevels

LEMMA DisciplineStep ==
    ASSUME Scoped
    PROVE  DisciplineInv /\ [Next]_vars => DisciplineInv'
<1> SUFFICES ASSUME DisciplineInv, [Next]_vars PROVE DisciplineInv'
  OBVIOUS
<1> USE TransactionsAssumption
<1>0. /\ TypeOK /\ TypeOK' /\ ScopeOK /\ levels \in Seq(LevelType) /\ Len(levels) \in Nat
      /\ durable \in SUBSET Writes
      /\ Txns \subseteq Objects /\ Sps \subseteq Objects
      /\ isActive \in [Objects -> BOOLEAN] /\ name \in [Sps -> Names \cup {NoName}]
      /\ disciplined \in BOOLEAN /\ disturbed \in BOOLEAN
  BY TypeStep, TypeFacts DEF DisciplineInv, TypeOK, Objects
<1>d. ASSUME disciplined, Running PROVE Nested /\ (~disturbed => HaveLevels)
  BY <1>d DEF DisciplineInv
\* While the objects exist only what they do in the discipline matters.
<1>r. ASSUME Running, terminated' = terminated, disturbed' = disturbed,
             disciplined' => disciplined,
             disciplined' => Nested' /\ (~disturbed => HaveLevels')
      PROVE  DisciplineInv'
  BY <1>0, <1>r DEF DisciplineInv, Running
<1>p. ASSUME Pruned(Len(levels)), Running,
             UNCHANGED <<scope, isActive, name, terminated, disturbed, disciplined>>
      PROVE  DisciplineInv'
  BY <1>0, <1>d, <1>p, <1>r, SameNested
\* The innermost transaction takes everything with it.
<1>t. ASSUME NEW t \in Txns, isActive[t], Innermost(t), disciplined, Running, levels' = <<>>,
             isActive' = [isActive EXCEPT ![t] = FALSE]
      PROVE  Nested' /\ (~disturbed => HaveLevels')
  <2>1. Nested'
    <3>1. 1..Len(<<>>) = {}
      OBVIOUS
    <3> QED
      BY <1>t, <3>1 DEF Nested
  <2>2. ASSUME ~disturbed PROVE HaveLevels'
    <3>1. Nested /\ HaveLevels
      BY <1>d, <1>t, <2>2
    <3>2. ASSUME NEW p \in Objects, isActive[p] PROVE p = t
      <4>1. PICK k \in 1..Len(levels) : levels[k].by = p
        BY <3>1, <3>2 DEF HaveLevels
      <4>2. Len(levels) = 1 /\ levels[1].by = t
        BY <1>0, <1>t, <3>1, <4>1, InnermostTxn
      <4> QED
        BY <4>1, <4>2
    <3>3. \A p \in Objects : ~isActive'[p]
      BY <1>0, <1>t, <3>2
    <3> QED
      BY <1>0, <1>t, <3>3, EmptyNested
  <2> QED
    BY <2>1, <2>2
\* The innermost savepoint takes the innermost level with it.
<1>s. ASSUME NEW s \in Sps, isActive[s], Innermost(s), disciplined, Running,
             NEW k \in Latest(name[s]), KeepFrom(k), name' = name,
             isActive' = [isActive EXCEPT ![s] = FALSE],
             \A p, q : q \in After(p) /\ p # s /\ q # s => q \in After(p)'
      PROVE  Nested' /\ (~disturbed => HaveLevels')
  <2>1. Nested /\ k \in 1..Len(levels) /\ levels # <<>> /\ s \in Objects
    BY <1>0, <1>d, <1>s, LatestFacts
  <2>2. k = Len(levels)
    BY <1>0, <1>s, <2>1, InnermostSp
  <2>3. Pruned(k - 1)
    BY <1>0, <1>s, <2>1, KeepFromPrunes
  <2>4. ASSUME NEW j \in 1..Len(levels) PROVE levels[j].by = s <=> j > k - 1
    <3>1. levels[Len(levels)].by = s /\ (levels[j].by = s => j = Len(levels))
      BY <1>0, <1>s, <2>1, InnermostLevel
    <3> QED
      BY <1>0, <2>2, <3>1
  <2> QED
    BY <1>0, <1>d, <1>s, <2>1, <2>3, <2>4, PrunedNested
\* An inactive object has no level.
<1>i. ASSUME NEW o \in Objects, ~isActive[o], disciplined, Destroyed(o),
             levels' = levels, name' = name
      PROVE  Nested' /\ (~disturbed => HaveLevels')
  <2>1. Running /\ Nested /\ isActive' = [isActive EXCEPT ![o] = FALSE]
    BY <1>d, <1>i DEF Destroyed
  <2>2. \A j \in 1..Len(levels) : levels[j].by = o <=> j > Len(levels)
    BY <1>0, <1>i, <2>1 DEF Nested
  <2>3. \A p, q : q \in After(p) /\ p # o /\ q # o => q \in After(p)'
    BY <1>0, <1>i, DestroyedGone
  <2>4. Pruned(Len(levels))
    BY <1>0, <1>i, PrunedNothing
  <2> QED
    BY <1>0, <1>d, <1>i, <2>1, <2>2, <2>3, <2>4, PrunedNested
<1>1. CASE UNCHANGED vars
  <2>1. CASE Running
    BY <1>0, <1>1, <1>p, <2>1, PrunedNothing DEF vars
  <2>2. CASE ~Running
    BY <1>0, <1>1, <2>2 DEF vars, DisciplineInv, Running
  <2> QED
    BY <2>1, <2>2
<1>2. ASSUME NEW t \in Txns, ConstructTxn(t) \/ Begin(t) PROVE DisciplineInv'
  <2>1. /\ Running /\ levels = <<>> /\ t \in Objects
        /\ levels' = Append(levels, Level(NoName, t))
        /\ isActive' = [isActive EXCEPT ![t] = TRUE]
        /\ UNCHANGED <<name, terminated, disturbed>>
        /\ disciplined' => disciplined
    BY <1>0, <1>2, BeginPushes DEF ConstructTxn, Begin, Begins
  <2>2. NameOf(t)' = NoName /\ \A p \in Objects : p # t => NameOf(p)' = NameOf(p)
    BY <2>1 DEF NameOf
  <2>3. disciplined' =>
            \/ scope' = Append(scope, t) /\ ~Exists(t)
            \/ scope' = scope /\ Exists(t) /\ levels = <<>> /\ ~isActive[t] /\ Innermost(t)
    BY <1>2 DEF ConstructTxn, Begin, Begins
  <2>4. ASSUME disciplined' PROVE Nested' /\ (~disturbed => HaveLevels')
    <3>1. NoName \in Names \cup {NoName} /\ Nested /\ (~disturbed => HaveLevels)
      BY <1>d, <2>1, <2>4
    <3> QED
      BY <1>0, <2>1, <2>2, <2>3, <2>4, <3>1, PushedNested
  <2> QED
    BY <1>r, <2>1, <2>4
<1>3. ASSUME NEW t \in Txns, Commit(t) \/ Rollback(t) PROVE DisciplineInv'
  <2>1. /\ Running /\ levels' = <<>> /\ isActive' = [isActive EXCEPT ![t] = FALSE]
        /\ UNCHANGED <<terminated, disturbed>>
        /\ disciplined' => disciplined /\ isActive[t] /\ Innermost(t)
    BY <1>3 DEF Commit, Rollback, KeepFrom, Ends
  <2> QED
    BY <1>r, <1>t, <2>1
<1>4. ASSUME NEW t \in Txns, CommitRefused(t) PROVE DisciplineInv'
  BY <1>1, <1>4 DEF CommitRefused
<1>5. ASSUME NEW t \in Txns, DestroyTxn(t) PROVE DisciplineInv'
  <2>1. /\ Running /\ isActive' = [isActive EXCEPT ![t] = FALSE] /\ Destroyed(t)
        /\ UNCHANGED <<name, terminated, disturbed, disciplined>>
        /\ levels' = IF isActive[t] THEN <<>> ELSE levels
    BY <1>5 DEF DestroyTxn, Destroyed
  <2>2. Innermost(t)
    BY <1>0, <2>1, DestroyedGone DEF Innermost
  <2> QED
    BY <1>0, <1>i, <1>r, <1>t, <2>1, <2>2
<1>6. ASSUME NEW s \in Sps, ConstructSp(s) PROVE DisciplineInv'
  <2>1. PICK n \in Names : /\ levels' = Append(levels, Level(n, s))
                           /\ name' = [name EXCEPT ![s] = n]
    BY <1>6 DEF ConstructSp
  <2>2. /\ Running /\ ~Exists(s) /\ scope' = Append(scope, s) /\ s \in Objects
        /\ isActive' = [isActive EXCEPT ![s] = TRUE]
        /\ UNCHANGED <<terminated, disturbed, disciplined>>
    BY <1>0, <1>6 DEF ConstructSp
  <2>3. name'[s] = n /\ \A p \in Sps : p # s => name'[p] = name[p]
    BY <1>0, <2>1
  <2>4. NameOf(s)' = n /\ \A p \in Objects : p # s => NameOf(p)' = NameOf(p)
    BY <1>0, <2>3 DEF NameOf, Objects
  <2>5. ASSUME disciplined PROVE Nested' /\ (~disturbed => HaveLevels')
    BY <1>0, <1>d, <2>1, <2>2, <2>4, <2>5, PushedNested
  <2> QED
    BY <1>r, <2>2, <2>5
<1>7. ASSUME NEW s \in Sps, Release(s) PROVE DisciplineInv'
  <2>1. PICK k \in Latest(name[s]) : KeepFrom(k)
    BY <1>7 DEF Release
  <2>2. /\ Running /\ name' = name /\ scope' = scope
        /\ isActive' = [isActive EXCEPT ![s] = FALSE]
        /\ UNCHANGED <<terminated, disturbed>>
        /\ disciplined' => disciplined /\ isActive[s] /\ Innermost(s)
    BY <1>7 DEF Release, Ends
  <2>3. \A p, q : q \in After(p) => q \in After(p)'
    BY <2>2 DEF After
  <2> QED
    BY <1>r, <1>s, <2>1, <2>2, <2>3
<1>8. ASSUME NEW s \in Sps, RollbackTo(s) PROVE DisciplineInv'
  <2>1. PICK k \in Latest(name[s]) : Pruned(k)
    BY <1>0, <1>8, RollbackPrunes
  <2>2. /\ Running /\ UNCHANGED <<scope, isActive, name, terminated, disturbed>>
        /\ disciplined' => disciplined /\ isActive[s] /\ Innermost(s)
    BY <1>8 DEF RollbackTo, Ends
  <2>3. ASSUME disciplined' PROVE Nested' /\ (~disturbed => HaveLevels')
    <3>1. Nested /\ levels # <<>>
      BY <1>0, <1>d, <2>1, <2>2, <2>3, LatestFacts
    <3>2. k = Len(levels)
      BY <1>0, <2>1, <2>2, <2>3, <3>1, InnermostSp
    <3> QED
      BY <1>0, <1>d, <2>1, <2>2, <2>3, <3>2, SameNested
  <2> QED
    BY <1>r, <2>2, <2>3
<1>9. ASSUME NEW s \in Sps, DestroyReleasedSp(s) PROVE DisciplineInv'
  <2>1. /\ Running /\ Destroyed(s) /\ ~isActive[s] /\ levels' = levels /\ name' = name
        /\ UNCHANGED <<terminated, disturbed, disciplined>>
    BY <1>9 DEF DestroyReleasedSp, Destroyed
  <2> QED
    BY <1>0, <1>i, <1>r, <2>1
<1>10. ASSUME NEW s \in Sps, DestroyActiveSp(s) PROVE DisciplineInv'
  <2>1. PICK k \in Latest(name[s]) : KeepFrom(k)
    BY <1>10 DEF DestroyActiveSp
  <2>2. /\ Running /\ name' = name /\ isActive[s] /\ Destroyed(s)
        /\ isActive' = [isActive EXCEPT ![s] = FALSE]
        /\ UNCHANGED <<terminated, disturbed, disciplined>>
    BY <1>10 DEF DestroyActiveSp, Destroyed
  <2>3. /\ Innermost(s)
        /\ \A p, q : q \in After(p) /\ p # s /\ q # s => q \in After(p)'
    BY <1>0, <2>2, DestroyedGone DEF Innermost
  <2> QED
    BY <1>r, <1>s, <2>1, <2>2, <2>3
<1>11. ASSUME NEW s \in Sps, DestroySpThrows(s) PROVE DisciplineInv'
  <2>1. /\ Running /\ isActive[s] /\ Destroyed(s) /\ terminated'
        /\ disciplined' = disciplined
        /\ \/ Latest(name[s]) = {} /\ disturbed' = disturbed
           \/ disturbed' = TRUE
    BY <1>11 DEF DestroySpThrows, Destroyed
  <2>2. ASSUME disciplined, ~disturbed PROVE Latest(name[s]) # {}
    <3>1. Nested /\ HaveLevels
      BY <1>d, <2>1, <2>2
    <3>2. levels # <<>>
      BY <1>0, <2>1, <3>1 DEF HaveLevels
    <3>3. Innermost(s)
      BY <1>0, <2>1, DestroyedGone DEF Innermost
    <3> QED
      BY <1>0, <2>1, <3>1, <3>2, <3>3, InnermostSp
  <2> QED
    BY <1>0, <2>1, <2>2 DEF DisciplineInv, Running
<1>12. ASSUME NEW w \in Writes, Write(w) PROVE DisciplineInv'
  <2>1. Pruned(Len(levels))
    BY <1>0, <1>12, WritePrunesNothing
  <2> QED
    BY <1>12, <1>p, <2>1 DEF Write
<1>13. CASE Abort
  <2>1. Running /\ levels' = <<>> /\ disturbed' /\ 1..Len(<<>>) = {}
        /\ UNCHANGED <<terminated, disciplined>>
    BY <1>13 DEF Abort
  <2>2. Nested'
    BY <2>1, <1>13 DEF Abort, Nested
  <2> QED
    BY <1>0, <2>1, <2>2 DEF DisciplineInv, Running
<1> QED
  BY <1>1, <1>2, <1>3, <1>4, <1>5, <1>6, <1>7, <1>8, <1>9, <1>10, <1>11, <1>12, <1>13
  DEF Next, TxnNext, SpNext

-----------------------------------------------------------------------------
(* What the abstract scopes see *)

Seen(l) == [by |-> l.by, writes |-> l.writes]

SeenType == [by : Objects, writes : SUBSET Writes]

LEMMA ViewFacts ==
    ASSUME NEW s \in Seq(LevelType)
    PROVE  /\ View(s) \in Seq(SeenType)
           /\ Len(View(s)) = Len(s)
           /\ \A k \in 1..Len(s) : /\ View(s)[k] = Seen(s[k])
                                   /\ View(s)[k].by = s[k].by
                                   /\ View(s)[k].writes = s[k].writes
<1>1. Len(s) \in Nat /\ \A k \in 1..Len(s) : s[k] \in LevelType
  OBVIOUS
<1>2. \A k \in 1..Len(s) : [by |-> s[k].by, writes |-> s[k].writes] \in SeenType
  BY <1>1 DEF LevelType, SeenType
<1>3. View(s) \in [1..Len(s) -> SeenType]
  BY <1>2 DEF View
<1>4. View(s) \in Seq(SeenType) /\ Len(View(s)) = Len(s)
  BY <1>1, <1>3
<1>5. \A k \in 1..Len(s) : View(s)[k] = [by |-> s[k].by, writes |-> s[k].writes]
  BY DEF View
<1> QED
  BY <1>4, <1>5 DEF Seen

\* A view is known by its elements.
LEMMA ViewEqual ==
    ASSUME NEW s \in Seq(LevelType), NEW v \in Seq(SeenType), Len(v) = Len(s),
           \A k \in 1..Len(s) : v[k] = Seen(s[k])
    PROVE  View(s) = v
<1>1. View(s) \in Seq(SeenType) /\ Len(View(s)) = Len(v)
      /\ \A k \in 1..Len(v) : View(s)[k] = v[k]
  BY ViewFacts
<1> QED
  BY <1>1, SeqEqual

\* The writes of the level k are replaced, in s and in what is seen of it.
Overwrite(s, k, w) == [s EXCEPT ![k].writes = w]

LEMMA ViewRewritten ==
    ASSUME NEW s \in Seq(LevelType), NEW k \in 1..Len(s), NEW w \in SUBSET Writes
    PROVE  View(Overwrite(s, k, w)) = Overwrite(View(s), k, w)
<1> DEFINE l == [s[k] EXCEPT !.writes = w]
           t == [s EXCEPT ![k] = l]
           e == [View(s)[k] EXCEPT !.writes = w]
           v == [View(s) EXCEPT ![k] = e]
<1>1. s[k] \in LevelType
  OBVIOUS
<1>2. l \in LevelType /\ l.by = s[k].by /\ l.writes = w
  BY <1>1 DEF LevelType
<1>3. View(s) \in Seq(SeenType) /\ Len(View(s)) = Len(s)
      /\ \A j \in 1..Len(s) : View(s)[j] = Seen(s[j])
  BY ViewFacts
<1>4. e \in SeenType /\ e = Seen(l)
  <2>1. View(s)[k] = [by |-> s[k].by, writes |-> s[k].writes]
    BY <1>3 DEF Seen
  <2>2. e = [by |-> s[k].by, writes |-> w]
    BY <2>1
  <2>3. e = Seen(l)
    BY <1>2, <2>2 DEF Seen
  <2>4. s[k].by \in Objects
    BY <1>1 DEF LevelType
  <2> QED
    BY <2>2, <2>3, <2>4 DEF SeenType
<1>5. Overwrite(s, k, w) = t /\ Overwrite(View(s), k, w) = v
  BY DEF Overwrite
<1> HIDE DEF l, e
<1>6. /\ t \in Seq(LevelType) /\ Len(t) = Len(s)
      /\ \A j \in 1..Len(s) : t[j] = IF j = k THEN l ELSE s[j]
  BY <1>2
<1>7. /\ v \in Seq(SeenType) /\ Len(v) = Len(s)
      /\ \A j \in 1..Len(s) : v[j] = IF j = k THEN e ELSE View(s)[j]
  BY <1>3, <1>4
<1> HIDE DEF t, v
<1>8. \A j \in 1..Len(t) : v[j] = Seen(t[j])
  BY <1>3, <1>4, <1>6, <1>7
<1>9. View(t) = v
  BY <1>6, <1>7, <1>8, ViewEqual
<1> QED
  BY <1>5, <1>9

LEMMA ViewPrefix ==
    ASSUME NEW s \in Seq(LevelType), NEW k \in 0..Len(s)
    PROVE  View(SubSeq(s, 1, k)) = SubSeq(View(s), 1, k) /\ SubSeq(s, 1, k) \in Seq(LevelType)
<1>1. View(s) \in Seq(SeenType) /\ Len(View(s)) = Len(s)
      /\ \A j \in 1..Len(s) : View(s)[j] = Seen(s[j])
  BY ViewFacts
<1> DEFINE t == SubSeq(s, 1, k)
           v == SubSeq(View(s), 1, k)
<1>2. t \in Seq(LevelType) /\ Len(t) = k /\ \A j \in 1..k : t[j] = s[j] /\ j \in 1..Len(s)
  OBVIOUS
<1>3. v \in Seq(SeenType) /\ Len(v) = k /\ \A j \in 1..k : v[j] = View(s)[j]
  BY <1>1
<1> HIDE DEF t, v
<1>4. View(t) = v
  BY <1>1, <1>2, <1>3, ViewEqual
<1> QED
  BY <1>2, <1>4 DEF t, v

LEMMA ViewPushed ==
    ASSUME NEW s \in Seq(LevelType), NEW n \in Names \cup {NoName}, NEW o \in Objects
    PROVE  View(Append(s, Level(n, o))) = Append(View(s), [by |-> o, writes |-> {}])
<1> DEFINE l == Level(n, o)
           e == [by |-> o, writes |-> {}]
           t == Append(s, l)
           v == Append(View(s), e)
<1>1. l \in LevelType /\ e = Seen(l) /\ e \in SeenType
  BY DEF Level, LevelType, Seen, SeenType
<1>2. View(s) \in Seq(SeenType) /\ Len(View(s)) = Len(s)
      /\ \A j \in 1..Len(s) : View(s)[j] = Seen(s[j])
  BY ViewFacts
<1> HIDE DEF l, e
<1>3. /\ t \in Seq(LevelType) /\ Len(t) = Len(s) + 1
      /\ t[Len(s) + 1] = l /\ \A j \in 1..Len(s) : t[j] = s[j]
  BY <1>1
<1>4. /\ v \in Seq(SeenType) /\ Len(v) = Len(s) + 1
      /\ v[Len(s) + 1] = e /\ \A j \in 1..Len(s) : v[j] = View(s)[j]
  BY <1>1, <1>2
<1> HIDE DEF t, v
<1>5. ASSUME NEW j \in 1..Len(t) PROVE v[j] = Seen(t[j])
  <2>1. j = Len(s) + 1 \/ j \in 1..Len(s)
    BY <1>3
  <2> QED
    BY <1>1, <1>2, <1>3, <1>4, <2>1
<1>6. View(t) = v
  BY <1>3, <1>4, <1>5, ViewEqual
<1> QED
  BY <1>6 DEF t, v, l, e

LEMMA RunningSeen ==
    /\ Running => ScopesAlive = {o \in Objects : Exists(o)} /\ ScopesLevels = View(levels)
    /\ Running' => /\ ScopesAlive' = {o \in Objects : Exists(o)'}
                   /\ ScopesLevels' = View(levels')
  BY DEF Running, ScopesAlive, ScopesLevels

LEMMA ViewEmpty == View(<<>>) = <<>>
  BY DEF View

LEMMA LastWrites ==
    ASSUME levels \in Seq(LevelType), levels # <<>>
    PROVE  WritesFrom(Len(levels)) = levels[Len(levels)].writes
<1>1. Len(levels) \in Nat /\ Len(levels)..Len(levels) = {Len(levels)}
  OBVIOUS
<1> QED
  BY <1>1 DEF WritesFrom

\* COMMIT or RELEASE of the innermost level hands on what it has written.
LEMMA HandOnStep ==
    ASSUME TypeOK, TypeOK', Running, Running', levels # <<>>, KeepFrom(Len(levels))
    PROVE  Scopes!HandOn
<1>0. PICK n \in Nat : n = Len(levels)
  BY TypeFacts
<1>1. /\ levels \in Seq(LevelType) /\ n >= 1 /\ n \in 1..Len(levels)
      /\ WritesFrom(n) = levels[n].writes
      /\ WritesFrom(n) \in SUBSET Writes
  BY <1>0, TypeFacts, LastWrites, WritesFromType
<1>2. /\ ScopesLevels = View(levels) /\ Len(ScopesLevels) = n
      /\ ScopesLevels' = View(levels')
      /\ Scopes!Top.writes = WritesFrom(n)
  BY <1>0, <1>1, RunningSeen, ViewFacts DEF Scopes!Top
<1>3. CASE n = 1
  <2>1. levels' = <<>> /\ durable' = durable \cup WritesFrom(n)
    BY <1>0, <1>3 DEF KeepFrom
  <2>2. ScopesLevels' = <<>>
    BY <1>2, <2>1, ViewEmpty
  <2> QED
    BY <1>2, <1>3, <2>1, <2>2 DEF Scopes!HandOn
<1>4. CASE n # 1
  <2> DEFINE s == SubSeq(levels, 1, n - 1)
             w == s[n - 1].writes \cup WritesFrom(n)
             v == SubSeq(View(levels), 1, n - 1)
  <2>1. levels' = Overwrite(s, n - 1, w) /\ durable' = durable
    BY <1>0, <1>4 DEF KeepFrom, Overwrite
  <2>2. n - 1 \in 0..Len(levels) /\ n - 1 \in 1..(n - 1)
    BY <1>0, <1>1, <1>4
  <2>3. s \in Seq(LevelType) /\ Len(s) = n - 1 /\ View(s) = v
    BY <1>0, <1>1, <2>2, ViewPrefix
  <2> HIDE DEF s, v
  <2>4. s[n - 1] \in LevelType /\ v[n - 1].writes = s[n - 1].writes
    BY <2>2, <2>3, ViewFacts
  <2>5. w \in SUBSET Writes /\ w = v[n - 1].writes \cup Scopes!Top.writes
    BY <1>1, <1>2, <2>4 DEF LevelType
  <2>6. View(Overwrite(s, n - 1, w)) = Overwrite(v, n - 1, w)
    <3> HIDE DEF w
    <3> QED
      BY <2>2, <2>3, <2>5, ViewRewritten
  <2>7. ScopesLevels' = Overwrite(v, n - 1, w)
    BY <1>2, <2>1, <2>6
  <2>8. Overwrite(v, n - 1, w) = [v EXCEPT ![n - 1].writes = @ \cup Scopes!Top.writes]
    BY <2>5 DEF Overwrite
  <2> QED
    BY <1>2, <1>4, <2>1, <2>7, <2>8 DEF Scopes!HandOn, v
<1> QED
  BY <1>3, <1>4

LEMMA SeenTop ==
    ASSUME TypeOK, Running
    PROVE  /\ Len(ScopesLevels) = Len(levels)
           /\ levels = <<>> <=> ScopesLevels = <<>>
           /\ levels # <<>> => Scopes!Top.by = levels[Len(levels)].by
           /\ \A o : Scopes!HasOpen(o) <=> \E k \in 1..Len(levels) : levels[k].by = o
<1>1. /\ ScopesLevels = View(levels) /\ Len(View(levels)) = Len(levels)
      /\ Len(levels) \in Nat /\ levels \in Seq(LevelType) /\ View(levels) \in Seq(SeenType)
      /\ \A k \in 1..Len(levels) : View(levels)[k].by = levels[k].by
  BY TypeFacts, RunningSeen, ViewFacts
<1>2. levels = <<>> <=> ScopesLevels = <<>>
  BY <1>1
<1>3. levels # <<>> => Len(levels) \in 1..Len(levels)
  BY <1>1
<1> QED
  BY <1>1, <1>2, <1>3 DEF Scopes!Top, Scopes!HasOpen

\* Opening a level, whoever does it.
LEMMA OpenStep ==
    ASSUME TypeOK, Running, Running', NEW o \in Objects, NEW n \in Names \cup {NoName},
           levels' = Append(levels, Level(n, o)),
           o \in Txns => levels = <<>>, o \in Sps => ~Exists(o),
           \A p : Exists(p)' <=> Exists(p) \/ p = o,
           durable' = durable
    PROVE  Scopes!Open(o)
<1>1. /\ ScopesAlive = {p \in Objects : Exists(p)}
      /\ ScopesAlive' = {p \in Objects : Exists(p)'}
      /\ ScopesLevels = View(levels) /\ ScopesLevels' = View(levels')
  BY RunningSeen
<1>2. ScopesAlive' = ScopesAlive \cup {o}
  BY <1>1
<1>3. ScopesLevels' = Append(ScopesLevels, [by |-> o, writes |-> {}])
  BY <1>1, TypeFacts, ViewPushed
<1>4. o \in Sps => o \notin ScopesAlive
  BY <1>1
<1>5. levels = <<>> => ScopesLevels = <<>>
  BY SeenTop
<1> QED
  BY <1>2, <1>3, <1>4, <1>5 DEF Scopes!Open

LEMMA AliveKept == ASSUME Running, Running', scope' = scope PROVE ScopesAlive' = ScopesAlive
<1>1. \A p : Exists(p)' <=> Exists(p)
  BY DEF Exists
<1> QED
  BY <1>1, RunningSeen

LEMMA AliveLeft ==
    ASSUME TypeOK, Running', NEW o \in Objects, Destroyed(o)
    PROVE  o \in ScopesAlive /\ ScopesAlive' = ScopesAlive \ {o}
<1>1. Running /\ Exists(o) /\ \A p : Exists(p)' <=> Exists(p) /\ p # o
  BY TypeFacts, DestroyedGone DEF Destroyed
<1> QED
  BY <1>1, RunningSeen

\* An object that has no level ends without consequences.
LEMMA ExitQuietly ==
    ASSUME TypeOK, Running', NEW o \in Objects, Destroyed(o),
           \A k \in 1..Len(levels) : levels[k].by # o,
           levels' = levels, durable' = durable
    PROVE  Scopes!Exit(o)
<1>1. Running
  BY DEF Destroyed
<1>2. ~Scopes!HasOpen(o)
  BY <1>1, SeenTop
<1>3. ScopesLevels' = ScopesLevels
  BY <1>1, RunningSeen
<1> QED
  BY <1>2, <1>3, AliveLeft DEF Scopes!Exit

\* The only level goes, with its writes.
LEMMA DiscardStep ==
    ASSUME TypeOK, Running, Running', Len(levels) = 1, levels' = <<>>, durable' = durable
    PROVE  Scopes!Discard
<1>1. Len(ScopesLevels) = 1 /\ ScopesLevels' = <<>>
  BY RunningSeen, SeenTop, ViewEmpty
<1>2. SubSeq(ScopesLevels, 1, 1 - 1) = <<>>
  OBVIOUS
<1> QED
  BY <1>1, <1>2 DEF Scopes!Discard

LEMMA SeenWrite ==
    ASSUME TypeOK, NEW w \in Writes, Write(w)
    PROVE  Scopes!Write(w)
<1>0. PICK n \in Nat : n = Len(levels)
  BY TypeFacts
<1>1. /\ Running /\ Running' /\ levels \in Seq(LevelType)
      /\ ScopesAlive' = ScopesAlive /\ Len(ScopesLevels) = n
      /\ levels = <<>> <=> ScopesLevels = <<>>
      /\ ScopesLevels = View(levels) /\ ScopesLevels' = View(levels')
  BY <1>0, AliveKept, RunningSeen, SeenTop, TypeFacts DEF Write, Running
<1>2. CASE levels = <<>>
  BY <1>1, <1>2 DEF Write, Scopes!Write
<1>3. CASE levels # <<>>
  <2> DEFINE v == levels[n].writes \cup {w}
  <2>1. n \in 1..Len(levels)
    BY <1>0, <1>1, <1>3
  <2>2. v \in SUBSET Writes /\ View(levels)[n].writes = levels[n].writes
    <3>1. levels[n] \in LevelType
      BY <1>1, <2>1
    <3> QED
      BY <1>1, <2>1, <3>1, ViewFacts DEF LevelType
  <2>3. levels' = Overwrite(levels, n, v) /\ durable' = durable
    BY <1>0, <1>3 DEF Write, Overwrite
  <2>4. View(Overwrite(levels, n, v)) = Overwrite(View(levels), n, v)
    <3> HIDE DEF v
    <3> QED
      BY <1>1, <2>1, <2>2, ViewRewritten
  <2>5. Overwrite(View(levels), n, v) = [View(levels) EXCEPT ![n].writes = @ \cup {w}]
    BY <2>2 DEF Overwrite
  <2>6. ScopesLevels' = [ScopesLevels EXCEPT ![n].writes = @ \cup {w}]
    BY <1>1, <2>3, <2>4, <2>5
  <2> QED
    BY <1>1, <1>3, <2>3, <2>6 DEF Scopes!Write
<1> QED
  BY <1>2, <1>3

\* ROLLBACK TO the innermost level.
LEMMA UndoneStep ==
    ASSUME TypeOK, Running, Running', levels # <<>>,
           levels' = Overwrite(SubSeq(levels, 1, Len(levels)), Len(levels), {})
    PROVE  ScopesLevels' = [ScopesLevels EXCEPT ![Len(ScopesLevels)].writes = {}]
<1>0. PICK n \in Nat : n = Len(levels)
  BY TypeFacts
<1>1. /\ levels \in Seq(LevelType) /\ n \in 1..Len(levels) /\ {} \in SUBSET Writes
      /\ SubSeq(levels, 1, n) = levels
      /\ Len(ScopesLevels) = n
      /\ ScopesLevels = View(levels) /\ ScopesLevels' = View(levels')
  BY <1>0, TypeFacts, RunningSeen, SeenTop, SubSeqFull
<1>2. View(Overwrite(levels, n, {})) = Overwrite(View(levels), n, {})
  BY <1>1, ViewRewritten
<1>3. ScopesLevels' = Overwrite(View(levels), n, {})
  BY <1>0, <1>1, <1>2
<1> QED
  BY <1>1, <1>3 DEF Overwrite

LEMMA ScopesInit == Init => Scopes!Init
<1> SUFFICES ASSUME Init PROVE Scopes!Init
  OBVIOUS
<1>1. levels = <<>> /\ scope = <<>> /\ ~terminated /\ durable = {} /\ disturbed = FALSE
  BY DEF Init
<1>2. \A o : ~Exists(o)
  BY <1>1 DEF Exists
<1> QED
  BY <1>1, <1>2, ViewEmpty DEF Scopes!Init, ScopesAlive, ScopesLevels

LEMMA ScopesStep ==
    ASSUME Scoped, DisciplineInv, DisciplineInv', Next, disciplined'
    PROVE  [Scopes!Next]_(Scopes!vars)
<1> USE TransactionsAssumption
<1>0. /\ TypeOK /\ TypeOK' /\ ScopeOK /\ levels \in Seq(LevelType) /\ Len(levels) \in Nat
      /\ Txns \subseteq Objects /\ Sps \subseteq Objects /\ Objects = Txns \cup Sps
  BY TypeFacts DEF DisciplineInv, Objects
<1>d. ASSUME disciplined, Running PROVE Nested
  BY <1>d DEF DisciplineInv
<1>t. terminated' => disturbed'
  BY DEF DisciplineInv
<1>1. ASSUME NEW t \in Txns, ConstructTxn(t) \/ Begin(t) PROVE Scopes!Use
  <2>1. /\ Running /\ Running' /\ levels = <<>> /\ t \in Objects /\ t \notin Sps
        /\ NoName \in Names \cup {NoName}
        /\ levels' = Append(levels, Level(NoName, t))
        /\ durable' = durable
    <3>1. /\ Running /\ terminated' = terminated /\ levels = <<>>
          /\ levels' = <<Level(NoName, t)>> /\ durable' = durable
      <4>1. CASE ConstructTxn(t)
        BY <4>1 DEF ConstructTxn
      <4>2. CASE Begin(t)
        BY <4>2 DEF Begin, Begins
      <4> QED
        BY <1>1, <4>1, <4>2
    <3>2. levels' = Append(levels, Level(NoName, t)) /\ t \in Objects
      BY <1>0, <3>1, BeginPushes
    <3>3. Running'
      BY <3>1 DEF Running
    <3> QED
      BY <3>1, <3>2, <3>3
  <2>2. \A p : Exists(p)' <=> Exists(p) \/ p = t
    <3>1. CASE ConstructTxn(t)
      BY <1>0, <2>1, <3>1, ConstructedLast DEF ConstructTxn
    <3>2. CASE Begin(t)
      BY <3>2 DEF Begin, Begins, Exists
    <3> QED
      BY <1>1, <3>1, <3>2
  <2>3. Scopes!Open(t)
    BY <1>0, <2>1, <2>2, OpenStep
  <2> QED
    BY <2>1, <2>3 DEF Scopes!Use
<1>2. ASSUME NEW t \in Txns, Commit(t) PROVE Scopes!Use
  <2>1. /\ Running /\ Running' /\ levels # <<>> /\ KeepFrom(1) /\ scope' = scope
        /\ disciplined /\ isActive[t] /\ Innermost(t)
    BY <1>2 DEF Commit, Ends, Running
  <2>2. Len(levels) = 1 /\ levels[1].by = t
    BY <1>0, <1>d, <2>1, InnermostTxn
  <2>3. Scopes!HandOn /\ Scopes!Top.by = t /\ ScopesLevels # <<>>
    BY <1>0, <2>1, <2>2, HandOnStep, SeenTop
  <2> QED
    BY <1>0, <2>1, <2>3, AliveKept DEF Scopes!End, Scopes!Use
<1>3. ASSUME NEW t \in Txns, CommitRefused(t) PROVE UNCHANGED vars
  BY <1>3 DEF CommitRefused
<1>4. ASSUME NEW t \in Txns, Rollback(t) PROVE Scopes!Use
  <2>1. /\ Running /\ Running' /\ levels # <<>> /\ levels' = <<>> /\ scope' = scope
        /\ durable' = durable
        /\ disciplined /\ isActive[t] /\ Innermost(t)
    BY <1>4 DEF Rollback, Ends, Running
  <2>2. Len(levels) = 1 /\ levels[1].by = t
    BY <1>0, <1>d, <2>1, InnermostTxn
  <2>3. Scopes!Discard /\ Scopes!Top.by = t /\ ScopesLevels # <<>>
    BY <1>0, <2>1, <2>2, DiscardStep, SeenTop
  <2> QED
    BY <1>0, <2>1, <2>3, AliveKept DEF Scopes!End, Scopes!Use
<1>5. ASSUME NEW t \in Txns, DestroyTxn(t) PROVE Scopes!Use
  <2>1. /\ Running /\ Running' /\ Destroyed(t) /\ t \in Objects /\ disciplined
        /\ durable' = durable
        /\ levels' = IF isActive[t] THEN <<>> ELSE levels
    BY <1>0, <1>5 DEF DestroyTxn, Destroyed, Running
  <2>2. Nested /\ Innermost(t)
    BY <1>0, <1>d, <2>1, DestroyedGone DEF Innermost
  <2>3. CASE isActive[t] /\ levels # <<>>
    <3>1. Len(levels) = 1 /\ levels[1].by = t
      BY <1>0, <2>2, <2>3, InnermostTxn
    <3>2. Scopes!Discard /\ Scopes!Top.by = t /\ ScopesLevels # <<>>
      BY <1>0, <2>1, <2>3, <3>1, DiscardStep, SeenTop
    <3>3. Scopes!Exit(t)
      BY <1>0, <1>5, <2>1, <3>2, AliveLeft DEF Scopes!Exit
    <3> QED
      BY <1>0, <3>3 DEF Scopes!Use
  <2>4. CASE ~(isActive[t] /\ levels # <<>>)
    <3>1. levels' = levels /\ \A k \in 1..Len(levels) : levels[k].by # t
      <4>1. levels = <<>> => 1..Len(levels) = {}
        OBVIOUS
      <4> QED
        BY <2>1, <2>2, <2>4, <4>1 DEF Nested
    <3>2. Scopes!Exit(t)
      BY <1>0, <2>1, <3>1, ExitQuietly
    <3> QED
      BY <1>0, <3>2 DEF Scopes!Use
  <2> QED
    BY <2>3, <2>4
<1>6. ASSUME NEW s \in Sps, ConstructSp(s) PROVE Scopes!Use
  <2>1. PICK n \in Names : levels' = Append(levels, Level(n, s))
    BY <1>6 DEF ConstructSp
  <2>2. /\ Running /\ Running' /\ ~Exists(s) /\ scope' = Append(scope, s)
        /\ s \in Objects /\ s \notin Txns /\ durable' = durable
    BY <1>0, <1>6 DEF ConstructSp, Running
  <2>3. \A p : Exists(p)' <=> Exists(p) \/ p = s
    BY <1>0, <2>2, ConstructedLast
  <2>4. Scopes!Open(s)
    BY <1>0, <2>1, <2>2, <2>3, OpenStep
  <2> QED
    BY <2>4 DEF Scopes!Use
<1>7. ASSUME NEW s \in Sps, Release(s) PROVE Scopes!Use
  <2>1. PICK k \in Latest(name[s]) : KeepFrom(k)
    BY <1>7 DEF Release
  <2>2. /\ Running /\ Running' /\ scope' = scope /\ s \in Objects
        /\ disciplined /\ isActive[s] /\ Innermost(s)
    BY <1>0, <1>7 DEF Release, Ends, Running
  <2>3. Nested /\ levels # <<>>
    BY <1>0, <1>d, <2>1, <2>2, LatestFacts
  <2>4. k = Len(levels) /\ levels[Len(levels)].by = s
    BY <1>0, <2>1, <2>2, <2>3, InnermostSp, InnermostLevel
  <2>5. Scopes!HandOn /\ Scopes!Top.by = s /\ ScopesLevels # <<>>
    BY <1>0, <2>1, <2>2, <2>3, <2>4, HandOnStep, SeenTop
  <2> QED
    BY <1>0, <2>2, <2>5, AliveKept DEF Scopes!End, Scopes!Use
<1>8. ASSUME NEW s \in Sps, RollbackTo(s) PROVE Scopes!Use
  <2>1. PICK k \in Latest(name[s]) : levels' = Overwrite(SubSeq(levels, 1, k), k, {})
    BY <1>8 DEF RollbackTo, Overwrite
  <2>2. /\ Running /\ Running' /\ scope' = scope /\ s \in Objects /\ durable' = durable
        /\ disciplined /\ isActive[s] /\ Innermost(s)
    BY <1>0, <1>8 DEF RollbackTo, Ends, Running
  <2>3. Nested /\ levels # <<>>
    BY <1>0, <1>d, <2>1, <2>2, LatestFacts
  <2>4. k = Len(levels) /\ levels[Len(levels)].by = s
    BY <1>0, <2>1, <2>2, <2>3, InnermostSp, InnermostLevel
  <2>5. /\ ScopesLevels' = [ScopesLevels EXCEPT ![Len(ScopesLevels)].writes = {}]
        /\ Scopes!Top.by = s /\ ScopesLevels # <<>>
    BY <1>0, <2>1, <2>2, <2>3, <2>4, UndoneStep, SeenTop
  <2> QED
    BY <1>0, <2>2, <2>5, AliveKept DEF Scopes!End, Scopes!Use
<1>9. ASSUME NEW s \in Sps, DestroyReleasedSp(s) PROVE Scopes!Use
  <2>1. /\ Running /\ Running' /\ Destroyed(s) /\ s \in Objects /\ disciplined
        /\ ~isActive[s] /\ levels' = levels /\ durable' = durable
    BY <1>0, <1>9 DEF DestroyReleasedSp, Destroyed, Running
  <2>2. \A k \in 1..Len(levels) : levels[k].by # s
    BY <1>d, <2>1 DEF Nested
  <2>3. Scopes!Exit(s)
    BY <1>0, <2>1, <2>2, ExitQuietly
  <2> QED
    BY <1>0, <2>3 DEF Scopes!Use
<1>10. ASSUME NEW s \in Sps, DestroyActiveSp(s) PROVE Scopes!Use
  <2>1. PICK k \in Latest(name[s]) : KeepFrom(k)
    BY <1>10 DEF DestroyActiveSp
  <2>2. /\ Running /\ Running' /\ Destroyed(s) /\ s \in Objects /\ s \notin Txns
        /\ disciplined /\ isActive[s]
    BY <1>0, <1>10 DEF DestroyActiveSp, Destroyed, Running
  <2>3. Nested /\ levels # <<>> /\ Innermost(s)
    BY <1>0, <1>d, <2>1, <2>2, LatestFacts, DestroyedGone DEF Innermost
  <2>4. k = Len(levels) /\ levels[Len(levels)].by = s
    BY <1>0, <2>1, <2>2, <2>3, InnermostSp, InnermostLevel
  <2>5. Scopes!HandOn /\ Scopes!Top.by = s /\ ScopesLevels # <<>>
    BY <1>0, <2>1, <2>2, <2>3, <2>4, HandOnStep, SeenTop
  <2>6. Scopes!Exit(s)
    BY <1>0, <2>2, <2>5, AliveLeft DEF Scopes!Exit
  <2> QED
    BY <1>0, <2>6 DEF Scopes!Use
<1>11. ASSUME NEW s \in Sps, DestroySpThrows(s) PROVE Scopes!Next
  <2>1. ScopesAlive' = {} /\ ScopesLevels' = <<>> /\ durable' = durable
    BY <1>11 DEF DestroySpThrows, ScopesAlive, ScopesLevels
  <2>2. disturbed' = TRUE
    BY <1>0, <1>11, <1>t DEF DestroySpThrows
  <2> QED
    BY <2>1, <2>2 DEF Scopes!Terminate, Scopes!Next
<1>12. ASSUME NEW w \in Writes, Write(w) PROVE Scopes!Use
  BY <1>0, <1>12, SeenWrite DEF Scopes!Use
<1>13. CASE Abort
  <2>1. Running /\ Running' /\ levels' = <<>> /\ scope' = scope /\ durable' = durable
    BY <1>13 DEF Abort, Running
  <2>2. ScopesAlive' = ScopesAlive /\ ScopesLevels' = <<>>
    BY <2>1, AliveKept, RunningSeen, ViewEmpty
  <2>3. ScopesLevels # <<>> /\ disturbed' = TRUE
    BY <1>0, <1>13, <2>1, SeenTop DEF Abort
  <2> QED
    BY <2>1, <2>2, <2>3 DEF Scopes!Abort, Scopes!Next
<1>14. CASE UNCHANGED vars
  BY <1>14 DEF vars, Scopes!vars, ScopesAlive, ScopesLevels, Exists
\* What the program does leaves alone what SQLite has done.
<1>15. ASSUME Next PROVE Abort \/ disturbed' = disturbed \/ \E s \in Sps : DestroySpThrows(s)
  BY <1>15 DEF Next, TxnNext, SpNext, ConstructTxn, Begin, Commit, CommitRefused, Rollback,
     DestroyTxn, ConstructSp, Release, RollbackTo, DestroyReleasedSp, DestroyActiveSp, Write, vars
<1>16. Scopes!Use /\ disturbed' = disturbed => Scopes!Next
  BY DEF Scopes!Next
<1> QED
  BY <1>1, <1>2, <1>3, <1>4, <1>5, <1>6, <1>7, <1>8, <1>9, <1>10, <1>11, <1>12, <1>13, <1>14,
     <1>15, <1>16
  DEF Next, TxnNext, SpNext

-----------------------------------------------------------------------------
(* Theorems *)

LEMMA AccountInvariant == Spec => []AccountInv
  BY AccountInit, AccountStep, PTL DEF Spec

LEMMA DisciplineInvariant == ASSUME Scoped PROVE Spec => []DisciplineInv
<1>1. DisciplineInv /\ [Next]_vars => DisciplineInv'
  BY DisciplineStep
<1> QED
  BY <1>1, DisciplineInit, PTL DEF Spec

\* Every variable of the objects keeps its type, only existing objects are active, and
\* no BEGIN is executed within a transaction (transaction's constructor, begin()).
THEOREM TypeCorrect == Spec => []TypeOK
<1>1. AccountInv => TypeOK
  BY DEF AccountInv
<1> QED
  BY <1>1, AccountInvariant, PTL

\* SQLite never has more savepoints of a name than active objects do, in whatever order
\* release(), rollback() and the destructors are called (savepoint.cpp), so that each can
\* be ended by somebody.
THEOREM SavepointsAccounted == Spec => []NamesAccounted
<1>1. ASSUME AccountInv PROVE NamesAccounted
  <2> SUFFICES ASSUME Running, NEW n \in Names
               PROVE  \E f \in [1..Len(levels) -> Sps \cup Txns] :
                          \A j, k \in 1..Len(levels) :
                              levels[j].name = n =>
                                  /\ f[j] \in Sps /\ isActive[f[j]] /\ name[f[j]] = n
                                  /\ levels[k].name = n /\ f[j] = f[k] => j = k
    BY DEF NamesAccounted
  <2>1. PICK f \in [1..Len(levels) -> Objects] : Matching(f)
    BY <1>1 DEF AccountInv, Matched
  <2>2. f \in [1..Len(levels) -> Sps \cup Txns]
    BY DEF Objects
  <2>3. ASSUME NEW j \in 1..Len(levels), levels[j].name = n
        PROVE  f[j] \in Sps /\ isActive[f[j]] /\ name[f[j]] = n
    BY <2>1, <2>2, <2>3, TransactionsAssumption DEF Matching, NameOf
  <2>4. \A j, k \in 1..Len(levels) : f[j] = f[k] => j = k
    BY <2>1 DEF Matching
  <2> QED
    BY <2>2, <2>3, <2>4
<1> QED
  BY <1>1, AccountInvariant, PTL

\* "Guarantees that transactions are closed on scope exit" (transaction.hpp): for objects
\* that are automatic variables, whatever calls are made and refused, an open transaction
\* was begun by an object that exists.
THEOREM ClosedOnExit == ASSUME Scoped PROVE Spec => []ClosedOnScopeExit
<1>1. AccountInv => ClosedOnScopeExit
  BY FirstExists DEF AccountInv, ClosedOnScopeExit
<1> QED
  BY <1>1, AccountInvariant, PTL

\* isActive() tells the truth (m_isActive in transaction.cpp and savepoint.cpp) as long as
\* the objects are used as scopes and SQLite does not roll back by itself.
THEOREM FlagsTrue == ASSUME Scoped PROVE Spec => []FlagsMatch
<1>1. ASSUME DisciplineInv PROVE FlagsMatch
  <2> SUFFICES ASSUME disciplined, ~disturbed
               PROVE  /\ \A o \in Objects : isActive[o] <=>
                             \E k \in 1..Len(levels) : levels[k].by = o
                      /\ \A j, k \in 1..Len(levels) :
                            j < k => levels[k].by \in After(levels[j].by)
                      /\ \A k \in 1..Len(levels) :
                            levels[k].name = IF levels[k].by \in Txns THEN NoName
                                             ELSE name[levels[k].by]
    BY DEF FlagsMatch
  <2>1. Nested /\ HaveLevels
    BY <1>1 DEF DisciplineInv, Running
  <2> QED
    BY <2>1 DEF Nested, HaveLevels, NameOf
<1> QED
  BY <1>1, DisciplineInvariant, PTL

\* savepoint's destructor, which calls release() without catching, ends the process only
\* after SQLite has rolled back by itself or refused to commit, if the objects are used
\* as scopes.
THEOREM DestructorsReturn == ASSUME Scoped PROVE Spec => []NeverTerminates
<1>1. DisciplineInv => NeverTerminates
  BY DEF DisciplineInv, NeverTerminates
<1> QED
  BY <1>1, DisciplineInvariant, PTL

\* Objects used as scopes keep or undo exactly the writes of their scopes, whatever SQLite
\* refuses (commit, rollback, release and the destructors).
THEOREM ScopesKept == ASSUME Scoped PROVE Spec => ImplementsScopes
<1>1. Init => Scopes!Init
  BY ScopesInit
<1>2. DisciplineInv /\ DisciplineInv' /\ [Next]_vars =>
          [disciplined' => [Scopes!Next]_(Scopes!vars)]_vars
  BY ScopesStep
<1> QED
  BY <1>1, <1>2, DisciplineInvariant, PTL DEF Spec, ImplementsScopes
=============================================================================
