-------------------------- MODULE QueryCursorProofs --------------------------
(***************************************************************************)
(* Theorems about a query, its arguments and its results, for any number   *)
(* of results, rows, placeholders and values.                              *)
(***************************************************************************)
EXTENDS QueryCursor, TLAPS

LEMMA SpecInit == Init => TypeOK
<1> SUFFICES ASSUME Init PROVE TypeOK
  OBVIOUS
<1>1. /\ asked \in Seq(Values \cup {NoValue})
      /\ read \in [Results -> Seq(1..MaxRows)]
      /\ read = [r \in Results |-> <<>>]
  BY DEF Init
<1>2. /\ bound \in [1..Params -> Values \cup {NoValue}]
      /\ rows \in 0..MaxRows /\ at \in 0..Halted /\ last \in 0..(Params + 1)
  BY QueryCursorAssumption DEF Init, Halted
<1> QED
  BY <1>1, <1>2, QueryCursorAssumption DEF Init, TypeOK, Halted

-----------------------------------------------------------------------------
(* Types *)

\* sqlite3_step leaves the statement on a row or halted.
LEMMA AfterType == ASSUME TypeOK PROVE After(at) \in 1..Halted /\ Halted \in 1..(MaxRows + 1)
  BY QueryCursorAssumption DEF TypeOK, After, Halted

\* next_row changes only what belongs to its result.
LEMMA DeliverType ==
    ASSUME TypeOK, NEW r \in live, Deliver(r)
    PROVE  /\ at' \in 0..Halted
           /\ ended' \in [Results -> BOOLEAN]
           /\ read' \in [Results -> Seq(1..MaxRows)]
           /\ \A q \in Results \ {r} : ended'[q] = ended[q] /\ read'[q] = read[q]
<1>0. r \in Results
  BY DEF TypeOK
<1>1. CASE ended[r]
  BY <1>1 DEF Deliver, TypeOK
<1>2. CASE ~ended[r]
  <2>1. at' \in 1..Halted
    BY <1>2, AfterType DEF Deliver
  <2>2. at' # Halted => at' \in 1..MaxRows
    BY <2>1, QueryCursorAssumption DEF TypeOK, Halted
  <2>3. /\ at' = Halted => read' = [read EXCEPT ![r] = read[r]]
        /\ at' # Halted => read' = [read EXCEPT ![r] = Append(read[r], at')]
        /\ ended' = [ended EXCEPT ![r] = at' = Halted]
    BY <1>2 DEF Deliver
  <2>4. read[r] \in Seq(1..MaxRows)
    BY <1>0 DEF TypeOK
  <2>5. at' # Halted => Append(read[r], at') \in Seq(1..MaxRows)
    BY <2>2, <2>4
  <2>6. read' \in [Results -> Seq(1..MaxRows)]
    BY <1>0, <2>3, <2>4, <2>5 DEF TypeOK
  <2>7. Halted \in Nat
    BY QueryCursorAssumption DEF TypeOK, Halted
  <2> QED
    BY <1>0, <2>1, <2>3, <2>6, <2>7 DEF TypeOK
<1> QED
  BY <1>1, <1>2

\* The arguments given so far stay arguments.
LEMMA SayType ==
    ASSUME TypeOK, NEW args \in Seq(Values \cup {NoValue}), Say(args)
    PROVE  asked' \in Seq(Values \cup {NoValue})
  BY DEF Say, TypeOK

LEMMA TypeStep == TypeOK /\ [Next]_vars => TypeOK'
<1> SUFFICES ASSUME TypeOK, [Next]_vars PROVE TypeOK'
  OBVIOUS
<1> USE QueryCursorAssumption
<1>1. CASE UNCHANGED vars
  BY <1>1 DEF vars, command, cursors, TypeOK, Halted
<1>2. ASSUME NEW v \in Values, Percent(v) PROVE TypeOK'
  <2>1. <<v>> \in Seq(Values \cup {NoValue}) /\ <<NoValue>> \in Seq(Values \cup {NoValue})
    OBVIOUS
  <2>2. asked' \in Seq(Values \cup {NoValue})
    BY <1>2, <2>1, SayType DEF Percent
  <2>3. last' \in 0..(Params + 1) /\ bound' \in [1..Params -> Values \cup {NoValue}]
    BY <1>2 DEF Percent, TypeOK
  <2> QED
    BY <1>2, <2>2, <2>3 DEF Percent, cursors, TypeOK, Halted
<1>3. ASSUME NEW v \in Values, NEW i \in 1..Params, Bind(i, v) PROVE TypeOK'
  <2>1. asked' \in Seq(Values \cup {NoValue})
    <3>1. /\ DOMAIN asked = 1..Len(asked) /\ Len(asked) \in Nat
          /\ \A j \in 1..Len(asked) : asked[j] \in Values \cup {NoValue}
      BY DEF TypeOK
    <3>2. asked' = [j \in 1..Len(asked) |-> IF j = i THEN v ELSE asked[j]]
      BY <1>3, <3>1 DEF Bind
    <3> QED
      BY <3>1, <3>2
  <2>2. bound' \in [1..Params -> Values \cup {NoValue}]
    BY <1>3 DEF Bind, TypeOK
  <2> QED
    BY <1>3, <2>1, <2>2 DEF Bind, cursors, TypeOK, Halted
<1>4. CASE StepOnce
  BY <1>4, AfterType DEF StepOnce, command, cursors, TypeOK, Halted
<1>5. CASE Call
  <2>1. asked' \in Seq(Values \cup {NoValue})
    <3>1. <<>> \in Seq(Values \cup {NoValue})
      OBVIOUS
    <3> QED
      BY <1>5, <3>1, SayType DEF Call
  <2>2. at' \in 0..Halted
    BY <1>5, AfterType DEF Call
  <2> QED
    BY <1>5, <2>1, <2>2 DEF Call, cursors, TypeOK, Halted
<1>6. CASE ResetStatement
  BY <1>6 DEF ResetStatement, command, cursors, TypeOK, Halted
<1>7. CASE Clear
  BY <1>7 DEF Clear, cursors, TypeOK, Halted
<1>8. CASE DestroyQuery
  BY <1>8 DEF DestroyQuery, command, cursors, TypeOK, Halted
<1>9. ASSUME NEW n \in 1..(Params + 1), NEW args \in [1..n -> Values], CallWith(args)
      PROVE  TypeOK'
  <2>1. args \in Seq(Values \cup {NoValue}) /\ Len(args) = n /\ DOMAIN args = 1..n
    OBVIOUS
  <2>2. asked' \in Seq(Values \cup {NoValue})
    BY <1>9, <2>1, SayType DEF CallWith, Supply
  <2>3. bound' \in [1..Params -> Values \cup {NoValue}]
    BY <1>9, <2>1 DEF CallWith, Supply, TypeOK
  <2>4. last' \in 0..(Params + 1) /\ at' \in 0..Halted /\ executed' \in {"done", "failed"}
    BY <1>9, <2>1 DEF CallWith, TypeOK, Halted
  <2> QED
    BY <1>9, <2>2, <2>3, <2>4 DEF CallWith, cursors, TypeOK, Halted
<1>10. ASSUME NEW n \in 1..(Params + 1), NEW args \in [1..n -> Values], CallWithTooMany(args)
       PROVE  TypeOK'
  <2> DEFINE fit == SubSeq(args, 1, Params - last)
  <2>1. args \in Seq(Values) /\ Len(args) = n
    OBVIOUS
  <2>2. Params - last \in 0..n /\ last \in 0..Params
    BY <1>10, <2>1 DEF CallWithTooMany, TypeOK
  <2>3. /\ fit \in Seq(Values) /\ Len(fit) = Params - last
        /\ \A j \in 1..Len(fit) : fit[j] \in Values
    BY <2>1, <2>2
  <2>4. Say(Append(fit, NoValue)) /\ bound' = [i \in 1..Params |-> IF i > last THEN fit[i - last] ELSE bound[i]]
    BY <1>10 DEF CallWithTooMany
  <2> HIDE DEF fit
  <2>5. Append(fit, NoValue) \in Seq(Values \cup {NoValue})
    BY <2>3
  <2>6. asked' \in Seq(Values \cup {NoValue})
    BY <2>4, <2>5, SayType
  <2>7. bound' \in [1..Params -> Values \cup {NoValue}]
    <3>1. ASSUME NEW i \in 1..Params, i > last PROVE fit[i - last] \in Values
      <4>1. i - last \in 1..Len(fit)
        BY <2>2, <2>3, <3>1
      <4> QED
        BY <2>3, <4>1
    <3> QED
      BY <2>2, <2>4, <3>1 DEF TypeOK
  <2> QED
    BY <1>10, <2>6, <2>7 DEF CallWithTooMany, cursors, TypeOK, Halted
<1>11. ASSUME NEW r \in Results, GetResult(r) PROVE TypeOK'
  BY <1>11 DEF GetResult, command, TypeOK, Halted
<1>12. ASSUME NEW r \in Results, EmitResult(r) PROVE TypeOK'
  <2>1. at' \in 1..Halted
    BY <1>12, AfterType DEF EmitResult
  <2>2. at' # Halted => at' \in 1..MaxRows
    BY <2>1 DEF TypeOK, Halted
  <2>3. read' \in [Results -> Seq(1..MaxRows)]
    <3>1. <<>> \in Seq(1..MaxRows) /\ (at' # Halted => <<at'>> \in Seq(1..MaxRows))
      BY <2>2
    <3> QED
      BY <1>12, <3>1 DEF EmitResult, TypeOK
  <2> QED
    BY <1>12, <2>1, <2>3 DEF EmitResult, MayOpen, command, TypeOK, Halted
<1>13. ASSUME NEW r \in Results, NextRow(r) PROVE TypeOK'
  BY <1>13, DeliverType DEF NextRow, command, TypeOK, Halted
<1>14. ASSUME NEW r \in Results, NextRowFails(r) PROVE TypeOK'
  BY <1>14 DEF NextRowFails, command, TypeOK, Halted
<1>15. ASSUME NEW r \in Results, UseDangling(r) PROVE TypeOK'
  BY <1>15 DEF UseDangling, command, cursors, TypeOK, Halted
<1>16. ASSUME NEW r \in Results, Rewind(r) PROVE TypeOK'
  BY <1>16 DEF Rewind, command, TypeOK, Halted
<1>17. ASSUME NEW r \in Results, Drop(r) PROVE TypeOK'
  BY <1>17 DEF Drop, command, TypeOK, Halted
<1>18. ASSUME NEW r \in Results, Begin(r) PROVE TypeOK'
  BY <1>18, DeliverType DEF Begin, command, TypeOK, Halted
<1>19. ASSUME NEW r \in Results, BeginFails(r) PROVE TypeOK'
  BY <1>19 DEF BeginFails, command, TypeOK, Halted
<1>20. ASSUME NEW r \in Results, BeginAgain(r) PROVE TypeOK'
  BY <1>20 DEF BeginAgain, command, TypeOK, Halted
<1>21. ASSUME NEW r \in Results, Increment(r) PROVE TypeOK'
  <2>1. r \in live
    BY <1>21 DEF Increment, TypeOK
  <2> QED
    BY <1>21, <2>1, DeliverType DEF Increment, command, TypeOK, Halted
<1> QED
  BY <1>1, <1>2, <1>3, <1>4, <1>5, <1>6, <1>7, <1>8, <1>9, <1>10, <1>11, <1>12, <1>13,
     <1>14, <1>15, <1>16, <1>17, <1>18, <1>19, <1>20, <1>21
  DEF Next, CommandNext, ResultNext

-----------------------------------------------------------------------------
(* Arguments *)

(***************************************************************************)
(* Unless operator() has executed with them, the next argument of operator% *)
(* goes behind the ones given so far; when it has, it is the first again.  *)
(***************************************************************************)
BindInv ==
    /\ TypeOK
    /\ ArgumentsLand
    /\ executed = "done" => last = 0
    /\ executed # "done" => last = Len(asked)

LEMMA BindInvInit == Init => BindInv
  BY SpecInit DEF Init, BindInv, ArgumentsLand

\* Say puts args behind those that have not been executed, which are as many as
\* last_arg_idx counts.
LEMMA SayFacts ==
    ASSUME BindInv, NEW args \in Seq(Values \cup {NoValue}), Say(args)
    PROVE  /\ Len(asked') = last + Len(args)
           /\ \A i \in 1..last : asked'[i] = asked[i] /\ i <= Len(asked)
           /\ \A i \in (last + 1)..(last + Len(args)) : asked'[i] = args[i - last]
<1> DEFINE base == IF executed = "done" THEN <<>> ELSE asked
<1>1. asked' = base \o args
  BY DEF Say
<1>2. base \in Seq(Values \cup {NoValue}) /\ Len(base) = last /\ (last > 0 => base = asked)
  BY DEF BindInv, TypeOK
<1> HIDE DEF base
<1>3. /\ Len(base \o args) = last + Len(args)
      /\ \A i \in 1..last : (base \o args)[i] = base[i]
      /\ \A i \in (last + 1)..(last + Len(args)) : (base \o args)[i] = args[i - last]
  BY <1>2
<1> QED
  BY <1>1, <1>2, <1>3 DEF BindInv, TypeOK

\* Arguments that go to the placeholders behind the ones given so far, or nowhere.
LEMMA SayLands ==
    ASSUME BindInv, TypeOK', NEW args \in Seq(Values \cup {NoValue}), Say(args),
           \A i \in 1..Params : i <= last => bound'[i] = bound[i],
           \A i \in 1..Params : i > last /\ i <= last + Len(args) =>
               args[i - last] = NoValue \/ bound'[i] = args[i - last],
           executed' = "done" => last' = 0,
           executed' # "done" => last' = last + Len(args)
    PROVE  BindInv'
<1> USE QueryCursorAssumption
<1>1. /\ Len(asked') = last + Len(args)
      /\ \A i \in 1..last : asked'[i] = asked[i] /\ i <= Len(asked)
      /\ \A i \in (last + 1)..(last + Len(args)) : asked'[i] = args[i - last]
  BY SayFacts
<1>2. last \in Nat /\ Len(args) \in Nat
  BY DEF BindInv, TypeOK
<1>3. ASSUME NEW i \in 1..Len(asked'), i <= Params, asked'[i] # NoValue
      PROVE  bound'[i] = asked'[i]
  <2>1. i \in 1..Params
    BY <1>1, <1>2, <1>3
  <2>2. CASE i <= last
    <3>1. i \in 1..Len(asked) /\ asked'[i] = asked[i]
      BY <1>1, <1>2, <2>1, <2>2 DEF BindInv, TypeOK
    <3> QED
      BY <1>3, <2>1, <2>2, <3>1 DEF BindInv, ArgumentsLand
  <2>3. CASE i > last
    BY <1>1, <1>2, <1>3, <2>1, <2>3
  <2> QED
    BY <1>2, <2>1, <2>2, <2>3
<1> QED
  BY <1>1, <1>3 DEF BindInv, ArgumentsLand

LEMMA BindInvStep == BindInv /\ [Next]_vars => BindInv'
<1> SUFFICES ASSUME BindInv, [Next]_vars PROVE BindInv'
  OBVIOUS
<1> USE QueryCursorAssumption
<1>0. TypeOK /\ TypeOK'
  BY TypeStep DEF BindInv
<1>u. CASE UNCHANGED command
  BY <1>0, <1>u DEF command, BindInv, ArgumentsLand
<1>1. CASE UNCHANGED vars
  BY <1>1, <1>u DEF vars
<1>2. ASSUME NEW v \in Values, Percent(v) PROVE BindInv'
  <2>1. CASE at = 0 /\ last < Params
    <3> DEFINE args == <<v>>
    <3>1. args \in Seq(Values \cup {NoValue}) /\ Len(args) = 1 /\ args[1] = v
      OBVIOUS
    <3>2. /\ Say(args)
          /\ bound' = [bound EXCEPT ![last + 1] = v]
          /\ last' = last + 1 /\ executed' = "no"
      BY <1>2, <2>1 DEF Percent
    <3> HIDE DEF args
    <3>3. \A i \in 1..Params : i <= last => bound'[i] = bound[i]
      BY <1>0, <3>2 DEF TypeOK
    <3>4. ASSUME NEW i \in 1..Params, i > last, i <= last + Len(args)
          PROVE  bound'[i] = args[i - last]
      <4>1. i = last + 1 /\ i - last = 1
        BY <1>0, <3>1, <3>4 DEF TypeOK
      <4>2. bound'[last + 1] = v
        BY <1>0, <3>2, <4>1 DEF TypeOK
      <4> QED
        BY <3>1, <4>1, <4>2
    <3> QED
      BY <1>0, <3>1, <3>2, <3>3, <3>4, SayLands
  <2>2. CASE ~(at = 0 /\ last < Params)
    <3> DEFINE args == <<NoValue>>
    <3>1. args \in Seq(Values \cup {NoValue}) /\ Len(args) = 1 /\ args[1] = NoValue
      OBVIOUS
    <3>2. Say(args) /\ bound' = bound /\ last' = last + 1 /\ executed' = "no"
      BY <1>2, <2>2 DEF Percent
    <3> HIDE DEF args
    <3>3. \A i \in 1..Params : i > last /\ i <= last + Len(args) => args[i - last] = NoValue
      BY <1>0, <3>1 DEF TypeOK
    <3> QED
      BY <1>0, <3>1, <3>2, <3>3, SayLands
  <2> QED
    BY <2>1, <2>2
<1>3. ASSUME NEW v \in Values, NEW i \in 1..Params, Bind(i, v) PROVE BindInv'
  <2>1. /\ bound' = [bound EXCEPT ![i] = v]
        /\ asked' = [j \in DOMAIN asked |-> IF j = i THEN v ELSE asked[j]]
        /\ last' = last /\ executed' = executed
    BY <1>3 DEF Bind
  <2>2. DOMAIN asked = 1..Len(asked) /\ Len(asked) \in Nat /\ DOMAIN asked' = 1..Len(asked')
    BY <1>0 DEF TypeOK
  <2>3. Len(asked') = Len(asked)
    BY <1>0, <2>1, <2>2 DEF TypeOK
  <2>4. ASSUME NEW j \in 1..Len(asked), j <= Params, asked'[j] # NoValue
        PROVE  bound'[j] = asked'[j]
    <3>1. CASE j = i
      BY <1>0, <2>1, <2>2, <3>1 DEF TypeOK
    <3>2. CASE j # i
      <4>1. asked'[j] = asked[j] /\ bound'[j] = bound[j]
        BY <1>0, <2>1, <2>2, <3>2 DEF TypeOK
      <4> QED
        BY <2>4, <4>1 DEF BindInv, ArgumentsLand
    <3> QED
      BY <3>1, <3>2
  <2>5. ArgumentsLand'
    BY <2>3, <2>4 DEF ArgumentsLand
  <2> QED
    BY <1>0, <2>1, <2>3, <2>5 DEF BindInv
<1>4. CASE StepOnce
  BY <1>4, <1>u DEF StepOnce
<1>5. CASE Call
  <2>1. <<>> \in Seq(Values \cup {NoValue}) /\ Len(<<>>) = 0
    OBVIOUS
  <2>2. /\ Say(<<>>) /\ bound' = bound
        /\ \/ executed' = "done" /\ last' = 0
           \/ executed' = "failed" /\ last' = last
    BY <1>5 DEF Call
  <2>3. last = last + Len(<<>>) /\ \A i \in 1..Params : ~(i > last /\ i <= last + Len(<<>>))
    BY <1>0, <2>1 DEF TypeOK
  <2> QED
    BY <1>0, <2>1, <2>2, <2>3, SayLands
<1>6. CASE ResetStatement
  BY <1>6, <1>u DEF ResetStatement
<1>7. CASE Clear
  BY <1>0, <1>7 DEF Clear, BindInv, ArgumentsLand
<1>8. CASE DestroyQuery
  BY <1>8, <1>u DEF DestroyQuery
<1>9. ASSUME NEW n \in 1..(Params + 1), NEW args \in [1..n -> Values], CallWith(args)
      PROVE  BindInv'
  <2>1. args \in Seq(Values \cup {NoValue}) /\ Len(args) = n /\ DOMAIN args = 1..n
    OBVIOUS
  <2>2. /\ Say(args)
        /\ bound' = [i \in 1..Params |-> IF i - last \in 1..n THEN args[i - last] ELSE bound[i]]
        /\ \/ executed' = "done" /\ last' = 0
           \/ executed' = "failed" /\ last' = last + Len(args)
    BY <1>9, <2>1 DEF CallWith, Supply
  <2>3. \A i \in 1..Params : i <= last => bound'[i] = bound[i]
    BY <1>0, <2>2 DEF TypeOK
  <2>4. \A i \in 1..Params : i > last /\ i <= last + Len(args) => bound'[i] = args[i - last]
    BY <1>0, <2>1, <2>2 DEF TypeOK
  <2> QED
    BY <1>0, <2>1, <2>2, <2>3, <2>4, SayLands
<1>10. ASSUME NEW n \in 1..(Params + 1), NEW args \in [1..n -> Values], CallWithTooMany(args)
       PROVE  BindInv'
  <2> DEFINE fit == SubSeq(args, 1, Params - last)
             more == Append(fit, NoValue)
  <2>1. args \in Seq(Values) /\ Len(args) = n
    OBVIOUS
  <2>2. Params - last \in 0..n /\ last \in 0..Params
    BY <1>0, <1>10, <2>1 DEF CallWithTooMany, TypeOK
  <2>3. fit \in Seq(Values) /\ Len(fit) = Params - last
    BY <2>1, <2>2
  <2>4. /\ Say(more)
        /\ bound' = [i \in 1..Params |-> IF i > last THEN fit[i - last] ELSE bound[i]]
        /\ executed' = "no" /\ last' = Params + 1
    BY <1>10 DEF CallWithTooMany
  <2> HIDE DEF fit
  <2>5. /\ more \in Seq(Values \cup {NoValue})
        /\ Len(more) = Params - last + 1
        /\ \A j \in 1..(Params - last) : more[j] = fit[j]
    BY <2>2, <2>3
  <2> HIDE DEF more
  <2>6. last' = last + Len(more)
    BY <2>2, <2>4, <2>5
  <2>7. \A i \in 1..Params : i <= last => bound'[i] = bound[i]
    BY <2>2, <2>4
  <2>8. \A i \in 1..Params : i > last => bound'[i] = more[i - last]
    <3>1. \A i \in 1..Params : i > last => i - last \in 1..(Params - last)
      BY <2>2
    <3> QED
      BY <2>2, <2>4, <2>5, <3>1
  <2> QED
    BY <1>0, <2>4, <2>5, <2>6, <2>7, <2>8, SayLands
<1>11. ASSUME NEW r \in Results, ResultNext(r) PROVE BindInv'
  BY <1>11, <1>u
  DEF ResultNext, GetResult, EmitResult, NextRow, NextRowFails, UseDangling, Rewind, Drop,
      Begin, BeginFails, BeginAgain, Increment
<1> QED
  BY <1>1, <1>2, <1>3, <1>4, <1>5, <1>6, <1>7, <1>8, <1>9, <1>10, <1>11
  DEF Next, CommandNext

-----------------------------------------------------------------------------
(* Rows *)

(***************************************************************************)
(* At most one result is being read, and the statement is where that one   *)
(* is.  The others have delivered everything.                              *)
(***************************************************************************)
Cursor(r) ==
    /\ \A i \in 1..Len(read[r]) : read[r][i] = i
    /\ ~ended[r] => IF Len(read[r]) = 0 THEN AtStart
                    ELSE at = Len(read[r]) /\ Len(read[r]) <= rows
    /\ ended[r] => Len(read[r]) = rows

Loop(r) ==
    /\ it[r] # "none" => r \in begun
    /\ it[r] = "row" => ~ended[r] /\ (Len(read[r]) = 0 => at = Halted)
    /\ it[r] = "none" /\ r \in begun => Len(read[r]) = 0 /\ ~ended[r]
    /\ it[r] = "end" /\ Len(read[r]) # 0 => ended[r]

ReadInv ==
    /\ TypeOK
    /\ \A p, q \in live : ~ended[p] /\ ~ended[q] => p = q
    /\ \A r \in live : Cursor(r) /\ Loop(r)

LEMMA ReadInvInit == Init => ReadInv
  BY SpecInit DEF Init, ReadInv

\* The model says empty, the invariant length zero.
LEMMA EmptyRead == ASSUME TypeOK, NEW r \in live PROVE read[r] = <<>> <=> Len(read[r]) = 0
<1>1. read[r] \in Seq(1..MaxRows)
  BY DEF TypeOK
<1> QED
  BY <1>1

\* next_row delivers the next row and stands on it, or finds the end.
LEMMA DeliverFacts ==
    ASSUME ReadInv, NEW r \in live, ~ended[r], Deliver(r)
    PROVE  \/ /\ Len(read[r]) < rows
              /\ at' = Len(read[r]) + 1
              /\ read' = [read EXCEPT ![r] = Append(read[r], Len(read[r]) + 1)]
              /\ ended' = ended
           \/ /\ Len(read[r]) = rows
              /\ at' = Halted
              /\ read' = read
              /\ ended' = [ended EXCEPT ![r] = TRUE]
<1> USE QueryCursorAssumption
<1>1. /\ rows \in Nat /\ at \in 0..Halted /\ r \in Results
      /\ read[r] \in Seq(1..MaxRows) /\ Len(read[r]) \in Nat
      /\ ended \in [Results -> BOOLEAN] /\ read \in [Results -> Seq(1..MaxRows)]
  BY DEF ReadInv, TypeOK
<1>2. IF Len(read[r]) = 0 THEN AtStart ELSE at = Len(read[r]) /\ Len(read[r]) <= rows
  BY DEF ReadInv, Cursor
<1>3. After(at) = Len(read[r]) + 1 /\ Len(read[r]) <= rows
  BY <1>1, <1>2 DEF After, Halted, AtStart
<1>4. /\ at' = After(at)
      /\ ended' = [ended EXCEPT ![r] = (at' = Halted)]
      /\ at' = Halted => read' = [read EXCEPT ![r] = read[r]]
      /\ at' # Halted => read' = [read EXCEPT ![r] = Append(read[r], at')]
  BY DEF Deliver
<1>5. CASE Len(read[r]) < rows
  <2>1. at' = Len(read[r]) + 1 /\ at' # Halted
    BY <1>1, <1>3, <1>4, <1>5 DEF Halted
  <2>2. ended' = ended
    BY <1>1, <1>4, <2>1
  <2> QED
    BY <1>4, <1>5, <2>1, <2>2
<1>6. CASE Len(read[r]) = rows
  <2>1. at' = Halted
    BY <1>1, <1>3, <1>4, <1>6 DEF Halted
  <2>2. read' = read /\ ended' = [ended EXCEPT ![r] = TRUE]
    BY <1>1, <1>4, <2>1
  <2> QED
    BY <1>6, <2>1, <2>2
<1> QED
  BY <1>1, <1>3, <1>5, <1>6

\* The results nobody touches stay as they are when the statement moves for another one,
\* since they have ended, or when it does not move.
LEMMA OthersKept ==
    ASSUME ReadInv, NEW q \in live, rows' = rows,
           ended'[q] = ended[q], read'[q] = read[q], it'[q] = it[q],
           q \in begun' <=> q \in begun,
           ended[q] \/ at' = at
    PROVE  (Cursor(q) /\ Loop(q))'
  BY DEF ReadInv, Cursor, Loop, AtStart, Halted

\* A step of the result r alone, which is the one that is being read.
LEMMA OneMoves ==
    ASSUME ReadInv, TypeOK', NEW r \in Results, rows' = rows,
           live' \in {live, live \cup {r}},
           (r \in live /\ ~ended[r]) \/ Idle,
           \A q \in live \ {r} : /\ ended'[q] = ended[q] /\ read'[q] = read[q]
                                 /\ it'[q] = it[q]
                                 /\ q \in begun' <=> q \in begun,
           (Cursor(r) /\ Loop(r))'
    PROVE  ReadInv'
<1>1. \A q \in live \ {r} : ended[q]
  BY DEF ReadInv, Idle
<1>2. \A q \in live \ {r} : (Cursor(q) /\ Loop(q))'
  BY <1>1, OthersKept
<1>3. \A q \in live' \ {r} : q \in live
  OBVIOUS
<1>4. \A p, q \in live' : ~ended'[p] /\ ~ended'[q] => p = q
  BY <1>1, <1>3
<1> QED
  BY <1>2, <1>3, <1>4 DEF ReadInv

\* next_row, whoever calls it, keeps the order of the rows.
LEMMA DeliverKeeps ==
    ASSUME ReadInv, TypeOK', NEW r \in live, ~ended[r], Deliver(r),
           UNCHANGED <<rows, live>>,
           \A q \in live \ {r} : it'[q] = it[q] /\ (q \in begun' <=> q \in begun),
           \/ it'[r] = "none" /\ r \notin begun'
           \/ it'[r] = (IF ended'[r] THEN "end" ELSE "row") /\ r \in begun'
    PROVE  ReadInv'
<1> USE QueryCursorAssumption
<1>1. r \in Results /\ read[r] \in Seq(1..MaxRows) /\ Len(read[r]) \in Nat /\ rows \in Nat
      /\ read \in [Results -> Seq(1..MaxRows)] /\ ended \in [Results -> BOOLEAN]
  BY DEF ReadInv, TypeOK
<1>2. \A q \in live \ {r} : ended'[q] = ended[q] /\ read'[q] = read[q]
  BY DeliverType DEF ReadInv, TypeOK
<1>3. Cursor(r)
  BY DEF ReadInv
<1>4. CASE /\ Len(read[r]) < rows
           /\ at' = Len(read[r]) + 1
           /\ read' = [read EXCEPT ![r] = Append(read[r], Len(read[r]) + 1)]
           /\ ended' = ended
  <2> DEFINE new == Append(read[r], Len(read[r]) + 1)
  <2>1. /\ Len(new) = Len(read[r]) + 1
        /\ new[Len(read[r]) + 1] = Len(read[r]) + 1
        /\ \A i \in 1..Len(read[r]) : new[i] = read[r][i]
    BY <1>1
  <2>2. read'[r] = new /\ ~ended'[r]
    BY <1>1, <1>4
  <2> HIDE DEF new
  <2>3. Cursor(r)' /\ Loop(r)'
    BY <1>1, <1>3, <1>4, <2>1, <2>2 DEF Cursor, Loop
  <2> QED
    BY <1>1, <1>2, <2>3, OneMoves
<1>5. CASE /\ Len(read[r]) = rows
           /\ at' = Halted
           /\ read' = read
           /\ ended' = [ended EXCEPT ![r] = TRUE]
  <2>1. read'[r] = read[r] /\ ended'[r]
    BY <1>1, <1>5
  <2>2. Cursor(r)' /\ Loop(r)'
    BY <1>1, <1>3, <1>5, <2>1 DEF Cursor, Loop
  <2> QED
    BY <1>1, <1>2, <2>2, OneMoves
<1> QED
  BY <1>4, <1>5, DeliverFacts

\* A step of r that throws leaves the statement halted and r before its first row.
LEMMA FailureKeeps ==
    ASSUME ReadInv, TypeOK', NEW r \in live, ~ended[r],
           at' = Halted, UNCHANGED <<rows, live, ended, it>>,
           read' = [read EXCEPT ![r] = <<>>],
           begun' \in {begun, begun \cup {r}}
    PROVE  ReadInv'
<1>1. r \in Results /\ read \in [Results -> Seq(1..MaxRows)] /\ rows \in Nat
  BY DEF ReadInv, TypeOK
<1>2. /\ read'[r] = <<>> /\ Len(<<>>) = 0
      /\ \A q \in live \ {r} : read'[q] = read[q]
  BY <1>1 DEF ReadInv, TypeOK
<1>3. Cursor(r)' /\ Loop(r)'
  BY <1>1, <1>2 DEF ReadInv, Cursor, Loop, AtStart, Halted
<1> QED
  BY <1>1, <1>2, <1>3, OneMoves

LEMMA ReadInvStep ==
    ASSUME "rewind" \notin Liberties
    PROVE  ReadInv /\ [Next]_vars => ReadInv'
<1> SUFFICES ASSUME ReadInv, [Next]_vars PROVE ReadInv'
  OBVIOUS
<1> USE QueryCursorAssumption
<1>0. TypeOK /\ TypeOK'
  BY TypeStep DEF ReadInv
<1>u. CASE UNCHANGED cursors /\ UNCHANGED rows /\ (Idle \/ at' = at)
  <2>1. \A q \in live : (Cursor(q) /\ Loop(q))'
    BY <1>u, OthersKept DEF cursors, Idle
  <2> QED
    BY <1>0, <1>u, <2>1 DEF cursors, ReadInv
<1>1. CASE UNCHANGED vars
  BY <1>1, <1>u DEF vars, command
<1>2. CASE CommandNext
  BY <1>2, <1>u
  DEF CommandNext, Percent, Bind, StepOnce, Call, ResetStatement, Clear, DestroyQuery,
      CallWith, CallWithTooMany, command
<1>3. ASSUME NEW r \in Results, GetResult(r) PROVE ReadInv'
  <2>1. /\ r \notin live /\ Idle /\ AtStart
        /\ live' = live \cup {r}
        /\ UNCHANGED <<at, rows, ended, read, begun, it>>
    BY <1>3 DEF GetResult, MayOpen, command
  <2>2. /\ ~ended[r] /\ read[r] = <<>> /\ it[r] = "none" /\ r \notin begun
        /\ Len(<<>>) = 0
    BY <1>0, <2>1 DEF TypeOK
  <2>3. Cursor(r)' /\ Loop(r)'
    BY <2>1, <2>2 DEF Cursor, Loop, AtStart
  <2> QED
    BY <1>0, <2>1, <2>3, OneMoves
<1>4. ASSUME NEW r \in Results, EmitResult(r) PROVE ReadInv'
  <2>1. /\ r \notin live /\ Idle /\ AtStart
        /\ live' = live \cup {r}
        /\ at' = After(at)
        /\ ended' = [ended EXCEPT ![r] = at' = Halted]
        /\ read' = [read EXCEPT ![r] = IF at' = Halted THEN <<>> ELSE <<at'>>]
        /\ UNCHANGED <<rows, begun, it>>
    BY <1>4 DEF EmitResult, MayOpen, command
  <2>2. it[r] = "none" /\ r \notin begun
    BY <1>0, <2>1 DEF TypeOK
  <2>3. at' = 1
    BY <1>0, <2>1 DEF TypeOK, AtStart, After, Halted
  <2>4. /\ \A q \in live \ {r} : ended'[q] = ended[q] /\ read'[q] = read[q]
        /\ ended'[r] = (at' = Halted)
        /\ at' = Halted => read'[r] = <<>>
        /\ at' # Halted => read'[r] = <<at'>>
    BY <1>0, <2>1 DEF TypeOK
  <2>5. rows \in Nat /\ (at' = Halted <=> rows = 0)
    BY <1>0, <2>3 DEF TypeOK, Halted
  <2>6. Cursor(r)' /\ Loop(r)'
    <3>1. CASE rows = 0
      <4>1. Len(read'[r]) = 0 /\ ended'[r]
        BY <2>4, <2>5, <3>1
      <4> QED
        BY <2>1, <2>2, <3>1, <4>1 DEF Cursor, Loop
    <3>2. CASE rows # 0
      <4> DEFINE first == <<1>>
      <4>1. Len(first) = 1 /\ first[1] = 1
        OBVIOUS
      <4>2. read'[r] = first /\ ~ended'[r]
        BY <2>3, <2>4, <2>5, <3>2
      <4> HIDE DEF first
      <4>3. Cursor(r)'
        <5>1. at' = 1 /\ rows' = rows /\ rows \in Nat /\ 1 <= rows
          BY <2>1, <2>3, <2>5, <3>2
        <5>2. Len(read'[r]) = 1 /\ ~ended'[r]
          BY <4>1, <4>2
        <5>3. \A i \in 1..1 : read'[r][i] = i
          BY <4>1, <4>2
        <5> QED
          BY <5>1, <5>2, <5>3 DEF Cursor
      <4>4. Loop(r)'
        <5>1. it'[r] = "none" /\ r \notin begun'
          BY <2>1, <2>2
        <5> QED
          BY <5>1 DEF Loop
      <4> QED
        BY <4>3, <4>4
    <3> QED
      BY <3>1, <3>2
  <2> QED
    BY <1>0, <2>1, <2>4, <2>6, OneMoves
<1>5. ASSUME NEW r \in Results, NextRow(r) PROVE ReadInv'
  <2>1. CASE ended[r]
    <3>1. UNCHANGED <<at, ended, read, rows, live, begun, it>>
      BY <1>5, <2>1 DEF NextRow, Deliver, command
    <3> QED
      BY <3>1, <1>u DEF cursors
  <2>2. CASE ~ended[r]
    BY <1>0, <1>5, <2>2, DeliverKeeps DEF NextRow, command
  <2> QED
    BY <2>1, <2>2
<1>6. ASSUME NEW r \in Results, NextRowFails(r) PROVE ReadInv'
  BY <1>0, <1>6, FailureKeeps DEF NextRowFails, command
<1>7. ASSUME NEW r \in Results, UseDangling(r) PROVE ReadInv'
  BY <1>7, <1>u DEF UseDangling, command
<1>8. ASSUME NEW r \in Results, Rewind(r) PROVE ReadInv'
  <2>1. /\ r \in live /\ ended[r] /\ AtStart /\ Idle
        /\ begun = {}
        /\ ended' = [ended EXCEPT ![r] = FALSE]
        /\ read' = [read EXCEPT ![r] = <<>>]
        /\ UNCHANGED <<at, rows, live, begun, it>>
    BY <1>8 DEF Rewind, Quiet, Idle, command
  <2>2. /\ \A q \in live \ {r} : ended'[q] = ended[q] /\ read'[q] = read[q]
        /\ ~ended'[r] /\ read'[r] = <<>> /\ Len(<<>>) = 0
        /\ it[r] = "none"
    BY <1>0, <2>1 DEF TypeOK, ReadInv, Loop
  <2>3. Cursor(r)' /\ Loop(r)'
    BY <2>1, <2>2 DEF Cursor, Loop, AtStart
  <2> QED
    BY <1>0, <2>1, <2>2, <2>3, OneMoves
<1>9. ASSUME NEW r \in Results, Drop(r) PROVE ReadInv'
  <2>1. /\ live' = live \ {r} /\ at' = at /\ rows' = rows
        /\ ended' = [ended EXCEPT ![r] = FALSE]
        /\ read' = [read EXCEPT ![r] = <<>>]
        /\ it' = [it EXCEPT ![r] = "none"]
        /\ begun' = begun \ {r}
    BY <1>9 DEF Drop, command
  <2>2. ASSUME NEW q \in live'
        PROVE  /\ q \in live
               /\ ended'[q] = ended[q] /\ read'[q] = read[q] /\ it'[q] = it[q]
               /\ q \in begun' <=> q \in begun
    BY <1>0, <2>1 DEF TypeOK
  <2>3. ASSUME NEW q \in live' PROVE (Cursor(q) /\ Loop(q))'
    BY <2>1, <2>2, OthersKept
  <2>4. \A p, q \in live' : ~ended'[p] /\ ~ended'[q] => p = q
    BY <2>2 DEF ReadInv
  <2> QED
    BY <1>0, <2>3, <2>4 DEF ReadInv
<1>10. ASSUME NEW r \in Results, Begin(r) PROVE ReadInv'
  <2>1. /\ r \in live /\ ~ended[r] /\ Deliver(r)
        /\ begun' = begun \cup {r}
        /\ it' = [it EXCEPT ![r] = IF ended'[r] THEN "end" ELSE "row"]
        /\ UNCHANGED <<rows, live>>
    BY <1>10 DEF Begin, command
  <2>2. /\ it'[r] = IF ended'[r] THEN "end" ELSE "row"
        /\ \A q \in live \ {r} : it'[q] = it[q]
    BY <1>0, <2>1 DEF TypeOK
  <2> QED
    BY <1>0, <2>1, <2>2, DeliverKeeps
<1>11. ASSUME NEW r \in Results, BeginFails(r) PROVE ReadInv'
  <2>1. read' = [read EXCEPT ![r] = <<>>]
    BY <1>0, <1>11 DEF BeginFails, TypeOK
  <2> QED
    BY <1>0, <1>11, <2>1, FailureKeeps DEF BeginFails, command
<1>12. ASSUME NEW r \in Results, BeginAgain(r) PROVE ReadInv'
  <2>1. /\ r \in live /\ r \in begun /\ it[r] # "row"
        /\ it' = [it EXCEPT ![r] = "end"]
        /\ UNCHANGED <<at, rows, live, ended, read, begun>>
    BY <1>0, <1>12 DEF BeginAgain, TypeOK, command
  <2>2. \A q \in live \ {r} : it'[q] = it[q]
    BY <1>0, <2>1 DEF TypeOK
  <2>3. \A q \in live \ {r} : (Cursor(q) /\ Loop(q))'
    BY <2>1, <2>2, OthersKept
  <2>4. (Cursor(r) /\ Loop(r))'
    BY <1>0, <2>1 DEF ReadInv, TypeOK, Cursor, Loop, AtStart
  <2> QED
    BY <1>0, <2>1, <2>3, <2>4 DEF ReadInv
<1>13. ASSUME NEW r \in Results, Increment(r) PROVE ReadInv'
  <2>1. /\ r \in live /\ it[r] = "row" /\ Deliver(r)
        /\ it' = [it EXCEPT ![r] = IF ended'[r] THEN "end" ELSE "row"]
        /\ UNCHANGED <<rows, live, begun>>
    BY <1>0, <1>13 DEF Increment, TypeOK, command
  <2>2. ~ended[r] /\ r \in begun
    BY <2>1 DEF ReadInv, Loop
  <2>3. /\ it'[r] = IF ended'[r] THEN "end" ELSE "row"
        /\ \A q \in live \ {r} : it'[q] = it[q]
    BY <1>0, <2>1 DEF TypeOK
  <2> QED
    BY <1>0, <2>1, <2>2, <2>3, DeliverKeeps
<1> QED
  BY <1>1, <1>2, <1>3, <1>4, <1>5, <1>6, <1>7, <1>8, <1>9, <1>10, <1>11, <1>12, <1>13
  DEF Next, ResultNext

LEMMA BindInvariant == Spec => []BindInv
  BY BindInvInit, BindInvStep, PTL DEF Spec

LEMMA ReadInvariant == ASSUME "rewind" \notin Liberties PROVE Spec => []ReadInv
<1>1. ReadInv /\ [Next]_vars => ReadInv'
  BY ReadInvStep
<1> QED
  BY <1>1, ReadInvInit, PTL DEF Spec

-----------------------------------------------------------------------------
(* Results as forward-only cursors *)

\* A delivery of next_row, operator++ or the first begin() is the next of the cursor.
LEMMA DeliveryRefines ==
    ASSUME ReadInv, NEW r \in live, Deliver(r), UNCHANGED <<rows, live>>
    PROVE  [Cursors!Next]_(Cursors!vars)
<1>1. r \in Results /\ Len(read[r]) \in Nat /\ rows \in Nat
  BY DEF ReadInv, TypeOK
<1>2. CASE ended[r]
  BY <1>2 DEF Deliver, Cursors!vars
<1>3. CASE ~ended[r]
  <2>1. Cursors!Deliver(r, read[r])
    BY <1>1, <1>3, DeliverFacts DEF Cursors!Deliver
  <2> QED
    BY <1>1, <1>3, <2>1 DEF Cursors!Advance, Cursors!Next
<1> QED
  BY <1>2, <1>3

LEMMA CursorInit == Init => Cursors!Init
  BY QueryCursorAssumption DEF Init, Cursors!Init

LEMMA CursorStep ==
    ASSUME ReadInv, [Next]_vars
    PROVE  [Cursors!Next]_(Cursors!vars)
<1> USE QueryCursorAssumption
<1>0. TypeOK
  BY DEF ReadInv
<1>u. CASE UNCHANGED <<rows, live, read, ended>>
  BY <1>u DEF Cursors!vars
<1>1. CASE UNCHANGED vars
  BY <1>1, <1>u DEF vars, command, cursors
<1>2. CASE CommandNext
  BY <1>2, <1>u
  DEF CommandNext, Percent, Bind, StepOnce, Call, ResetStatement, Clear, DestroyQuery,
      CallWith, CallWithTooMany, command, cursors
<1>3. ASSUME NEW r \in Results, GetResult(r) PROVE [Cursors!Next]_(Cursors!vars)
  BY <1>3 DEF GetResult, MayOpen, command, Cursors!Open, Cursors!Next
<1>4. ASSUME NEW r \in Results, EmitResult(r) PROVE [Cursors!Next]_(Cursors!vars)
  <2>1. /\ r \notin live /\ AtStart
        /\ live' = live \cup {r} /\ rows' = rows
        /\ at' = After(at)
        /\ ended' = [ended EXCEPT ![r] = at' = Halted]
        /\ read' = [read EXCEPT ![r] = IF at' = Halted THEN <<>> ELSE <<at'>>]
    BY <1>4 DEF EmitResult, MayOpen, command
  <2>2. /\ at' = 1 /\ rows \in Nat /\ (at' = Halted <=> rows = 0)
        /\ ~ended[r] /\ read[r] = <<>>
        /\ ended \in [Results -> BOOLEAN] /\ read \in [Results -> Seq(1..MaxRows)]
    BY <1>0, <2>1 DEF TypeOK, AtStart, After, Halted
  <2>3. Len(<<>>) = 0 /\ Append(<<>>, 1) = <<1>>
    OBVIOUS
  <2>4. Cursors!Deliver(r, <<>>)
    <3>1. CASE rows = 0
      <4>1. read' = read /\ ended' = [ended EXCEPT ![r] = TRUE]
        BY <2>1, <2>2, <3>1
      <4> QED
        BY <2>3, <3>1, <4>1 DEF Cursors!Deliver
    <3>2. CASE rows # 0
      <4>1. ended' = ended /\ read' = [read EXCEPT ![r] = <<1>>]
        BY <2>1, <2>2, <3>2
      <4>2. read' = [read EXCEPT ![r] = Append(<<>>, 0 + 1)]
        BY <2>3, <4>1
      <4> QED
        BY <2>2, <2>3, <3>2, <4>1, <4>2 DEF Cursors!Deliver
    <3> QED
      BY <3>1, <3>2
  <2> QED
    BY <2>1, <2>4 DEF Cursors!Open, Cursors!Next
<1>5. ASSUME NEW r \in live,
             Deliver(r), NextRow(r) \/ Begin(r) \/ Increment(r)
      PROVE  [Cursors!Next]_(Cursors!vars)
  BY <1>5, DeliveryRefines DEF NextRow, Begin, Increment, command
<1>6. ASSUME NEW r \in Results, NextRow(r) \/ Begin(r) \/ Increment(r)
      PROVE  [Cursors!Next]_(Cursors!vars)
  BY <1>0, <1>5, <1>6 DEF NextRow, Begin, Increment, TypeOK
<1>7. ASSUME NEW r \in Results, NextRowFails(r) \/ Rewind(r)
      PROVE  [Cursors!Next]_(Cursors!vars)
  <2>1. /\ r \in live /\ live' = live /\ rows' = rows
        /\ read' = [read EXCEPT ![r] = <<>>]
        /\ ended' = [ended EXCEPT ![r] = FALSE]
    BY <1>0, <1>7 DEF NextRowFails, Rewind, TypeOK, command
  <2> QED
    BY <2>1 DEF Cursors!Rewind, Cursors!Next
<1>8. ASSUME NEW r \in Results, Drop(r) PROVE [Cursors!Next]_(Cursors!vars)
  BY <1>8 DEF Drop, command, Cursors!Close, Cursors!Next
<1>9. ASSUME NEW r \in Results, UseDangling(r) \/ BeginFails(r) \/ BeginAgain(r)
      PROVE  [Cursors!Next]_(Cursors!vars)
  BY <1>9, <1>u DEF UseDangling, BeginFails, BeginAgain, command, cursors
<1> QED
  BY <1>1, <1>2, <1>3, <1>4, <1>6, <1>7, <1>8, <1>9 DEF Next, ResultNext

-----------------------------------------------------------------------------
(* Theorems *)

\* Every variable of a query and of its results keeps its type: an index never exceeds
\* the placeholders by more than one (command::bind), and what a result that is gone
\* had is as it was at first.
THEOREM TypeCorrect == Spec => []TypeOK
<1>1. BindInv => TypeOK
  BY DEF BindInv
<1> QED
  BY <1>1, BindInvariant, PTL

\* Every argument is at the placeholder that its position gives (command.hpp's
\* operator% and operator()), whatever was refused, executed or failed in between and
\* however results of the query are used or misused.
THEOREM ArgumentsBound == Spec => []ArgumentsLand
<1>1. BindInv => ArgumentsLand
  BY DEF BindInv
<1> QED
  BY <1>1, BindInvariant, PTL

\* The row a range-for loop looks at is the one it has reached (result_range in
\* result.hpp), and a loop ends after the last row, as long as nobody resets a result
\* in the middle.
THEOREM LoopsSeeTheirRow == ASSUME "rewind" \notin Liberties PROVE Spec => []LoopSeesItsRow
<1>1. ASSUME ReadInv PROVE LoopSeesItsRow
  <2>1. ASSUME NEW r \in live
        PROVE  /\ it[r] = "row" /\ read[r] # <<>> => read[r][Len(read[r])] = at
               /\ it[r] = "row" /\ read[r] = <<>> => at = Halted
               /\ it[r] = "end" /\ read[r] # <<>> => ended[r] /\ Len(read[r]) = rows
    <3>1. TypeOK /\ Cursor(r) /\ Loop(r)
      BY <1>1 DEF ReadInv
    <3>2. read[r] = <<>> <=> Len(read[r]) = 0
      BY <3>1, EmptyRead
    <3>3. Len(read[r]) \in Nat
      BY <3>1 DEF TypeOK
    <3>4. Len(read[r]) # 0 => read[r][Len(read[r])] = Len(read[r])
      BY <3>1, <3>3 DEF Cursor
    <3> QED
      BY <3>1, <3>2, <3>4 DEF Cursor, Loop
  <2> QED
    BY <2>1 DEF LoopSeesItsRow
<1> QED
  BY <1>1, ReadInvariant, PTL

\* Results that are read one after the other are forward-only cursors (result::next_row,
\* emit_result, each), over failing steps and whatever the query executes in between.
THEOREM ForwardOnly ==
    ASSUME "rewind" \notin Liberties PROVE Spec => ImplementsForwardCursor
<1>1. Init => Cursors!Init
  BY CursorInit
<1>2. ReadInv /\ [Next]_vars => [Cursors!Next]_(Cursors!vars)
  BY CursorStep
<1> QED
  BY <1>1, <1>2, ReadInvariant, PTL DEF Spec, ImplementsForwardCursor, Cursors!Spec

\* The rows come in order, from the first, and none is skipped or repeated
\* (result::next_row), unless a result is reset in the middle: only result::reset()
\* breaks this.
THEOREM RowsInOrder == ASSUME "rewind" \notin Liberties PROVE Spec => []InOrder
<1>1. ReadInv => InOrder
  BY DEF ReadInv, Cursor, InOrder
<1> QED
  BY <1>1, ReadInvariant, PTL

\* The positional index starts over after every execution (operator() of command.hpp) as
\* long as no step of the command fails: only the exception of a failed step breaks this.
THEOREM IndexStartsOver == ASSUME "call" \notin Faults PROVE Spec => []IndexResets
<1>1. Init => IndexResets
  BY DEF Init, IndexResets
<1>2. IndexResets /\ [Next]_vars => IndexResets'
  <2> SUFFICES ASSUME IndexResets, [Next]_vars PROVE IndexResets'
    OBVIOUS
  <2>1. CASE UNCHANGED <<last, executed>>
    BY <2>1 DEF IndexResets
  <2>2. CASE executed' = "no" \/ last' = 0
    BY <2>2 DEF IndexResets
  <2> QED
    BY <2>1, <2>2
    DEF Next, vars, command, CommandNext, Percent, Bind, StepOnce, Call, ResetStatement,
        Clear, DestroyQuery, CallWith, CallWithTooMany, ResultNext, GetResult, EmitResult,
        NextRow, NextRowFails, UseDangling, Rewind, Drop, Begin, BeginFails, BeginAgain,
        Increment
<1> QED
  BY <1>1, <1>2, PTL DEF Spec

\* A result never calls into a query that is gone if the query is destroyed after its
\* results: the callbacks of query.cpp:48 are no other danger.
THEOREM CallbacksSafe == ASSUME "outlive" \notin Liberties PROVE Spec => []NeverDangles
<1> DEFINE Safe == ~undefined /\ (~alive => live = {})
<1>1. Init => Safe
  BY DEF Init
<1>2. Safe /\ [Next]_vars => Safe'
  <2> SUFFICES ASSUME Safe, [Next]_vars PROVE Safe'
    OBVIOUS
  <2>1. CASE alive' = alive /\ undefined' = undefined /\ (alive \/ live' \subseteq live)
    BY <2>1
  <2>2. CASE DestroyQuery
    BY <2>2 DEF DestroyQuery, cursors
  <2>3. ASSUME NEW r \in Results, UseDangling(r) PROVE FALSE
    BY <2>3 DEF UseDangling
  <2> QED
    BY <2>1, <2>2, <2>3
    DEF Next, vars, cursors, CommandNext, Percent, Bind, StepOnce, Call, ResetStatement,
        Clear, CallWith, CallWithTooMany, ResultNext, GetResult, EmitResult, MayOpen,
        NextRow, NextRowFails, Rewind, Drop, Begin, BeginFails, BeginAgain, Increment
<1>3. Safe => NeverDangles
  BY DEF NeverDangles
<1> QED
  BY <1>1, <1>2, <1>3, PTL DEF Spec
=============================================================================
