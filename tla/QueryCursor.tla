----------------------------- MODULE QueryCursor -----------------------------
(***************************************************************************)
(* A sqlite::query: binding its arguments, executing it, and the results   *)
(* and ranges that read its rows.  All of them step the one statement the  *)
(* query owns.  One thread uses a query, so a member function is one       *)
(* action; a call that throws without changing anything is left out.       *)
(***************************************************************************)
EXTENDS Integers, Sequences

CONSTANTS
    Results,     \* result objects: made by get_result, emit_result or for a range by each
    MaxRows,     \* bound: rows of the statement's result set
    Params,      \* placeholders of the statement
    Values,      \* arguments
    NoValue,     \* an unbound placeholder
    Faults,      \* "row": next_row's step fails; "call": a step of the command fails
    Liberties    \* what callers do beyond reading one result at a time from its
                 \* first row: "rewind", "outlive"

ASSUME QueryCursorAssumption ==
    /\ MaxRows \in Nat
    /\ Params \in Nat
    /\ NoValue \notin Values
    /\ Faults \subseteq {"row", "call"}
    /\ Liberties \subseteq {"rewind", "outlive"}

VARIABLES
    alive,      \* the query exists
    rows,       \* the rows its statement returns
    at,         \* the statement: 0 reset, 1..rows on a row, rows + 1 halted
    bound,      \* sqlite3_bind_*: the value of each placeholder
    last,       \* last_arg_idx
    asked,      \* the arguments operator% got, in order; NoValue for a refused one
    executed,   \* "done" or "failed": operator() has executed with them; else "no"
    live,       \* the results somebody refers to
    ended,      \* result_construct_params_private::ended
    read,       \* the rows each has delivered since it was made, reset or failed
    begun,      \* the ranges with begin_called_; a range has one result
    it,         \* the iterator of a range: "none", on a "row", "end"
    undefined   \* a callback of a result used a query that is gone

command == <<rows, bound, last, asked, executed>>
cursors == <<live, ended, read, begun, it>>
vars == <<alive, at, undefined, command, cursors>>

Halted == rows + 1

Init ==
    /\ alive = TRUE
    /\ rows \in 0..MaxRows
    /\ at = 0
    /\ bound = [i \in 1..Params |-> NoValue]
    /\ last = 0
    /\ asked = <<>>
    /\ executed = "no"
    /\ live = {}
    /\ ended = [r \in Results |-> FALSE]
    /\ read = [r \in Results |-> <<>>]
    /\ begun = {}
    /\ it = [r \in Results |-> "none"]
    /\ undefined = FALSE

\* Nobody is reading, and nobody but r is.
Idle == \A r \in live : ended[r]
Quiet(r) == \A q \in live \ {r} : ended[q]
AtStart == at \notin 1..rows

-----------------------------------------------------------------------------
(* SQLite *)

\* Deviation: a halted statement has to be reset by hand.
AfterWithoutRestart(a) == a + 1

\* sqlite3_step resets a halted statement by itself.
After(a) == IF a = Halted THEN 1 ELSE a + 1

-----------------------------------------------------------------------------
(* command *)

\* The arguments so far with these; a successful execution has used them up.
Say(args) == asked' = (IF executed = "done" THEN <<>> ELSE asked) \o args

\* operator%: the index is counted first, then SQLite may refuse, because the
\* statement is not reset or because there is no such placeholder, and the position
\* is taken all the same.  Bound: one argument too many.
Percent(v) ==
    /\ alive
    /\ last <= Params
    /\ last' = last + 1
    /\ IF at = 0 /\ last < Params
       THEN bound' = [bound EXCEPT ![last + 1] = v] /\ Say(<<v>>)
       ELSE UNCHANGED bound /\ Say(<<NoValue>>)
    /\ executed' = "no"
    /\ UNCHANGED <<alive, rows, at, cursors, undefined>>

\* bind with an explicit index
Bind(i, v) ==
    /\ alive
    /\ at = 0
    /\ bound' = [bound EXCEPT ![i] = v]
    /\ asked' = [j \in DOMAIN asked |-> IF j = i THEN v ELSE asked[j]]
    /\ UNCHANGED <<alive, rows, at, last, executed, cursors, undefined>>

\* step_once and execute's constructor
StepOnce ==
    /\ alive
    /\ Idle
    /\ at' \in {After(at)} \cup (IF "call" \in Faults THEN {Halted} ELSE {})
    /\ UNCHANGED <<alive, command, cursors, undefined>>

\* operator() without arguments
Call ==
    /\ alive
    /\ Idle
    /\ \/ at' = After(at) /\ last' = 0 /\ executed' = "done"
       \/ "call" \in Faults /\ at' = Halted /\ executed' = "failed" /\ UNCHANGED last
    /\ Say(<<>>)
    /\ UNCHANGED <<alive, rows, bound, cursors, undefined>>

\* The arguments of operator(), for each of which there is a placeholder.
Supply(args) ==
    /\ bound' = [i \in 1..Params |-> IF i - last \in DOMAIN args THEN args[i - last]
                                     ELSE bound[i]]
    /\ Say(args)

\* Deviation: the index goes on after the call.
CallWithKeepsIndex(args) ==
    /\ alive
    /\ Idle
    /\ last + Len(args) <= Params
    /\ Supply(args)
    /\ executed' = "done"
    /\ at' = 1
    /\ last' = last + Len(args)
    /\ UNCHANGED <<alive, rows, cursors, undefined>>

CallWith(args) ==
    /\ alive
    /\ Idle
    /\ last + Len(args) <= Params
    /\ Supply(args)
    /\ \/ at' = 1 /\ last' = 0 /\ executed' = "done"
       \/ /\ "call" \in Faults
          /\ at' = Halted
          /\ last' = last + Len(args)
          /\ executed' = "failed"
    /\ UNCHANGED <<alive, rows, cursors, undefined>>

\* The first argument without a placeholder is refused: nothing is executed.
CallWithTooMany(args) ==
    /\ alive
    /\ Idle
    /\ last <= Params
    /\ last + Len(args) > Params
    /\ LET fit == SubSeq(args, 1, Params - last)
       IN /\ bound' = [i \in 1..Params |-> IF i > last THEN fit[i - last] ELSE bound[i]]
          /\ Say(Append(fit, NoValue))
    /\ last' = Params + 1
    /\ executed' = "no"
    /\ at' = 0
    /\ UNCHANGED <<alive, rows, cursors, undefined>>

ResetStatement ==
    /\ alive
    /\ Idle
    /\ at' = 0
    /\ UNCHANGED <<alive, command, cursors, undefined>>

\* clear() keeps the bindings.
Clear ==
    /\ alive
    /\ Idle
    /\ at' = 0
    /\ last' = 0
    /\ asked' = <<>>
    /\ executed' = "no"
    /\ UNCHANGED <<alive, rows, bound, cursors, undefined>>

\* The statement goes back to the cache; results keep pointers to it and to the query.
DestroyQuery ==
    /\ alive
    /\ live = {} \/ "outlive" \in Liberties
    /\ alive' = FALSE
    /\ UNCHANGED <<at, command, cursors, undefined>>

-----------------------------------------------------------------------------
(* result *)

MayOpen(r) ==
    /\ alive
    /\ r \notin live
    /\ Idle
    /\ AtStart

GetResult(r) ==
    /\ MayOpen(r)
    /\ live' = live \cup {r}
    /\ UNCHANGED <<alive, at, command, ended, read, begun, it, undefined>>

\* The step comes first, so the result starts on the first row, or ended.
EmitResult(r) ==
    /\ MayOpen(r)
    /\ live' = live \cup {r}
    /\ at' = After(at)
    /\ ended' = [ended EXCEPT ![r] = at' = Halted]
    /\ read' = [read EXCEPT ![r] = IF at' = Halted THEN <<>> ELSE <<at'>>]
    /\ UNCHANGED <<alive, command, begun, it, undefined>>

\* next_row
Deliver(r) ==
    IF ended[r]
    THEN UNCHANGED <<at, ended, read>>
    ELSE /\ at' = After(at)
         /\ ended' = [ended EXCEPT ![r] = at' = Halted]
         /\ read' = [read EXCEPT ![r] = IF at' = Halted THEN @ ELSE Append(@, at')]

NextRow(r) ==
    /\ alive
    /\ r \in live
    /\ it[r] = "none" /\ r \notin begun
    /\ Deliver(r)
    /\ UNCHANGED <<alive, command, live, begun, it, undefined>>

\* Deviation: an error is taken for the end.
NextRowFailsEnds(r) ==
    /\ alive
    /\ "row" \in Faults
    /\ r \in live
    /\ ~ended[r]
    /\ at' = Halted
    /\ ended' = [ended EXCEPT ![r] = TRUE]
    /\ UNCHANGED <<alive, command, live, read, begun, it, undefined>>

\* The step throws, out of next_row or operator++; `ended` is not assigned, so the
\* result would begin again.
NextRowFails(r) ==
    /\ alive
    /\ "row" \in Faults
    /\ r \in live
    /\ ~ended[r]
    /\ at' = Halted
    /\ read' = [read EXCEPT ![r] = <<>>]
    /\ UNCHANGED <<alive, command, live, ended, begun, it, undefined>>

\* next_row, or a column: the callbacks of the result still point to the query.
UseDangling(r) ==
    /\ ~alive
    /\ r \in live
    /\ undefined' = TRUE
    /\ UNCHANGED <<alive, at, command, cursors>>

\* reset()
Rewind(r) ==
    /\ r \in live
    /\ begun = {}
    /\ Quiet(r)
    /\ (ended[r] /\ AtStart) \/ "rewind" \in Liberties
    /\ ended' = [ended EXCEPT ![r] = FALSE]
    /\ read' = [read EXCEPT ![r] = <<>>]
    /\ UNCHANGED <<alive, at, command, live, begun, it, undefined>>

\* The last reference, and the range with its iterator, is gone.
Drop(r) ==
    /\ r \in live
    /\ live' = live \ {r}
    /\ ended' = [ended EXCEPT ![r] = FALSE]
    /\ read' = [read EXCEPT ![r] = <<>>]
    /\ begun' = begun \ {r}
    /\ it' = [it EXCEPT ![r] = "none"]
    /\ UNCHANGED <<alive, at, command, undefined>>

-----------------------------------------------------------------------------
(* each(): a range over a result that get_result made *)

\* Deviation: the iterator is not moved to the first row.
BeginWithoutAdvance(r) ==
    /\ alive
    /\ r \in live
    /\ read[r] = <<>> /\ ~ended[r]
    /\ r \notin begun
    /\ begun' = begun \cup {r}
    /\ it' = [it EXCEPT ![r] = "row"]
    /\ UNCHANGED <<alive, at, command, live, ended, read, undefined>>

\* The first begin() moves to the first row.
Begin(r) ==
    /\ alive
    /\ r \in live
    /\ read[r] = <<>> /\ ~ended[r]
    /\ r \notin begun
    /\ begun' = begun \cup {r}
    /\ Deliver(r)
    /\ it' = [it EXCEPT ![r] = IF ended'[r] THEN "end" ELSE "row"]
    /\ UNCHANGED <<alive, command, live, undefined>>

\* begin_called_ is set before the constructor of the iterator steps and throws.
BeginFails(r) ==
    /\ alive
    /\ "row" \in Faults
    /\ r \in live
    /\ read[r] = <<>> /\ ~ended[r]
    /\ r \notin begun
    /\ begun' = begun \cup {r}
    /\ at' = Halted
    /\ UNCHANGED <<alive, command, live, ended, read, it, undefined>>

\* Every other begin() is end().
BeginAgain(r) ==
    /\ alive
    /\ r \in begun
    /\ it[r] # "row"
    /\ it' = [it EXCEPT ![r] = "end"]
    /\ UNCHANGED <<alive, at, command, live, ended, read, begun, undefined>>

\* operator++
Increment(r) ==
    /\ alive
    /\ it[r] = "row"
    /\ Deliver(r)
    /\ it' = [it EXCEPT ![r] = IF ended'[r] THEN "end" ELSE "row"]
    /\ UNCHANGED <<alive, command, live, begun, undefined>>

-----------------------------------------------------------------------------

CommandNext ==
    \/ \E v \in Values : Percent(v) \/ \E i \in 1..Params : Bind(i, v)
    \/ StepOnce \/ Call \/ ResetStatement \/ Clear \/ DestroyQuery
    \/ \E n \in 1..(Params + 1) : \E args \in [1..n -> Values] :
          CallWith(args) \/ CallWithTooMany(args)

ResultNext(r) ==
    \/ GetResult(r) \/ EmitResult(r) \/ NextRow(r) \/ NextRowFails(r)
    \/ UseDangling(r) \/ Rewind(r) \/ Drop(r)
    \/ Begin(r) \/ BeginFails(r) \/ BeginAgain(r) \/ Increment(r)

Next == CommandNext \/ \E r \in Results : ResultNext(r)

Spec == Init /\ [][Next]_vars

-----------------------------------------------------------------------------
(* Properties *)

\* Every variable has its type, and what no longer exists is as it was at first.
TypeOK ==
    /\ alive \in BOOLEAN
    /\ rows \in 0..MaxRows
    /\ at \in 0..Halted
    /\ bound \in [1..Params -> Values \cup {NoValue}]
    /\ last \in 0..(Params + 1)
    /\ asked \in Seq(Values \cup {NoValue})
    /\ executed \in {"no", "done", "failed"}
    /\ live \in SUBSET Results
    /\ ended \in [Results -> BOOLEAN]
    /\ read \in [Results -> Seq(1..MaxRows)]
    /\ begun \in SUBSET live
    /\ it \in [Results -> {"none", "row", "end"}]
    /\ undefined \in BOOLEAN
    /\ \A r \in Results \ live : ~ended[r] /\ read[r] = <<>> /\ it[r] = "none"

\* "Indexes are given automatically first call uses 1 as index, second 2 and so on":
\* the n-th argument given since the last successful operator() or clear() is bound
\* to the n-th placeholder, whatever was refused, executed or failed in between.
ArgumentsLand ==
    \A i \in 1..Len(asked) : i <= Params /\ asked[i] # NoValue => bound[i] = asked[i]

\* A cursor delivers the first row first, then the second, and so on.
InOrder == \A r \in live : \A i \in 1..Len(read[r]) : read[r][i] = i

\* operator(): "Once the statement executes, the positional index resets so the
\* next invocation starts from the first placeholder again."
IndexResets == executed # "no" => last = 0

\* What a range-for loop looks at through its row_view, which reads the current row of
\* the statement, is the row the loop has reached (unless its last increment threw),
\* and a loop ends after the last row, unless its first step threw.
LoopSeesItsRow ==
    \A r \in live :
        /\ it[r] = "row" /\ read[r] # <<>> => read[r][Len(read[r])] = at
        /\ it[r] = "row" /\ read[r] = <<>> => at = Halted
        /\ it[r] = "end" /\ read[r] # <<>> => ended[r] /\ Len(read[r]) = rows

\* The cursor "keeps the underlying resources alive through shared ownership until
\* both the query and the result go out of scope".
NeverDangles == ~undefined

Cursors == INSTANCE ForwardCursor WITH
    Cursors <- Results, size <- rows, open <- live, out <- read, done <- ended

\* Read one after the other, each from a statement at its start, results are
\* forward-only cursors that lose and repeat nothing and say that they ended after the
\* last row only; one that threw begins again.
ImplementsForwardCursor == Cursors!Spec
=============================================================================
