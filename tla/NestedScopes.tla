---------------------------- MODULE NestedScopes ----------------------------
(***************************************************************************)
(* What transaction and savepoint objects promise when they are used like  *)
(* scopes: the innermost open scope collects the writes, and its object    *)
(* hands all of them to the enclosing scope or throws all of them away.    *)
(* An object that ends with its scope open decides by its kind: a          *)
(* transaction throws them away, a savepoint hands them on.                *)
(***************************************************************************)
EXTENDS Integers, Sequences

CONSTANTS Txns, Sps, Writes

VARIABLES
    alive,    \* the objects that exist
    levels,   \* the open scopes, innermost last: [by, writes]
    durable,  \* the writes that are in the database for good
    excused   \* SQLite has interfered: it rolled back by itself or refused to commit

vars == <<alive, levels, durable, excused>>

Top == levels[Len(levels)]

HasOpen(o) == \E k \in 1..Len(levels) : levels[k].by = o

Init == alive = {} /\ levels = <<>> /\ durable = {} /\ excused = FALSE

\* A transaction is outermost, and the same object may begin another one later.
Open(o) ==
    /\ o \in Txns => levels = <<>>
    /\ o \in Sps => o \notin alive
    /\ alive' = alive \cup {o}
    /\ levels' = Append(levels, [by |-> o, writes |-> {}])
    /\ UNCHANGED durable

Write(w) ==
    /\ IF levels = <<>>
       THEN durable' = durable \cup {w} /\ UNCHANGED levels
       ELSE /\ levels' = [levels EXCEPT ![Len(levels)].writes = @ \cup {w}]
            /\ UNCHANGED durable
    /\ UNCHANGED alive

\* The innermost scope hands its writes on; the outermost makes them durable.
HandOn ==
    IF Len(levels) = 1
    THEN durable' = durable \cup Top.writes /\ levels' = <<>>
    ELSE /\ levels' = [SubSeq(levels, 1, Len(levels) - 1)
                           EXCEPT ![Len(levels) - 1].writes = @ \cup Top.writes]
         /\ UNCHANGED durable

Discard == levels' = SubSeq(levels, 1, Len(levels) - 1) /\ UNCHANGED durable

\* The object is told to keep or to undo its scope's writes.
End(o) ==
    /\ levels # <<>>
    /\ Top.by = o
    /\ \/ HandOn
       \/ o \in Txns /\ Discard
       \/ /\ o \in Sps
          /\ levels' = [levels EXCEPT ![Len(levels)].writes = {}]
          /\ UNCHANGED durable
    /\ UNCHANGED alive

\* The object ends.
Exit(o) ==
    /\ o \in alive
    /\ alive' = alive \ {o}
    /\ \/ ~HasOpen(o) /\ UNCHANGED <<levels, durable>>
       \/ /\ levels # <<>>
          /\ Top.by = o
          /\ IF o \in Txns THEN Discard ELSE HandOn

\* SQLite gives up the whole transaction.
Abort ==
    /\ levels # <<>>
    /\ levels' = <<>>
    /\ excused' = TRUE
    /\ UNCHANGED <<alive, durable>>

\* The process ends, but only after SQLite has interfered.
Terminate ==
    /\ alive' = {}
    /\ levels' = <<>>
    /\ excused' = TRUE
    /\ UNCHANGED durable

Use ==
    \/ \E o \in Txns \cup Sps : Open(o) \/ End(o) \/ Exit(o)
    \/ \E w \in Writes : Write(w)

Next ==
    \/ Use /\ UNCHANGED excused
    \/ Abort
    \/ Terminate

Spec == Init /\ [][Next]_vars
=============================================================================
