---------------------------- MODULE ForwardCursor ----------------------------
(***************************************************************************)
(* "Forward-only cursor over the rows produced by a prepared statement":   *)
(* every cursor delivers the rows 1, 2, ..., size in this order, each once, *)
(* then says so, and begins again only when it is told to.                 *)
(***************************************************************************)
EXTENDS Integers, Sequences

CONSTANT Cursors

VARIABLES
    size,    \* how many rows there are
    open,    \* the cursors in use
    out,     \* what each has delivered since it was opened or rewound
    done     \* whether it has said that there is nothing more

vars == <<size, open, out, done>>

Init ==
    /\ size \in Nat
    /\ open = {}
    /\ out = [c \in Cursors |-> <<>>]
    /\ done = [c \in Cursors |-> FALSE]

\* What the next delivery makes of c.
Deliver(c, before) ==
    IF Len(before) < size
    THEN out' = [out EXCEPT ![c] = Append(before, Len(before) + 1)] /\ UNCHANGED done
    ELSE done' = [done EXCEPT ![c] = TRUE] /\ UNCHANGED out

\* A cursor is opened before the first row, or on it.
Open(c) ==
    /\ c \notin open
    /\ open' = open \cup {c}
    /\ UNCHANGED <<out, done>> \/ Deliver(c, <<>>)
    /\ UNCHANGED size

Advance(c) ==
    /\ c \in open
    /\ ~done[c]
    /\ Deliver(c, out[c])
    /\ UNCHANGED <<size, open>>

Rewind(c) ==
    /\ c \in open
    /\ out' = [out EXCEPT ![c] = <<>>]
    /\ done' = [done EXCEPT ![c] = FALSE]
    /\ UNCHANGED <<size, open>>

Close(c) ==
    /\ c \in open
    /\ open' = open \ {c}
    /\ out' = [out EXCEPT ![c] = <<>>]
    /\ done' = [done EXCEPT ![c] = FALSE]
    /\ UNCHANGED size

Next == \E c \in Cursors : Open(c) \/ Advance(c) \/ Rewind(c) \/ Close(c)

Spec == Init /\ [][Next]_vars
=============================================================================
