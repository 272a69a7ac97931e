--------------------------- MODULE FreshStatements ---------------------------
(***************************************************************************)
(* What a command promises with or without a statement cache: its own      *)
(* statement, compiled from the text it was constructed with, without      *)
(* bindings and not started when the constructor returns, and changed by   *)
(* nobody but its owner.                                                   *)
(***************************************************************************)
CONSTANTS
    Commands, Sqls,
    NoText,   \* there is no command object
    Unused    \* and no statement

VARIABLES
    want,     \* the text each command was constructed with
    use       \* the statement it works with

Fresh(q) == [sql |-> q, bound |-> FALSE, active |-> FALSE]

Init ==
    /\ want = [c \in Commands |-> NoText]
    /\ use = [c \in Commands |-> Unused]

Ask(c) ==
    /\ want[c] = NoText
    /\ \E q \in Sqls : want' = [want EXCEPT ![c] = q]
    /\ UNCHANGED use

Give(c) ==
    /\ want[c] # NoText
    /\ use[c] = Unused
    /\ use' = [use EXCEPT ![c] = Fresh(want[c])]
    /\ UNCHANGED want

\* The constructor throws.
Refuse(c) ==
    /\ use[c] = Unused
    /\ want' = [want EXCEPT ![c] = NoText]
    /\ UNCHANGED use

Bind(c) ==
    /\ use[c] # Unused
    /\ use' = [use EXCEPT ![c].bound = TRUE]
    /\ UNCHANGED want

\* Stepping and resetting only start or stop the statement.
Run(c) ==
    /\ use[c] # Unused
    /\ \E started \in BOOLEAN : use' = [use EXCEPT ![c].active = started]
    /\ UNCHANGED want

Destroy(c) ==
    /\ use[c] # Unused
    /\ use' = [use EXCEPT ![c] = Unused]
    /\ want' = [want EXCEPT ![c] = NoText]

Next == \E c \in Commands :
    Ask(c) \/ Give(c) \/ Refuse(c) \/ Bind(c) \/ Run(c) \/ Destroy(c)

Spec == Init /\ [][Next]_<<want, use>>
=============================================================================
