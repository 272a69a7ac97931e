---------------------------- MODULE LeaseContract ----------------------------
(***************************************************************************)
(* What connection_pool promises its callers, with no mutex, no condition  *)
(* variable and no idle list: a thread is granted a connection nobody else *)
(* can reach, no more than Limit connections are out at a time, and a      *)
(* connection reaches a second thread only when one of its holders shares  *)
(* it.                                                                     *)
(***************************************************************************)
EXTENDS Integers, FiniteSets

CONSTANTS Clients, Resources, Limit

VARIABLE held   \* the connections each client can use

Out == UNION {held[t] : t \in Clients}

Init == held = [t \in Clients |-> {}]

Grant(t) ==
    /\ Cardinality(Out) < Limit
    /\ \E c \in Resources \ Out : held' = [held EXCEPT ![t] = @ \cup {c}]

Share(t, u) == \E c \in held[t] : held' = [held EXCEPT ![u] = @ \cup {c}]

Drop(t) == \E c \in held[t] : held' = [held EXCEPT ![t] = @ \ {c}]

Next == \E t \in Clients : \/ Grant(t)
                           \/ Drop(t)
                           \/ \E u \in Clients : Share(t, u)

Spec == Init /\ [][Next]_held
=============================================================================
