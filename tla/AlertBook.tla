------------------------------ MODULE AlertBook ------------------------------
(***************************************************************************)
(* What the alert store is for: one open alert for each cause, which       *)
(* counts how often the cause was seen since the alert was opened, until   *)
(* somebody resolves it.                                                   *)
(***************************************************************************)
EXTENDS Naturals

CONSTANT Causes

VARIABLE seen  \* for each cause: 0, or the count of its open alert

Init == seen = [c \in Causes |-> 0]

See(c) == seen' = [seen EXCEPT ![c] = @ + 1]

Resolve(c) == seen' = [seen EXCEPT ![c] = 0]

\* A process that keeps alerts in memory ends.
Forget == seen' = [c \in Causes |-> 0]

Next == \/ \E c \in Causes : See(c) \/ Resolve(c)
        \/ Forget

Spec == Init /\ [][Next]_seen
=============================================================================
