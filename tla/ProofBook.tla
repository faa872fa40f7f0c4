------------------------------ MODULE ProofBook ------------------------------
(***************************************************************************)
(* What the proof endpoints promise, and all they promise: a hash is       *)
(* answered verified_matched only after an explicitly confirmed call has   *)
(* recorded it with a transaction, and neither fact is ever taken back.    *)
(***************************************************************************)
CONSTANT Hashes

VARIABLES confirmed, answered

vars == <<confirmed, answered>>

Init == confirmed = {} /\ answered = {}

Confirm(h) ==
    /\ confirmed' = confirmed \cup {h}
    /\ UNCHANGED answered

Answer(h) ==
    /\ h \in confirmed
    /\ answered' = answered \cup {h}
    /\ UNCHANGED confirmed

Next == \E h \in Hashes : Confirm(h) \/ Answer(h)

Spec == Init /\ [][Next]_vars
=============================================================================
