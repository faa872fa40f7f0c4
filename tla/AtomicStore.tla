----------------------------- MODULE AtomicStore -----------------------------
(***************************************************************************)
(* What a state file is good for: every save changes one slot, at once, and *)
(* a crash changes nothing.  A save that could not read the file starts     *)
(* from nothing: it leaves its own slot and no other, and that at once too. *)
(***************************************************************************)
CONSTANTS Slots, Values, None

VARIABLES
    contents,
    blind      \* the save under way could not read the file

vars == <<contents, blind>>

Init == contents = [s \in Slots |-> None] /\ blind = FALSE

Save(slot, value) ==
    /\ ~blind
    /\ contents' = [contents EXCEPT ![slot] = value]
    /\ UNCHANGED blind

ReadFails ==
    /\ blind' = TRUE
    /\ UNCHANGED contents

SaveBlind(slot, value) ==
    /\ blind
    /\ contents' = [s \in Slots |-> IF s = slot THEN value ELSE None]
    /\ blind' = FALSE

GiveUp ==
    /\ blind' = FALSE
    /\ UNCHANGED contents

Next == \/ \E slot \in Slots, value \in Values :
              Save(slot, value) \/ SaveBlind(slot, value)
        \/ ReadFails
        \/ GiveUp

Spec == Init /\ [][Next]_vars
=============================================================================
