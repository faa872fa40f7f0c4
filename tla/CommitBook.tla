------------------------------ MODULE CommitBook ------------------------------
(***************************************************************************)
(* What an idempotency key is for: while the process lives, a key is tried *)
(* once, sends at most one transaction, and gets one answer for good.      *)
(***************************************************************************)
CONSTANTS Keys, Answers, Txs, None, Trying

VARIABLES
    answer,  \* for each key: None, Trying, or its answer
    sent     \* for each key: None, or the transaction that it has sent

vars == <<answer, sent>>

Init == /\ answer = [k \in Keys |-> None]
        /\ sent = [k \in Keys |-> None]

Try(k) ==
    /\ answer[k] = None
    /\ answer' = [answer EXCEPT ![k] = Trying]
    /\ UNCHANGED sent

Send(k, x) ==
    /\ answer[k] = Trying
    /\ sent[k] = None
    /\ sent' = [sent EXCEPT ![k] = x]
    /\ UNCHANGED answer

Settle(k, a) ==
    /\ answer[k] = Trying
    /\ answer' = [answer EXCEPT ![k] = a]
    /\ UNCHANGED sent

\* The process ends, and the book with it.
Forget == /\ answer' = [k \in Keys |-> None]
          /\ sent' = [k \in Keys |-> None]

Next == \/ \E k \in Keys : \/ Try(k)
                           \/ \E x \in Txs : Send(k, x)
                           \/ \E a \in Answers : Settle(k, a)
        \/ Forget

Spec == Init /\ [][Next]_vars
=============================================================================
