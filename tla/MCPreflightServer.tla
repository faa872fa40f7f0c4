-------------------------- MODULE MCPreflightServer --------------------------
(* Instances of PreflightServer for TLC.  The server is finite-state but its *)
(* full graph is too large; the instances stop after MaxCalls accepted calls.*)
EXTENDS PreflightServer

CONSTANT MaxCalls

VARIABLE calls

MCInit == Init /\ calls = 0

Started == {t \in Threads : handler[t].pc = "idle" /\ handler'[t].pc # "idle"}

MCNext == /\ Next
          /\ calls' = calls + Cardinality(Started)
          /\ calls' <= MaxCalls

MCSpec == MCInit /\ [][MCNext]_<<vars, calls>>

\* Hashes, transactions, threads and objects are interchangeable.
Symmetry == Permutations(Hashes) \cup Permutations(Txs)
                \cup Permutations(Threads) \cup Permutations(Refs)

\* Every environment, and those in which the recorder is not switched off.
AllEnvironments == [recorder : BOOLEAN, tx : Txs \cup {None}]
RecorderOn == {e \in AllEnvironments : e.recorder}
=============================================================================
