---------------------------- MODULE MCCommitLedger ----------------------------
(* Instances of CommitLedger for TLC.  Its graph is finite but large: an     *)
(* instance stops after MaxInputs inputs from outside the server.            *)
EXTENDS CommitLedger, TLC

CONSTANTS MaxInputs,
          Crashes    \* whether the process may end and start again

VARIABLE inputs

Inputs == \/ Clients
          \/ \E x \in Txs, h \in Hashes, logger \in BOOLEAN :
                 ForeignSend(x, h, logger)
          \/ Crashes /\ CrashRestart

Steps == \/ \E t \in Committers : Proceed(t)
         \/ \E v \in Verifiers : ProceedVerify(v)
         \/ \E x \in Txs, state \in {"mined", "reverted"} : Mine(x, state)

MCInit == Init /\ inputs = 0

MCNext == \/ inputs < MaxInputs /\ inputs' = inputs + 1 /\ Inputs
          \/ UNCHANGED inputs /\ Steps

MCSpec == MCInit /\ [][MCNext]_<<vars, inputs>>

MCLiveSpec == MCSpec /\ \A t \in Committers : WF_vars(Proceed(t))

\* All live scans of the wallet have one id, and those of its fixture another.
WalletIds ==
    LET live == CHOOSE i \in Ids : TRUE
        fixture == IF Ids = {live} THEN live ELSE CHOOSE i \in Ids : i # live
    IN  [h \in Hashes |-> IF h \in Live THEN live ELSE fixture]

Symmetry == Permutations(Live) \cup Permutations(Keys) \cup Permutations(Txs)
                \cup Permutations(Committers)
=============================================================================
