--------------------------- MODULE MCPreflightPages ---------------------------
(* Instances of PreflightPages for TLC: they stop after MaxInputs inputs from *)
(* users and the agent, and MaxFaults restarts and lost messages.             *)
EXTENDS PreflightPages, TLC

CONSTANTS MaxInputs, MaxFaults

VARIABLES inputs, faults

Inputs == (\E p \in Pages : User(p)) \/ Agent

Faults == Restart \/ \E p \in Pages, k \in Kinds : Lose(p, k)

MCInit == Init /\ inputs = 0 /\ faults = 0

MCNext ==
    \/ inputs < MaxInputs /\ inputs' = inputs + 1 /\ UNCHANGED faults /\ Inputs
       /\ vars' # vars
    \/ faults < MaxFaults /\ faults' = faults + 1 /\ UNCHANGED inputs /\ Faults
    \/ /\ UNCHANGED <<inputs, faults>>
       /\ \E p \in Pages, k \in Kinds : Serve(p, k) \/ Settle(p, k)

MCSpec == MCInit /\ [][MCNext]_<<vars, inputs, faults>> /\ Fairness

\* Every assessment has a form of its own.
OwnForms == [h \in Hashes |-> h]

\* Without a recorder nobody looks at the configured tx.
RecorderOn == [recorder : {TRUE}, tx : Txs \cup {None}]
AllEnvironments == RecorderOn \cup [recorder : {FALSE}, tx : {None}]
=============================================================================
