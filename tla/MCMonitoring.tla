---------------------------- MODULE MCMonitoring ----------------------------
(* Instances of Monitoring, with scans in either order, for TLC.  An instance *)
(* stops after MaxScans scans; resolutions, failures and restarts are not     *)
(* counted.                                                                   *)
EXTENDS ScanOrder, TLC

CONSTANTS MaxScans,        \* scans, if they do not overlap
          MaxOverlapping,  \* scans, if they may overlap
          h1, h2, h3, signal, source

MCNext ==
    /\ OrderNext
    /\ clock' <= IF overlap THEN MaxOverlapping ELSE MaxScans

MCSpec == OrderInit /\ [][MCNext]_<<vars, overlap>>

Assessed(hash, score, level, signals, status) ==
    [hash |-> hash, score |-> score, level |-> level, signals |-> signals,
     sources |-> [s \in Sources |-> status]]

\* A quiet wallet; a worse one, by score and level; the same while the source
\* is down; a score that hides behind an unchanged level.
MCResults == {Assessed(h1, 10, "Moderate", {}, "available"),
              Assessed(h2, 80, "Critical", {signal}, "available"),
              Assessed(h3, 20, "Moderate", {}, "unavailable")}

Symmetry == Permutations(Threads) \cup Permutations(Scopes)
=============================================================================
