------------------------------ MODULE ScanOrder ------------------------------
(***************************************************************************)
(* Monitoring, in behaviours of two kinds: those in which scans may        *)
(* overlap, which are all, and those in which a scan starts only when no   *)
(* other is under way.  The server keeps no order among scans; what an     *)
(* alert means depends on it.                                              *)
(***************************************************************************)
EXTENDS Monitoring

VARIABLE overlap  \* whether scans may be under way at the same time

Scanning(t) == call[t].pc \notin {"idle", "resolve"}

OrderInit == Init /\ overlap \in BOOLEAN

OrderNext ==
    /\ Next
    /\ \/ overlap
       \/ clock' = clock
       \/ \A t \in Threads : ~Scanning(t)
    /\ UNCHANGED overlap

OrderSpec == OrderInit /\ [][OrderNext]_<<vars, overlap>>

-----------------------------------------------------------------------------
\* Scans that do not overlap: each is answered with an open alert for an
\* increase of the score or of the level, or a loss of coverage, over the scan
\* before it in the history (alerts.py:_trend_candidates).  That scan may have
\* had no answer itself, and alerts may be resolved at any time.
IncreaseIsAlerted ==
    [][~overlap => \A t \in Threads : Answer(t) => IncreaseIsOpen(t)]_vars
=============================================================================
