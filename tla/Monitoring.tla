------------------------------ MODULE Monitoring ------------------------------
(***************************************************************************)
(* What a scan leaves behind: a trend point, a history row, and the alerts *)
(* that the assessment and its trend give cause for (the end of            *)
(* workflows.py:scan_wallet, with trend.py, history_store.py, alerts.py).  *)
(* Each handler thread works through these stores one after the other; a   *)
(* client may resolve an alert at any time.                                *)
(*                                                                         *)
(* All is about one wallet.  A scope is a chain id and a data mode.  The   *)
(* stores are SQLite tables (durable) or in memory.  The scan itself, up   *)
(* to the assessment, is one step: its outcome is one of Results.          *)
(***************************************************************************)
EXTENDS Naturals, SequencesExt

CONSTANTS
    Threads,   \* handler threads
    Scopes,    \* the pairs of a chain id and a data mode
    Hashes,    \* assessment hashes
    Signals,   \* what an assessment can report that is a cause for an alert
               \* of its own: an active approval, a suspicious transfer, a
               \* risky token, each with its evidence; a gap in the data
    Sources,   \* the data sources
    Results,   \* the assessments that scans may end in
    RowCap,    \* max_records_per_wallet of the history (100 in the code)
    PointCap,  \* max_points_per_wallet of the trend store (20, or 50)
    Stores,    \* TRUE: the stores are SQLite tables; FALSE: in memory
    None

LevelRank == [l \in {"Low", "Moderate", "High", "Critical"} |->
                  CASE l = "Low" -> 1 [] l = "Moderate" -> 2
                    [] l = "High" -> 3 [] l = "Critical" -> 4]

SourceRank == [s \in {"available", "partial", "unknown", "unavailable",
                      "source_failed"} |->
                  CASE s = "available" -> 4 [] s = "partial" -> 3
                    [] s = "unknown" -> 2 [] s = "unavailable" -> 1
                    [] s = "source_failed" -> 0]

Levels == DOMAIN LevelRank
Statuses == DOMAIN SourceRank

\* The hash covers the score, the level and the risks; neither the time of
\* the scan nor the chain.
Result == [hash : Hashes, score : Nat, level : Levels,
           signals : SUBSET Signals, sources : [Sources -> Statuses]]

ASSUME ResultsAssumption == Results \subseteq Result

ASSUME StoresAssumption == Stores \subseteq BOOLEAN

ASSUME CapsAssumption == RowCap \in Nat \ {0} /\ PointCap \in Nat \ {0}

\* An alert's dedupe key, without the wallet.
Causes == [kind : {"signal"}, of : Signals]
              \cup [kind : {"source_unavailable", "coverage_degraded"},
                    of : Sources]
              \cup [kind : {"score_increased", "level_increased"},
                    of : Hashes \X Hashes]

VARIABLES
    durable,  \* which of Stores this process has
    clock,    \* the number of assessments made: their timestamps
    points,   \* the trend store
    rows,     \* the scan history, in the order of insertion
    alerts,   \* the alerts
    lock,     \* the thread that holds the alert store's lock
    call      \* the call that each thread handles

vars == <<durable, clock, points, rows, alerts, lock, call>>

Assessment == [scope : Scopes, at : Nat, result : Results]

\* status: the column that queries select by.  stated: what the alert itself
\* says.  The scope is that of the scan that opened the alert.
Alert == [cause : Causes, status : {"open", "resolved"},
          stated : {"open", "resolved"}, count : Nat \ {0}, scope : Scopes,
          lastSeen : Hashes \cup {None}]

ASSUME NoneAssumption ==
    None \notin Threads \cup Hashes \cup Causes /\ None \notin Alert

Call == [pc : {"idle", "point", "row", "trend", "evaluate", "alerts", "store",
               "resolve"},
         assessment : Assessment \cup {None},
         causes : SUBSET Causes,    \* of this scan
         pending : SUBSET Causes,   \* of them, those still to be stored
         cause : Causes \cup {None},
         found : Alert \cup {None}]

Idle == [pc |-> "idle", assessment |-> None, causes |-> {}, pending |-> {},
         cause |-> None, found |-> None]

TypeOK ==
    /\ durable \in BOOLEAN
    /\ clock \in Nat
    /\ points \in Seq(Assessment)
    /\ rows \in Seq(Assessment)
    /\ alerts \subseteq Alert
    /\ lock \in Threads \cup {None}
    /\ call \in [Threads -> Call]

-----------------------------------------------------------------------------
(* The history and the trend.                                              *)

\* The latest n of a set of assessments.
Latest(S, n) == {a \in S : Cardinality({b \in S : b.at > a.at}) < n}

\* The last n elements of a sequence.
Newest(s, n) == IF Len(s) <= n THEN s ELSE SubSeq(s, Len(s) - n + 1, Len(s))

Scoped(s, scope) == {a \in Range(s) : a.scope = scope}

\* Whether row i goes before row j: a table drops the rows with the oldest
\* timestamps, a list the rows that were inserted first.
Older(s, i, j) == IF durable THEN s[i].at <= s[j].at ELSE i <= j

\* The rows with one that was appended, in a scope that was within the cap
\* before.
Kept(s, scope) ==
    LET mine == {i \in DOMAIN s : s[i].scope = scope}
    IN  IF Cardinality(mine) <= RowCap THEN {s}
        ELSE {RemoveAt(s, i) : i \in {i \in mine : \A j \in mine : Older(s, i, j)}}

\* The causes that a trend from one assessment to the next gives.
TrendCauses(from, to) ==
    LET pair == <<from.hash, to.hash>>
        degraded == {s \in Sources :
                       SourceRank[to.sources[s]] < SourceRank[from.sources[s]]}
    IN  {[kind |-> "score_increased", of |-> p] :
            p \in {p \in {pair} : to.score > from.score}}
        \cup {[kind |-> "level_increased", of |-> p] :
                 p \in {p \in {pair} : LevelRank[to.level] > LevelRank[from.level]}}
        \cup [kind : {"coverage_degraded"}, of : degraded]

\* build_alert_candidates.  history: the assessments that the trend covers.
Candidates(result, history) ==
    [kind : {"signal"}, of : result.signals]
    \cup [kind : {"source_unavailable"},
          of : {s \in Sources : result.sources[s] = "unavailable"}]
    \cup UNION {TrendCauses(p[1].result, p[2].result) :
                   p \in {p \in Latest(history, 2) \X Latest(history, 2) :
                             p[1].at < p[2].at}}

-----------------------------------------------------------------------------
(* The alerts.                                                             *)

Open(c) == {a \in alerts : a.cause = c /\ a.status = "open"}

\* The rows that a write to the alert of a cause touches: its alertId is the
\* cause's, and the table has one row for each id.
Touched(c) == {a \in alerts : a.cause = c /\ (durable \/ a.status = "open")}

\* Broken: the count starts at zero.
NewAlertUncounted(c, scope) ==
    [cause |-> c, status |-> "open", stated |-> "open", count |-> 0,
     scope |-> scope, lastSeen |-> None]

NewAlert(c, scope) ==
    [cause |-> c, status |-> "open", stated |-> "open", count |-> 1,
     scope |-> scope, lastSeen |-> None]

Step(t, changes) == call' = [call EXCEPT ![t] = changes]

-----------------------------------------------------------------------------
Init ==
    /\ durable \in Stores
    /\ clock = 0
    /\ points = <<>>
    /\ rows = <<>>
    /\ alerts = {}
    /\ lock = None
    /\ call = [t \in Threads |-> Idle]

\* A scan arrives at an assessment.
Assess(t, result, scope) ==
    /\ call[t].pc = "idle"
    /\ clock' = clock + 1
    /\ Step(t, [Idle EXCEPT !.pc = "point",
                            !.assessment = [scope |-> scope, at |-> clock + 1,
                                            result |-> result]])
    /\ UNCHANGED <<durable, points, rows, alerts, lock>>

\* record_assessment, in the trend store
RecordPoint(t) ==
    /\ call[t].pc = "point"
    /\ points' = Newest(Append(points, call[t].assessment), PointCap)
    /\ Step(t, [call[t] EXCEPT !.pc = "row"])
    /\ UNCHANGED <<durable, clock, rows, alerts, lock>>

\* record_scan, in the history
RecordRow(t) ==
    /\ call[t].pc = "row"
    /\ rows' \in Kept(Append(rows, call[t].assessment), call[t].assessment.scope)
    /\ Step(t, [call[t] EXCEPT !.pc = "trend"])
    /\ UNCHANGED <<durable, clock, points, alerts, lock>>

\* Broken: compares with the history as it was when the trend store was read,
\* of the wallet in any scope.
ReadTrendOfPoints(t) ==
    /\ call[t].pc = "trend"
    /\ LET a == call[t].assessment
           causes == Candidates(a.result, Range(points))
       IN Step(t, [call[t] EXCEPT !.pc = "evaluate", !.causes = causes,
                                  !.pending = causes])
    /\ UNCHANGED <<durable, clock, points, rows, alerts, lock>>

\* The history's trend, read after the row was written.
ReadTrend(t) ==
    /\ call[t].pc = "trend"
    /\ LET a == call[t].assessment
           causes == Candidates(a.result, Scoped(rows, a.scope))
       IN Step(t, [call[t] EXCEPT !.pc = "evaluate", !.causes = causes,
                                  !.pending = causes])
    /\ UNCHANGED <<durable, clock, points, rows, alerts, lock>>

\* Broken: does not take the lock.
EvaluateUnlocked(t) ==
    /\ call[t].pc = "evaluate"
    /\ Step(t, [call[t] EXCEPT !.pc = "alerts"])
    /\ UNCHANGED <<durable, clock, points, rows, alerts, lock>>

\* The store evaluates all candidates with its lock held.
Evaluate(t) ==
    /\ call[t].pc = "evaluate"
    /\ lock = None
    /\ lock' = t
    /\ Step(t, [call[t] EXCEPT !.pc = "alerts"])
    /\ UNCHANGED <<durable, clock, points, rows, alerts>>

\* Broken: finds the alert of the cause whether it is open or not.
LookUpAny(t, c) ==
    /\ call[t].pc = "alerts"
    /\ c \in call[t].pending
    /\ \E found \in IF {a \in alerts : a.cause = c} = {} THEN {None}
                    ELSE {a \in alerts : a.cause = c} :
          Step(t, [call[t] EXCEPT !.pc = "store", !.cause = c, !.found = found])
    /\ UNCHANGED <<durable, clock, points, rows, alerts, lock>>

\* _open_or_update looks for an open alert of the cause ...
LookUp(t, c) ==
    /\ call[t].pc = "alerts"
    /\ c \in call[t].pending
    /\ \E found \in IF Open(c) = {} THEN {None} ELSE Open(c) :
          Step(t, [call[t] EXCEPT !.pc = "store", !.cause = c, !.found = found])
    /\ UNCHANGED <<durable, clock, points, rows, alerts, lock>>

\* Broken: an alert that is opened again goes on counting.
OpenOrUpdateReopened(t) ==
    LET c == call[t].cause
        found == call[t].found
        assessment == call[t].assessment
    IN  /\ call[t].pc = "store"
        /\ alerts' = (alerts \ Touched(c)) \cup
              IF found # None
              THEN {[found EXCEPT !.count = @ + 1,
                                  !.lastSeen = assessment.result.hash]}
              ELSE IF Touched(c) # {}
              THEN {[a EXCEPT !.status = "open", !.stated = "open",
                              !.count = @ + 1] : a \in Touched(c)}
              ELSE {NewAlert(c, assessment.scope)}
        /\ Step(t, [call[t] EXCEPT !.pc = "alerts", !.pending = @ \ {c},
                                   !.cause = None, !.found = None])
        /\ UNCHANGED <<durable, clock, points, rows, lock>>

\* ... and counts there once more, or opens one.
OpenOrUpdate(t) ==
    LET c == call[t].cause
        found == call[t].found
        assessment == call[t].assessment
    IN  /\ call[t].pc = "store"
        /\ alerts' = (alerts \ Touched(c)) \cup
              IF found = None
              THEN {NewAlert(c, assessment.scope)}
              ELSE {[found EXCEPT !.status = a.status, !.count = @ + 1,
                                  !.lastSeen = assessment.result.hash] :
                       a \in Touched(c)}
        /\ Step(t, [call[t] EXCEPT !.pc = "alerts", !.pending = @ \ {c},
                                   !.cause = None, !.found = None])
        /\ UNCHANGED <<durable, clock, points, rows, lock>>

\* The scan is answered.
Answer(t) ==
    /\ call[t].pc = "alerts"
    /\ call[t].pending = {}
    /\ lock' = None
    /\ Step(t, Idle)
    /\ UNCHANGED <<durable, clock, points, rows, alerts>>

\* Broken: does not take the lock.
ResolveUnlocked(t, c) ==
    /\ call[t].pc = "idle"
    /\ \E found \in Touched(c) :
          /\ found.stated = "open"
          /\ Step(t, [Idle EXCEPT !.pc = "resolve", !.cause = c,
                                  !.found = found])
    /\ UNCHANGED <<durable, clock, points, rows, alerts, lock>>

\* A client resolves an alert: the store looks for it with its lock held ...
Resolve(t, c) ==
    /\ call[t].pc = "idle"
    /\ lock = None
    /\ \E found \in Touched(c) :
          /\ found.stated = "open"
          /\ lock' = t
          /\ Step(t, [Idle EXCEPT !.pc = "resolve", !.cause = c,
                                  !.found = found])
    /\ UNCHANGED <<durable, clock, points, rows, alerts>>

\* ... and marks it.  In memory it takes the place of an alert with its id
\* that was resolved before.
MarkResolved(t) ==
    LET c == call[t].cause
    IN  /\ call[t].pc = "resolve"
        /\ alerts' = {a \in alerts : a.cause # c} \cup
              {[call[t].found EXCEPT !.status = "resolved",
                                     !.stated = "resolved"]}
        /\ lock' = None
        /\ Step(t, Idle)
        /\ UNCHANGED <<durable, clock, points, rows>>

\* A statement of SQLite raises: the transaction is rolled back, the lock is
\* released and the call has no answer.
DatabaseFails(t) ==
    /\ durable
    /\ \/ call[t].pc \in {"point", "row", "trend", "store", "resolve"}
       \/ call[t].pc = "alerts" /\ call[t].pending # {}
    /\ lock' = IF lock = t THEN None ELSE lock
    /\ Step(t, Idle)
    /\ UNCHANGED <<durable, clock, points, rows, alerts>>

\* The process ends and starts again.
CrashRestart ==
    /\ lock' = None
    /\ call' = [t \in Threads |-> Idle]
    /\ IF durable
       THEN UNCHANGED <<points, rows, alerts>>
       ELSE points' = <<>> /\ rows' = <<>> /\ alerts' = {}
    /\ UNCHANGED <<durable, clock>>

Serve(t) ==
    \/ \E result \in Results, scope \in Scopes : Assess(t, result, scope)
    \/ RecordPoint(t)
    \/ RecordRow(t)
    \/ ReadTrend(t)
    \/ Evaluate(t)
    \/ \E c \in Causes : LookUp(t, c) \/ Resolve(t, c)
    \/ OpenOrUpdate(t)
    \/ Answer(t)
    \/ MarkResolved(t)
    \/ DatabaseFails(t)

Next == \/ \E t \in Threads : Serve(t)
        \/ CrashRestart

Spec == Init /\ [][Next]_vars

-----------------------------------------------------------------------------
(* Properties.                                                             *)

\* There is one open alert for a cause at most, and one row for an alert's id;
\* the column that queries select by says what the alert says.  A resolve and
\* evaluations of the same cause may meet in alerts.py:_open_or_update.
TableIsSound ==
    \A a \in alerts :
        /\ a.status = a.stated
        /\ \A b \in alerts :
              a.cause = b.cause /\ (durable \/ a.status = b.status) => a = b

\* What an evaluation has stored stays open, with this scan as the last that
\* has seen it, until the scan is answered: the answer's list of alerts
\* (workflows.py:_alerts_workflow) is never one that somebody has resolved.
StoredStaysOpen ==
    \A t \in Threads :
        call[t].pc \in {"alerts", "store"} =>
            \A c \in call[t].causes \ call[t].pending :
                \E a \in Open(c) :
                    a.count = 1 \/ a.lastSeen = call[t].assessment.result.hash

\* The trend of a scan's row over the row before it, as the history has them
\* when the scan is answered, has its alerts.
IncreaseIsOpen(t) ==
    LET to == call[t].assessment
        before == {a \in Scoped(rows, to.scope) : a.at < to.at}
    IN  to \in Range(rows) =>
            \A from \in Latest(before, 1) :
                \A c \in TrendCauses(from.result, to.result) : Open(c) # {}

\* The count of the open alert of a cause; 0 if there is none.
CountOf(c) == IF Open(c) = {} THEN 0 ELSE (CHOOSE a \in Open(c) : TRUE).count

\* No sighting is lost: when an evaluation stores a cause, the count of its
\* alert in the table is one more than it was there, and not than it was when
\* the evaluation looked (alerts.py:_open_or_update, a SELECT and an UPDATE).
EverySightingCounts ==
    [][\A t \in Threads, c \in Causes :
          OpenOrUpdate(t) /\ call[t].cause = c => CountOf(c)' = CountOf(c) + 1]_vars

\* The alert store keeps the book of AlertBook, whichever store it is: nothing
\* but a sighting, a resolution and the loss of the memory changes a count.
Book == INSTANCE AlertBook WITH seen <- [c \in Causes |-> CountOf(c)]

BookIsKept == Book!Spec
=============================================================================
