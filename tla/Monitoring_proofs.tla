-------------------------- MODULE Monitoring_proofs --------------------------
(***************************************************************************)
(* What holds of Monitoring for any number of threads, scopes, scans and   *)
(* causes, any caps, with either kind of store, with failures and crashes; *)
(* and of ScanOrder, where scans are in order.                             *)
(***************************************************************************)
EXTENDS ScanOrder, SequenceTheorems, FiniteSetTheorems, TLAPS

-----------------------------------------------------------------------------
(* Sequences and causes.                                                   *)

LEMMA RangeType ==
    ASSUME NEW S, NEW s \in Seq(S)
    PROVE  Range(s) \subseteq S
<1> SUFFICES ASSUME NEW x \in Range(s)
             PROVE  x \in S
  BY Zenon
<1>1. PICK i \in DOMAIN s : x = s[i]
  BY DEF Range
<1>2. i \in 1 .. Len(s)
  BY LenProperties
<1>3. QED  BY <1>1, <1>2, ElementOfSeq

LEMMA NewestType ==
    ASSUME NEW S, NEW s \in Seq(S), NEW n \in Nat
    PROVE  Newest(s, n) \in Seq(S)
<1>1. Len(s) \in Nat
  BY LenProperties
<1>2. CASE Len(s) <= n
  BY <1>2 DEF Newest
<1>3. CASE ~(Len(s) <= n)
  <2>1. \A i \in Len(s) - n + 1 .. Len(s) : s[i] \in S
    BY <1>1, <1>3, ElementOfSeq
  <2>2. SubSeq(s, Len(s) - n + 1, Len(s)) \in Seq(S)
    BY <1>1, <2>1, SubSeqProperties
  <2>3. QED  BY <1>3, <2>2 DEF Newest
<1>4. QED  BY <1>2, <1>3

LEMMA RemoveAtType ==
    ASSUME NEW S, NEW s \in Seq(S), NEW i \in DOMAIN s
    PROVE  RemoveAt(s, i) \in Seq(S)
<1>1. Len(s) \in Nat /\ i \in 1 .. Len(s)
  BY LenProperties
<1>2. \A j \in 1 .. Len(s) : s[j] \in S
  BY ElementOfSeq
<1>3. SubSeq(s, 1, i - 1) \in Seq(S)
  <2>1. \A j \in 1 .. i - 1 : s[j] \in S
    BY <1>1, <1>2
  <2>2. QED  BY <1>1, <2>1, SubSeqProperties
<1>4. SubSeq(s, i + 1, Len(s)) \in Seq(S)
  <2>1. \A j \in i + 1 .. Len(s) : s[j] \in S
    BY <1>1, <1>2
  <2>2. QED  BY <1>1, <2>1, SubSeqProperties
<1>5. QED  BY <1>3, <1>4, ConcatProperties DEF RemoveAt

LEMMA KeptType ==
    ASSUME NEW s \in Seq(Assessment), NEW scope, NEW kept \in Kept(s, scope)
    PROVE  kept \in Seq(Assessment)
BY RemoveAtType DEF Kept

LEMMA TrendCausesType ==
    ASSUME NEW from \in Result, NEW to \in Result
    PROVE  TrendCauses(from, to) \subseteq Causes
<1>1. from.hash \in Hashes /\ to.hash \in Hashes
  BY DEF Result
<1>2. <<from.hash, to.hash>> \in Hashes \X Hashes
  BY <1>1
<1>3. QED  BY <1>2 DEF TrendCauses, Causes

LEMMA CandidatesType ==
    ASSUME NEW result \in Result, NEW history \in SUBSET Assessment
    PROVE  Candidates(result, history) \subseteq Causes
<1>1. [kind : {"signal"}, of : result.signals] \subseteq Causes
  BY DEF Result, Causes
<1>2. [kind : {"source_unavailable"},
       of : {s \in Sources : result.sources[s] = "unavailable"}]
         \subseteq Causes
  BY DEF Causes
<1>3. \A a \in Latest(history, 2) : a.result \in Result
  BY ResultsAssumption DEF Latest, Assessment
<1>4. \A a, b \in Latest(history, 2) :
         TrendCauses(a.result, b.result) \subseteq Causes
  BY <1>3, TrendCausesType
<1>5. QED  BY <1>1, <1>2, <1>4 DEF Candidates

-----------------------------------------------------------------------------
(* Types.                                                                  *)

\* What the next step of a call needs.
HandlerIsShaped(k) ==
    /\ k.pc \notin {"idle", "resolve"} => k.assessment \in Assessment
    /\ k.pc = "evaluate" => k.pending = k.causes
    /\ k.pc \in {"store", "resolve"} => k.cause \in Causes
    /\ k.pc = "resolve" => k.found \in Alert /\ k.found.cause = k.cause

Shape == \A t \in Threads : HandlerIsShaped(call[t])

\* A thread's call is replaced by one that has its type and shape.
LEMMA StepType ==
    ASSUME TypeOK, Shape, NEW t \in Threads, NEW k \in Call,
           HandlerIsShaped(k), Step(t, k)
    PROVE  call' \in [Threads -> Call] /\ Shape'
BY DEF TypeOK, Shape, Step

LEMMA IdleType == Idle \in Call /\ HandlerIsShaped(Idle)
BY DEF Idle, Call, HandlerIsShaped

LEMMA NewAlertType ==
    ASSUME NEW c \in Causes, NEW scope \in Scopes
    PROVE  NewAlert(c, scope) \in Alert
BY DEF NewAlert, Alert

LEMMA AssessType ==
    ASSUME TypeOK, Shape, NEW t \in Threads, NEW result \in Results,
           NEW scope \in Scopes, Assess(t, result, scope)
    PROVE  TypeOK' /\ Shape'
<1> DEFINE a == [scope |-> scope, at |-> clock + 1, result |-> result]
           k == [Idle EXCEPT !.pc = "point", !.assessment = a]
<1>1. a \in Assessment /\ clock + 1 \in Nat
  BY DEF TypeOK, Assessment
<1> HIDE DEF a
<1>2. k \in Call /\ HandlerIsShaped(k)
  BY <1>1 DEF Idle, Call, HandlerIsShaped
<1>3. Step(t, k)
  BY DEF Assess, a
<1> HIDE DEF k
<1>4. call' \in [Threads -> Call] /\ Shape'
  BY <1>2, <1>3, StepType
<1>5. QED  BY <1>1, <1>4 DEF Assess, TypeOK

LEMMA RecordPointType ==
    ASSUME TypeOK, Shape, NEW t \in Threads, RecordPoint(t)
    PROVE  TypeOK' /\ Shape'
<1> DEFINE k == [call[t] EXCEPT !.pc = "row"]
<1>1. call[t] \in Call /\ call[t].assessment \in Assessment
  BY DEF TypeOK, Shape, HandlerIsShaped, RecordPoint
<1>2. points' \in Seq(Assessment)
  <2>1. Append(points, call[t].assessment) \in Seq(Assessment)
    BY <1>1, AppendProperties DEF TypeOK
  <2>2. QED  BY <2>1, NewestType, CapsAssumption DEF RecordPoint
<1>3. k \in Call /\ HandlerIsShaped(k)
  BY <1>1 DEF Call, HandlerIsShaped
<1>4. Step(t, k)
  BY DEF RecordPoint
<1> HIDE DEF k
<1>5. call' \in [Threads -> Call] /\ Shape'
  BY <1>3, <1>4, StepType
<1>6. QED  BY <1>2, <1>5 DEF RecordPoint, TypeOK

LEMMA RecordRowType ==
    ASSUME TypeOK, Shape, NEW t \in Threads, RecordRow(t)
    PROVE  TypeOK' /\ Shape'
<1> DEFINE k == [call[t] EXCEPT !.pc = "trend"]
<1>1. call[t] \in Call /\ call[t].assessment \in Assessment
  BY DEF TypeOK, Shape, HandlerIsShaped, RecordRow
<1>2. rows' \in Seq(Assessment)
  <2>1. Append(rows, call[t].assessment) \in Seq(Assessment)
    BY <1>1, AppendProperties DEF TypeOK
  <2>2. QED  BY <2>1, KeptType DEF RecordRow
<1>3. k \in Call /\ HandlerIsShaped(k)
  BY <1>1 DEF Call, HandlerIsShaped
<1>4. Step(t, k)
  BY DEF RecordRow
<1> HIDE DEF k
<1>5. call' \in [Threads -> Call] /\ Shape'
  BY <1>3, <1>4, StepType
<1>6. QED  BY <1>2, <1>5 DEF RecordRow, TypeOK

LEMMA ReadTrendType ==
    ASSUME TypeOK, Shape, NEW t \in Threads, ReadTrend(t)
    PROVE  TypeOK' /\ Shape'
<1> DEFINE a == call[t].assessment
           causes == Candidates(a.result, Scoped(rows, a.scope))
           k == [call[t] EXCEPT !.pc = "evaluate", !.causes = causes,
                                !.pending = causes]
<1>1. call[t] \in Call /\ a \in Assessment
  BY DEF TypeOK, Shape, HandlerIsShaped, ReadTrend
<1>2. causes \subseteq Causes
  <2>1. a.result \in Result
    BY <1>1, ResultsAssumption DEF Assessment
  <2>2. Scoped(rows, a.scope) \subseteq Assessment
    BY RangeType DEF TypeOK, Scoped
  <2>3. QED  BY <2>1, <2>2, CandidatesType
<1>3. Step(t, k)
  BY DEF ReadTrend
<1> HIDE DEF causes
<1>4. k \in Call /\ HandlerIsShaped(k)
  BY <1>1, <1>2 DEF Call, HandlerIsShaped
<1> HIDE DEF k
<1>5. call' \in [Threads -> Call] /\ Shape'
  BY <1>3, <1>4, StepType
<1>6. QED  BY <1>5 DEF ReadTrend, TypeOK

LEMMA EvaluateType ==
    ASSUME TypeOK, Shape, NEW t \in Threads, Evaluate(t)
    PROVE  TypeOK' /\ Shape'
<1> DEFINE k == [call[t] EXCEPT !.pc = "alerts"]
<1>1. call[t] \in Call /\ call[t].assessment \in Assessment
  BY DEF TypeOK, Shape, HandlerIsShaped, Evaluate
<1>2. k \in Call /\ HandlerIsShaped(k)
  BY <1>1 DEF Call, HandlerIsShaped
<1>3. Step(t, k)
  BY DEF Evaluate
<1> HIDE DEF k
<1>4. call' \in [Threads -> Call] /\ Shape'
  BY <1>2, <1>3, StepType
<1>5. QED  BY <1>4 DEF Evaluate, TypeOK

LEMMA LookUpType ==
    ASSUME TypeOK, Shape, NEW t \in Threads, NEW c \in Causes, LookUp(t, c)
    PROVE  TypeOK' /\ Shape'
<1>1. PICK found \in IF Open(c) = {} THEN {None} ELSE Open(c) :
         Step(t, [call[t] EXCEPT !.pc = "store", !.cause = c, !.found = found])
  BY DEF LookUp
<1> DEFINE k == [call[t] EXCEPT !.pc = "store", !.cause = c, !.found = found]
<1>2. found \in Alert \cup {None}
  BY DEF TypeOK, Open
<1>3. call[t] \in Call /\ call[t].assessment \in Assessment
  BY DEF TypeOK, Shape, HandlerIsShaped, LookUp
<1>4. k \in Call /\ HandlerIsShaped(k)
  BY <1>2, <1>3 DEF Call, HandlerIsShaped
<1> HIDE DEF k
<1>5. call' \in [Threads -> Call] /\ Shape'
  BY <1>1, <1>4, StepType DEF k
<1>6. QED  BY <1>5 DEF LookUp, TypeOK

LEMMA OpenOrUpdateType ==
    ASSUME TypeOK, Shape, NEW t \in Threads, OpenOrUpdate(t)
    PROVE  TypeOK' /\ Shape'
<1> DEFINE c == call[t].cause
           found == call[t].found
           k == [call[t] EXCEPT !.pc = "alerts", !.pending = @ \ {c},
                                !.cause = None, !.found = None]
           seen(a) == [found EXCEPT !.status = a.status, !.count = @ + 1,
                                    !.lastSeen = call[t].assessment.result.hash]
<1>1. /\ call[t] \in Call
      /\ call[t].assessment \in Assessment
      /\ c \in Causes
      /\ found \in Alert \cup {None}
  BY DEF TypeOK, Shape, HandlerIsShaped, OpenOrUpdate, Call
<1>2. /\ call[t].assessment.result.hash \in Hashes
      /\ call[t].assessment.scope \in Scopes
  BY <1>1, ResultsAssumption DEF Assessment, Result
<1>3. ASSUME found # None, NEW a \in alerts
      PROVE  seen(a) \in Alert
  <2>1. found \in Alert /\ a \in Alert
    BY <1>1, <1>3 DEF TypeOK
  <2>2. a.status \in {"open", "resolved"} /\ found.count + 1 \in Nat \ {0}
    BY <2>1 DEF Alert
  <2>3. QED  BY <1>2, <2>1, <2>2 DEF Alert
<1>4. alerts' \subseteq Alert
  BY <1>1, <1>2, <1>3, NewAlertType DEF OpenOrUpdate, TypeOK, Touched
<1>5. k \in Call /\ HandlerIsShaped(k)
  BY <1>1 DEF Call, HandlerIsShaped
<1>6. Step(t, k)
  BY DEF OpenOrUpdate
<1> HIDE DEF k
<1>7. call' \in [Threads -> Call] /\ Shape'
  BY <1>5, <1>6, StepType
<1>8. QED  BY <1>4, <1>7 DEF OpenOrUpdate, TypeOK

LEMMA ResolveType ==
    ASSUME TypeOK, Shape, NEW t \in Threads, NEW c \in Causes, Resolve(t, c)
    PROVE  TypeOK' /\ Shape'
<1>1. PICK found \in Touched(c) :
         Step(t, [Idle EXCEPT !.pc = "resolve", !.cause = c, !.found = found])
  BY DEF Resolve
<1> DEFINE k == [Idle EXCEPT !.pc = "resolve", !.cause = c, !.found = found]
<1>2. found \in Alert /\ found.cause = c
  BY DEF TypeOK, Touched
<1>3. k \in Call /\ HandlerIsShaped(k)
  BY <1>2 DEF Idle, Call, HandlerIsShaped
<1> HIDE DEF k
<1>4. call' \in [Threads -> Call] /\ Shape'
  BY <1>1, <1>3, StepType DEF k
<1>5. lock' \in Threads \cup {None}
  BY DEF Resolve
<1>6. QED  BY <1>4, <1>5 DEF Resolve, TypeOK

LEMMA MarkResolvedType ==
    ASSUME TypeOK, Shape, NEW t \in Threads, MarkResolved(t)
    PROVE  TypeOK' /\ Shape'
<1>1. call[t].found \in Alert
  BY DEF Shape, HandlerIsShaped, MarkResolved
<1>2. [call[t].found EXCEPT !.status = "resolved", !.stated = "resolved"]
         \in Alert
  BY <1>1 DEF Alert
<1>3. alerts' \subseteq Alert
  BY <1>2 DEF MarkResolved, TypeOK
<1>4. call' \in [Threads -> Call] /\ Shape'
  BY IdleType, StepType DEF MarkResolved
<1>5. QED  BY <1>3, <1>4 DEF MarkResolved, TypeOK

\* The steps that end a call, and the crash that ends all of them.
LEMMA EndType ==
    ASSUME TypeOK, Shape,
           \/ \E t \in Threads : Answer(t) \/ DatabaseFails(t)
           \/ CrashRestart
    PROVE  TypeOK' /\ Shape'
<1>1. ASSUME NEW t \in Threads, Answer(t)
      PROVE  TypeOK' /\ Shape'
  <2>1. call' \in [Threads -> Call] /\ Shape'
    BY <1>1, IdleType, StepType DEF Answer
  <2>2. QED  BY <1>1, <2>1 DEF Answer, TypeOK
<1>2. ASSUME NEW t \in Threads, DatabaseFails(t)
      PROVE  TypeOK' /\ Shape'
  <2>1. call' \in [Threads -> Call] /\ Shape'
    BY <1>2, IdleType, StepType DEF DatabaseFails
  <2>2. QED  BY <1>2, <2>1 DEF DatabaseFails, TypeOK
<1>3. CASE CrashRestart
  <2>1. <<>> \in Seq(Assessment)
    OBVIOUS
  <2>2. points' \in Seq(Assessment) /\ rows' \in Seq(Assessment)
    BY <1>3, <2>1 DEF CrashRestart, TypeOK
  <2>3. alerts' \subseteq Alert
    BY <1>3 DEF CrashRestart, TypeOK
  <2>4. call' \in [Threads -> Call] /\ Shape'
    BY <1>3, IdleType DEF CrashRestart, Shape
  <2>5. QED  BY <1>3, <2>2, <2>3, <2>4 DEF CrashRestart, TypeOK
<1>4. QED  BY <1>1, <1>2, <1>3

LEMMA TypeNext == TypeOK /\ Shape /\ [Next]_vars => TypeOK' /\ Shape'
<1> SUFFICES ASSUME TypeOK, Shape, [Next]_vars
             PROVE  TypeOK' /\ Shape'
  OBVIOUS
<1>1. CASE UNCHANGED vars
  BY <1>1 DEF vars, TypeOK, Shape
<1>2. ASSUME NEW t \in Threads, Serve(t)
      PROVE  TypeOK' /\ Shape'
  BY <1>2, AssessType, RecordPointType, RecordRowType, ReadTrendType,
     EvaluateType, LookUpType, OpenOrUpdateType, ResolveType,
     MarkResolvedType, EndType DEF Serve
<1>3. CASE CrashRestart
  BY <1>3, EndType
<1>4. QED  BY <1>1, <1>2, <1>3 DEF Next

LEMMA TypeInvariant == Spec => [](TypeOK /\ Shape)
<1>1. Init => TypeOK /\ Shape
  <2> SUFFICES ASSUME Init PROVE TypeOK /\ Shape
    OBVIOUS
  <2>1. <<>> \in Seq(Assessment)
    OBVIOUS
  <2>2. QED  BY <2>1, IdleType, StoresAssumption DEF Init, TypeOK, Shape
<1>2. QED  BY <1>1, TypeNext, PTL DEF Spec

\* Every variable keeps its type.
THEOREM TypeCorrect == Spec => []TypeOK
<1>1. QED  BY TypeInvariant, PTL

-----------------------------------------------------------------------------
(* The lock and the alerts.                                                *)

Working(t) == call[t].pc \in {"alerts", "store", "resolve"}

\* The lock is held by the thread that works on the alerts.
Held == \A t \in Threads : Working(t) => lock = t

\* What a thread has found is still so when it writes.
FoundIsOpen ==
    \A t \in Threads :
        /\ call[t].pc = "store" =>
              IF call[t].found = None THEN Open(call[t].cause) = {}
              ELSE call[t].found \in Open(call[t].cause)
        /\ call[t].pc = "resolve" => call[t].found \in Open(call[t].cause)

Sound == Held /\ FoundIsOpen /\ TableIsSound /\ StoredStaysOpen

\* There is one open alert of a cause, and it is the row that a write touches.
LEMMA OneIsOpen ==
    ASSUME TableIsSound, NEW c, NEW a \in Open(c)
    PROVE  Open(c) = {a} /\ Touched(c) = {a}
BY DEF TableIsSound, Open, Touched

\* What storing a cause does: its open alert is another, which has counted
\* this sighting, and no other cause's alerts change.
LEMMA OpenOrUpdateOpens ==
    ASSUME TypeOK, Shape, Sound, NEW t \in Threads, OpenOrUpdate(t),
           NEW c, c = call[t].cause
    PROVE  /\ \E a \in Alert :
                 /\ a.count = 1 \/ a.lastSeen = call[t].assessment.result.hash
                 /\ a.cause = c /\ a.status = "open" /\ a.stated = "open"
                 /\ IF Open(c) = {} THEN a.count = 1
                    ELSE \A b \in Open(c) : a.count = b.count + 1
                 /\ alerts' = (alerts \ Touched(c)) \cup {a}
           /\ \A d : d # c => Open(d)' = Open(d)
<1> DEFINE found == call[t].found
           hash == call[t].assessment.result.hash
           again == [found EXCEPT !.status = "open", !.count = @ + 1,
                                  !.lastSeen = hash]
           new == NewAlert(c, call[t].assessment.scope)
<1>1. /\ call[t].pc = "store"
      /\ call[t].assessment \in Assessment
      /\ c \in Causes
  BY DEF OpenOrUpdate, Shape, HandlerIsShaped
<1>2. hash \in Hashes /\ call[t].assessment.scope \in Scopes
  BY <1>1, ResultsAssumption DEF Assessment, Result
<1>3. \A a \in Touched(c) : a.cause = c
  BY DEF Touched
<1>4. CASE found = None
  <2>1. Open(c) = {}
    BY <1>1, <1>4 DEF Sound, FoundIsOpen
  <2>2. alerts' = (alerts \ Touched(c)) \cup {new}
    BY <1>4 DEF OpenOrUpdate
  <2>3. /\ new \in Alert
        /\ new.cause = c /\ new.status = "open" /\ new.stated = "open"
        /\ new.count = 1
    BY <1>1, <1>2, NewAlertType DEF NewAlert
  <2> HIDE DEF new
  <2>4. \A d : d # c => Open(d)' = Open(d)
    BY <1>3, <2>2, <2>3 DEF Open
  <2>5. QED  BY <2>1, <2>2, <2>3, <2>4
<1>5. CASE found # None
  <2>1. found \in Open(c) /\ found \in Alert
    BY <1>1, <1>5 DEF Sound, FoundIsOpen, Open, TypeOK
  <2>2. Open(c) = {found} /\ Touched(c) = {found}
    BY <2>1, OneIsOpen DEF Sound
  <2>3. found.status = "open" /\ found.stated = "open" /\ found.cause = c
    BY <2>1 DEF Open, Sound, TableIsSound
  <2>4. alerts' = (alerts \ Touched(c)) \cup {again}
    <3> DEFINE seen(a) == [found EXCEPT !.status = a.status, !.count = @ + 1,
                                        !.lastSeen = hash]
    <3>1. alerts' = (alerts \ Touched(c)) \cup {seen(a) : a \in {found}}
      BY <1>5, <2>2 DEF OpenOrUpdate
    <3>2. seen(found) = again
      BY <2>3
    <3> HIDE DEF seen
    <3>3. {seen(a) : a \in {found}} = {again}
      BY <3>2
    <3>4. QED  BY <3>1, <3>3
  <2>5. /\ again \in Alert
        /\ again.cause = c /\ again.status = "open" /\ again.stated = "open"
        /\ again.count = found.count + 1
        /\ again.lastSeen = hash
    <3>1. found.count + 1 \in Nat \ {0}
      BY <2>1 DEF Alert
    <3>2. QED  BY <1>2, <2>1, <2>3, <3>1 DEF Alert
  <2> HIDE DEF again
  <2>6. \A d : d # c => Open(d)' = Open(d)
    BY <1>3, <2>4, <2>5 DEF Open
  <2>7. QED  BY <2>2, <2>4, <2>5, <2>6
<1>6. QED  BY <1>4, <1>5

\* What a resolution does: its cause has no open alert, and no other cause's
\* alerts change.
LEMMA MarkResolvedCloses ==
    ASSUME TypeOK, Shape, NEW t \in Threads, MarkResolved(t),
           NEW c, c = call[t].cause
    PROVE  /\ \E a : /\ a.cause = c /\ a.status = "resolved"
                     /\ a.stated = "resolved"
                     /\ alerts' = {b \in alerts : b.cause # c} \cup {a}
           /\ Open(c)' = {}
           /\ \A d : d # c => Open(d)' = Open(d)
<1> DEFINE found == call[t].found
           a == [found EXCEPT !.status = "resolved", !.stated = "resolved"]
<1>1. found \in Alert /\ found.cause = c
  BY DEF MarkResolved, Shape, HandlerIsShaped
<1>2. a.cause = c /\ a.status = "resolved" /\ a.stated = "resolved"
  BY <1>1 DEF Alert
<1>3. alerts' = {b \in alerts : b.cause # c} \cup {a}
  BY DEF MarkResolved
<1> HIDE DEF a
<1>4. QED  BY <1>2, <1>3 DEF Open

\* The steps of a scan before it comes to its alerts.
LEMMA StepsBefore ==
    ASSUME TypeOK, NEW t \in Threads,
           \/ \E result \in Results, scope \in Scopes :
                 Assess(t, result, scope)
           \/ RecordPoint(t) \/ RecordRow(t) \/ ReadTrend(t)
    PROVE  \E k : Step(t, k) /\ k.pc \notin {"alerts", "store", "resolve"}
<1>1. call[t] \in Call
  BY DEF TypeOK
<1>2. ASSUME NEW result \in Results, NEW scope \in Scopes,
             Assess(t, result, scope)
      PROVE  \E k : Step(t, k) /\ k.pc = "point"
  <2>1. \A a : [Idle EXCEPT !.pc = "point", !.assessment = a].pc = "point"
    BY DEF Idle
  <2>2. QED  BY <1>2, <2>1 DEF Assess
<1>3. CASE RecordPoint(t)
  <2>1. [call[t] EXCEPT !.pc = "row"].pc = "row"
    BY <1>1 DEF Call
  <2>2. QED  BY <1>3, <2>1 DEF RecordPoint
<1>4. CASE RecordRow(t)
  <2>1. [call[t] EXCEPT !.pc = "trend"].pc = "trend"
    BY <1>1 DEF Call
  <2>2. QED  BY <1>4, <2>1 DEF RecordRow
<1>5. CASE ReadTrend(t)
  <2>1. \A causes :
           [call[t] EXCEPT !.pc = "evaluate", !.causes = causes,
                           !.pending = causes].pc = "evaluate"
    BY <1>1 DEF Call
  <2>2. QED  BY <1>5, <2>1 DEF ReadTrend
<1>6. QED  BY <1>2, <1>3, <1>4, <1>5

LEMMA LockNext ==
    ASSUME TypeOK, Shape, Sound, [Next]_vars
    PROVE  Held'
<1>1. call \in [Threads -> Call]
  BY DEF TypeOK
<1>2. \A t, u \in Threads : Working(t) /\ Working(u) => t = u
  BY DEF Sound, Held
<1>3. \A t \in Threads : Working(t) => lock = t /\ lock # None
  BY NoneAssumption DEF Sound, Held
<1>4. CASE UNCHANGED vars
  BY <1>4 DEF vars, Sound, Held, Working
<1>5. ASSUME NEW t \in Threads, Serve(t)
      PROVE  Held'
  <2>1. CASE \/ \E result \in Results, scope \in Scopes :
                   Assess(t, result, scope)
             \/ RecordPoint(t) \/ RecordRow(t) \/ ReadTrend(t)
    <3>1. lock' = lock
      BY <2>1 DEF Assess, RecordPoint, RecordRow, ReadTrend
    <3>2. \E k : Step(t, k) /\ k.pc \notin {"alerts", "store", "resolve"}
      BY <2>1, StepsBefore
    <3>3. QED  BY <1>1, <3>1, <3>2 DEF Step, Sound, Held, Working
  <2>2. CASE Evaluate(t) \/ \E c \in Causes : Resolve(t, c)
    <3>1. lock = None /\ lock' = t /\ \E k : Step(t, k)
      BY <2>2 DEF Evaluate, Resolve
    <3>2. QED  BY <1>1, <1>3, <3>1 DEF Step, Held, Working
  <2>3. CASE OpenOrUpdate(t) \/ \E c \in Causes : LookUp(t, c)
    <3>1. Working(t) /\ lock' = lock /\ \E k : Step(t, k)
      BY <2>3 DEF OpenOrUpdate, LookUp, Working
    <3>2. QED  BY <1>1, <3>1 DEF Step, Sound, Held, Working
  <2>4. CASE Answer(t) \/ MarkResolved(t)
    <3>1. Working(t) /\ Step(t, Idle)
      BY <2>4 DEF Answer, MarkResolved, Working
    <3>2. QED  BY <1>1, <1>2, <3>1 DEF Step, Held, Working, Idle
  <2>5. CASE DatabaseFails(t)
    <3>1. Step(t, Idle) /\ lock' = IF lock = t THEN None ELSE lock
      BY <2>5 DEF DatabaseFails
    <3>2. QED  BY <1>1, <1>3, <3>1 DEF Step, Held, Working, Idle
  <2>6. QED  BY <1>5, <2>1, <2>2, <2>3, <2>4, <2>5 DEF Serve
<1>6. CASE CrashRestart
  BY <1>6 DEF CrashRestart, Held, Working, Idle
<1>7. QED  BY <1>4, <1>5, <1>6 DEF Next

\* A step that leaves the alerts alone and replaces one call.
LEMMA AlertsStay ==
    ASSUME TypeOK, Shape, Sound, NEW t \in Threads, NEW k, Step(t, k),
           UNCHANGED <<alerts, durable>>,
           k.pc = "store" => IF k.found = None THEN Open(k.cause) = {}
                             ELSE k.found \in Open(k.cause),
           k.pc = "resolve" => k.found \in Open(k.cause),
           k.pc \in {"alerts", "store"} =>
              \/ k.causes \ k.pending = {}
              \/ /\ Working(t) /\ call[t].pc # "resolve"
                 /\ k.causes = call[t].causes /\ k.pending = call[t].pending
                 /\ k.assessment = call[t].assessment
    PROVE  FoundIsOpen' /\ TableIsSound' /\ StoredStaysOpen'
<1>1. /\ call \in [Threads -> Call]
      /\ call' = [call EXCEPT ![t] = k]
      /\ \A c : Open(c)' = Open(c)
  BY DEF TypeOK, Step, Open
<1>2. call'[t] = k /\ \A u \in Threads : u # t => call'[u] = call[u]
  BY <1>1
<1>3. FoundIsOpen'
  BY <1>1, <1>2 DEF FoundIsOpen, Sound
<1>4. TableIsSound'
  BY DEF TableIsSound, Sound
<1>5. StoredStaysOpen'
  BY <1>1, <1>2 DEF StoredStaysOpen, Sound, Working
<1>6. QED  BY <1>3, <1>4, <1>5

LEMMA OpenOrUpdateSound ==
    ASSUME TypeOK, Shape, Sound, NEW t \in Threads, OpenOrUpdate(t)
    PROVE  FoundIsOpen' /\ TableIsSound' /\ StoredStaysOpen'
<1> PICK c : c = call[t].cause
  OBVIOUS
<1>1. /\ call \in [Threads -> Call] /\ call[t] \in Call
      /\ call[t].pc = "store" /\ lock = t
      /\ UNCHANGED durable
  BY DEF TypeOK, OpenOrUpdate, Sound, Held, Working
<1>2. PICK a :
         /\ a.count = 1 \/ a.lastSeen = call[t].assessment.result.hash
         /\ a.cause = c /\ a.status = "open" /\ a.stated = "open"
         /\ alerts' = (alerts \ Touched(c)) \cup {a}
  BY OpenOrUpdateOpens
<1>3. \A d : d # c => Open(d)' = Open(d)
  BY OpenOrUpdateOpens
<1>4. /\ call'[t].pc = "alerts" /\ call'[t].assessment = call[t].assessment
      /\ call'[t].causes = call[t].causes
      /\ call'[t].pending = call[t].pending \ {c}
      /\ \A u \in Threads : u # t => call'[u] = call[u] /\ ~Working(u)
  BY <1>1 DEF OpenOrUpdate, Step, Call, Sound, Held
<1>5. FoundIsOpen'
  BY <1>4 DEF FoundIsOpen, Working
<1>6. TableIsSound'
  <2>1. \A b \in alerts \ Touched(c) : b.cause = c =>
            ~durable /\ b.status # "open"
    BY DEF Touched
  <2>2. QED  BY <1>1, <1>2, <2>1 DEF Sound, TableIsSound
<1>7. StoredStaysOpen'
  <2>1. a \in Open(c)'
    BY <1>2 DEF Open
  <2>2. ASSUME NEW d \in call[t].causes \ (call[t].pending \ {c})
        PROVE  \E b \in Open(d)' :
                  b.count = 1 \/ b.lastSeen = call[t].assessment.result.hash
    <3>1. CASE d = c
      BY <1>2, <2>1, <3>1
    <3>2. CASE d # c
      BY <1>1, <1>3, <2>2, <3>2 DEF Sound, StoredStaysOpen
    <3>3. QED  BY <3>1, <3>2
  <2>3. QED  BY <1>4, <2>2 DEF StoredStaysOpen, Working
<1>8. QED  BY <1>5, <1>6, <1>7

LEMMA MarkResolvedSound ==
    ASSUME TypeOK, Shape, Sound, NEW t \in Threads, MarkResolved(t)
    PROVE  FoundIsOpen' /\ TableIsSound' /\ StoredStaysOpen'
<1> PICK c : c = call[t].cause
  OBVIOUS
<1>1. /\ call \in [Threads -> Call]
      /\ Working(t) /\ lock = t
      /\ UNCHANGED durable
  BY DEF TypeOK, MarkResolved, Sound, Held, Working
<1>2. PICK a : /\ a.cause = c /\ a.status = "resolved"
               /\ a.stated = "resolved"
               /\ alerts' = {b \in alerts : b.cause # c} \cup {a}
  BY MarkResolvedCloses
<1>3. /\ call'[t].pc = "idle"
      /\ \A u \in Threads : u # t => call'[u] = call[u] /\ ~Working(u)
  BY <1>1 DEF MarkResolved, Step, Idle, Sound, Held
<1>4. FoundIsOpen' /\ StoredStaysOpen'
  BY <1>3 DEF FoundIsOpen, StoredStaysOpen, Working
<1>5. TableIsSound'
  BY <1>1, <1>2 DEF Sound, TableIsSound
<1>6. QED  BY <1>4, <1>5

LEMMA SoundNext == TypeOK /\ Shape /\ Sound /\ [Next]_vars => Sound'
<1> SUFFICES ASSUME TypeOK, Shape, Sound, [Next]_vars
             PROVE  FoundIsOpen' /\ TableIsSound' /\ StoredStaysOpen'
  BY LockNext DEF Sound
<1>1. CASE UNCHANGED vars
  BY <1>1 DEF vars, Sound, FoundIsOpen, TableIsSound, StoredStaysOpen, Open
<1>2. ASSUME NEW t \in Threads, Serve(t)
      PROVE  FoundIsOpen' /\ TableIsSound' /\ StoredStaysOpen'
  <2> USE AlertsStay
  <2>1. call[t] \in Call
    BY DEF TypeOK
  <2>2. CASE \/ \E result \in Results, scope \in Scopes :
                   Assess(t, result, scope)
             \/ RecordPoint(t) \/ RecordRow(t) \/ ReadTrend(t)
    <3>1. UNCHANGED <<alerts, durable>>
      BY <2>2 DEF Assess, RecordPoint, RecordRow, ReadTrend
    <3>2. \E k : Step(t, k) /\ k.pc \notin {"alerts", "store", "resolve"}
      BY <2>2, StepsBefore
    <3>3. QED  BY <3>1, <3>2
  <2>3. CASE Evaluate(t)
    <3> DEFINE k == [call[t] EXCEPT !.pc = "alerts"]
    <3>1. /\ Step(t, k) /\ UNCHANGED <<alerts, durable>>
          /\ k.pc = "alerts" /\ k.causes \ k.pending = {}
      BY <2>1, <2>3 DEF Evaluate, Shape, HandlerIsShaped, Call
    <3> HIDE DEF k
    <3>2. QED  BY <3>1
  <2>4. ASSUME NEW c \in Causes, LookUp(t, c)
        PROVE  FoundIsOpen' /\ TableIsSound' /\ StoredStaysOpen'
    <3>1. PICK found \in IF Open(c) = {} THEN {None} ELSE Open(c) :
             Step(t, [call[t] EXCEPT !.pc = "store", !.cause = c,
                                     !.found = found])
      BY <2>4 DEF LookUp
    <3> DEFINE k == [call[t] EXCEPT !.pc = "store", !.cause = c,
                                    !.found = found]
    <3>2. /\ k.pc = "store" /\ k.cause = c /\ k.found = found
          /\ k.causes = call[t].causes /\ k.pending = call[t].pending
          /\ k.assessment = call[t].assessment
      BY <2>1 DEF Call
    <3>3. Working(t) /\ call[t].pc # "resolve" /\ UNCHANGED <<alerts, durable>>
      BY <2>4 DEF LookUp, Working
    <3>4. IF found = None THEN Open(c) = {} ELSE found \in Open(c)
      BY NoneAssumption DEF TypeOK, Open
    <3> HIDE DEF k
    <3>5. QED  BY <3>1, <3>2, <3>3, <3>4 DEF k
  <2>5. ASSUME NEW c \in Causes, Resolve(t, c)
        PROVE  FoundIsOpen' /\ TableIsSound' /\ StoredStaysOpen'
    <3>1. PICK found \in Touched(c) :
             /\ found.stated = "open"
             /\ Step(t, [Idle EXCEPT !.pc = "resolve", !.cause = c,
                                     !.found = found])
      BY <2>5 DEF Resolve
    <3> DEFINE k == [Idle EXCEPT !.pc = "resolve", !.cause = c,
                                 !.found = found]
    <3>2. k.pc = "resolve" /\ k.cause = c /\ k.found = found
      BY DEF Idle
    <3>3. found \in Open(c) /\ UNCHANGED <<alerts, durable>>
      BY <2>5, <3>1 DEF Resolve, Touched, Open, Sound, TableIsSound
    <3> HIDE DEF k
    <3>4. QED  BY <3>1, <3>2, <3>3 DEF k
  <2>6. CASE Answer(t) \/ DatabaseFails(t)
    <3>1. UNCHANGED <<alerts, durable>> /\ Step(t, Idle) /\ Idle.pc = "idle"
      BY <2>6 DEF Answer, DatabaseFails, Idle
    <3>2. QED  BY <3>1
  <2>7. QED
    BY <1>2, <2>2, <2>3, <2>4, <2>5, <2>6, OpenOrUpdateSound,
       MarkResolvedSound DEF Serve
<1>3. CASE CrashRestart
  <2>1. \A t \in Threads : call'[t].pc = "idle"
    BY <1>3 DEF CrashRestart, Idle
  <2>2. FoundIsOpen' /\ StoredStaysOpen'
    BY <2>1 DEF FoundIsOpen, StoredStaysOpen
  <2>3. TableIsSound'
    BY <1>3 DEF CrashRestart, Sound, TableIsSound
  <2>4. QED  BY <2>2, <2>3
<1>4. QED  BY <1>1, <1>2, <1>3 DEF Next

LEMMA SoundInvariant == Spec => []Sound
<1>1. Init => Sound
  BY DEF Init, Sound, Held, Working, FoundIsOpen, TableIsSound,
         StoredStaysOpen, Idle
<1>2. QED  BY <1>1, SoundNext, TypeInvariant, PTL DEF Spec

\* There is one open alert of a cause at most, and its columns agree.
THEOREM TableAlwaysSound == Spec => []TableIsSound
<1>1. Sound => TableIsSound
  BY DEF Sound
<1>2. QED  BY <1>1, SoundInvariant, PTL

\* What an evaluation has stored is open until its scan is answered.
THEOREM StoredAlwaysOpen == Spec => []StoredStaysOpen
<1>1. Sound => StoredStaysOpen
  BY DEF Sound
<1>2. QED  BY <1>1, SoundInvariant, PTL

-----------------------------------------------------------------------------
(* Counts.                                                                 *)

LEMMA ChosenFromOne ==
    ASSUME NEW S, NEW a, S = {a}
    PROVE  (CHOOSE b \in S : TRUE) = a
OBVIOUS

LEMMA CountOfOne ==
    ASSUME NEW c, NEW a, Open(c) = {a}
    PROVE  CountOf(c) = a.count
BY ChosenFromOne DEF CountOf

LEMMA CountOfOneNext ==
    ASSUME NEW c, NEW a, Open(c)' = {a}
    PROVE  CountOf(c)' = a.count
BY ChosenFromOne DEF CountOf

\* Storing a cause adds one to its count, and to no other.
LEMMA OpenOrUpdateCounts ==
    ASSUME TypeOK, Shape, Sound, NEW t \in Threads, OpenOrUpdate(t),
           NEW c, c = call[t].cause
    PROVE  /\ CountOf(c)' = CountOf(c) + 1
           /\ \A d : d # c => CountOf(d)' = CountOf(d)
<1>1. PICK a \in Alert :
         /\ a.cause = c /\ a.status = "open" /\ a.stated = "open"
         /\ IF Open(c) = {} THEN a.count = 1
            ELSE \A b \in Open(c) : a.count = b.count + 1
         /\ alerts' = (alerts \ Touched(c)) \cup {a}
  BY OpenOrUpdateOpens
<1>2. \A d : d # c => Open(d)' = Open(d)
  BY OpenOrUpdateOpens
<1>3. Open(c)' = {a}
  BY <1>1 DEF Open, Touched
<1>4. CountOf(c)' = a.count
  BY <1>3, CountOfOneNext
<1>5. ASSUME Open(c) = {}
      PROVE  CountOf(c)' = CountOf(c) + 1
  <2>1. CountOf(c) = 0
    BY <1>5 DEF CountOf
  <2>2. QED  BY <1>1, <1>4, <1>5, <2>1
<1>6. ASSUME Open(c) # {}
      PROVE  CountOf(c)' = CountOf(c) + 1
  <2>1. PICK b \in Open(c) : TRUE
    BY <1>6
  <2>2. CountOf(c) = b.count
    BY <2>1, OneIsOpen, CountOfOne DEF Sound
  <2>3. QED  BY <1>1, <1>4, <1>6, <2>2
<1>7. ASSUME NEW d, d # c
      PROVE  CountOf(d)' = CountOf(d)
  <2>1. Open(d)' = Open(d)
    BY <1>2, <1>7
  <2>2. QED  BY <2>1 DEF CountOf
<1>8. QED  BY <1>5, <1>6, <1>7

\* No sighting is lost, whatever came between the lookup and the write.
THEOREM SightingsCount == Spec => EverySightingCounts
<1>1. ASSUME TypeOK, Shape, Sound, NEW t \in Threads, NEW c \in Causes
      PROVE  OpenOrUpdate(t) /\ call[t].cause = c =>
                CountOf(c)' = CountOf(c) + 1
  BY <1>1, OpenOrUpdateCounts
<1>2. TypeOK /\ Shape /\ Sound =>
         [\A t \in Threads, c \in Causes :
             OpenOrUpdate(t) /\ call[t].cause = c =>
                CountOf(c)' = CountOf(c) + 1]_vars
  BY <1>1
<1>3. QED
  BY <1>2, TypeInvariant, SoundInvariant, PTL DEF EverySightingCounts

\* The alert store implements AlertBook: nothing but a sighting, a resolution
\* and the loss of the memory changes a count.
THEOREM Refinement == Spec => BookIsKept
<1> DEFINE seen == [c \in Causes |-> CountOf(c)]
<1>1. Init => Book!Init
  BY DEF Init, Book!Init, CountOf, Open
<1>2. ASSUME TypeOK, Shape, Sound, [Next]_vars
      PROVE  [Book!Next]_seen
  <2>1. CASE UNCHANGED alerts
    BY <2>1 DEF CountOf, Open
  <2>2. ASSUME NEW t \in Threads, OpenOrUpdate(t)
        PROVE  Book!Next
    <3>1. PICK c \in Causes : c = call[t].cause
      BY <1>2, <2>2 DEF OpenOrUpdate, Shape, HandlerIsShaped
    <3>2. /\ CountOf(c)' = CountOf(c) + 1
          /\ \A d \in Causes : d # c => CountOf(d)' = CountOf(d)
      BY <1>2, <2>2, <3>1, OpenOrUpdateCounts
    <3>3. seen' = [seen EXCEPT ![c] = @ + 1]
      BY <3>2
    <3>4. QED  BY <3>3 DEF Book!Next, Book!See
  <2>3. ASSUME NEW t \in Threads, MarkResolved(t)
        PROVE  Book!Next
    <3>1. PICK c \in Causes : c = call[t].cause
      BY <1>2, <2>3 DEF MarkResolved, Shape, HandlerIsShaped
    <3>2. /\ Open(c)' = {}
          /\ \A d \in Causes : d # c => Open(d)' = Open(d)
      BY <1>2, <2>3, <3>1, MarkResolvedCloses
    <3>3. CountOf(c)' = 0
      BY <3>2 DEF CountOf
    <3>4. ASSUME NEW d \in Causes, d # c
          PROVE  CountOf(d)' = CountOf(d)
      <4>1. Open(d)' = Open(d)
        BY <3>2, <3>4
      <4>2. QED  BY <4>1 DEF CountOf
    <3>5. seen' = [seen EXCEPT ![c] = 0]
      BY <3>3, <3>4
    <3>6. QED  BY <3>5 DEF Book!Next, Book!Resolve
  <2>4. CASE CrashRestart
    <3>1. CASE durable
      BY <2>1, <2>4, <3>1 DEF CrashRestart
    <3>2. CASE ~durable
      <4>1. \A c \in Causes : CountOf(c)' = 0
        BY <2>4, <3>2 DEF CrashRestart, CountOf, Open
      <4>2. seen' = [c \in Causes |-> 0]
        BY <4>1
      <4>3. QED  BY <4>2 DEF Book!Next, Book!Forget
    <3>3. QED  BY <3>1, <3>2
  <2>5. QED
    BY <1>2, <2>1, <2>2, <2>3, <2>4
       DEF Next, Serve, vars, Assess, RecordPoint, RecordRow, ReadTrend,
           Evaluate, LookUp, Answer, Resolve, DatabaseFails
<1>3. QED
  BY <1>1, <1>2, TypeInvariant, SoundInvariant, PTL
     DEF Spec, BookIsKept, Book!Spec

-----------------------------------------------------------------------------
(* Scans in order.                                                         *)

\* The rows of a history that are before an assessment, in its scope.
Before(to, history) == {a \in Scoped(history, to.scope) : a.at < to.at}

\* How far the history is when a call is at some point, if no other scan is
\* under way; at the end, the causes of the increase are among the scan's.
CallInOrder(k, history, now) ==
    /\ k.pc \notin {"idle", "resolve"} => k.assessment.at = now
    /\ k.pc \in {"point", "row"} => \A a \in Range(history) : a.at < now
    /\ k.pc \in {"trend", "evaluate", "alerts", "store"} =>
          \A a \in Range(history) : a.at = now => a = k.assessment
    /\ k.pc \in {"evaluate", "alerts", "store"}
          /\ k.assessment \in Range(history) =>
          \A from \in Latest(Before(k.assessment, history), 1) :
             TrendCauses(from.result, k.assessment.result) \subseteq k.causes

Order ==
    /\ \A t, u \in Threads : Scanning(t) /\ Scanning(u) => t = u
    /\ \A a \in Range(rows) : a.at <= clock
    /\ \A t \in Threads : CallInOrder(call[t], rows, clock)

\* A call of which the end of its scan is still ahead.
LEMMA EarlyInOrder ==
    ASSUME NEW k, NEW history, NEW now, k.assessment.at = now,
           \/ k.pc = "point" /\ \A a \in Range(history) : a.at < now
           \/ /\ k.pc = "trend"
              /\ \A a \in Range(history) : a.at = now => a = k.assessment
    PROVE  CallInOrder(k, history, now)
<1>1. k.pc \notin {"evaluate", "alerts", "store"}
  OBVIOUS
<1>2. QED  BY <1>1 DEF CallInOrder

LEMMA RangeFinite ==
    ASSUME NEW S, NEW s \in Seq(S)
    PROVE  IsFiniteSet(Range(s))
<1>1. DOMAIN s = 1 .. Len(s) /\ Len(s) \in Nat
  BY LenProperties
<1>2. IsFiniteSet(DOMAIN s)
  BY <1>1, FS_Interval
<1>3. s \in Surjection(DOMAIN s, Range(s))
  <2>1. s = [i \in DOMAIN s |-> s[i]]
    BY <1>1
  <2>2. s \in [DOMAIN s -> Range(s)]
    BY <2>1 DEF Range
  <2>3. QED  BY <2>2 DEF Range, Surjection
<1>4. QED  BY <1>2, <1>3, FS_Surjection

LEMMA TimesAreNat ==
    ASSUME TypeOK
    PROVE  \A a \in Range(rows) : a.at \in Nat
<1>1. Range(rows) \subseteq Assessment
  BY RangeType DEF TypeOK
<1>2. QED  BY <1>1 DEF Assessment

\* Dropping an element adds none.
LEMMA RemoveAtRange ==
    ASSUME NEW S, NEW s \in Seq(S), NEW i \in DOMAIN s
    PROVE  Range(RemoveAt(s, i)) \subseteq Range(s)
<1> DEFINE head == SubSeq(s, 1, i - 1)
           tail == SubSeq(s, i + 1, Len(s))
<1>1. /\ Len(s) \in Nat /\ i \in 1 .. Len(s)
      /\ DOMAIN s = 1 .. Len(s)
  BY LenProperties
<1>2. \A j \in 1 .. Len(s) : s[j] \in Range(s)
  BY <1>1 DEF Range
<1>3. head \in Seq(Range(s)) /\ tail \in Seq(Range(s))
  <2>1. s \in Seq(Range(s))
    BY <1>1, <1>2
  <2>2. QED  BY <2>1, <1>1, <1>2, SubSeqProperties
<1>4. RemoveAt(s, i) \in Seq(Range(s))
  BY <1>3, ConcatProperties DEF RemoveAt
<1>5. QED  BY <1>4, RangeType

LEMMA KeptRange ==
    ASSUME NEW s \in Seq(Assessment), NEW scope, NEW kept \in Kept(s, scope)
    PROVE  Range(kept) \subseteq Range(s)
BY RemoveAtRange DEF Kept

\* A scan that is the last goes on: nothing else is to be looked at.
LEMMA ScanGoesOn ==
    ASSUME call \in [Threads -> Call], NEW t \in Threads, NEW k, Step(t, k),
           \A u \in Threads : u # t => ~Scanning(u),
           \A a \in Range(rows') : a.at <= clock',
           CallInOrder(k, rows', clock')
    PROVE  Order'
<1>1. call'[t] = k /\ \A u \in Threads : u # t => call'[u] = call[u]
  BY DEF Step
<1>2. \A u \in Threads : u # t => call'[u].pc \in {"idle", "resolve"}
  BY <1>1 DEF Scanning
<1>3. \A u \in Threads : u # t => CallInOrder(call'[u], rows', clock')
  BY <1>2 DEF CallInOrder
<1>4. CallInOrder(call'[t], rows', clock')
  BY <1>1 DEF CallInOrder
<1>5. QED  BY <1>2, <1>3, <1>4 DEF Order, Scanning

\* A call that stops scanning, or that did not scan.
LEMMA NotScanned ==
    ASSUME call \in [Threads -> Call], Order, NEW t \in Threads, NEW k,
           Step(t, k), k.pc \in {"idle", "resolve"},
           UNCHANGED <<clock, rows>>
    PROVE  Order'
<1>1. call'[t] = k /\ \A u \in Threads : u # t => call'[u] = call[u]
  BY DEF Step
<1>2. \A u \in Threads : Scanning(u)' => Scanning(u) /\ call'[u] = call[u]
  BY <1>1 DEF Scanning
<1>3. \A u \in Threads : CallInOrder(call'[u], rows', clock')
  BY <1>1 DEF Order, CallInOrder
<1>4. QED  BY <1>2, <1>3 DEF Order

\* A scan starts, and no other is under way.
LEMMA AssessInOrder ==
    ASSUME TypeOK, Order, NEW t \in Threads, NEW result, NEW scope,
           Assess(t, result, scope), \A u \in Threads : ~Scanning(u)
    PROVE  Order'
<1> DEFINE a == [scope |-> scope, at |-> clock + 1, result |-> result]
           k == [Idle EXCEPT !.pc = "point", !.assessment = a]
<1>1. Step(t, k) /\ k.pc = "point" /\ k.assessment.at = clock + 1
  BY DEF Assess, Idle
<1>2. clock' = clock + 1 /\ rows' = rows /\ clock \in Nat
  BY DEF Assess, TypeOK
<1>3. \A b \in Range(rows) : b.at \in Nat /\ b.at <= clock
  BY TimesAreNat DEF Order
<1> HIDE DEF k
<1>4. CallInOrder(k, rows', clock')
  <2>1. \A b \in Range(rows) : b.at < clock + 1
    BY <1>2, <1>3
  <2>2. QED  BY <1>1, <1>2, <2>1, EarlyInOrder
<1>5. QED  BY <1>1, <1>2, <1>3, <1>4, ScanGoesOn DEF TypeOK

\* The row of a scan is the one that was made last.
LEMMA RecordRowInOrder ==
    ASSUME TypeOK, Shape, Order, NEW t \in Threads, RecordRow(t)
    PROVE  Order'
<1> DEFINE a == call[t].assessment
           k == [call[t] EXCEPT !.pc = "trend"]
<1>1. call[t] \in Call /\ call[t].pc = "row" /\ Step(t, k)
  BY DEF TypeOK, RecordRow
<1>2. a \in Assessment
  BY <1>1 DEF Shape, HandlerIsShaped
<1>3. k.pc = "trend" /\ k.assessment = a
  BY <1>1 DEF Call
<1>4. /\ \A u \in Threads : u # t => ~Scanning(u)
      /\ a.at = clock /\ clock' = clock
      /\ \A b \in Range(rows) : b.at < clock
  BY <1>1 DEF Order, Scanning, CallInOrder, RecordRow
<1>5. Range(rows') \subseteq Range(rows) \cup {a}
  <2>1. Append(rows, a) \in Seq(Assessment)
    BY <1>2, AppendProperties DEF TypeOK
  <2>2. Range(rows') \subseteq Range(Append(rows, a))
    BY <2>1, KeptRange DEF RecordRow
  <2>3. Range(Append(rows, a)) \subseteq Range(rows) \cup {a}
    BY <1>2, AppendProperties, LenProperties DEF TypeOK, Range
  <2>4. QED  BY <2>2, <2>3
<1>6. \A b \in Range(rows) \cup {a} :
         b.at \in Nat /\ b.at <= clock /\ (b.at = clock => b = a)
  <2>1. a.at \in Nat /\ \A b \in Range(rows) : b.at \in Nat
    BY <1>2, TimesAreNat DEF Assessment
  <2>2. \A b \in Range(rows) : b.at <= clock /\ b.at # clock
    BY <1>4, <2>1 DEF TypeOK
  <2>3. QED  BY <1>4, <2>1, <2>2
<1> HIDE DEF a, k
<1>7. CallInOrder(k, rows', clock')
  <2>1. \A b \in Range(rows') : b.at = clock => b = a
    BY <1>5, <1>6
  <2>2. QED  BY <1>3, <1>4, <2>1, EarlyInOrder
<1>8. QED  BY <1>1, <1>4, <1>5, <1>6, <1>7, ScanGoesOn DEF TypeOK

\* The last of the rows before an assessment and the assessment itself are the
\* last two.
LEMMA LastTwo ==
    ASSUME TypeOK, NEW to \in Range(rows),
           \A a \in Range(rows) : a.at <= to.at /\ (a.at = to.at => a = to),
           NEW from \in Latest(Before(to, rows), 1)
    PROVE  /\ from.at < to.at
           /\ from \in Latest(Scoped(rows, to.scope), 2)
           /\ to \in Latest(Scoped(rows, to.scope), 2)
<1> DEFINE H == Scoped(rows, to.scope)
           Later(S, a) == {b \in S : b.at > a.at}
<1>1. /\ from \in H /\ to \in H /\ from.at < to.at
      /\ Cardinality(Later(Before(to, rows), from)) < 1
  BY DEF Latest, Before, Scoped
<1>2. \A a \in Range(rows) : a.at \in Nat
  BY TimesAreNat
<1>3. IsFiniteSet(Range(rows))
  BY RangeFinite DEF TypeOK
<1>4. Later(Before(to, rows), from) = {}
  <2>1. IsFiniteSet(Later(Before(to, rows), from))
    BY <1>3, FS_Subset DEF Before, Scoped
  <2>2. Cardinality(Later(Before(to, rows), from)) \in Nat
    BY <2>1, FS_CardinalityType
  <2>3. Cardinality(Later(Before(to, rows), from)) = 0
    BY <1>1, <2>2
  <2>4. QED  BY <2>1, <2>3, FS_EmptySet
<1>5. Later(H, from) \subseteq {to}
  <2> SUFFICES ASSUME NEW b \in Later(H, from)
               PROVE  b = to
    OBVIOUS
  <2>1. b \in Range(rows) /\ b \in H /\ b.at > from.at
    BY DEF Scoped
  <2>2. b \notin Before(to, rows)
    BY <1>4, <2>1
  <2>3. ~(b.at < to.at)
    BY <2>1, <2>2 DEF Before
  <2>4. QED  BY <1>2, <2>1, <2>3
<1>6. Cardinality(Later(H, from)) < 2
  <2>1. IsFiniteSet({to}) /\ Cardinality({to}) = 1
    BY FS_Singleton
  <2>2. /\ IsFiniteSet(Later(H, from))
        /\ Cardinality(Later(H, from)) <= 1
    BY <1>5, <2>1, FS_Subset
  <2>3. QED  BY <2>2, FS_CardinalityType
<1>7. Cardinality(Later(H, to)) < 2
  <2>1. \A b \in H : ~(b.at > to.at)
    BY <1>2 DEF Scoped
  <2>2. Later(H, to) = {}
    BY <2>1
  <2>3. QED  BY <2>2, FS_EmptySet
<1>8. QED  BY <1>1, <1>6, <1>7 DEF Latest

\* The trend that a scan reads ends in its own row.
LEMMA ReadTrendInOrder ==
    ASSUME TypeOK, Shape, Order, NEW t \in Threads, ReadTrend(t)
    PROVE  Order'
<1> DEFINE a == call[t].assessment
           H == Scoped(rows, a.scope)
           causes == Candidates(a.result, H)
           k == [call[t] EXCEPT !.pc = "evaluate", !.causes = causes,
                                !.pending = causes]
<1>1. /\ call[t] \in Call /\ call[t].pc = "trend" /\ Step(t, k)
      /\ rows' = rows /\ clock' = clock
  BY DEF TypeOK, ReadTrend
<1>2. k.pc = "evaluate" /\ k.assessment = a /\ k.causes = causes
  BY <1>1 DEF Call
<1>3. /\ \A u \in Threads : u # t => ~Scanning(u)
      /\ a.at = clock
      /\ \A b \in Range(rows) : b.at <= clock /\ (b.at = clock => b = a)
  BY <1>1 DEF Order, Scanning, CallInOrder
<1>4. ASSUME a \in Range(rows), NEW from \in Latest(Before(a, rows), 1)
      PROVE  TrendCauses(from.result, a.result) \subseteq causes
  <2>1. from.at < a.at /\ from \in Latest(H, 2) /\ a \in Latest(H, 2)
    BY <1>3, <1>4, LastTwo
  <2> DEFINE p == <<from, a>>
  <2>2. p \in {q \in Latest(H, 2) \X Latest(H, 2) : q[1].at < q[2].at}
    BY <2>1
  <2>3. TrendCauses(p[1].result, p[2].result) \subseteq causes
    BY <2>2, Zenon DEF Candidates
  <2>4. QED  BY <2>3
<1> HIDE DEF k, causes, a
<1>5. CallInOrder(k, rows', clock')
  BY <1>1, <1>2, <1>3, <1>4 DEF CallInOrder
<1>6. QED  BY <1>1, <1>3, <1>5, ScanGoesOn DEF TypeOK, Order

\* The steps of a scan that leave the history alone, and after which it is
\* not over.
LEMMA ScanInOrder ==
    ASSUME TypeOK, Order, NEW t \in Threads, NEW k, Step(t, k), Scanning(t),
           UNCHANGED <<clock, rows>>,
           k.assessment = call[t].assessment,
           \/ call[t].pc = "point" /\ k.pc = "row"
           \/ /\ {call[t].pc, k.pc} \subseteq {"evaluate", "alerts", "store"}
              /\ k.causes = call[t].causes
    PROVE  Order'
<1>1. /\ \A u \in Threads : u # t => ~Scanning(u)
      /\ \A a \in Range(rows) : a.at <= clock
      /\ CallInOrder(call[t], rows, clock)
  BY DEF Order
<1>2. CallInOrder(k, rows', clock')
  BY <1>1 DEF CallInOrder
<1>3. QED  BY <1>1, <1>2, ScanGoesOn DEF TypeOK

LEMMA OrderNextServe ==
    ASSUME TypeOK, Shape, Order, NEW t \in Threads, Serve(t),
           clock' = clock \/ \A u \in Threads : ~Scanning(u)
    PROVE  Order'
<1>1. call[t] \in Call /\ clock \in Nat
  BY DEF TypeOK
<1>2. ASSUME NEW result \in Results, NEW scope \in Scopes,
             Assess(t, result, scope)
      PROVE  Order'
  <2>1. clock' # clock
    BY <1>1, <1>2 DEF Assess
  <2>2. QED  BY <1>2, <2>1, AssessInOrder
<1>3. CASE RecordPoint(t)
  <2>1. PICK k : k = [call[t] EXCEPT !.pc = "row"]
    OBVIOUS
  <2>2. k.pc = "row" /\ k.assessment = call[t].assessment
    BY <1>1, <2>1 DEF Call
  <2>3. QED  BY <1>3, <2>1, <2>2, ScanInOrder DEF RecordPoint, Scanning
<1>4. CASE Evaluate(t)
  <2>1. PICK k : k = [call[t] EXCEPT !.pc = "alerts"]
    OBVIOUS
  <2>2. /\ k.pc = "alerts" /\ k.assessment = call[t].assessment
        /\ k.causes = call[t].causes
    BY <1>1, <2>1 DEF Call
  <2>3. QED  BY <1>4, <2>1, <2>2, ScanInOrder DEF Evaluate, Scanning
<1>5. ASSUME NEW c \in Causes, LookUp(t, c)
      PROVE  Order'
  <2>1. PICK found :
           Step(t, [call[t] EXCEPT !.pc = "store", !.cause = c,
                                   !.found = found])
    BY <1>5 DEF LookUp
  <2>2. PICK k : k = [call[t] EXCEPT !.pc = "store", !.cause = c,
                                     !.found = found]
    OBVIOUS
  <2>3. /\ k.pc = "store" /\ k.assessment = call[t].assessment
        /\ k.causes = call[t].causes
    BY <1>1, <2>2 DEF Call
  <2>4. QED  BY <1>5, <2>1, <2>2, <2>3, ScanInOrder DEF LookUp, Scanning
<1>6. CASE OpenOrUpdate(t)
  <2>1. PICK k : k = [call[t] EXCEPT !.pc = "alerts",
                                     !.pending = @ \ {call[t].cause},
                                     !.cause = None, !.found = None]
    OBVIOUS
  <2>2. /\ k.pc = "alerts" /\ k.assessment = call[t].assessment
        /\ k.causes = call[t].causes
    BY <1>1, <2>1 DEF Call
  <2>3. QED  BY <1>6, <2>1, <2>2, ScanInOrder DEF OpenOrUpdate, Scanning
<1>7. ASSUME NEW c \in Causes, Resolve(t, c)
      PROVE  Order'
  <2>1. PICK found :
           Step(t, [Idle EXCEPT !.pc = "resolve", !.cause = c,
                                !.found = found])
    BY <1>7 DEF Resolve
  <2>2. PICK k : k = [Idle EXCEPT !.pc = "resolve", !.cause = c,
                                  !.found = found]
    OBVIOUS
  <2>3. k.pc = "resolve"
    BY <2>2 DEF Idle
  <2>4. QED  BY <1>7, <2>1, <2>2, <2>3, NotScanned DEF Resolve, TypeOK
<1>8. CASE Answer(t) \/ MarkResolved(t) \/ DatabaseFails(t)
  <2>1. Step(t, Idle) /\ UNCHANGED <<clock, rows>>
    BY <1>8 DEF Answer, MarkResolved, DatabaseFails
  <2>2. Idle.pc = "idle"
    BY DEF Idle
  <2>3. QED  BY <2>1, <2>2, NotScanned DEF TypeOK
<1>9. QED
  BY <1>2, <1>3, <1>4, <1>5, <1>6, <1>7, <1>8, RecordRowInOrder,
     ReadTrendInOrder DEF Serve

LEMMA OrderInvariant ==
    OrderSpec => [](TypeOK /\ Shape /\ Sound) /\ [](~overlap => Order)
<1>1. OrderSpec => Spec
  <2>1. OrderInit => Init
    BY DEF OrderInit
  <2>2. [OrderNext]_<<vars, overlap>> => [Next]_vars
    BY DEF OrderNext
  <2>3. QED  BY <2>1, <2>2, PTL DEF OrderSpec, Spec
<1>2. OrderInit => Order
  BY DEF OrderInit, Init, Order, Scanning, CallInOrder, Idle, Range
<1>3. ASSUME TypeOK, Shape, ~overlap => Order,
             [OrderNext]_<<vars, overlap>>
      PROVE  (~overlap => Order)'
  <2> SUFFICES ASSUME ~overlap, Order PROVE Order'
    BY <1>3 DEF OrderNext, vars
  <2>1. CASE UNCHANGED <<vars, overlap>>
    BY <2>1 DEF vars, Order, Scanning, CallInOrder, Latest, Before, Scoped
  <2>2. ASSUME NEW t \in Threads, Serve(t), OrderNext
        PROVE  Order'
    BY <1>3, <2>2, OrderNextServe DEF OrderNext
  <2>3. CASE CrashRestart
    <3>1. \A t \in Threads : call'[t].pc = "idle"
      BY <2>3 DEF CrashRestart, Idle
    <3>2. Range(rows') \subseteq Range(rows) /\ clock' = clock
      BY <2>3 DEF CrashRestart, Range
    <3>3. QED  BY <3>1, <3>2 DEF Order, Scanning, CallInOrder
  <2>4. QED  BY <1>3, <2>1, <2>2, <2>3 DEF OrderNext, Next
<1>4. QED
  BY <1>1, <1>2, <1>3, TypeInvariant, SoundInvariant, PTL DEF OrderSpec

\* A scan that is answered has stored all its causes.
LEMMA AnswerInOrder ==
    ASSUME TypeOK, Sound, Order, NEW t \in Threads, Answer(t)
    PROVE  IncreaseIsOpen(t)
<1> DEFINE to == call[t].assessment
<1>1. call[t].pc = "alerts" /\ call[t].pending = {}
  BY DEF Answer
<1>2. \A c \in call[t].causes : Open(c) # {}
  BY <1>1 DEF Sound, StoredStaysOpen
<1>3. CallInOrder(call[t], rows, clock)
  BY DEF Order
<1>4. ASSUME to \in Range(rows), NEW from \in Latest(Before(to, rows), 1)
      PROVE  TrendCauses(from.result, to.result) \subseteq call[t].causes
  BY <1>1, <1>3, <1>4 DEF CallInOrder
<1> HIDE DEF to
<1>5. QED  BY <1>2, <1>4 DEF IncreaseIsOpen, Before, to

\* Of scans that do not overlap none is answered without an open alert for
\* what its trend shows, however calls failed and alerts were resolved.
THEOREM IncreasesAreAlerted == OrderSpec => IncreaseIsAlerted
<1>1. ASSUME TypeOK, Shape, Sound, ~overlap => Order
      PROVE  ~overlap => \A t \in Threads : Answer(t) => IncreaseIsOpen(t)
  BY <1>1, AnswerInOrder
<1>2. TypeOK /\ Shape /\ Sound /\ (~overlap => Order) =>
         [~overlap => \A t \in Threads : Answer(t) => IncreaseIsOpen(t)]_vars
  BY <1>1
<1>3. QED  BY <1>2, OrderInvariant, PTL DEF IncreaseIsAlerted

=============================================================================
