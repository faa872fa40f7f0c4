----------------------- MODULE PreflightServer_proofs -----------------------
(***************************************************************************)
(* What holds of PreflightServer for any number of threads, hashes,        *)
(* transactions and history records, whatever the clients ask and with      *)
(* crashes; and, at the end, what holds when the calls come one by one.     *)
(***************************************************************************)
EXTENDS PreflightServer, SequenceTheorems, TLAPS

-----------------------------------------------------------------------------
(* The updates of the state file.                                          *)

LEMMA RemoveAtProperties ==
    ASSUME NEW S, NEW s \in Seq(S), NEW i \in 1 .. Len(s)
    PROVE  /\ RemoveAt(s, i) \in Seq(S)
           /\ Len(RemoveAt(s, i)) = Len(s) - 1
           /\ \A j \in 1 .. Len(s) - 1 :
                 RemoveAt(s, i)[j] = IF j < i THEN s[j] ELSE s[j + 1]
<1> DEFINE front == SubSeq(s, 1, i - 1)
           back  == SubSeq(s, i + 1, Len(s))
<1>1. Len(s) \in Nat /\ \A j \in 1 .. Len(s) : s[j] \in S
  BY ElementOfSeq, LenProperties
<1>2. /\ front \in Seq(S)
      /\ Len(front) = i - 1
      /\ \A j \in 1 .. i - 1 : front[j] = s[j]
  <2>1. \A j \in 1 .. i - 1 : s[j] \in S  BY <1>1
  <2>2. QED  BY <1>1, <2>1, SubSeqProperties
<1>3. /\ back \in Seq(S)
      /\ Len(back) = Len(s) - i
      /\ \A j \in 1 .. Len(s) - i : back[j] = s[i + j]
  <2>1. \A j \in i + 1 .. Len(s) : s[j] \in S  BY <1>1
  <2>2. QED  BY <1>1, <2>1, SubSeqProperties
<1> HIDE DEF front, back
<1>4. RemoveAt(s, i) = front \o back  BY DEF RemoveAt, front, back
<1>5. /\ front \o back \in Seq(S)
      /\ Len(front \o back) = (i - 1) + (Len(s) - i)
      /\ \A j \in 1 .. (i - 1) + (Len(s) - i) :
            (front \o back)[j] = IF j <= i - 1 THEN front[j]
                                               ELSE back[j - (i - 1)]
  <2>1. /\ front \o back \in Seq(S)
        /\ Len(front \o back) = Len(front) + Len(back)
        /\ \A j \in 1 .. Len(front) + Len(back) :
              (front \o back)[j] = IF j <= Len(front) THEN front[j]
                                                     ELSE back[j - Len(front)]
    BY <1>2, <1>3, ConcatProperties
  <2>2. QED  BY <1>2, <1>3, <2>1
<1>6. ASSUME NEW j \in 1 .. Len(s) - 1
      PROVE  (front \o back)[j] = IF j < i THEN s[j] ELSE s[j + 1]
  <2>1. CASE j < i
    BY <1>1, <1>2, <1>5, <2>1
  <2>2. CASE ~(j < i)
    <3>1. j - (i - 1) \in 1 .. Len(s) - i
      BY <1>1, <2>2
    <3>2. (front \o back)[j] = back[j - (i - 1)]
      BY <1>1, <1>5, <2>2
    <3>3. back[j - (i - 1)] = s[i + (j - (i - 1))]
      BY <1>3, <3>1
    <3>4. i + (j - (i - 1)) = j + 1
      BY <1>1
    <3>5. QED  BY <2>2, <3>2, <3>3, <3>4
  <2>3. QED  BY <2>1, <2>2
<1>7. (i - 1) + (Len(s) - i) = Len(s) - 1
  BY <1>1
<1>8. QED  BY <1>4, <1>5, <1>6, <1>7

\* Without(history, hash) is the history less the record with that hash.
LEMMA WithoutProperties ==
    ASSUME NEW history \in Seq(Assessment), NEW hash
    PROVE  /\ Without(history, hash) \in Seq(Assessment)
           /\ Len(Without(history, hash)) <= Len(history)
           /\ \A j \in DOMAIN Without(history, hash) :
                 \E i \in DOMAIN history :
                     Without(history, hash)[j] = history[i]
           /\ IsHistory(history) =>
                 /\ IsHistory(Without(history, hash))
                 /\ \A j \in DOMAIN Without(history, hash) :
                       Without(history, hash)[j].hash # hash
<1>1. DOMAIN history = 1 .. Len(history) /\ Len(history) \in Nat
  BY LenProperties
<1>2. CASE \E i \in DOMAIN history : history[i].hash = hash
  <2> DEFINE k == CHOOSE i \in DOMAIN history : history[i].hash = hash
             rest == RemoveAt(history, k)
  <2>1. k \in 1 .. Len(history) /\ history[k].hash = hash
    BY <1>1, <1>2
  <2>2. Without(history, hash) = rest
    BY <1>2 DEF Without
  <2> HIDE DEF k, rest
  <2>3. /\ rest \in Seq(Assessment)
        /\ Len(rest) = Len(history) - 1
        /\ \A j \in 1 .. Len(history) - 1 :
              rest[j] = IF j < k THEN history[j] ELSE history[j + 1]
    BY <2>1, RemoveAtProperties DEF rest
  <2>4. DOMAIN rest = 1 .. Len(history) - 1
    BY <2>3, LenProperties
  <2>5. \A j \in DOMAIN rest : \E i \in DOMAIN history : rest[j] = history[i]
    BY <1>1, <2>1, <2>3, <2>4
  <2>6. ASSUME IsHistory(history)
        PROVE  /\ IsHistory(rest)
               /\ \A j \in DOMAIN rest : rest[j].hash # hash
    <3> DEFINE old(j) == IF j < k THEN j ELSE j + 1
    <3>1. \A j \in DOMAIN rest : /\ old(j) \in DOMAIN history
                                 /\ old(j) # k
                                 /\ rest[j] = history[old(j)]
      BY <1>1, <2>1, <2>3, <2>4
    <3>2. \A i, j \in DOMAIN rest : old(i) = old(j) => i = j
      BY <1>1, <2>1, <2>4
    <3>3. Len(rest) <= HistoryCap
      BY <1>1, <2>3, <2>6, CapAssumption DEF IsHistory
    <3> HIDE DEF old
    <3>4. \A j \in DOMAIN rest : rest[j].hash # hash
      BY <1>1, <2>1, <2>6, <3>1 DEF IsHistory
    <3>5. \A i, j \in DOMAIN rest : rest[i].hash = rest[j].hash => i = j
      BY <2>6, <3>1, <3>2 DEF IsHistory
    <3>6. QED  BY <3>3, <3>4, <3>5 DEF IsHistory
  <2>7. QED  BY <1>1, <2>2, <2>3, <2>5, <2>6
<1>3. CASE ~ \E i \in DOMAIN history : history[i].hash = hash
  BY <1>1, <1>3 DEF Without
<1>4. QED  BY <1>2, <1>3

\* What save_assessment_history_record does to the history: the record is in
\* front, the others were there before, and no id is there twice.
LEMMA PushProperties ==
    ASSUME NEW history \in Seq(Assessment), NEW a \in Assessment
    PROVE  /\ Push(history, a) \in Seq(Assessment)
           /\ \A j \in DOMAIN Push(history, a) :
                 \/ Push(history, a)[j] = a
                 \/ \E i \in DOMAIN history : Push(history, a)[j] = history[i]
           /\ IsHistory(history) => IsHistory(Push(history, a))
           /\ 1 \in DOMAIN Push(history, a) => Push(history, a)[1] = a
<1> DEFINE others == Without(history, a.hash)
           longer == <<a>> \o others
           n == IF Len(longer) <= HistoryCap THEN Len(longer) ELSE HistoryCap
           pushed == SubSeq(longer, 1, n)
<1>1. /\ others \in Seq(Assessment)
      /\ DOMAIN others = 1 .. Len(others)
      /\ Len(others) \in Nat
  BY WithoutProperties, LenProperties
<1>2. <<a>> \in Seq(Assessment) /\ Len(<<a>>) = 1 /\ <<a>>[1] = a
  OBVIOUS
<1>3. /\ longer \in Seq(Assessment)
      /\ Len(longer) = Len(others) + 1
      /\ \A j \in 1 .. Len(others) + 1 :
            longer[j] = IF j = 1 THEN a ELSE others[j - 1]
  <2> HIDE DEF others
  <2>1. \A j \in 1 .. Len(others) + 1 :
           longer[j] = IF j <= 1 THEN <<a>>[j] ELSE others[j - 1]
    BY <1>1, <1>2, ConcatProperties
  <2>2. QED  BY <1>1, <1>2, <2>1, ConcatProperties
<1> HIDE DEF others, longer
<1>4. n \in Nat /\ n <= Len(longer) /\ n <= HistoryCap
  BY <1>1, <1>3, CapAssumption
<1> HIDE DEF n
<1>5. \A j \in 1 .. n : longer[j] \in Assessment
  BY <1>3, <1>4, ElementOfSeq
<1>6. /\ pushed \in Seq(Assessment)
      /\ Len(pushed) = n
      /\ \A j \in 1 .. n : pushed[j] = longer[j]
  BY <1>4, <1>5, SubSeqProperties
<1> HIDE DEF pushed
<1>7. DOMAIN pushed = 1 .. n
  BY <1>6, LenProperties
<1>8. Push(history, a) = pushed
  BY DEF Push, pushed, n, longer, others
<1>9. \A j \in DOMAIN pushed :
         /\ j = 1 => pushed[j] = a
         /\ j # 1 => j - 1 \in DOMAIN others /\ pushed[j] = others[j - 1]
  <2> SUFFICES ASSUME NEW j \in 1 .. n
               PROVE  /\ j = 1 => pushed[j] = a
                      /\ j # 1 => /\ j - 1 \in DOMAIN others
                                  /\ pushed[j] = others[j - 1]
    BY <1>7
  <2>1. j \in 1 .. Len(others) + 1
    BY <1>1, <1>3, <1>4
  <2>2. pushed[j] = IF j = 1 THEN a ELSE others[j - 1]
    BY <1>3, <1>6, <2>1
  <2>3. j # 1 => j - 1 \in DOMAIN others
    BY <1>1, <2>1
  <2>4. QED  BY <2>2, <2>3
<1>10. ASSUME IsHistory(history)
       PROVE  IsHistory(pushed)
  <2>1. /\ IsHistory(others)
        /\ \A j \in DOMAIN others : others[j].hash # a.hash
    BY <1>10, WithoutProperties DEF others
  <2>2. ASSUME NEW i \in DOMAIN pushed, NEW j \in DOMAIN pushed,
               pushed[i].hash = pushed[j].hash
        PROVE  i = j
    <3>1. CASE i = 1 \/ j = 1
      BY <1>9, <2>1, <2>2, <3>1
    <3>2. CASE i # 1 /\ j # 1
      <4>1. i - 1 = j - 1
        BY <1>9, <2>1, <2>2, <3>2 DEF IsHistory
      <4>2. QED  BY <1>4, <1>7, <4>1
    <3>3. QED  BY <3>1, <3>2
  <2>3. QED  BY <1>4, <1>6, <2>2 DEF IsHistory
<1>11. \A j \in DOMAIN others : \E i \in DOMAIN history : others[j] = history[i]
  BY WithoutProperties DEF others
<1>12. QED  BY <1>6, <1>8, <1>9, <1>10, <1>11

\* In the list that it returns the record is the only one with its id.
LEMMA PushReplaces ==
    ASSUME NEW history \in Seq(Assessment), NEW a \in Assessment,
           IsHistory(history)
    PROVE  \A j \in DOMAIN Push(history, a) :
              Push(history, a)[j].hash = a.hash => Push(history, a)[j] = a
<1> DEFINE pushed == Push(history, a)
<1>1. /\ pushed \in Seq(Assessment) /\ IsHistory(pushed)
  BY PushProperties
<1>2. DOMAIN pushed = 1 .. Len(pushed) /\ Len(pushed) \in Nat
  BY <1>1, LenProperties
<1>3. CASE DOMAIN pushed = {}
  BY <1>3
<1>4. CASE DOMAIN pushed # {}
  <2>1. 1 \in DOMAIN pushed
    BY <1>2, <1>4
  <2>2. pushed[1] = a
    BY <2>1, PushProperties
  <2>3. QED  BY <1>1, <2>1, <2>2 DEF IsHistory
<1>5. QED  BY <1>3, <1>4

LEMMA EmptyStateType == EmptyState \in State /\ IsHistory(EmptyState.history)
<1>1. <<>> \in Seq(Assessment) /\ Len(<<>>) = 0
  BY EmptySeq
<1>2. DOMAIN <<>> = {}
  BY <1>1, LenProperties
<1>3. EmptyState \in State
  BY <1>1 DEF EmptyState, State
<1>4. QED  BY <1>1, <1>2, <1>3, CapAssumption DEF EmptyState, IsHistory

-----------------------------------------------------------------------------
(* Type correctness and shape.                                             *)

LEMMA InitInv == Init => TypeOK /\ Shape
<1> SUFFICES ASSUME Init PROVE TypeOK /\ Shape
  OBVIOUS
<1>1. Idle \in Handler
  BY EmptyStateType DEF Idle, Handler, Labels
<1>2. EmptyState.proofs \in [Hashes -> Proof \cup {None}]
  BY DEF EmptyState
<1>3. TypeOK
  BY <1>1, <1>2, EmptyStateType DEF Init, TypeOK
<1>4. Shape
  BY DEF Init, Shape, HandlerShape, Idle, Saving
<1>5. QED  BY <1>3, <1>4

LEMMA CollectType ==
    ASSUME NEW objects \in [Refs -> Assessment \cup {None}], NEW root,
           NEW handlers
    PROVE  /\ Collect(objects, root, handlers)
                 \in [Refs -> Assessment \cup {None}]
           /\ \A r \in Refs :
                 Collect(objects, root, handlers)[r] \in {objects[r], None}
           /\ root \in Refs => Collect(objects, root, handlers)[root]
                                   = objects[root]
           /\ \A t \in Threads : handlers[t].ref \in Refs =>
                 Collect(objects, root, handlers)[handlers[t].ref]
                     = objects[handlers[t].ref]
  BY DEF Collect

\* What one handler's step leaves alone, and what it has to establish.
LEMMA StepLemma ==
    ASSUME TypeOK, Shape, NEW t \in Threads, NEW r \in Handler, Step(t, r)
    PROVE  /\ handler' \in [Threads -> Handler]
           /\ handler'[t] = r
           /\ \A u \in Threads : u # t => handler'[u] = handler[u]
           /\ /\ latest # None => latest' # None
              /\ latest' # None => heap'[latest'] # None
              /\ \A u \in Threads :
                    handler[u].ref # None /\ handler'[u].ref = handler[u].ref
                        => heap'[handler[u].ref] # None
              /\ HandlerShape(t)'
              => Shape'
<1>1. /\ handler' \in [Threads -> Handler]
      /\ handler'[t] = r
      /\ \A u \in Threads : u # t => handler'[u] = handler[u]
  BY DEF Step, TypeOK
<1>2. ASSUME latest # None => latest' # None,
             latest' # None => heap'[latest'] # None,
             \A u \in Threads :
                 handler[u].ref # None /\ handler'[u].ref = handler[u].ref
                     => heap'[handler[u].ref] # None,
             HandlerShape(t)'
      PROVE  Shape'
  <2>1. ASSUME NEW u \in Threads, u # t
        PROVE  HandlerShape(u)'
    BY <1>1, <1>2, <2>1 DEF HandlerShape, Shape
  <2>2. QED  BY <1>2, <2>1 DEF Shape
<1>3. QED  BY <1>1, <1>2

LEMMA PreflightInv ==
    ASSUME TypeOK, Shape, NEW t \in Threads, NEW h \in Hashes, Preflight(t, h)
    PROVE  TypeOK' /\ Shape'
<1>1. PICK r \in Refs :
         /\ heap[r] = None
         /\ latest' = r
         /\ Step(t, [Idle EXCEPT !.pc = "latest_load", !.op = "preflight",
                                 !.ref = r])
         /\ heap' = Collect([heap EXCEPT ![r] = [hash |-> h,
                                                 proof |-> InitialProof]],
                            r, handler')
  BY DEF Preflight
<1> DEFINE me == [Idle EXCEPT !.pc = "latest_load", !.op = "preflight",
                              !.ref = r]
           objects == [heap EXCEPT ![r] = [hash |-> h, proof |-> InitialProof]]
<1>2. me \in Handler
  BY EmptyStateType DEF Idle, Handler, Labels
<1>3. InitialProof \in Proof
  BY DEF InitialProof, Proof, Statuses
<1>4. /\ objects \in [Refs -> Assessment \cup {None}]
      /\ objects[r] # None
      /\ \A x \in Refs : heap[x] # None => objects[x] # None
  BY <1>3, NoneAssumption DEF Assessment, TypeOK
<1>5. me.ref = r /\ me.pc = "latest_load" /\ me.op = "preflight"
  BY DEF Idle
<1> HIDE DEF me, objects
<1>6. /\ handler' \in [Threads -> Handler]
      /\ handler'[t] = me
      /\ \A u \in Threads : u # t => handler'[u] = handler[u]
  BY <1>1, <1>2, StepLemma DEF me
<1>7. /\ heap' \in [Refs -> Assessment \cup {None}]
      /\ heap'[r] = objects[r]
      /\ \A u \in Threads : handler'[u].ref \in Refs =>
            heap'[handler'[u].ref] = objects[handler'[u].ref]
  <2>1. heap' = Collect(objects, r, handler')
    BY <1>1 DEF objects
  <2>2. QED  BY <1>4, <2>1, CollectType
<1>8. TypeOK'
  BY <1>1, <1>6, <1>7 DEF TypeOK, Preflight, historyVars
<1>9. HandlerShape(t)'
  BY <1>4, <1>5, <1>6, <1>7, RefsAssumption DEF HandlerShape, Saving
<1>10. Shape'
  <2>1. \A u \in Threads :
           handler[u].ref # None /\ handler'[u].ref = handler[u].ref
               => heap'[handler[u].ref] # None
    BY <1>4, <1>7 DEF TypeOK, Handler, Shape, HandlerShape
  <2>2. QED
    BY <1>1, <1>2, <1>4, <1>7, <1>9, <2>1, RefsAssumption, StepLemma DEF me
<1>11. QED  BY <1>8, <1>10

LEMMA RecordAcceptInv ==
    ASSUME TypeOK, Shape, NEW t \in Threads, NEW h \in Hashes,
           NEW sure \in BOOLEAN, RecordAccept(t, h, sure)
    PROVE  TypeOK' /\ Shape'
<1> DEFINE me == [Idle EXCEPT !.pc = "record_put", !.op = "record", !.hash = h,
                              !.ans = RecordedProof(h)]
<1>1. RecordedProof(h) \in Proof
  BY EnvironmentsAssumption DEF RecordedProof, Proof, Statuses, TypeOK
<1>2. me \in Handler
  BY <1>1, EmptyStateType DEF Idle, Handler, Labels
<1>3. /\ me.pc = "record_put" /\ me.op = "record" /\ me.hash = h
      /\ me.ref = None /\ me.ans = RecordedProof(h)
  BY DEF Idle
<1>4. Step(t, me)
  BY DEF RecordAccept
<1> HIDE DEF me
<1>5. /\ handler' \in [Threads -> Handler]
      /\ handler'[t] = me
  BY <1>2, <1>4, StepLemma
<1>6. TypeOK'
  BY <1>5 DEF TypeOK, RecordAccept, serverVars
<1>7. HandlerShape(t)'
  BY <1>1, <1>3, <1>5, NoneAssumption DEF HandlerShape, Saving
<1>8. Shape'
  BY <1>2, <1>4, <1>7, StepLemma
     DEF RecordAccept, serverVars, Shape, HandlerShape
<1>9. QED  BY <1>6, <1>8

LEMMA RecordPutInv ==
    ASSUME TypeOK, Shape, NEW t \in Threads, RecordPut(t)
    PROVE  TypeOK' /\ Shape'
<1> DEFINE me == [handler[t] EXCEPT !.pc = "record_test"]
<1>1. handler[t] \in Handler /\ HandlerShape(t) /\ handler[t].pc = "record_put"
  BY DEF TypeOK, Shape, RecordPut
<1>2. me \in Handler
  BY <1>1 DEF Handler, Labels
<1>3. /\ me.pc = "record_test" /\ me.op = handler[t].op
      /\ me.hash = handler[t].hash /\ me.ref = handler[t].ref
      /\ me.ans = handler[t].ans
  BY <1>1 DEF Handler
<1>4. Step(t, me)
  BY DEF RecordPut
<1> HIDE DEF me
<1>5. /\ handler' \in [Threads -> Handler]
      /\ handler'[t] = me
  BY <1>2, <1>4, StepLemma
<1>6. handler[t].hash \in Hashes /\ handler[t].ans \in Proof
  BY <1>1 DEF HandlerShape, Handler
<1>7. TypeOK'
  BY <1>5, <1>6 DEF TypeOK, RecordPut, historyVars
<1>8. HandlerShape(t)'
  BY <1>1, <1>3, <1>5 DEF HandlerShape, Saving, RecordPut
<1>9. Shape'
  BY <1>2, <1>4, <1>8, StepLemma DEF RecordPut, Shape, HandlerShape
<1>10. QED  BY <1>7, <1>9

LEMMA RecordTestInv ==
    ASSUME TypeOK, Shape, NEW t \in Threads, RecordTest(t)
    PROVE  TypeOK' /\ Shape'
<1> DEFINE tested == latest # None /\ handler[t].ans.recorded = LatestHash
           on == [handler[t] EXCEPT !.pc = "record_attach"]
           me == IF tested THEN on ELSE Idle
<1>1. handler[t] \in Handler /\ HandlerShape(t) /\ handler[t].pc = "record_test"
  BY DEF TypeOK, Shape, RecordTest
<1>2. on \in Handler /\ Idle \in Handler
  BY <1>1, EmptyStateType DEF Idle, Handler, Labels
<1>3. /\ on.pc = "record_attach" /\ on.op = handler[t].op
      /\ on.hash = handler[t].hash /\ on.ref = handler[t].ref
      /\ on.ans = handler[t].ans
      /\ Idle.pc = "idle" /\ Idle.op = "none" /\ Idle.ref = None
  BY <1>1 DEF Handler, Idle
<1>4. Step(t, me)
  BY DEF RecordTest
<1>5. tested => latest # None
  OBVIOUS
<1> HIDE DEF on, tested
<1>6. me \in Handler
  BY <1>2
<1>7. /\ handler' \in [Threads -> Handler]
      /\ handler'[t] = me
  BY <1>4, <1>6, StepLemma
<1>8. handler[t].hash \in Hashes
  BY <1>1 DEF HandlerShape, Handler
<1>9. TypeOK'
  BY <1>7, <1>8 DEF TypeOK, RecordTest, serverVars, Acknowledge
<1>10. HandlerShape(t)'
  BY <1>1, <1>3, <1>5, <1>7 DEF HandlerShape, Saving, RecordTest, serverVars
<1>11. Shape'
  BY <1>4, <1>6, <1>10, StepLemma
     DEF RecordTest, serverVars, Shape, HandlerShape
<1>12. QED  BY <1>9, <1>11

\* Both endpoints attach a proof to the latest assessment in the same way.
LEMMA AttachType ==
    ASSUME TypeOK, Shape, NEW p \in Proof, latest # None,
           heap' = [heap EXCEPT ![latest].proof = p]
    PROVE  /\ heap' \in [Refs -> Assessment \cup {None}]
           /\ \A r \in Refs : heap[r] # None => heap'[r] # None
           /\ \A r \in Refs : r # latest => heap'[r] = heap[r]
           /\ heap'[latest] = [hash |-> LatestHash, proof |-> p]
<1>1. latest \in Refs /\ heap[latest] \in Assessment
  BY DEF TypeOK, Shape
<1>2. heap'[latest] = [heap[latest] EXCEPT !.proof = p]
  BY <1>1 DEF TypeOK
<1>3. heap'[latest] = [hash |-> LatestHash, proof |-> p]
  BY <1>1, <1>2 DEF Assessment, LatestHash
<1>4. heap'[latest] \in Assessment
  BY <1>1, <1>3 DEF Assessment, LatestHash
<1>5. /\ \A r \in Refs : r # latest => heap'[r] = heap[r]
      /\ heap' \in [Refs -> Assessment \cup {None}]
  BY <1>4 DEF TypeOK
<1>6. QED  BY <1>3, <1>4, <1>5, NoneAssumption

LEMMA AttachInv ==
    ASSUME TypeOK, Shape, NEW t \in Threads, RecordAttach(t) \/ VerifyAttach(t)
    PROVE  TypeOK' /\ Shape'
<1> DEFINE me == [handler[t] EXCEPT !.pc = "latest_load"]
<1>1. /\ handler[t] \in Handler /\ HandlerShape(t)
      /\ handler[t].pc \in {"record_attach", "verify_attach"}
  BY DEF TypeOK, Shape, RecordAttach, VerifyAttach
<1>2. me \in Handler
  BY <1>1 DEF Handler, Labels
<1>3. /\ me.pc = "latest_load" /\ me.op = handler[t].op
      /\ me.hash = handler[t].hash /\ me.ref = handler[t].ref
      /\ me.ans = handler[t].ans
  BY <1>1 DEF Handler
<1>4. Step(t, me)
  BY DEF RecordAttach, VerifyAttach
<1> HIDE DEF me
<1>5. /\ handler' \in [Threads -> Handler]
      /\ handler'[t] = me
  BY <1>2, <1>4, StepLemma
<1>6. handler[t].ans \in Proof /\ latest # None /\ latest \in Refs
  BY <1>1 DEF HandlerShape, Handler, TypeOK
<1>7. /\ heap' = [heap EXCEPT ![latest].proof = handler[t].ans]
      /\ UNCHANGED <<env, latest, store, disk, confirmed, answered, acked,
                     unsaved>>
      /\ misfiled' \in {misfiled, misfiled \cup {LatestHash}}
  BY DEF RecordAttach, VerifyAttach, historyVars
<1>8. /\ heap' \in [Refs -> Assessment \cup {None}]
      /\ \A r \in Refs : heap[r] # None => heap'[r] # None
  BY <1>6, <1>7, AttachType
<1>9. TypeOK'
  <2>1. LatestHash \in Hashes
    BY <1>6 DEF TypeOK, Shape, Assessment, LatestHash
  <2>2. QED  BY <1>5, <1>7, <1>8, <2>1 DEF TypeOK
<1>10. HandlerShape(t)'
  BY <1>1, <1>3, <1>5, <1>6, <1>7, <1>8 DEF HandlerShape, Saving, Handler
<1>11. \A u \in Threads : handler[u].ref # None => heap'[handler[u].ref] # None
  BY <1>8 DEF TypeOK, Handler, Shape, HandlerShape
<1>12. Shape'
  BY <1>2, <1>4, <1>6, <1>7, <1>8, <1>10, <1>11, StepLemma DEF Shape
<1>13. QED  BY <1>9, <1>12

\* A record that matches is a proof, with a transaction and for this hash.
LEMMA RecordForType ==
    ASSUME TypeOK, Shape, NEW h \in Hashes, Matches(h)
    PROVE  /\ RecordFor(h) \in Proof
           /\ RecordFor(h).tx # None
           /\ RecordFor(h).recorded = h
           /\ \/ store[h] # None /\ RecordFor(h) = store[h]
              \/ /\ latest \in Refs
                 /\ heap[latest] \in Assessment
                 /\ RecordFor(h) = heap[latest].proof
<1>1. CASE store[h] # None
  BY <1>1 DEF Matches, RecordFor, TypeOK
<1>2. CASE store[h] = None
  <2>1. latest # None /\ RecordFor(h) = heap[latest].proof
    BY <1>2 DEF Matches, RecordFor
  <2>2. latest \in Refs /\ heap[latest] \in Assessment
    BY <2>1 DEF TypeOK, Shape
  <2>3. heap[latest].proof \in Proof
    BY <2>2 DEF Assessment
  <2>4. QED  BY <2>1, <2>2, <2>3 DEF Matches
<1>3. QED  BY <1>1, <1>2

LEMMA VerifyMatchInv ==
    ASSUME TypeOK, Shape, NEW t \in Threads, NEW h \in Hashes,
           NEW tx \in Txs \cup {None}, VerifyMatch(t, h, tx)
    PROVE  TypeOK' /\ Shape'
<1> DEFINE me == [Idle EXCEPT !.pc = "verify_put", !.op = "verify", !.hash = h,
                              !.tx = tx, !.ans = RecordFor(h)]
<1>1. RecordFor(h) \in Proof
  BY RecordForType DEF VerifyMatch
<1>2. me \in Handler
  BY <1>1, EmptyStateType DEF Idle, Handler, Labels
<1>3. /\ me.pc = "verify_put" /\ me.op = "verify" /\ me.hash = h
      /\ me.ref = None /\ me.ans = RecordFor(h)
  BY DEF Idle
<1>4. Step(t, me)
  BY DEF VerifyMatch
<1> HIDE DEF me
<1>5. /\ handler' \in [Threads -> Handler]
      /\ handler'[t] = me
  BY <1>2, <1>4, StepLemma
<1>6. TypeOK'
  BY <1>5 DEF TypeOK, VerifyMatch, serverVars, historyVars
<1>7. HandlerShape(t)'
  BY <1>1, <1>3, <1>5, NoneAssumption DEF HandlerShape, Saving
<1>8. Shape'
  BY <1>2, <1>4, <1>7, StepLemma
     DEF VerifyMatch, serverVars, Shape, HandlerShape
<1>9. QED  BY <1>6, <1>8

LEMMA VerifyPutInv ==
    ASSUME TypeOK, Shape, NEW t \in Threads, VerifyPut(t)
    PROVE  TypeOK' /\ Shape'
<1> DEFINE record == [handler[t].ans EXCEPT !.status = "verified_matched"]
           verified == IF handler[t].tx = None THEN record
                       ELSE [record EXCEPT !.tx = handler[t].tx]
           on == [handler[t] EXCEPT !.pc = "verify_attach", !.ans = verified]
           me == IF latest = None THEN Idle ELSE on
<1>1. handler[t] \in Handler /\ HandlerShape(t) /\ handler[t].pc = "verify_put"
  BY DEF TypeOK, Shape, VerifyPut
<1>2. /\ handler[t].ans \in Proof /\ handler[t].hash \in Hashes
      /\ handler[t].tx \in Txs \cup {None}
  BY <1>1 DEF HandlerShape, Handler
<1>3. record \in Proof /\ verified \in Proof
  BY <1>2 DEF Proof, Statuses
<1> HIDE DEF verified, record
<1>4. on \in Handler /\ Idle \in Handler
  BY <1>1, <1>3, EmptyStateType DEF Idle, Handler, Labels
<1>5. /\ on.pc = "verify_attach" /\ on.op = handler[t].op
      /\ on.hash = handler[t].hash /\ on.ref = handler[t].ref
      /\ on.ans = verified
      /\ Idle.pc = "idle" /\ Idle.op = "none" /\ Idle.ref = None
  BY <1>1 DEF Handler, Idle
<1>6. /\ Step(t, me)
      /\ store' = [store EXCEPT ![handler[t].hash] = record]
      /\ answered' = answered \cup {handler[t].hash}
      /\ UNCHANGED <<env, latest, heap, disk, confirmed, acked, unsaved,
                     misfiled>>
  BY DEF VerifyPut, record, verified
<1> HIDE DEF on
<1>7. me \in Handler
  BY <1>4
<1>8. /\ handler' \in [Threads -> Handler]
      /\ handler'[t] = me
  BY <1>6, <1>7, StepLemma
<1>9. TypeOK'
  BY <1>2, <1>3, <1>6, <1>8 DEF TypeOK
<1>10. HandlerShape(t)'
  BY <1>1, <1>2, <1>3, <1>5, <1>6, <1>8, NoneAssumption
     DEF HandlerShape, Saving
<1>11. Shape'
  BY <1>6, <1>7, <1>10, StepLemma DEF Shape, HandlerShape
<1>12. QED  BY <1>9, <1>11

\* What collecting the garbage leaves behind.
LEMMA CollectInv ==
    ASSUME TypeOK, Shape, NEW t \in Threads, NEW r \in Handler, Step(t, r),
           heap' = Collect(heap, latest, handler'),
           r.ref # None => heap[r.ref] # None
    PROVE  /\ heap' \in [Refs -> Assessment \cup {None}]
           /\ \A x \in Refs : heap'[x] \in {heap[x], None}
           /\ latest # None => heap'[latest] = heap[latest]
           /\ \A u \in Threads : handler'[u].ref # None =>
                 heap'[handler'[u].ref] = heap[handler'[u].ref]
           /\ \A u \in Threads : handler'[u].ref # None =>
                 heap'[handler'[u].ref] # None
<1>1. /\ handler' \in [Threads -> Handler]
      /\ handler'[t] = r
      /\ \A u \in Threads : u # t => handler'[u] = handler[u]
  BY StepLemma
<1>2. /\ heap' \in [Refs -> Assessment \cup {None}]
      /\ \A x \in Refs : heap'[x] \in {heap[x], None}
      /\ latest \in Refs => heap'[latest] = heap[latest]
      /\ \A u \in Threads : handler'[u].ref \in Refs =>
            heap'[handler'[u].ref] = heap[handler'[u].ref]
  BY CollectType DEF TypeOK
<1>3. \A u \in Threads : handler'[u].ref # None =>
         heap'[handler'[u].ref] = heap[handler'[u].ref]
  BY <1>1, <1>2 DEF Handler
<1>4. \A u \in Threads : handler'[u].ref # None => heap[handler'[u].ref] # None
  BY <1>1 DEF Shape, HandlerShape
<1>5. QED  BY <1>2, <1>3, <1>4 DEF TypeOK

LEMMA LoadInv ==
    ASSUME TypeOK, Shape, NEW t \in Threads,
           SaveLatestLoad(t) \/ SaveHistoryLoad(t)
    PROVE  TypeOK' /\ Shape'
<1>1. PICK pc \in {"latest_write", "history_write"} :
         Step(t, [handler[t] EXCEPT !.pc = pc, !.ref = SavedRef(t),
                                    !.snap = disk])
  BY DEF SaveLatestLoad, SaveHistoryLoad
<1> DEFINE me == [handler[t] EXCEPT !.pc = pc, !.ref = SavedRef(t),
                                    !.snap = disk]
<1>2. /\ handler[t] \in Handler /\ HandlerShape(t)
      /\ handler[t].pc \in {"latest_load", "history_load"}
  BY DEF TypeOK, Shape, SaveLatestLoad, SaveHistoryLoad
<1>3. SavedRef(t) \in Refs /\ heap[SavedRef(t)] # None
  BY <1>2 DEF HandlerShape, Handler, Saving, SavedRef, TypeOK, Shape
<1>4. me \in Handler
  BY <1>2, <1>3 DEF Handler, Labels, TypeOK
<1>5. /\ me.pc = pc /\ me.op = handler[t].op /\ me.hash = handler[t].hash
      /\ me.ref = SavedRef(t) /\ me.ans = handler[t].ans
  BY <1>2 DEF Handler
<1>6. /\ heap' = Collect(heap, latest, handler')
      /\ UNCHANGED <<env, latest, store, disk, historyVars>>
  BY DEF SaveLatestLoad, SaveHistoryLoad
<1> HIDE DEF me
<1>7. Step(t, me)
  BY <1>1 DEF me
<1>8. /\ handler' \in [Threads -> Handler]
      /\ handler'[t] = me
  BY <1>4, <1>7, StepLemma
<1>9. /\ heap' \in [Refs -> Assessment \cup {None}]
      /\ latest # None => heap'[latest] = heap[latest]
      /\ \A u \in Threads : handler'[u].ref # None =>
            heap'[handler'[u].ref] # None
  BY <1>3, <1>4, <1>5, <1>6, <1>7, CollectInv
<1>10. TypeOK'
  BY <1>6, <1>8, <1>9 DEF TypeOK, historyVars
<1>11. HandlerShape(t)'
  BY <1>2, <1>3, <1>5, <1>6, <1>8, <1>9, RefsAssumption
     DEF HandlerShape, Saving
<1>12. Shape'
  BY <1>4, <1>6, <1>7, <1>9, <1>11, StepLemma DEF Shape
<1>13. QED  BY <1>10, <1>12

LEMMA SaveLatestWriteInv ==
    ASSUME TypeOK, Shape, NEW t \in Threads, SaveLatestWrite(t)
    PROVE  TypeOK' /\ Shape'
<1> DEFINE me == [handler[t] EXCEPT !.pc = "history_load", !.snap = EmptyState]
<1>1. /\ handler[t] \in Handler /\ HandlerShape(t)
      /\ handler[t].pc = "latest_write"
  BY DEF TypeOK, Shape, SaveLatestWrite
<1>2. me \in Handler
  BY <1>1, EmptyStateType DEF Handler, Labels
<1>3. /\ me.pc = "history_load" /\ me.op = handler[t].op
      /\ me.hash = handler[t].hash /\ me.ref = handler[t].ref
      /\ me.ans = handler[t].ans
  BY <1>1 DEF Handler
<1>4. Step(t, me)
  BY DEF SaveLatestWrite
<1> HIDE DEF me
<1>5. /\ handler' \in [Threads -> Handler]
      /\ handler'[t] = me
  BY <1>2, <1>4, StepLemma
<1>6. handler[t].snap \in State /\ heap[handler[t].ref] \in Assessment
  BY <1>1 DEF Handler, HandlerShape, TypeOK
<1>7. SetLatest(handler[t].snap, heap[handler[t].ref]) \in State
  BY <1>6 DEF SetLatest, State
<1>8. TypeOK'
  BY <1>5, <1>7 DEF TypeOK, SaveLatestWrite, historyVars
<1>9. HandlerShape(t)'
  BY <1>1, <1>3, <1>5 DEF HandlerShape, Saving, SaveLatestWrite
<1>10. Shape'
  BY <1>2, <1>4, <1>9, StepLemma DEF SaveLatestWrite, Shape, HandlerShape
<1>11. QED  BY <1>8, <1>10

LEMMA SaveHistoryWriteInv ==
    ASSUME TypeOK, Shape, NEW t \in Threads, SaveHistoryWrite(t)
    PROVE  TypeOK' /\ Shape'
<1> DEFINE on == [handler[t] EXCEPT !.pc = "proof_load", !.ref = None,
                                    !.snap = EmptyState]
           me == IF handler[t].op = "preflight" THEN Idle ELSE on
<1>1. /\ handler[t] \in Handler /\ HandlerShape(t)
      /\ handler[t].pc = "history_write"
  BY DEF TypeOK, Shape, SaveHistoryWrite
<1>2. on \in Handler /\ Idle \in Handler
  BY <1>1, EmptyStateType DEF Idle, Handler, Labels
<1>3. /\ on.pc = "proof_load" /\ on.op = handler[t].op
      /\ on.hash = handler[t].hash /\ on.ref = None
      /\ on.ans = handler[t].ans
      /\ Idle.pc = "idle" /\ Idle.op = "none" /\ Idle.ref = None
  BY <1>1 DEF Handler, Idle
<1>4. /\ Step(t, me)
      /\ disk' = PushHistory(handler[t].snap, heap[handler[t].ref])
      /\ heap' = Collect(heap, latest, handler')
      /\ UNCHANGED <<env, latest, store, historyVars>>
  BY DEF SaveHistoryWrite
<1> HIDE DEF on
<1>5. me \in Handler /\ me.ref = None
  BY <1>2, <1>3
<1>6. /\ handler' \in [Threads -> Handler]
      /\ handler'[t] = me
  BY <1>4, <1>5, StepLemma
<1>7. handler[t].snap \in State /\ heap[handler[t].ref] \in Assessment
  BY <1>1 DEF Handler, HandlerShape, TypeOK
<1>8. disk' \in State
  BY <1>4, <1>7, PushProperties DEF PushHistory, State
<1>9. /\ heap' \in [Refs -> Assessment \cup {None}]
      /\ latest # None => heap'[latest] = heap[latest]
      /\ \A u \in Threads : handler'[u].ref # None =>
            heap'[handler'[u].ref] # None
  BY <1>4, <1>5, CollectInv
<1>10. TypeOK'
  BY <1>4, <1>6, <1>8, <1>9 DEF TypeOK, historyVars
<1>11. HandlerShape(t)'
  BY <1>1, <1>3, <1>4, <1>6 DEF HandlerShape, Saving
<1>12. Shape'
  BY <1>4, <1>5, <1>9, <1>11, StepLemma DEF Shape
<1>13. QED  BY <1>10, <1>12

LEMMA SaveProofLoadInv ==
    ASSUME TypeOK, Shape, NEW t \in Threads, SaveProofLoad(t)
    PROVE  TypeOK' /\ Shape'
<1> DEFINE recording == [handler[t] EXCEPT !.pc = "proof_write", !.snap = disk]
           verifying == [handler[t] EXCEPT !.pc = "proof_write", !.snap = disk,
                                           !.hash = LatestHash,
                                           !.ans = heap[latest].proof]
           me == IF handler[t].op = "record" THEN recording ELSE verifying
<1>1. /\ handler[t] \in Handler /\ HandlerShape(t)
      /\ handler[t].pc = "proof_load" /\ handler[t].op # "preflight"
      /\ disk \in State
  BY DEF TypeOK, Shape, SaveProofLoad, HandlerShape
<1>2. latest # None /\ latest \in Refs /\ heap[latest] \in Assessment
  BY <1>1 DEF HandlerShape, Saving, TypeOK, Shape
<1>3. LatestHash \in Hashes /\ heap[latest].proof \in Proof
  BY <1>2 DEF Assessment, LatestHash
<1>4. recording \in Handler /\ verifying \in Handler
  BY <1>1, <1>3 DEF Handler, Labels
<1>5. /\ recording.pc = "proof_write" /\ recording.op = handler[t].op
      /\ recording.hash = handler[t].hash /\ recording.ref = handler[t].ref
      /\ recording.ans = handler[t].ans
      /\ verifying.pc = "proof_write" /\ verifying.op = handler[t].op
      /\ verifying.hash = LatestHash /\ verifying.ref = handler[t].ref
      /\ verifying.ans = heap[latest].proof
  BY <1>1 DEF Handler
<1>6. Step(t, me)
  BY DEF SaveProofLoad
<1> HIDE DEF recording, verifying
<1>7. me \in Handler
  BY <1>4
<1>8. /\ handler' \in [Threads -> Handler]
      /\ handler'[t] = me
  BY <1>6, <1>7, StepLemma
<1>9. TypeOK'
  BY <1>8 DEF TypeOK, SaveProofLoad, serverVars, historyVars
<1>10. HandlerShape(t)'
  BY <1>1, <1>2, <1>3, <1>5, <1>8, NoneAssumption
     DEF HandlerShape, Saving, SaveProofLoad, serverVars
<1>11. Shape'
  BY <1>6, <1>7, <1>10, StepLemma
     DEF SaveProofLoad, serverVars, Shape, HandlerShape
<1>12. QED  BY <1>9, <1>11

LEMMA SaveProofWriteInv ==
    ASSUME TypeOK, Shape, NEW t \in Threads, SaveProofWrite(t)
    PROVE  TypeOK' /\ Shape'
<1>1. /\ handler[t] \in Handler /\ HandlerShape(t)
      /\ handler[t].pc = "proof_write"
  BY DEF TypeOK, Shape, SaveProofWrite
<1>2. /\ handler[t].hash \in Hashes /\ handler[t].ans \in Proof
      /\ handler[t].snap \in State
  BY <1>1 DEF HandlerShape, Handler
<1>3. Idle \in Handler /\ Idle.pc = "idle" /\ Idle.op = "none"
      /\ Idle.ref = None
  BY EmptyStateType DEF Idle, Handler, Labels
<1>4. Step(t, Idle)
  BY DEF SaveProofWrite
<1>5. /\ handler' \in [Threads -> Handler]
      /\ handler'[t] = Idle
  BY <1>3, <1>4, StepLemma
<1>6. disk' \in State
  BY <1>2 DEF SaveProofWrite, SetProof, State
<1>7. acked' \subseteq Hashes
  BY <1>2 DEF SaveProofWrite, Acknowledge, TypeOK
<1>8. TypeOK'
  BY <1>5, <1>6, <1>7 DEF TypeOK, SaveProofWrite
<1>9. HandlerShape(t)'
  BY <1>3, <1>5 DEF HandlerShape, Saving
<1>10. Shape'
  BY <1>3, <1>4, <1>9, StepLemma DEF SaveProofWrite, Shape, HandlerShape
<1>11. QED  BY <1>8, <1>10

LEMMA CrashRestartInv ==
    ASSUME TypeOK, Shape, CrashRestart
    PROVE  TypeOK' /\ Shape'
<1>1. Idle \in Handler /\ Idle.pc = "idle" /\ Idle.op = "none"
      /\ Idle.ref = None
  BY EmptyStateType DEF Idle, Handler, Labels
<1>2. PICK r \in Refs :
         /\ latest' = IF disk.latest = None THEN None ELSE r
         /\ heap' = [x \in Refs |-> IF x = r THEN disk.latest ELSE None]
  BY DEF CrashRestart
<1>3. /\ disk.latest \in Assessment \cup {None}
      /\ disk.proofs \in [Hashes -> Proof \cup {None}]
  BY DEF TypeOK, State
<1>4. TypeOK'
  BY <1>1, <1>2, <1>3 DEF TypeOK, CrashRestart, historyVars
<1>5. Shape'
  BY <1>1, <1>2 DEF Shape, HandlerShape, Saving, CrashRestart
<1>6. QED  BY <1>4, <1>5

LEMMA NextInv == TypeOK /\ Shape /\ [Next]_vars => TypeOK' /\ Shape'
<1> SUFFICES ASSUME TypeOK, Shape, [Next]_vars
             PROVE  TypeOK' /\ Shape'
  OBVIOUS
<1>1. CASE UNCHANGED vars
  BY <1>1 DEF vars, serverVars, historyVars, TypeOK, Shape, HandlerShape
<1>2. ASSUME NEW t \in Threads, Request(t)
      PROVE  TypeOK' /\ Shape'
  <2>1. PICK h \in Hashes :
           \/ Preflight(t, h)
           \/ \E sure \in BOOLEAN : RecordRefuse(t, h, sure)
           \/ \E sure \in BOOLEAN : RecordAccept(t, h, sure)
           \/ VerifyRefuse(t, h)
           \/ \E tx \in Txs \cup {None} : VerifyMatch(t, h, tx)
    BY <1>2 DEF Request
  <2>2. QED
    BY <1>1, <2>1, PreflightInv, RecordAcceptInv, VerifyMatchInv
       DEF RecordRefuse, VerifyRefuse
<1>3. ASSUME NEW t \in Threads, Continue(t)
      PROVE  TypeOK' /\ Shape'
  BY <1>3, RecordPutInv, RecordTestInv, AttachInv, VerifyPutInv, LoadInv,
     SaveLatestWriteInv, SaveHistoryWriteInv, SaveProofLoadInv,
     SaveProofWriteInv DEF Continue
<1>4. CASE CrashRestart
  BY <1>4, CrashRestartInv
<1>5. QED  BY <1>1, <1>2, <1>3, <1>4 DEF Next

LEMMA Invariant == Spec => [](TypeOK /\ Shape)
  BY InitInv, NextInv, PTL DEF Spec

\* Every variable of the server keeps its type: in particular no handler ever
\* dereferences a missing assessment, proof or hash (server.py would raise).
THEOREM TypeCorrect == Spec => []TypeOK
  BY Invariant, PTL

-----------------------------------------------------------------------------
(* The history in the file.                                                *)

HistoryInv == HistoryIsSound /\ SnapshotsAreSound

\* A handler's step changes that handler only.
LEMMA StepOthers ==
    ASSUME TypeOK, NEW t \in Threads, NEW r, Step(t, r)
    PROVE  /\ handler'[t] = r
           /\ \A u \in Threads : u # t => handler'[u] = handler[u]
  BY DEF Step, TypeOK

LEMMA HistoryStep ==
    ASSUME TypeOK, HistoryInv, NEW t \in Threads, NEW r, Step(t, r),
           IsHistory(r.snap.history)
    PROVE  SnapshotsAreSound'
  BY StepOthers DEF HistoryInv, SnapshotsAreSound

LEMMA HistoryRequest ==
    ASSUME TypeOK, HistoryInv, NEW t \in Threads, Request(t)
    PROVE  HistoryInv'
<1>1. PICK h \in Hashes :
         \/ Preflight(t, h)
         \/ \E sure \in BOOLEAN : RecordRefuse(t, h, sure)
         \/ \E sure \in BOOLEAN : RecordAccept(t, h, sure)
         \/ VerifyRefuse(t, h)
         \/ \E tx \in Txs \cup {None} : VerifyMatch(t, h, tx)
  BY DEF Request
<1>2. UNCHANGED disk
  BY <1>1 DEF Preflight, RecordRefuse, RecordAccept, VerifyRefuse,
              VerifyMatch, vars, serverVars
<1>3. IsHistory(Idle.snap.history)
  BY EmptyStateType DEF Idle
<1>4. SnapshotsAreSound'
  <2>1. CASE Preflight(t, h)
    <3>1. PICK r \in Refs :
             Step(t, [Idle EXCEPT !.pc = "latest_load", !.op = "preflight",
                                  !.ref = r])
      BY <2>1 DEF Preflight
    <3>2. IsHistory([Idle EXCEPT !.pc = "latest_load", !.op = "preflight",
                                 !.ref = r].snap.history)
      BY <1>3 DEF Idle
    <3>3. QED  BY <3>1, <3>2, HistoryStep
  <2>2. ASSUME NEW sure \in BOOLEAN, RecordAccept(t, h, sure)
        PROVE  SnapshotsAreSound'
    <3>1. Step(t, [Idle EXCEPT !.pc = "record_put", !.op = "record",
                               !.hash = h, !.ans = RecordedProof(h)])
      BY <2>2 DEF RecordAccept
    <3>2. IsHistory([Idle EXCEPT !.pc = "record_put", !.op = "record",
                                 !.hash = h, !.ans = RecordedProof(h)]
                        .snap.history)
      BY <1>3 DEF Idle
    <3>3. QED  BY <3>1, <3>2, HistoryStep
  <2>3. ASSUME NEW tx \in Txs \cup {None}, VerifyMatch(t, h, tx)
        PROVE  SnapshotsAreSound'
    <3>1. Step(t, [Idle EXCEPT !.pc = "verify_put", !.op = "verify",
                               !.hash = h, !.tx = tx, !.ans = RecordFor(h)])
      BY <2>3 DEF VerifyMatch
    <3>2. IsHistory([Idle EXCEPT !.pc = "verify_put", !.op = "verify",
                                 !.hash = h, !.tx = tx, !.ans = RecordFor(h)]
                        .snap.history)
      BY <1>3 DEF Idle
    <3>3. QED  BY <3>1, <3>2, HistoryStep
  <2>4. CASE UNCHANGED vars
    BY <2>4 DEF vars, HistoryInv, SnapshotsAreSound
  <2>5. QED
    BY <1>1, <2>1, <2>2, <2>3, <2>4 DEF RecordRefuse, VerifyRefuse
<1>5. QED  BY <1>2, <1>4 DEF HistoryInv, HistoryIsSound

LEMMA HistoryContinue ==
    ASSUME TypeOK, Shape, HistoryInv, NEW t \in Threads, Continue(t)
    PROVE  HistoryInv'
<1>1. /\ handler[t] \in Handler /\ HandlerShape(t)
      /\ IsHistory(handler[t].snap.history) /\ handler[t].snap \in State
      /\ IsHistory(disk.history) /\ disk \in State
      /\ IsHistory(EmptyState.history)
  BY EmptyStateType
     DEF TypeOK, Shape, HistoryInv, SnapshotsAreSound, HistoryIsSound, Handler
<1>2. ASSUME handler'[t].snap \in {handler[t].snap, disk, EmptyState}
      PROVE  SnapshotsAreSound'
  <2>1. \E r : Step(t, r)
    BY DEF Continue, RecordPut, RecordTest, RecordAttach, VerifyPut,
           VerifyAttach, SaveLatestLoad, SaveLatestWrite, SaveHistoryLoad,
           SaveHistoryWrite, SaveProofLoad, SaveProofWrite
  <2>2. QED  BY <1>1, <1>2, <2>1, StepOthers, HistoryStep
<1>3. CASE \/ RecordPut(t) \/ RecordTest(t) \/ RecordAttach(t)
           \/ VerifyPut(t) \/ VerifyAttach(t)
  <2>1. handler'[t].snap \in {handler[t].snap, EmptyState}
    <3>1. ASSUME RecordTest(t)
          PROVE  handler'[t].snap \in {handler[t].snap, EmptyState}
      <4>1. handler'[t] \in {[handler[t] EXCEPT !.pc = "record_attach"], Idle}
        BY <3>1, StepOthers DEF RecordTest
      <4>2. QED  BY <1>1, <4>1 DEF Handler, Idle
    <3>2. ASSUME VerifyPut(t)
          PROVE  handler'[t].snap \in {handler[t].snap, EmptyState}
      <4>1. CASE latest = None
        BY <3>2, <4>1, StepOthers DEF VerifyPut, Idle
      <4>2. CASE latest # None
        <5>1. PICK p : Step(t, [handler[t] EXCEPT !.pc = "verify_attach",
                                                  !.ans = p])
          BY <3>2, <4>2 DEF VerifyPut
        <5>2. handler'[t] = [handler[t] EXCEPT !.pc = "verify_attach",
                                               !.ans = p]
          BY <5>1, StepOthers
        <5>3. QED  BY <1>1, <5>2 DEF Handler
      <4>3. QED  BY <4>1, <4>2
    <3>3. QED
      BY <1>1, <1>3, <3>1, <3>2 DEF RecordPut, RecordAttach, VerifyAttach,
                                    Handler, Step, TypeOK
  <2>2. UNCHANGED disk
    BY <1>3 DEF RecordPut, RecordTest, RecordAttach, VerifyPut, VerifyAttach,
                serverVars
  <2>3. QED  BY <1>2, <2>1, <2>2 DEF HistoryInv, HistoryIsSound
<1>4. CASE SaveLatestLoad(t) \/ SaveHistoryLoad(t) \/ SaveProofLoad(t)
  <2>1. handler'[t].snap = disk
    BY ZenonT(40), <1>1, <1>4 DEF SaveLatestLoad, SaveHistoryLoad, SaveProofLoad, Handler,
                      Step, TypeOK
  <2>2. UNCHANGED disk
    BY <1>4 DEF SaveLatestLoad, SaveHistoryLoad, SaveProofLoad, serverVars
  <2>3. QED  BY <1>2, <2>1, <2>2 DEF HistoryInv, HistoryIsSound
<1>5. CASE SaveLatestWrite(t) \/ SaveHistoryWrite(t) \/ SaveProofWrite(t)
  <2>1. handler'[t].snap = EmptyState
    <3>1. ASSUME SaveHistoryWrite(t) PROVE handler'[t].snap = EmptyState
      <4>1. handler'[t] = IF handler[t].op = "preflight" THEN Idle
                          ELSE [handler[t] EXCEPT !.pc = "proof_load",
                                                  !.ref = None,
                                                  !.snap = EmptyState]
        BY <3>1, StepOthers DEF SaveHistoryWrite
      <4>2. QED  BY <1>1, <4>1 DEF Handler, Idle
    <3>2. ASSUME SaveLatestWrite(t) PROVE handler'[t].snap = EmptyState
      <4>1. handler'[t] = [handler[t] EXCEPT !.pc = "history_load",
                                             !.snap = EmptyState]
        BY <3>2, StepOthers DEF SaveLatestWrite
      <4>2. QED  BY <1>1, <4>1 DEF Handler
    <3>3. ASSUME SaveProofWrite(t) PROVE handler'[t].snap = EmptyState
      BY <3>3, StepOthers DEF SaveProofWrite, Idle
    <3>4. QED  BY <1>5, <3>1, <3>2, <3>3
  <2>2. ASSUME SaveLatestWrite(t) PROVE IsHistory(disk'.history)
    BY <1>1, <2>2 DEF SaveLatestWrite, SetLatest, State
  <2>3. ASSUME SaveHistoryWrite(t) PROVE IsHistory(disk'.history)
    <3>1. heap[handler[t].ref] \in Assessment
      BY <1>1, <2>3 DEF SaveHistoryWrite, HandlerShape, Handler, TypeOK
    <3>2. /\ handler[t].snap.history \in Seq(Assessment)
          /\ disk'.history = Push(handler[t].snap.history, heap[handler[t].ref])
      BY <1>1, <2>3 DEF SaveHistoryWrite, PushHistory, State
    <3>3. QED  BY <1>1, <3>1, <3>2, PushProperties
  <2>4. ASSUME SaveProofWrite(t) PROVE IsHistory(disk'.history)
    BY <1>1, <2>4 DEF SaveProofWrite, SetProof, State
  <2>5. IsHistory(disk'.history)
    BY <1>5, <2>2, <2>3, <2>4
  <2>6. QED  BY <1>2, <2>1, <2>5 DEF HistoryInv, HistoryIsSound
<1>6. QED  BY <1>3, <1>4, <1>5 DEF Continue

LEMMA HistoryInvariant == Spec => []HistoryInv
<1>1. Init => HistoryInv
  BY EmptyStateType
     DEF Init, HistoryInv, HistoryIsSound, SnapshotsAreSound, Idle
<1>2. TypeOK /\ Shape /\ HistoryInv /\ [Next]_vars => HistoryInv'
  <2> SUFFICES ASSUME TypeOK, Shape, HistoryInv, [Next]_vars
               PROVE  HistoryInv'
    OBVIOUS
  <2>1. CASE UNCHANGED vars
    BY <2>1 DEF vars, serverVars, HistoryInv, HistoryIsSound, SnapshotsAreSound
  <2>2. CASE CrashRestart
    BY <2>2, EmptyStateType
       DEF CrashRestart, HistoryInv, HistoryIsSound, SnapshotsAreSound, Idle
  <2>3. QED  BY <2>1, <2>2, HistoryRequest, HistoryContinue DEF Next
<1>3. QED  BY <1>1, <1>2, Invariant, PTL DEF Spec

\* Whatever the interleaving of saves and crashes, the history in the file
\* has no assessment twice and never outgrows its cap.
THEOREM HistorySound == Spec => []HistoryIsSound
<1>1. HistoryInv => HistoryIsSound
  BY DEF HistoryInv
<1>2. QED  BY <1>1, HistoryInvariant, PTL

-----------------------------------------------------------------------------
(* Nothing claims a record that no confirmed call asked for.               *)

BackedInv == ProofsAreBacked /\ AnswersAreBacked

LEMMA BackedMonotone ==
    ASSUME NEW few, NEW many, few \subseteq many
    PROVE  /\ \A p : Backed(p, few) => Backed(p, many)
           /\ \A s : StateIsBacked(s, few) => StateIsBacked(s, many)
           /\ \A r : HandlerIsBacked(r, few) => HandlerIsBacked(r, many)
<1>1. \A p : Backed(p, few) => Backed(p, many)
  BY DEF Backed
<1>2. \A s : StateIsBacked(s, few) => StateIsBacked(s, many)
  BY <1>1 DEF StateIsBacked
<1>3. QED  BY <1>1, <1>2 DEF HandlerIsBacked

LEMMA EmptyStateIsBacked ==
    ASSUME NEW hashes PROVE StateIsBacked(EmptyState, hashes)
<1>1. DOMAIN EmptyState.history = {}
  BY EmptySeq, LenProperties DEF EmptyState
<1>2. QED  BY <1>1 DEF StateIsBacked, EmptyState

\* What a handler's step has to establish about that handler.
LEMMA BackedStep ==
    ASSUME TypeOK, BackedInv, NEW t \in Threads, NEW r, Step(t, r),
           confirmed \subseteq confirmed',
           HandlerIsBacked(r, confirmed'),
           r.pc = "verify_put" => r.ans.tx # None /\ r.ans.recorded = r.hash
    PROVE  /\ \A u \in Threads : HandlerIsBacked(handler'[u], confirmed')
           /\ AnswersAreBacked'
<1>1. /\ handler'[t] = r
      /\ \A u \in Threads : u # t => handler'[u] = handler[u]
  BY StepOthers
<1>2. \A u \in Threads : HandlerIsBacked(handler[u], confirmed')
  BY BackedMonotone DEF BackedInv, ProofsAreBacked
<1>3. QED  BY <1>1, <1>2 DEF BackedInv, AnswersAreBacked

\* Memory and file are backed still if they do not change.
LEMMA BackedElsewhere ==
    ASSUME TypeOK, BackedInv, confirmed \subseteq confirmed'
    PROVE  /\ \A r \in Refs : heap[r] # None => Backed(heap[r].proof, confirmed')
           /\ \A h \in Hashes : store[h] # None => Backed(store[h], confirmed')
           /\ StateIsBacked(disk, confirmed')
           /\ \A u \in Threads : HandlerIsBacked(handler[u], confirmed')
  BY BackedMonotone DEF BackedInv, ProofsAreBacked

LEMMA PreflightBacked ==
    ASSUME TypeOK, Shape, BackedInv, NEW t \in Threads, NEW h \in Hashes,
           Preflight(t, h)
    PROVE  BackedInv'
<1>1. PICK r \in Refs :
         /\ Step(t, [Idle EXCEPT !.pc = "latest_load", !.op = "preflight",
                                 !.ref = r])
         /\ heap' = Collect([heap EXCEPT ![r] = [hash |-> h,
                                                 proof |-> InitialProof]],
                            r, handler')
  BY DEF Preflight
<1> DEFINE me == [Idle EXCEPT !.pc = "latest_load", !.op = "preflight",
                              !.ref = r]
           objects == [heap EXCEPT ![r] = [hash |-> h, proof |-> InitialProof]]
<1>2. UNCHANGED <<store, disk, confirmed>>
  BY DEF Preflight, historyVars
<1>3. InitialProof \in Proof /\ Backed(InitialProof, confirmed)
  BY DEF InitialProof, Proof, Statuses, Backed
<1>4. /\ objects \in [Refs -> Assessment \cup {None}]
      /\ \A x \in Refs : objects[x] # None =>
            Backed(objects[x].proof, confirmed)
  <2>1. [hash |-> h, proof |-> InitialProof] \in Assessment
    BY <1>3 DEF Assessment
  <2>2. objects \in [Refs -> Assessment \cup {None}]
    BY <2>1 DEF TypeOK
  <2>3. ASSUME NEW x \in Refs, objects[x] # None
        PROVE  Backed(objects[x].proof, confirmed)
    <3>1. CASE x = r
      BY <1>3, <3>1 DEF TypeOK
    <3>2. CASE x # r
      BY <2>3, <3>2 DEF TypeOK, BackedInv, ProofsAreBacked
    <3>3. QED  BY <3>1, <3>2
  <2>4. QED  BY <2>2, <2>3
<1>5. /\ me.pc = "latest_load" /\ me.ans = None /\ me.snap = EmptyState
  BY DEF Idle
<1>6. HandlerIsBacked(me, confirmed)
  BY <1>5, EmptyStateIsBacked DEF HandlerIsBacked
<1> HIDE DEF me, objects
<1>7. Step(t, me) /\ heap' = Collect(objects, r, handler')
  BY <1>1 DEF me, objects
<1>8. \A x \in Refs : heap'[x] # None => Backed(heap'[x].proof, confirmed)
  BY <1>4, <1>7, CollectType
<1>9. /\ \A u \in Threads : HandlerIsBacked(handler'[u], confirmed')
      /\ AnswersAreBacked'
  BY <1>2, <1>5, <1>6, <1>7, BackedStep
<1>10. QED
  BY <1>2, <1>8, <1>9, BackedElsewhere DEF BackedInv, ProofsAreBacked

LEMMA RecordAcceptBacked ==
    ASSUME TypeOK, Shape, BackedInv, NEW t \in Threads, NEW h \in Hashes,
           NEW sure \in BOOLEAN, RecordAccept(t, h, sure)
    PROVE  BackedInv'
<1> DEFINE me == [Idle EXCEPT !.pc = "record_put", !.op = "record", !.hash = h,
                              !.ans = RecordedProof(h)]
<1>1. /\ Step(t, me)
      /\ confirmed' = IF env.tx # None THEN confirmed \cup {h} ELSE confirmed
      /\ UNCHANGED <<heap, store, disk>>
  BY DEF RecordAccept, Accepts, serverVars
<1>2. Backed(RecordedProof(h), confirmed')
  BY <1>1 DEF RecordedProof, Backed
<1>3. me.pc = "record_put" /\ me.ans = RecordedProof(h) /\ me.snap = EmptyState
  BY DEF Idle
<1> HIDE DEF me
<1>4. HandlerIsBacked(me, confirmed')
  BY <1>2, <1>3, EmptyStateIsBacked DEF HandlerIsBacked
<1>5. confirmed \subseteq confirmed'
  BY <1>1
<1>6. /\ \A u \in Threads : HandlerIsBacked(handler'[u], confirmed')
      /\ AnswersAreBacked'
  BY <1>1, <1>3, <1>4, <1>5, BackedStep
<1>7. QED
  BY <1>1, <1>5, <1>6, BackedElsewhere DEF BackedInv, ProofsAreBacked

\* The steps that move a proof from the handler into memory or the file, or
\* that load the file into the handler.
LEMMA PutBacked ==
    ASSUME TypeOK, Shape, BackedInv, NEW t \in Threads,
           RecordPut(t) \/ RecordTest(t)
    PROVE  BackedInv'
<1>1. /\ handler[t] \in Handler /\ HandlerShape(t) /\ handler[t].ans # None
      /\ HandlerIsBacked(handler[t], confirmed)
  BY DEF TypeOK, Shape, HandlerShape, RecordPut, RecordTest, BackedInv,
         ProofsAreBacked
<1> DEFINE test == [handler[t] EXCEPT !.pc = "record_test"]
           attach == [handler[t] EXCEPT !.pc = "record_attach"]
<1>2. /\ test.pc = "record_test" /\ attach.pc = "record_attach"
      /\ Idle.pc = "idle"
      /\ HandlerIsBacked(test, confirmed) /\ HandlerIsBacked(attach, confirmed)
      /\ HandlerIsBacked(Idle, confirmed)
  BY <1>1, EmptyStateIsBacked DEF HandlerIsBacked, Handler, Idle
<1>3. UNCHANGED <<heap, disk, confirmed>>
  BY DEF RecordPut, RecordTest, serverVars, historyVars
<1>4. Step(t, test) \/ Step(t, attach) \/ Step(t, Idle)
  BY DEF RecordPut, RecordTest
<1> HIDE DEF test, attach
<1>5. /\ \A u \in Threads : HandlerIsBacked(handler'[u], confirmed')
      /\ AnswersAreBacked'
  BY <1>2, <1>3, <1>4, BackedStep
<1>6. \A h \in Hashes : store'[h] # None => Backed(store'[h], confirmed')
  <2>1. CASE RecordPut(t)
    BY <1>1, <1>3, <2>1, BackedElsewhere DEF RecordPut, HandlerIsBacked, TypeOK
  <2>2. CASE RecordTest(t)
    BY <1>3, <2>2, BackedElsewhere DEF RecordTest, serverVars
  <2>3. QED  BY <2>1, <2>2
<1>7. QED  BY <1>3, <1>5, <1>6, BackedElsewhere DEF BackedInv, ProofsAreBacked

LEMMA AttachBacked ==
    ASSUME TypeOK, Shape, BackedInv, NEW t \in Threads,
           RecordAttach(t) \/ VerifyAttach(t)
    PROVE  BackedInv'
<1> DEFINE me == [handler[t] EXCEPT !.pc = "latest_load"]
<1>1. /\ handler[t] \in Handler /\ HandlerShape(t)
      /\ handler[t].ans \in Proof /\ latest # None
      /\ HandlerIsBacked(handler[t], confirmed)
  BY DEF TypeOK, Shape, HandlerShape, Handler, RecordAttach, VerifyAttach,
         BackedInv, ProofsAreBacked
<1>2. me.pc = "latest_load" /\ HandlerIsBacked(me, confirmed)
  BY <1>1 DEF HandlerIsBacked, Handler
<1>3. /\ Step(t, me)
      /\ heap' = [heap EXCEPT ![latest].proof = handler[t].ans]
      /\ UNCHANGED <<store, disk, confirmed>>
  BY DEF RecordAttach, VerifyAttach, historyVars
<1> HIDE DEF me
<1>4. /\ \A u \in Threads : HandlerIsBacked(handler'[u], confirmed')
      /\ AnswersAreBacked'
  BY <1>2, <1>3, BackedStep
<1>5. Backed(handler[t].ans, confirmed)
  BY <1>1, NoneAssumption DEF HandlerIsBacked
<1>6. /\ \A r \in Refs : r # latest => heap'[r] = heap[r]
      /\ heap'[latest].proof = handler[t].ans
  <2>1. /\ \A r \in Refs : r # latest => heap'[r] = heap[r]
        /\ heap'[latest] = [hash |-> LatestHash, proof |-> handler[t].ans]
    BY <1>1, <1>3, AttachType
  <2>2. QED  BY <2>1
<1>7. \A r \in Refs : heap'[r] # None => Backed(heap'[r].proof, confirmed')
  BY <1>3, <1>5, <1>6 DEF BackedInv, ProofsAreBacked
<1>8. QED  BY <1>3, <1>4, <1>7, BackedElsewhere DEF BackedInv, ProofsAreBacked

LEMMA VerifyMatchBacked ==
    ASSUME TypeOK, Shape, BackedInv, NEW t \in Threads, NEW h \in Hashes,
           NEW tx \in Txs \cup {None}, VerifyMatch(t, h, tx)
    PROVE  BackedInv'
<1> DEFINE me == [Idle EXCEPT !.pc = "verify_put", !.op = "verify", !.hash = h,
                              !.tx = tx, !.ans = RecordFor(h)]
<1>1. Step(t, me) /\ UNCHANGED <<heap, store, disk, confirmed>>
  BY DEF VerifyMatch, serverVars, historyVars
<1>2. /\ RecordFor(h).tx # None /\ RecordFor(h).recorded = h
      /\ Backed(RecordFor(h), confirmed)
  BY RecordForType, NoneAssumption DEF VerifyMatch, BackedInv, ProofsAreBacked
<1>3. /\ me.pc = "verify_put" /\ me.hash = h /\ me.ans = RecordFor(h)
      /\ me.snap = EmptyState
  BY DEF Idle
<1> HIDE DEF me
<1>4. HandlerIsBacked(me, confirmed)
  BY <1>2, <1>3, EmptyStateIsBacked DEF HandlerIsBacked
<1>5. /\ \A u \in Threads : HandlerIsBacked(handler'[u], confirmed')
      /\ AnswersAreBacked'
  BY <1>1, <1>2, <1>3, <1>4, BackedStep
<1>6. QED  BY <1>1, <1>5, BackedElsewhere DEF BackedInv, ProofsAreBacked

LEMMA VerifyPutBacked ==
    ASSUME TypeOK, Shape, BackedInv, NEW t \in Threads, VerifyPut(t)
    PROVE  /\ BackedInv'
           /\ handler[t].hash \in confirmed /\ handler[t].hash \in Hashes
<1> DEFINE record == [handler[t].ans EXCEPT !.status = "verified_matched"]
           verified == IF handler[t].tx = None THEN record
                       ELSE [record EXCEPT !.tx = handler[t].tx]
           on == [handler[t] EXCEPT !.pc = "verify_attach", !.ans = verified]
           me == IF latest = None THEN Idle ELSE on
<1>1. /\ handler[t] \in Handler /\ handler[t].hash \in Hashes
      /\ handler[t].ans \in Proof /\ handler[t].ans.tx # None
      /\ handler[t].ans.recorded = handler[t].hash
      /\ HandlerIsBacked(handler[t], confirmed)
  BY DEF TypeOK, Shape, HandlerShape, Handler, VerifyPut, BackedInv,
         ProofsAreBacked, AnswersAreBacked
<1>2. handler[t].hash \in confirmed
  BY <1>1, NoneAssumption DEF HandlerIsBacked, Backed
<1>3. Backed(record, confirmed) /\ Backed(verified, confirmed)
  BY <1>1, <1>2 DEF Backed, Proof, Statuses
<1>4. /\ Step(t, me)
      /\ store' = [store EXCEPT ![handler[t].hash] = record]
      /\ UNCHANGED <<heap, disk, confirmed>>
  BY DEF VerifyPut
<1> HIDE DEF verified, record
<1>5. /\ on.pc = "verify_attach" /\ Idle.pc = "idle"
      /\ HandlerIsBacked(on, confirmed) /\ HandlerIsBacked(Idle, confirmed)
  BY <1>1, <1>3, EmptyStateIsBacked DEF HandlerIsBacked, Handler, Idle
<1> HIDE DEF on
<1>6. me.pc # "verify_put" /\ HandlerIsBacked(me, confirmed)
  BY <1>5
<1> HIDE DEF me
<1>7. /\ \A u \in Threads : HandlerIsBacked(handler'[u], confirmed')
      /\ AnswersAreBacked'
  BY <1>4, <1>6, BackedStep
<1>8. \A h \in Hashes : store'[h] # None => Backed(store'[h], confirmed')
  BY <1>3, <1>4 DEF TypeOK, BackedInv, ProofsAreBacked
<1>9. QED
  BY <1>1, <1>2, <1>4, <1>7, <1>8, BackedElsewhere DEF BackedInv, ProofsAreBacked

LEMMA LoadBacked ==
    ASSUME TypeOK, Shape, BackedInv, NEW t \in Threads,
           \/ SaveLatestLoad(t) \/ SaveHistoryLoad(t) \/ SaveProofLoad(t)
    PROVE  BackedInv'
<1>1. /\ handler[t] \in Handler /\ HandlerShape(t)
      /\ HandlerIsBacked(handler[t], confirmed)
      /\ StateIsBacked(disk, confirmed)
  BY DEF TypeOK, Shape, BackedInv, ProofsAreBacked
<1>2. UNCHANGED <<store, disk, confirmed>>
  BY DEF SaveLatestLoad, SaveHistoryLoad, SaveProofLoad, serverVars, historyVars
<1>3. \A r \in Refs : heap'[r] \in {heap[r], None}
  BY CollectType DEF TypeOK, SaveLatestLoad, SaveHistoryLoad, SaveProofLoad,
                     serverVars
<1>4. CASE SaveLatestLoad(t) \/ SaveHistoryLoad(t)
  <2>1. PICK pc \in {"latest_write", "history_write"} :
           Step(t, [handler[t] EXCEPT !.pc = pc, !.ref = SavedRef(t),
                                      !.snap = disk])
    BY <1>4 DEF SaveLatestLoad, SaveHistoryLoad
  <2> DEFINE me == [handler[t] EXCEPT !.pc = pc, !.ref = SavedRef(t),
                                      !.snap = disk]
  <2>2. me.pc = pc /\ HandlerIsBacked(me, confirmed)
    BY <1>1 DEF HandlerIsBacked, Handler
  <2> HIDE DEF me
  <2>3. Step(t, me)
    BY <2>1 DEF me
  <2>4. QED
    BY <1>2, <1>3, <2>2, <2>3, BackedStep, BackedElsewhere
       DEF BackedInv, ProofsAreBacked
<1>5. CASE SaveProofLoad(t)
  <2> DEFINE recording == [handler[t] EXCEPT !.pc = "proof_write",
                                             !.snap = disk]
             verifying == [handler[t] EXCEPT !.pc = "proof_write",
                                             !.snap = disk,
                                             !.hash = LatestHash,
                                             !.ans = heap[latest].proof]
  <2>1. latest \in Refs /\ heap[latest] # None
    BY <1>1, <1>5 DEF SaveProofLoad, HandlerShape, Saving, TypeOK, Shape
  <2>2. Backed(heap[latest].proof, confirmed)
    BY <2>1 DEF BackedInv, ProofsAreBacked
  <2>3. /\ recording.pc = "proof_write" /\ verifying.pc = "proof_write"
        /\ HandlerIsBacked(recording, confirmed)
        /\ HandlerIsBacked(verifying, confirmed)
    BY <1>1, <2>2 DEF HandlerIsBacked, Handler
  <2>4. Step(t, recording) \/ Step(t, verifying)
    BY <1>5 DEF SaveProofLoad
  <2> HIDE DEF recording, verifying
  <2>5. QED
    BY <1>2, <1>3, <2>3, <2>4, BackedStep, BackedElsewhere
       DEF BackedInv, ProofsAreBacked
<1>6. QED  BY <1>4, <1>5

LEMMA WriteBacked ==
    ASSUME TypeOK, Shape, BackedInv, NEW t \in Threads,
           \/ SaveLatestWrite(t) \/ SaveHistoryWrite(t) \/ SaveProofWrite(t)
    PROVE  BackedInv'
<1> DEFINE snap == handler[t].snap
           saved == heap[handler[t].ref]
<1>1. /\ handler[t] \in Handler /\ HandlerShape(t) /\ snap \in State
      /\ HandlerIsBacked(handler[t], confirmed)
      /\ StateIsBacked(snap, confirmed)
  BY DEF TypeOK, Shape, BackedInv, ProofsAreBacked, Handler, HandlerIsBacked
<1>2. UNCHANGED <<store, confirmed>>
  BY DEF SaveLatestWrite, SaveHistoryWrite, SaveProofWrite, historyVars
<1>3. \A r \in Refs : heap'[r] \in {heap[r], None}
  BY CollectType DEF TypeOK, SaveLatestWrite, SaveHistoryWrite, SaveProofWrite
<1>4. ASSUME SaveLatestWrite(t) \/ SaveHistoryWrite(t)
      PROVE  saved \in Assessment /\ Backed(saved.proof, confirmed)
  BY <1>1, <1>4 DEF SaveLatestWrite, SaveHistoryWrite, HandlerShape, Handler,
                    TypeOK, BackedInv, ProofsAreBacked
<1>5. \E r : Step(t, r) /\ r.pc # "verify_put" /\ HandlerIsBacked(r, confirmed)
  <2> DEFINE first == [handler[t] EXCEPT !.pc = "history_load",
                                         !.snap = EmptyState]
             second == [handler[t] EXCEPT !.pc = "proof_load", !.ref = None,
                                          !.snap = EmptyState]
  <2>1. /\ first.pc = "history_load" /\ HandlerIsBacked(first, confirmed)
        /\ second.pc = "proof_load" /\ HandlerIsBacked(second, confirmed)
        /\ Idle.pc = "idle" /\ HandlerIsBacked(Idle, confirmed)
    BY <1>1, EmptyStateIsBacked DEF HandlerIsBacked, Handler, Idle
  <2>2. Step(t, first) \/ Step(t, second) \/ Step(t, Idle)
    BY DEF SaveLatestWrite, SaveHistoryWrite, SaveProofWrite
  <2> HIDE DEF first, second
  <2>3. QED  BY <2>1, <2>2
<1>6. StateIsBacked(disk', confirmed)
  <2>1. CASE SaveLatestWrite(t)
    <3>1. disk' = [snap EXCEPT !.latest = saved]
      BY <2>1 DEF SaveLatestWrite, SetLatest
    <3>2. /\ disk'.latest = saved /\ disk'.history = snap.history
          /\ disk'.proofs = snap.proofs
      BY <1>1, <3>1 DEF State
    <3>3. QED  BY <1>1, <1>4, <2>1, <3>2 DEF StateIsBacked
  <2>2. CASE SaveHistoryWrite(t)
    <3>1. disk' = [snap EXCEPT !.history = Push(snap.history, saved)]
      BY <2>2 DEF SaveHistoryWrite, PushHistory
    <3>2. /\ disk'.latest = snap.latest /\ disk'.proofs = snap.proofs
          /\ disk'.history = Push(snap.history, saved)
          /\ snap.history \in Seq(Assessment)
      BY <1>1, <3>1 DEF State
    <3> HIDE DEF snap, saved
    <3>3. \A j \in DOMAIN disk'.history :
             \/ disk'.history[j] = saved
             \/ \E i \in DOMAIN snap.history : disk'.history[j] = snap.history[i]
      BY <1>4, <2>2, <3>2, PushProperties
    <3>4. QED  BY <1>1, <1>4, <2>2, <3>2, <3>3 DEF StateIsBacked
  <2>3. CASE SaveProofWrite(t)
    <3>1. disk' = [snap EXCEPT !.proofs[handler[t].hash] = handler[t].ans]
      BY <2>3 DEF SaveProofWrite, SetProof
    <3>2. /\ disk'.latest = snap.latest /\ disk'.history = snap.history
          /\ disk'.proofs = [snap.proofs EXCEPT ![handler[t].hash]
                                                 = handler[t].ans]
          /\ snap.proofs \in [Hashes -> Proof \cup {None}]
      BY <1>1, <3>1 DEF State
    <3>3. QED  BY <1>1, <3>2 DEF StateIsBacked, HandlerIsBacked
  <2>4. QED  BY <2>1, <2>2, <2>3
<1>7. /\ \A u \in Threads : HandlerIsBacked(handler'[u], confirmed')
      /\ AnswersAreBacked'
  BY <1>2, <1>5, BackedStep
<1>8. QED
  BY <1>2, <1>3, <1>6, <1>7, BackedElsewhere DEF BackedInv, ProofsAreBacked

LEMMA CrashBacked ==
    ASSUME TypeOK, Shape, BackedInv, CrashRestart
    PROVE  BackedInv'
<1>1. PICK r \in Refs :
         heap' = [x \in Refs |-> IF x = r THEN disk.latest ELSE None]
  BY DEF CrashRestart
<1>2. /\ store' = disk.proofs /\ UNCHANGED <<disk, confirmed>>
      /\ \A t \in Threads : handler'[t] = Idle
  BY DEF CrashRestart, historyVars
<1>3. StateIsBacked(disk, confirmed)
  BY DEF BackedInv, ProofsAreBacked
<1>4. HandlerIsBacked(Idle, confirmed) /\ Idle.pc = "idle"
  BY EmptyStateIsBacked DEF HandlerIsBacked, Idle
<1>5. ProofsAreBacked'
  BY <1>1, <1>2, <1>3, <1>4 DEF ProofsAreBacked, StateIsBacked
<1>6. QED  BY <1>2, <1>4, <1>5 DEF BackedInv, AnswersAreBacked

LEMMA BackedNext == TypeOK /\ Shape /\ BackedInv /\ [Next]_vars => BackedInv'
<1> SUFFICES ASSUME TypeOK, Shape, BackedInv, [Next]_vars
             PROVE  BackedInv'
  OBVIOUS
<1>1. CASE UNCHANGED vars
  BY <1>1 DEF vars, serverVars, historyVars, BackedInv, ProofsAreBacked,
              AnswersAreBacked
<1>2. ASSUME NEW t \in Threads, Request(t)
      PROVE  BackedInv'
  <2>1. PICK h \in Hashes :
           \/ Preflight(t, h)
           \/ \E sure \in BOOLEAN : RecordRefuse(t, h, sure)
           \/ \E sure \in BOOLEAN : RecordAccept(t, h, sure)
           \/ VerifyRefuse(t, h)
           \/ \E tx \in Txs \cup {None} : VerifyMatch(t, h, tx)
    BY <1>2 DEF Request
  <2>2. QED
    BY <1>1, <2>1, PreflightBacked, RecordAcceptBacked, VerifyMatchBacked
       DEF RecordRefuse, VerifyRefuse
<1>3. ASSUME NEW t \in Threads, Continue(t)
      PROVE  BackedInv'
  BY <1>3, PutBacked, AttachBacked, VerifyPutBacked, LoadBacked, WriteBacked
     DEF Continue
<1>4. CASE CrashRestart
  BY <1>4, CrashBacked
<1>5. QED  BY <1>1, <1>2, <1>3, <1>4 DEF Next

LEMMA BackedInvariant == Spec => []BackedInv
<1>1. Init => BackedInv
  <2> SUFFICES ASSUME Init PROVE BackedInv
    OBVIOUS
  <2>1. HandlerIsBacked(Idle, confirmed) /\ Idle.pc = "idle"
    BY EmptyStateIsBacked DEF HandlerIsBacked, Idle
  <2>2. StateIsBacked(EmptyState, confirmed)
    BY EmptyStateIsBacked
  <2>3. QED
    BY <2>1, <2>2 DEF Init, BackedInv, ProofsAreBacked, AnswersAreBacked,
                      EmptyState
<1>2. QED  BY <1>1, BackedNext, Invariant, PTL DEF Spec

\* Wherever a proof is kept it claims a transaction only for a hash that a
\* confirmed record call recorded.
THEOREM AlwaysBacked == Spec => []ProofsAreBacked
<1>1. BackedInv => ProofsAreBacked
  BY DEF BackedInv
<1>2. QED  BY <1>1, BackedInvariant, PTL

\* The server implements the promise of the proof endpoints: what it answers
\* verified_matched was recorded by a confirmed call, before, with a tx.
THEOREM Refinement == Spec => PromisesKept
<1>1. Init => Book!Init
  BY DEF Init, Book!Init
<1>2. ASSUME TypeOK, Shape, BackedInv, [Next]_vars
      PROVE  [Book!Next]_(Book!vars)
  <2>1. CASE UNCHANGED vars
    BY <2>1 DEF vars, historyVars, Book!vars
  <2>2. ASSUME NEW t \in Threads, Request(t)
        PROVE  [Book!Next]_(Book!vars)
    <3>1. PICK h \in Hashes :
             \/ Preflight(t, h)
             \/ \E sure \in BOOLEAN : RecordRefuse(t, h, sure)
             \/ \E sure \in BOOLEAN : RecordAccept(t, h, sure)
             \/ VerifyRefuse(t, h)
             \/ \E tx \in Txs \cup {None} : VerifyMatch(t, h, tx)
      BY <2>2 DEF Request
    <3>2. \/ UNCHANGED <<confirmed, answered>>
          \/ confirmed' = confirmed \cup {h} /\ UNCHANGED answered
      BY <3>1 DEF Preflight, RecordRefuse, RecordAccept, VerifyRefuse,
                  VerifyMatch, vars, historyVars
    <3>3. QED  BY <3>2 DEF Book!vars, Book!Next, Book!Confirm
  <2>3. ASSUME NEW t \in Threads, VerifyPut(t)
        PROVE  [Book!Next]_(Book!vars)
    <3>1. /\ handler[t].hash \in confirmed /\ handler[t].hash \in Hashes
          /\ answered' = answered \cup {handler[t].hash}
          /\ UNCHANGED confirmed
      BY <1>2, <2>3, VerifyPutBacked DEF VerifyPut
    <3>2. QED  BY <3>1 DEF Book!Next, Book!Answer
  <2>4. ASSUME NEW t \in Threads, Continue(t), ~VerifyPut(t)
        PROVE  UNCHANGED <<confirmed, answered>>
    BY <2>4 DEF Continue, RecordPut, RecordTest, RecordAttach, VerifyAttach,
                SaveLatestLoad, SaveLatestWrite, SaveHistoryLoad,
                SaveHistoryWrite, SaveProofLoad, SaveProofWrite, historyVars
  <2>5. CASE CrashRestart
    BY <2>5 DEF CrashRestart, historyVars, Book!vars
  <2>6. QED
    BY <1>2, <2>1, <2>2, <2>3, <2>4, <2>5 DEF Next, Book!vars
<1>3. QED
  BY <1>1, <1>2, Invariant, BackedInvariant, PTL
     DEF Spec, PromisesKept, Book!Spec

-----------------------------------------------------------------------------
(* Calls that come one after the other: for any number of hashes,           *)
(* transactions and calls, whichever hash a client names, with crashes and  *)
(* changes of the environment at any point.                                 *)

\* The next call is sent when the last one has been answered.
OneAtATime == \E t : Threads = {t}

-----------------------------------------------------------------------------
(* The inductive invariant.                                                *)

\* An assessment with the proof of another hash: one was misfiled there, and
\* what that proof is good for is known to the file as well.
Borrowed(assessment) ==
    /\ assessment # None
    /\ assessment.proof.recorded \notin {None, assessment.hash}

Known(h) == h \in Lost \/ Verifiable(disk.proofs[h], h)

Honest(assessment) ==
    Borrowed(assessment) => Known(assessment.proof.recorded)

StateOwns(state) ==
    /\ Owns(state.latest)
    /\ \A i \in DOMAIN state.history : Owns(state.history[i])

OwnRecords(proofs) ==
    \A h \in Hashes \ misfiled : proofs[h] # None => proofs[h].recorded = h

\* Only the latest assessment is still an object in memory.
Owned ==
    /\ \A r \in Refs : Owns(heap[r]) /\ (heap[r] # None => r = latest)
    /\ StateOwns(disk)
    /\ OwnRecords(store) /\ OwnRecords(disk.proofs)
    /\ Honest(LatestValue) /\ Honest(disk.latest)

Proving(t) == handler[t].pc # "idle" /\ handler[t].op # "preflight"

Recording(t) == Proving(t) /\ handler[t].op = "record"

Verifying(t) == Proving(t) /\ handler[t].op # "record"

\* What a record call works for: its own hash, which is the latest one once
\* there is a latest one.
RecordsOwn(t) ==
    Recording(t) =>
        /\ handler[t].hash \in Hashes
        /\ handler[t].ans.recorded = handler[t].hash
        /\ latest # None => handler[t].hash = LatestHash
        /\ handler[t].pc # "record_put" =>
              store[handler[t].hash] = handler[t].ans
        /\ handler[t].pc \in Saving => heap[latest].proof = handler[t].ans

\* What a verification works for: a record that PROOF_STORE keeps, which is
\* the latest assessment's own, or one that the file knows.
VerifiesKnown(t) ==
    /\ handler[t].pc \in {"verify_put", "verify_attach"}
          => handler[t].op = "verify"
    /\ Verifying(t) =>
        /\ handler[t].ans.recorded \in Hashes
        /\ handler[t].ans.tx # None
        /\ handler[t].hash = IF handler[t].pc = "proof_write" THEN LatestHash
                             ELSE handler[t].ans.recorded
        /\ handler[t].pc # "verify_put" =>
              Verifiable(store[handler[t].ans.recorded],
                         handler[t].ans.recorded)
        /\ handler[t].pc \in {"verify_put", "verify_attach"} =>
              \/ latest # None /\ handler[t].ans.recorded = LatestHash
              \/ Known(handler[t].ans.recorded)
        /\ handler[t].pc \in Saving =>
              /\ heap[latest].proof.recorded = handler[t].ans.recorded
              /\ heap[latest].proof.tx # None
              /\ \/ handler[t].ans.recorded = LatestHash
                 \/ LatestHash \in misfiled

\* How far the save of the latest assessment has come.
FileFollows(t) ==
    /\ handler[t].pc = "proof_write" => handler[t].op # "preflight"
    /\ handler[t].pc \notin {"record_attach", "verify_attach", "latest_load",
                             "latest_write"}
          => disk.latest = LatestValue
    /\ handler[t].pc \in {"latest_write", "history_write", "proof_write"}
          => handler[t].snap = disk
    /\ handler[t].pc \in {"latest_write", "history_write"}
          => handler[t].ref = latest
    /\ handler[t].pc \in Saving /\ handler[t].op = "preflight"
          => handler[t].ref = latest
    /\ handler[t].pc \in {"proof_load", "proof_write"} =>
          \A i \in DOMAIN disk.history :
              disk.history[i].hash = LatestHash
                  => disk.history[i] = heap[latest]

SameAnswer(h) == Verifiable(disk.proofs[h], h) <=> Verifiable(store[h], h)

\* The handler has put its record of h into PROOF_STORE, on its way to h's
\* place in the file.
Ahead(t, h) ==
    /\ Proving(t)
    /\ handler[t].pc \notin {"record_put", "verify_put"}
    /\ handler[t].hash = h
    /\ handler[t].ans.recorded = h
    /\ Verifying(t) => latest # None /\ h = LatestHash

\* The file answers for each record as PROOF_STORE does, but for the one that
\* is on its way there and for those that are lost.
RecordsFollow(t) == \A h \in Hashes \ Lost : Ahead(t, h) \/ SameAnswer(h)

InStep(t) == /\ RecordsOwn(t)
             /\ VerifiesKnown(t)
             /\ FileFollows(t)
             /\ RecordsFollow(t)

SerialInv == Owned /\ AckedIsDurable /\ \A t \in Threads : InStep(t)

-----------------------------------------------------------------------------
(* The steps of a handler.                                                 *)

LEMMA OnlyThread ==
    ASSUME OneAtATime, TypeOK, NEW t \in Threads, NEW r, Step(t, r)
    PROVE  handler'[t] = r /\ \A u \in Threads : u = t
  BY DEF OneAtATime, TypeOK, Step

LEMMA SerialStep ==
    ASSUME OneAtATime, NEW t \in Threads, Owned', AckedIsDurable', InStep(t)'
    PROVE  SerialInv'
<1>1. \A u \in Threads : u = t
  BY DEF OneAtATime
<1>2. QED  BY <1>1 DEF SerialInv

\* What a step keeps that changes neither the proofs nor their owners.
LEMMA OwnedStays ==
    ASSUME Owned, AckedIsDurable,
           \A r \in Refs : heap'[r] \in {heap[r], None},
           LatestValue' = LatestValue, latest' = latest,
           UNCHANGED <<store, disk, acked, unsaved, misfiled>>
    PROVE  Owned' /\ AckedIsDurable'
<1>1. \A h : Known(h)' <=> Known(h)
  BY DEF Known, Lost, Verifiable
<1>2. Honest(LatestValue)' /\ Honest(disk.latest)'
  BY <1>1 DEF Owned, Honest, Borrowed
<1>3. StateOwns(disk)' /\ OwnRecords(store)' /\ OwnRecords(disk.proofs)'
  BY DEF Owned, StateOwns, OwnRecords, Owns
<1>4. \A r \in Refs : Owns(heap[r])' /\ (heap'[r] # None => r = latest')
  BY DEF Owned, Owns
<1>5. AckedIsDurable'
  BY DEF AckedIsDurable, Lost, Verifiable
<1>6. QED  BY <1>2, <1>3, <1>4, <1>5 DEF Owned

LEMMA PreflightSerial ==
    ASSUME OneAtATime, TypeOK, SerialInv, NEW t \in Threads, NEW h \in Hashes,
           Preflight(t, h)
    PROVE  SerialInv'
<1> DEFINE new == [hash |-> h, proof |-> InitialProof]
<1>1. PICK r \in Refs :
         /\ latest' = r
         /\ Step(t, [Idle EXCEPT !.pc = "latest_load", !.op = "preflight",
                                 !.ref = r])
         /\ heap' = Collect([heap EXCEPT ![r] = new], r, handler')
  BY DEF Preflight
<1>2. handler'[t] = [Idle EXCEPT !.pc = "latest_load", !.op = "preflight",
                                 !.ref = r]
  BY <1>1, OnlyThread
<1>3. /\ handler'[t].pc = "latest_load" /\ handler'[t].op = "preflight"
      /\ handler'[t].ref = r
  BY <1>2 DEF Idle
<1>4. UNCHANGED <<store, disk, acked, unsaved, misfiled>>
  BY DEF Preflight, historyVars
<1>5. handler[t].pc = "idle" /\ InStep(t)
  BY DEF Preflight, SerialInv
<1>6. \A x \in Refs : heap'[x] = IF x = r THEN new ELSE None
  <2>1. \A u \in Threads : handler'[u].ref = r
    BY <1>1, <1>3, OnlyThread
  <2>2. QED  BY <1>1, <2>1 DEF Collect, TypeOK
<1>7. new.hash = h /\ new.proof.recorded = None
  BY DEF InitialProof
<1>8. Owned'
  <2>1. \A g : Known(g)' <=> Known(g)
    BY <1>4 DEF Known, Lost, Verifiable
  <2>2. LatestValue' = new
    BY <1>1, <1>6, RefsAssumption DEF LatestValue
  <2>3. Honest(LatestValue)' /\ Honest(disk.latest)'
    BY <1>4, <1>7, <2>1, <2>2 DEF SerialInv, Owned, Honest, Borrowed
  <2>4. \A x \in Refs : Owns(heap[x])' /\ (heap'[x] # None => x = latest')
    BY <1>1, <1>6, <1>7 DEF Owns
  <2>5. StateOwns(disk)' /\ OwnRecords(store)' /\ OwnRecords(disk.proofs)'
    BY <1>4 DEF SerialInv, Owned, StateOwns, OwnRecords, Owns
  <2>6. QED  BY <2>3, <2>4, <2>5 DEF Owned
<1>9. AckedIsDurable'
  BY <1>4 DEF SerialInv, AckedIsDurable, Lost, Verifiable
<1>10. RecordsOwn(t)' /\ VerifiesKnown(t)' /\ FileFollows(t)'
  BY <1>1, <1>3
     DEF RecordsOwn, VerifiesKnown, FileFollows, Recording, Verifying, Proving
<1>11. RecordsFollow(t)'
  BY <1>4, <1>5
     DEF InStep, RecordsFollow, Ahead, Proving, SameAnswer, Lost, Verifiable
<1>12. QED  BY <1>8, <1>9, <1>10, <1>11, SerialStep DEF InStep

LEMMA RecordAcceptSerial ==
    ASSUME OneAtATime, TypeOK, SerialInv, NEW t \in Threads, NEW h \in Hashes,
           NEW sure \in BOOLEAN, RecordAccept(t, h, sure)
    PROVE  SerialInv'
<1>1. /\ handler'[t].pc = "record_put" /\ handler'[t].op = "record"
      /\ handler'[t].hash = h /\ handler'[t].ans.recorded = h
  <2>1. handler'[t] = [Idle EXCEPT !.pc = "record_put", !.op = "record",
                                   !.hash = h, !.ans = RecordedProof(h)]
    BY OnlyThread DEF RecordAccept
  <2>2. QED  BY <2>1 DEF Idle, RecordedProof
<1>2. /\ latest # None => h = LatestHash
      /\ handler[t].pc = "idle" /\ InStep(t)
  BY DEF RecordAccept, Accepts, SerialInv
<1>3. UNCHANGED <<latest, heap, store, disk, acked, unsaved, misfiled>>
  BY DEF RecordAccept, serverVars
<1>4. RecordsOwn(t)' /\ VerifiesKnown(t)' /\ FileFollows(t)'
  BY <1>1, <1>2, <1>3
     DEF InStep, RecordsOwn, VerifiesKnown, FileFollows, Recording, Verifying,
         Proving, Saving, LatestHash, LatestValue
<1>5. RecordsFollow(t)'
  BY <1>1, <1>2, <1>3
     DEF InStep, RecordsFollow, Ahead, Proving, SameAnswer, Lost, Verifiable
<1>6. Owned' /\ AckedIsDurable'
  BY <1>3, OwnedStays DEF SerialInv, LatestValue
<1>7. QED  BY <1>4, <1>5, <1>6, SerialStep DEF InStep

LEMMA VerifyMatchSerial ==
    ASSUME OneAtATime, TypeOK, Shape, SerialInv, NEW t \in Threads,
           NEW h \in Hashes, NEW tx \in Txs \cup {None}, VerifyMatch(t, h, tx)
    PROVE  SerialInv'
<1>1. /\ handler'[t].pc = "verify_put" /\ handler'[t].op = "verify"
      /\ handler'[t].hash = h /\ handler'[t].ans = RecordFor(h)
  <2>1. handler'[t] = [Idle EXCEPT !.pc = "verify_put", !.op = "verify",
                                   !.hash = h, !.tx = tx, !.ans = RecordFor(h)]
    BY OnlyThread DEF VerifyMatch
  <2>2. QED  BY <2>1 DEF Idle
<1>2. handler[t].pc = "idle" /\ InStep(t)
  BY DEF VerifyMatch, SerialInv
<1>3. UNCHANGED <<latest, heap, store, disk, acked, unsaved, misfiled>>
  BY DEF VerifyMatch, serverVars, historyVars
<1>4. Verifiable(RecordFor(h), h)
  BY DEF VerifyMatch, Matches, Verifiable
<1>5. (latest # None /\ h = LatestHash) \/ Known(h)
  <2>1. CASE store[h] # None
    <3>1. Verifiable(store[h], h)
      BY <1>4, <2>1 DEF RecordFor
    <3>2. h \in Lost \/ SameAnswer(h)
      BY <1>2 DEF InStep, RecordsFollow, Ahead, Proving
    <3>3. QED  BY <3>1, <3>2 DEF SameAnswer, Known
  <2>2. CASE store[h] = None
    <3>1. latest # None /\ heap[latest].proof.recorded = h
      BY <1>4, <2>2 DEF RecordFor, Verifiable
    <3>2. heap[latest] # None
      BY <3>1 DEF Shape
    <3>3. Honest(heap[latest])
      BY <3>1 DEF SerialInv, Owned, LatestValue
    <3>4. QED  BY <3>1, <3>2, <3>3, NoneAssumption DEF Honest, Borrowed, LatestHash
  <2>3. QED  BY <2>1, <2>2
<1>6. VerifiesKnown(t)'
  <2>1. Known(h)' <=> Known(h)
    BY <1>3 DEF Known, Lost, Verifiable
  <2>2. QED
    BY <1>1, <1>3, <1>4, <1>5, <2>1
       DEF VerifiesKnown, Verifying, Proving, Saving, Verifiable, LatestHash,
           Known
<1>7. RecordsOwn(t)' /\ FileFollows(t)'
  BY <1>1, <1>2, <1>3
     DEF InStep, RecordsOwn, FileFollows, Recording, Proving, Saving,
         LatestHash, LatestValue
<1>8. RecordsFollow(t)'
  BY <1>1, <1>2, <1>3
     DEF InStep, RecordsFollow, Ahead, Proving, SameAnswer, Lost, Verifiable
<1>9. Owned' /\ AckedIsDurable'
  BY <1>3, OwnedStays DEF SerialInv, LatestValue
<1>10. QED  BY <1>6, <1>7, <1>8, <1>9, SerialStep DEF InStep

LEMMA RecordPutSerial ==
    ASSUME OneAtATime, TypeOK, Shape, SerialInv, NEW t \in Threads, RecordPut(t)
    PROVE  SerialInv'
<1>1. /\ handler[t] \in Handler /\ handler[t].pc = "record_put"
      /\ handler[t].op = "record" /\ InStep(t)
  BY DEF TypeOK, RecordPut, Shape, HandlerShape, SerialInv
<1>2. /\ handler[t].hash \in Hashes
      /\ handler[t].ans.recorded = handler[t].hash
      /\ latest # None => handler[t].hash = LatestHash
  BY <1>1 DEF InStep, RecordsOwn, Recording, Proving
<1>3. handler'[t] = [handler[t] EXCEPT !.pc = "record_test"]
  BY OnlyThread DEF RecordPut
<1>4. /\ handler'[t].pc = "record_test" /\ handler'[t].op = "record"
      /\ handler'[t].hash = handler[t].hash /\ handler'[t].ans = handler[t].ans
  BY <1>1, <1>3 DEF Handler
<1>5. /\ UNCHANGED <<latest, heap, disk, acked, unsaved, misfiled>>
      /\ store' = [store EXCEPT ![handler[t].hash] = handler[t].ans]
  BY DEF RecordPut, historyVars
<1>6. /\ store'[handler[t].hash] = handler[t].ans
      /\ \A h \in Hashes : h # handler[t].hash => store'[h] = store[h]
  BY <1>2, <1>5 DEF TypeOK
<1>7. RecordsOwn(t)' /\ VerifiesKnown(t)' /\ FileFollows(t)'
  BY <1>1, <1>2, <1>4, <1>5, <1>6
     DEF InStep, RecordsOwn, VerifiesKnown, FileFollows, Recording, Verifying,
         Proving, Saving, LatestHash, LatestValue
<1>8. RecordsFollow(t)'
  <2> SUFFICES ASSUME NEW h \in Hashes, h \notin Lost, h # handler[t].hash
               PROVE  SameAnswer(h)'
    BY <1>2, <1>4, <1>5
       DEF RecordsFollow, Ahead, Proving, Verifying, Lost
  <2>1. SameAnswer(h)
    BY <1>1 DEF InStep, RecordsFollow, Ahead
  <2>2. QED  BY <1>5, <1>6, <2>1 DEF SameAnswer, Verifiable
<1>9. Owned'
  <2>1. OwnRecords(store)'
    BY <1>2, <1>5, <1>6 DEF SerialInv, Owned, OwnRecords
  <2>2. \A h : Known(h)' <=> Known(h)
    BY <1>5 DEF Known, Lost, Verifiable
  <2>3. Honest(LatestValue)' /\ Honest(disk.latest)'
    BY <1>5, <2>2 DEF SerialInv, Owned, Honest, Borrowed, LatestValue
  <2>4. QED
    BY <1>5, <2>1, <2>3 DEF SerialInv, Owned, StateOwns, OwnRecords, Owns
<1>10. AckedIsDurable'
  BY <1>5 DEF SerialInv, AckedIsDurable, Lost, Verifiable
<1>11. QED  BY <1>7, <1>8, <1>9, <1>10, SerialStep DEF InStep

\* The two ways on from the test: the record is attached to the latest
\* assessment, or there is none and the call is answered at once.
LEMMA RecordTestSerial ==
    ASSUME OneAtATime, TypeOK, Shape, SerialInv, NEW t \in Threads,
           RecordTest(t)
    PROVE  SerialInv'
<1>1. /\ handler[t] \in Handler /\ handler[t].pc = "record_test"
      /\ handler[t].op = "record" /\ InStep(t)
  BY DEF TypeOK, RecordTest, Shape, HandlerShape, SerialInv
<1>2. /\ handler[t].hash \in Hashes
      /\ handler[t].ans.recorded = handler[t].hash
      /\ latest # None => handler[t].hash = LatestHash
      /\ store[handler[t].hash] = handler[t].ans
  BY <1>1 DEF InStep, RecordsOwn, Recording, Proving
<1>3. UNCHANGED <<latest, heap, store, disk, misfiled>>
  BY DEF RecordTest, serverVars
<1>4. CASE latest # None
  <2>1. handler'[t] = [handler[t] EXCEPT !.pc = "record_attach"]
    BY <1>2, <1>4, OnlyThread DEF RecordTest
  <2>2. /\ handler'[t].pc = "record_attach" /\ handler'[t].op = "record"
        /\ handler'[t].hash = handler[t].hash
        /\ handler'[t].ans = handler[t].ans
    BY <1>1, <2>1 DEF Handler
  <2>3. UNCHANGED <<acked, unsaved>>
    BY <1>2, <1>4 DEF RecordTest
  <2>4. RecordsOwn(t)' /\ VerifiesKnown(t)' /\ FileFollows(t)'
    BY <1>1, <1>2, <1>3, <2>2
       DEF InStep, RecordsOwn, VerifiesKnown, FileFollows, Recording,
           Verifying, Proving, Saving, LatestHash, LatestValue
  <2>5. RecordsFollow(t)'
    BY <1>1, <1>3, <2>2, <2>3
       DEF InStep, RecordsFollow, Ahead, Proving, Verifying, SameAnswer, Lost,
           Verifiable
  <2>6. Owned' /\ AckedIsDurable'
    BY <1>3, <2>3, OwnedStays DEF SerialInv, LatestValue
  <2>7. QED  BY <2>4, <2>5, <2>6, SerialStep DEF InStep
<1>5. CASE latest = None
  <2>1. handler'[t] = Idle
    BY <1>5, OnlyThread DEF RecordTest
  <2>2. handler'[t].pc = "idle"
    BY <2>1 DEF Idle
  <2>3. /\ acked' \subseteq acked \cup {handler[t].hash}
        /\ unsaved' = unsaved \cup {handler[t].hash}
    BY <1>5 DEF RecordTest, Acknowledge
  <2>4. \A h : Known(h) => Known(h)'
    BY <1>3, <2>3 DEF Known, Lost, Verifiable
  <2>5. Lost' = Lost \cup {handler[t].hash}
    BY <1>3, <2>3 DEF Lost
  <2>6. FileFollows(t)'
    <3>1. LatestValue' = None /\ disk'.latest = None
      <4>1. disk.latest = None
        BY <1>1, <1>5 DEF InStep, FileFollows, LatestValue
      <4>2. QED  BY <1>3, <1>5, <4>1 DEF LatestValue
    <3>2. QED  BY <2>2, <3>1 DEF FileFollows, Saving
  <2>7. RecordsOwn(t)' /\ VerifiesKnown(t)'
    BY <2>2 DEF RecordsOwn, VerifiesKnown, Recording, Verifying, Proving
  <2>8. RecordsFollow(t)'
    BY <1>1, <1>3, <2>5
       DEF InStep, RecordsFollow, Ahead, SameAnswer, Verifiable
  <2>9. AckedIsDurable'
    BY <1>3, <2>3, <2>5 DEF SerialInv, AckedIsDurable, Verifiable
  <2>10. Owned'
    <3>1. Honest(LatestValue)' /\ Honest(disk.latest)'
      BY <1>3, <2>4 DEF SerialInv, Owned, Honest, Borrowed, LatestValue
    <3>2. QED
      BY <1>3, <3>1 DEF SerialInv, Owned, StateOwns, OwnRecords, Owns
  <2>11. QED  BY <2>6, <2>7, <2>8, <2>9, <2>10, SerialStep DEF InStep
<1>6. QED  BY <1>4, <1>5

LEMMA RecordAttachSerial ==
    ASSUME OneAtATime, TypeOK, Shape, SerialInv, NEW t \in Threads,
           RecordAttach(t)
    PROVE  SerialInv'
<1>1. /\ handler[t] \in Handler /\ handler[t].pc = "record_attach"
      /\ handler[t].op = "record" /\ InStep(t)
      /\ latest # None /\ latest \in Refs
      /\ handler[t].ans \in Proof
  BY DEF TypeOK, Handler, RecordAttach, Shape, HandlerShape, SerialInv
<1>2. /\ handler[t].hash = LatestHash /\ handler[t].hash \in Hashes
      /\ handler[t].ans.recorded = LatestHash
      /\ store[handler[t].hash] = handler[t].ans
  BY <1>1 DEF InStep, RecordsOwn, Recording, Proving
<1>3. handler'[t] = [handler[t] EXCEPT !.pc = "latest_load"]
  BY OnlyThread DEF RecordAttach
<1>4. /\ handler'[t].pc = "latest_load" /\ handler'[t].op = "record"
      /\ handler'[t].hash = handler[t].hash /\ handler'[t].ans = handler[t].ans
  BY <1>1, <1>3 DEF Handler
<1>5. /\ UNCHANGED <<latest, store, disk, acked, unsaved, misfiled>>
      /\ heap' = [heap EXCEPT ![latest].proof = handler[t].ans]
  BY DEF RecordAttach, historyVars
<1>6. /\ heap'[latest] = [hash |-> LatestHash, proof |-> handler[t].ans]
      /\ \A r \in Refs : r # latest => heap'[r] = heap[r]
  BY <1>1, <1>5, AttachType
<1>7. RecordsOwn(t)' /\ VerifiesKnown(t)' /\ FileFollows(t)'
  BY <1>2, <1>4, <1>5, <1>6
     DEF RecordsOwn, VerifiesKnown, FileFollows, Recording, Verifying, Proving,
         Saving, LatestHash
<1>8. RecordsFollow(t)'
  BY <1>1, <1>4, <1>5, <1>6
     DEF InStep, RecordsFollow, Ahead, Proving, Verifying, SameAnswer, Lost,
         Verifiable
<1>9. \A h : Known(h)' <=> Known(h)
  BY <1>5 DEF Known, Lost, Verifiable
<1>10. Owned'
  <2>1. Honest(LatestValue)'
    BY <1>1, <1>2, <1>5, <1>6 DEF Honest, Borrowed, LatestValue
  <2>2. Honest(disk.latest)'
    BY <1>5, <1>9 DEF SerialInv, Owned, Honest, Borrowed
  <2>3. \A r \in Refs : Owns(heap[r])' /\ (heap'[r] # None => r = latest')
    BY <1>2, <1>5, <1>6 DEF SerialInv, Owned, Owns
  <2>4. QED
    BY <1>5, <2>1, <2>2, <2>3 DEF SerialInv, Owned, StateOwns, OwnRecords, Owns
<1>11. AckedIsDurable'
  BY <1>5 DEF SerialInv, AckedIsDurable, Lost, Verifiable
<1>12. QED  BY <1>7, <1>8, <1>10, <1>11, SerialStep DEF InStep

\* The verified record goes to the latest assessment: to its own, or to one
\* that is misfiled from here on.
LEMMA VerifyAttachSerial ==
    ASSUME OneAtATime, TypeOK, Shape, SerialInv, NEW t \in Threads,
           VerifyAttach(t)
    PROVE  SerialInv'
<1>1. /\ handler[t] \in Handler /\ handler[t].pc = "verify_attach"
      /\ InStep(t)
      /\ latest # None /\ latest \in Refs
      /\ handler[t].ans \in Proof
  BY DEF TypeOK, Handler, VerifyAttach, Shape, HandlerShape, SerialInv
<1>2. handler[t].op = "verify"
  BY <1>1 DEF InStep, VerifiesKnown
<1>3. /\ handler[t].ans.recorded \in Hashes /\ handler[t].ans.tx # None
      /\ handler[t].hash = handler[t].ans.recorded
      /\ Verifiable(store[handler[t].ans.recorded], handler[t].ans.recorded)
      /\ handler[t].ans.recorded = LatestHash \/ Known(handler[t].ans.recorded)
  BY <1>1, <1>2 DEF InStep, VerifiesKnown, Verifying, Proving
<1>4. handler'[t] = [handler[t] EXCEPT !.pc = "latest_load"]
  BY OnlyThread DEF VerifyAttach
<1>5. /\ handler'[t].pc = "latest_load" /\ handler'[t].op = handler[t].op
      /\ handler'[t].hash = handler[t].hash /\ handler'[t].ans = handler[t].ans
  BY <1>1, <1>4 DEF Handler
<1>6. /\ UNCHANGED <<latest, store, disk, acked, unsaved>>
      /\ heap' = [heap EXCEPT ![latest].proof = handler[t].ans]
      /\ misfiled' = IF handler[t].ans.recorded = LatestHash THEN misfiled
                     ELSE misfiled \cup {LatestHash}
  BY DEF VerifyAttach
<1>7. /\ heap'[latest] = [hash |-> LatestHash, proof |-> handler[t].ans]
      /\ \A r \in Refs : r # latest => heap'[r] = heap[r]
  BY <1>1, <1>6, AttachType
<1>8. /\ misfiled \subseteq misfiled' /\ Lost \subseteq Lost'
      /\ handler[t].ans.recorded = LatestHash \/ LatestHash \in misfiled'
  BY <1>6 DEF Lost
<1>9. LatestHash' = LatestHash
  BY <1>6, <1>7 DEF LatestHash
<1>10. RecordsOwn(t)' /\ VerifiesKnown(t)' /\ FileFollows(t)'
  BY <1>1, <1>2, <1>3, <1>5, <1>6, <1>7, <1>8, <1>9
     DEF RecordsOwn, VerifiesKnown, FileFollows, Recording, Verifying, Proving,
         Saving, Verifiable
<1>11. RecordsFollow(t)'
  <2> SUFFICES ASSUME NEW h \in Hashes, h \notin Lost PROVE (Ahead(t, h) \/ SameAnswer(h))'
    BY <1>8 DEF RecordsFollow
  <2>1. Ahead(t, h) \/ SameAnswer(h)
    BY <1>1 DEF InStep, RecordsFollow
  <2>2. Ahead(t, h) => Ahead(t, h)'
    BY <1>1, <1>5, <1>6, <1>9 DEF Ahead, Proving, Verifying
  <2>3. SameAnswer(h) => SameAnswer(h)'
    BY <1>6 DEF SameAnswer, Verifiable
  <2>4. QED  BY <2>1, <2>2, <2>3
<1>12. \A h : Known(h) => Known(h)'
  BY <1>6, <1>8 DEF Known, Verifiable
<1>13. Owned'
  <2>1. Honest(LatestValue)'
    BY <1>3, <1>6, <1>7, <1>12 DEF Honest, Borrowed, LatestValue
  <2>2. Honest(disk.latest)'
    BY <1>6, <1>12 DEF SerialInv, Owned, Honest, Borrowed
  <2>3. \A r \in Refs : Owns(heap[r])' /\ (heap'[r] # None => r = latest')
    BY <1>6, <1>7, <1>8 DEF SerialInv, Owned, Owns
  <2>4. StateOwns(disk)' /\ OwnRecords(store)' /\ OwnRecords(disk.proofs)'
    BY <1>6, <1>8 DEF SerialInv, Owned, StateOwns, OwnRecords, Owns
  <2>5. QED  BY <2>1, <2>2, <2>3, <2>4 DEF Owned
<1>14. AckedIsDurable'
  BY <1>6, <1>8 DEF SerialInv, AckedIsDurable, Verifiable
<1>15. QED  BY <1>10, <1>11, <1>13, <1>14, SerialStep DEF InStep

LEMMA VerifyPutSerial ==
    ASSUME OneAtATime, TypeOK, Shape, SerialInv, NEW t \in Threads, VerifyPut(t)
    PROVE  SerialInv'
<1> DEFINE hash     == handler[t].hash
           record   == [handler[t].ans EXCEPT !.status = "verified_matched"]
           verified == IF handler[t].tx = None THEN record
                       ELSE [record EXCEPT !.tx = handler[t].tx]
<1>1. /\ handler[t] \in Handler /\ handler[t].pc = "verify_put"
      /\ handler[t].ans \in Proof /\ InStep(t)
  BY DEF TypeOK, Handler, VerifyPut, Shape, HandlerShape, SerialInv
<1>2. handler[t].op = "verify"
  BY <1>1 DEF InStep, VerifiesKnown
<1>3. /\ hash \in Hashes /\ handler[t].ans.recorded = hash
      /\ handler[t].ans.tx # None
      /\ (latest # None /\ hash = LatestHash) \/ Known(hash)
  BY <1>1, <1>2 DEF InStep, VerifiesKnown, Verifying, Proving
<1>4. /\ record \in Proof /\ record # None
      /\ Verifiable(record, hash)
      /\ verified.recorded = hash /\ verified.tx # None
  BY <1>1, <1>3, NoneAssumption DEF Proof, Statuses, Handler, Verifiable
<1>5. /\ UNCHANGED <<latest, heap, disk, acked, unsaved, misfiled>>
      /\ store' = [store EXCEPT ![hash] = record]
      /\ handler'[t] = IF latest = None THEN Idle
                       ELSE [handler[t] EXCEPT !.pc = "verify_attach",
                                               !.ans = verified]
  BY OnlyThread DEF VerifyPut
<1> HIDE DEF record, verified
<1>6. /\ store'[hash] = record
      /\ \A h \in Hashes : h # hash => store'[h] = store[h]
  BY <1>3, <1>5 DEF TypeOK
<1>7. IF latest = None THEN handler'[t].pc = "idle"
      ELSE /\ handler'[t].pc = "verify_attach" /\ handler'[t].op = "verify"
           /\ handler'[t].hash = hash /\ handler'[t].ans = verified
  BY <1>1, <1>2, <1>3, <1>5 DEF Handler, Idle
<1>8. /\ \A h : Known(h)' <=> Known(h)
      /\ Lost' = Lost /\ LatestHash' = LatestHash /\ LatestValue' = LatestValue
  BY <1>5 DEF Known, Lost, Verifiable, LatestHash, LatestValue
<1>9. FileFollows(t)' /\ RecordsOwn(t)'
  BY <1>1, <1>5, <1>7, <1>8
     DEF InStep, RecordsOwn, FileFollows, Recording, Proving, Saving
<1>10. VerifiesKnown(t)'
  <2>1. CASE latest = None
    BY <1>7, <2>1 DEF VerifiesKnown, Verifying, Proving
  <2>2. CASE latest # None
    <3>1. Verifiable(store[hash], hash)'
      BY <1>3, <1>4, <1>6, <1>7, <2>2 DEF Verifiable
    <3>2. QED
      BY <1>2, <1>3, <1>4, <1>5, <1>7, <1>8, <2>2, <3>1
         DEF VerifiesKnown, Verifying, Proving, Saving
  <2>3. QED  BY <2>1, <2>2
<1>11. RecordsFollow(t)'
  <2> SUFFICES ASSUME NEW h \in Hashes, h \notin Lost
               PROVE  Ahead(t, h)' \/ SameAnswer(h)'
    BY <1>8 DEF RecordsFollow
  <2>1. CASE h # hash
    <3>1. SameAnswer(h)
      BY <1>1, <2>1 DEF InStep, RecordsFollow, Ahead
    <3>2. QED  BY <1>5, <1>6, <2>1, <3>1 DEF SameAnswer, Verifiable
  <2>2. CASE h = hash /\ Known(hash)
    <3>1. Verifiable(disk.proofs[h], h)
      BY <2>2 DEF Known
    <3>2. QED  BY <1>4, <1>5, <1>6, <2>2, <3>1 DEF SameAnswer, Verifiable
  <2>3. CASE h = hash /\ ~Known(hash)
    BY <1>2, <1>3, <1>4, <1>5, <1>7, <1>8, <2>3 DEF Ahead, Proving, Verifying
  <2>4. QED  BY <2>1, <2>2, <2>3
<1>12. Owned'
  <2>1. OwnRecords(store)'
    BY <1>3, <1>4, <1>5, <1>6 DEF SerialInv, Owned, OwnRecords, Verifiable
  <2>2. Honest(LatestValue)' /\ Honest(disk.latest)'
    BY <1>5, <1>8 DEF SerialInv, Owned, Honest, Borrowed
  <2>3. QED
    BY <1>5, <2>1, <2>2 DEF SerialInv, Owned, StateOwns, OwnRecords, Owns
<1>13. AckedIsDurable'
  BY <1>5 DEF SerialInv, AckedIsDurable, Lost, Verifiable
<1>14. QED  BY <1>9, <1>10, <1>11, <1>12, <1>13, SerialStep DEF InStep

-----------------------------------------------------------------------------
(* The saves.                                                              *)

LEMMA LoadSerial ==
    ASSUME OneAtATime, TypeOK, Shape, SerialInv, NEW t \in Threads,
           SaveLatestLoad(t) \/ SaveHistoryLoad(t)
    PROVE  SerialInv'
<1>1. /\ handler[t] \in Handler
      /\ handler[t].pc \in {"latest_load", "history_load"}
      /\ HandlerShape(t) /\ InStep(t)
  BY DEF TypeOK, SaveLatestLoad, SaveHistoryLoad, Shape, SerialInv
<1>2. SavedRef(t) = latest /\ latest \in Refs /\ latest # None
  BY <1>1, RefsAssumption
     DEF SavedRef, InStep, FileFollows, Saving, HandlerShape, TypeOK, Handler
<1>3. PICK pc \in {"latest_write", "history_write"} :
         /\ pc = "history_write" => handler[t].pc = "history_load"
         /\ handler'[t] = [handler[t] EXCEPT !.pc = pc, !.ref = latest,
                                             !.snap = disk]
  BY <1>2, OnlyThread DEF SaveLatestLoad, SaveHistoryLoad
<1>4. /\ handler'[t].pc = pc /\ handler'[t].op = handler[t].op
      /\ handler'[t].hash = handler[t].hash /\ handler'[t].ans = handler[t].ans
      /\ handler'[t].ref = latest /\ handler'[t].snap = disk
  BY <1>1, <1>3 DEF Handler
<1>5. /\ UNCHANGED <<latest, store, disk, acked, unsaved, misfiled>>
      /\ heap' = Collect(heap, latest, handler')
  BY DEF SaveLatestLoad, SaveHistoryLoad, historyVars
<1>6. /\ heap'[latest] = heap[latest]
      /\ \A r \in Refs : heap'[r] \in {heap[r], None}
  BY <1>2, <1>5 DEF Collect
<1>7. LatestHash' = LatestHash /\ LatestValue' = LatestValue
  BY <1>5, <1>6 DEF LatestHash, LatestValue
<1>8. RecordsOwn(t)' /\ VerifiesKnown(t)'
  BY <1>1, <1>2, <1>4, <1>5, <1>6, <1>7
     DEF InStep, RecordsOwn, VerifiesKnown, Recording, Verifying, Proving,
         Saving, Verifiable
<1>9. FileFollows(t)'
  BY <1>1, <1>3, <1>4, <1>5, <1>7 DEF InStep, FileFollows, Saving
<1>10. RecordsFollow(t)'
  BY <1>1, <1>4, <1>5, <1>7
     DEF InStep, RecordsFollow, Ahead, Proving, Verifying, SameAnswer, Lost,
         Verifiable
<1>11. Owned' /\ AckedIsDurable'
  BY <1>5, <1>6, <1>7, OwnedStays DEF SerialInv
<1>12. QED  BY <1>8, <1>9, <1>10, <1>11, SerialStep DEF InStep

LEMMA LatestWriteSerial ==
    ASSUME OneAtATime, TypeOK, Shape, SerialInv, NEW t \in Threads,
           SaveLatestWrite(t)
    PROVE  SerialInv'
<1>1. /\ handler[t] \in Handler /\ handler[t].pc = "latest_write"
      /\ HandlerShape(t) /\ InStep(t)
  BY DEF TypeOK, SaveLatestWrite, Shape, SerialInv
<1>2. /\ handler[t].ref = latest /\ handler[t].snap = disk
      /\ latest \in Refs /\ latest # None
  BY <1>1 DEF InStep, FileFollows, HandlerShape, TypeOK, Handler
<1>3. handler'[t] = [handler[t] EXCEPT !.pc = "history_load",
                                       !.snap = EmptyState]
  BY OnlyThread DEF SaveLatestWrite
<1>4. /\ handler'[t].pc = "history_load" /\ handler'[t].op = handler[t].op
      /\ handler'[t].hash = handler[t].hash /\ handler'[t].ans = handler[t].ans
      /\ handler'[t].ref = latest
  BY <1>1, <1>2, <1>3 DEF Handler
<1>5. /\ UNCHANGED <<latest, heap, store, acked, unsaved, misfiled>>
      /\ disk' = [disk EXCEPT !.latest = heap[latest]]
  BY <1>2 DEF SaveLatestWrite, SetLatest, historyVars
<1>6. /\ disk'.latest = heap[latest] /\ disk'.history = disk.history
      /\ disk'.proofs = disk.proofs
  BY <1>5 DEF TypeOK, State
<1>7. LatestHash' = LatestHash /\ LatestValue' = disk'.latest
  BY <1>2, <1>5, <1>6 DEF LatestHash, LatestValue
<1>8. \A h : Known(h)' <=> Known(h)
  BY <1>5, <1>6 DEF Known, Lost, Verifiable
<1>9. RecordsOwn(t)' /\ VerifiesKnown(t)'
  BY <1>1, <1>4, <1>5, <1>7, <1>8
     DEF InStep, RecordsOwn, VerifiesKnown, Recording, Verifying, Proving,
         Saving, Verifiable
<1>10. FileFollows(t)'
  BY <1>1, <1>4, <1>5, <1>7 DEF InStep, FileFollows, Saving
<1>11. RecordsFollow(t)'
  BY <1>1, <1>4, <1>5, <1>6, <1>7
     DEF InStep, RecordsFollow, Ahead, Proving, Verifying, SameAnswer, Lost,
         Verifiable
<1>12. Owned'
  <2>1. Honest(LatestValue)' /\ Honest(disk.latest)'
    BY <1>2, <1>5, <1>6, <1>8
       DEF SerialInv, Owned, Honest, Borrowed, LatestValue
  <2>2. QED
    BY <1>2, <1>5, <1>6, <2>1 DEF SerialInv, Owned, StateOwns, OwnRecords, Owns
<1>13. AckedIsDurable'
  BY <1>5, <1>6 DEF SerialInv, AckedIsDurable, Lost, Verifiable
<1>14. QED  BY <1>9, <1>10, <1>11, <1>12, <1>13, SerialStep DEF InStep

LEMMA HistoryWriteSerial ==
    ASSUME OneAtATime, TypeOK, Shape, HistoryIsSound, SerialInv,
           NEW t \in Threads, SaveHistoryWrite(t)
    PROVE  SerialInv'
<1>1. /\ handler[t] \in Handler /\ handler[t].pc = "history_write"
      /\ HandlerShape(t) /\ InStep(t)
  BY DEF TypeOK, SaveHistoryWrite, Shape, SerialInv
<1>2. /\ handler[t].ref = latest /\ handler[t].snap = disk
      /\ latest \in Refs /\ latest # None /\ heap[latest] \in Assessment
      /\ disk.latest = LatestValue
  BY <1>1 DEF InStep, FileFollows, HandlerShape, TypeOK, Handler, Shape
<1>3. handler'[t] = IF handler[t].op = "preflight" THEN Idle
                    ELSE [handler[t] EXCEPT !.pc = "proof_load", !.ref = None,
                                            !.snap = EmptyState]
  BY OnlyThread DEF SaveHistoryWrite
<1>4. \/ handler[t].op = "preflight" /\ handler'[t].pc = "idle"
      \/ /\ handler[t].op # "preflight"
         /\ handler'[t].pc = "proof_load" /\ handler'[t].op = handler[t].op
         /\ handler'[t].hash = handler[t].hash
         /\ handler'[t].ans = handler[t].ans
  BY <1>1, <1>3 DEF Handler, Idle
<1>5. /\ UNCHANGED <<latest, store, acked, unsaved, misfiled>>
      /\ disk' = [disk EXCEPT !.history = Push(disk.history, heap[latest])]
      /\ heap' = Collect(heap, latest, handler')
  BY <1>2 DEF SaveHistoryWrite, PushHistory, historyVars
<1>6. /\ heap'[latest] = heap[latest]
      /\ \A r \in Refs : heap'[r] \in {heap[r], None}
  BY <1>2, <1>5 DEF Collect
<1>7. /\ disk'.latest = disk.latest /\ disk'.proofs = disk.proofs
      /\ disk'.history = Push(disk.history, heap[latest])
  BY <1>5 DEF TypeOK, State
<1>8. /\ LatestHash' = LatestHash /\ LatestValue' = LatestValue
      /\ \A h : Known(h)' <=> Known(h)
  BY <1>5, <1>6, <1>7 DEF LatestHash, LatestValue, Known, Lost, Verifiable
<1>9. /\ \A j \in DOMAIN disk'.history :
            \/ disk'.history[j] = heap[latest]
            \/ \E i \in DOMAIN disk.history : disk'.history[j] = disk.history[i]
      /\ \A j \in DOMAIN disk'.history :
            disk'.history[j].hash = LatestHash
                => disk'.history[j] = heap[latest]
  <2>1. disk.history \in Seq(Assessment)
    BY DEF TypeOK, State
  <2> DEFINE pushed == Push(disk.history, heap[latest])
  <2>2. \A j \in DOMAIN pushed :
           \/ pushed[j] = heap[latest]
           \/ \E i \in DOMAIN disk.history : pushed[j] = disk.history[i]
    BY <1>2, <2>1, PushProperties
  <2>3. \A j \in DOMAIN pushed :
           pushed[j].hash = heap[latest].hash => pushed[j] = heap[latest]
    BY <1>2, <2>1, PushReplaces DEF HistoryIsSound
  <2>4. QED  BY <1>7, <2>2, <2>3 DEF LatestHash
<1>10. RecordsOwn(t)' /\ VerifiesKnown(t)'
  BY <1>1, <1>2, <1>4, <1>5, <1>6, <1>8
     DEF InStep, RecordsOwn, VerifiesKnown, Recording, Verifying, Proving,
         Saving, Verifiable
<1>11. FileFollows(t)'
  BY <1>1, <1>2, <1>4, <1>5, <1>6, <1>7, <1>8, <1>9
     DEF InStep, FileFollows, Saving
<1>12. RecordsFollow(t)'
  <2>1. \A h \in Hashes \ Lost : Ahead(t, h) => Ahead(t, h)'
    BY <1>1, <1>4, <1>5, <1>8 DEF Ahead, Proving, Verifying
  <2>2. \A h \in Hashes : SameAnswer(h) => SameAnswer(h)'
    BY <1>5, <1>7 DEF SameAnswer, Verifiable
  <2>3. Lost' = Lost
    BY <1>5 DEF Lost
  <2>4. QED  BY <1>1, <2>1, <2>2, <2>3 DEF InStep, RecordsFollow
<1>13. Owned'
  <2>1. Honest(LatestValue)' /\ Honest(disk.latest)'
    BY <1>2, <1>7, <1>8 DEF SerialInv, Owned, Honest, Borrowed
  <2>2. StateOwns(disk)'
    <3>1. /\ Owns(heap[latest])
          /\ \A i \in DOMAIN disk.history : Owns(disk.history[i])
      BY <1>2 DEF SerialInv, Owned, StateOwns
    <3>2. QED
      BY <1>5, <1>7, <1>9, <3>1 DEF SerialInv, Owned, StateOwns, Owns
  <2>3. \A r \in Refs : Owns(heap[r])' /\ (heap'[r] # None => r = latest')
    BY <1>5, <1>6 DEF SerialInv, Owned, Owns
  <2>4. QED
    BY <1>5, <1>7, <2>1, <2>2, <2>3 DEF SerialInv, Owned, OwnRecords
<1>14. AckedIsDurable'
  BY <1>5, <1>7 DEF SerialInv, AckedIsDurable, Lost, Verifiable
<1>15. QED  BY <1>10, <1>11, <1>12, <1>13, <1>14, SerialStep DEF InStep

LEMMA ProofLoadSerial ==
    ASSUME OneAtATime, TypeOK, Shape, SerialInv, NEW t \in Threads,
           SaveProofLoad(t)
    PROVE  SerialInv'
<1>1. /\ handler[t] \in Handler /\ handler[t].pc = "proof_load"
      /\ handler[t].op # "preflight" /\ InStep(t)
  BY DEF TypeOK, SaveProofLoad, Shape, HandlerShape, SerialInv
<1>2. UNCHANGED <<latest, heap, store, disk, acked, unsaved, misfiled>>
  BY DEF SaveProofLoad, serverVars, historyVars
<1>3. handler'[t] = IF handler[t].op = "record"
                    THEN [handler[t] EXCEPT !.pc = "proof_write",
                                            !.snap = disk]
                    ELSE [handler[t] EXCEPT !.pc = "proof_write",
                                            !.snap = disk,
                                            !.hash = LatestHash,
                                            !.ans = heap[latest].proof]
  BY OnlyThread DEF SaveProofLoad
<1>4. /\ handler'[t].pc = "proof_write" /\ handler'[t].op = handler[t].op
      /\ handler'[t].snap = disk
      /\ IF handler[t].op = "record"
         THEN handler'[t].hash = handler[t].hash
              /\ handler'[t].ans = handler[t].ans
         ELSE handler'[t].hash = LatestHash
              /\ handler'[t].ans = heap[latest].proof
  BY <1>1, <1>3 DEF Handler
<1>5. LatestHash' = LatestHash /\ LatestValue' = LatestValue
  BY <1>2 DEF LatestHash, LatestValue
<1>6. handler[t].op # "record" =>
         /\ handler[t].hash = handler[t].ans.recorded
         /\ handler'[t].ans.recorded = handler[t].ans.recorded
         /\ latest # None
  BY <1>1, <1>4
     DEF InStep, VerifiesKnown, Verifying, Proving, Saving, Shape, HandlerShape
<1>7. RecordsOwn(t)' /\ VerifiesKnown(t)' /\ FileFollows(t)'
  BY <1>1, <1>2, <1>4, <1>5, <1>6
     DEF InStep, RecordsOwn, VerifiesKnown, FileFollows, Recording, Verifying,
         Proving, Saving, Verifiable
<1>8. RecordsFollow(t)'
  <2> SUFFICES ASSUME NEW h \in Hashes \ Lost
               PROVE  Ahead(t, h)' \/ SameAnswer(h)'
    BY <1>2 DEF RecordsFollow, Lost
  <2>1. Ahead(t, h) => Ahead(t, h)'
    BY <1>1, <1>2, <1>4, <1>5, <1>6 DEF Ahead, Proving, Verifying
  <2>2. SameAnswer(h) => SameAnswer(h)'
    BY <1>2 DEF SameAnswer, Verifiable
  <2>3. QED  BY <1>1, <2>1, <2>2 DEF InStep, RecordsFollow
<1>9. Owned' /\ AckedIsDurable'
  BY <1>2, <1>5, OwnedStays DEF SerialInv
<1>10. QED  BY <1>7, <1>8, <1>9, SerialStep DEF InStep

\* The record reaches the file: with it the hash is healed, unless it is the
\* record of another hash.
LEMMA ProofWriteSerial ==
    ASSUME OneAtATime, TypeOK, Shape, BackedInv, SerialInv, NEW t \in Threads,
           SaveProofWrite(t)
    PROVE  SerialInv'
<1> DEFINE hash == handler[t].hash
           ans  == handler[t].ans
<1>1. /\ handler[t] \in Handler /\ handler[t].pc = "proof_write"
      /\ hash \in Hashes /\ ans \in Proof /\ ans # None /\ InStep(t)
  BY NoneAssumption
     DEF TypeOK, Handler, SaveProofWrite, Shape, HandlerShape, SerialInv
<1>2. handler[t].op # "preflight" /\ latest # None
  <2>1. handler[t].op # "preflight"
    BY <1>1 DEF InStep, FileFollows
  <2>2. QED  BY <1>1, <2>1 DEF Shape, HandlerShape, Saving
<1>3. handler'[t].pc = "idle"
  <2>1. handler'[t] = Idle
    BY OnlyThread DEF SaveProofWrite
  <2>2. QED  BY <2>1 DEF Idle
<1>4. /\ UNCHANGED <<latest, heap, store>>
      /\ disk' = [disk EXCEPT !.proofs[hash] = ans]
      /\ IF ans.recorded = hash
         THEN unsaved' = unsaved \ {hash} /\ misfiled' = misfiled \ {hash}
         ELSE UNCHANGED <<unsaved, misfiled>>
  BY <1>1 DEF SaveProofWrite, SetProof, InStep, FileFollows
<1>5. /\ disk'.latest = disk.latest /\ disk'.history = disk.history
      /\ disk'.proofs = [disk.proofs EXCEPT ![hash] = ans]
      /\ disk.proofs \in [Hashes -> Proof \cup {None}]
  BY <1>4 DEF TypeOK, State
<1>6. /\ disk'.proofs[hash] = ans
      /\ \A h \in Hashes : h # hash => disk'.proofs[h] = disk.proofs[h]
  BY <1>1, <1>5
<1>7. /\ LatestHash' = LatestHash /\ LatestValue' = LatestValue
      /\ hash = LatestHash
      /\ heap[latest].proof.recorded = ans.recorded
      /\ disk.latest = LatestValue
      /\ ans.recorded # hash => hash \in misfiled
      /\ ans.recorded = hash =>
            (Verifiable(ans, hash) <=> Verifiable(store[hash], hash))
  BY <1>1, <1>2, <1>4
     DEF InStep, RecordsOwn, VerifiesKnown, FileFollows, Recording, Verifying,
         Proving, Saving, LatestHash, LatestValue, Verifiable
<1>8. ans.recorded = hash /\ store[hash] # None => store[hash].recorded = hash
  BY <1>1, <1>2
     DEF InStep, RecordsOwn, VerifiesKnown, Recording, Verifying, Proving,
         Saving, Verifiable
<1>9. \A i \in DOMAIN disk.history :
         disk.history[i].hash = hash => disk.history[i] = heap[latest]
  BY <1>1, <1>7 DEF InStep, FileFollows
<1>10. Backed(ans, confirmed)
  BY <1>1 DEF BackedInv, ProofsAreBacked, HandlerIsBacked
<1>11. handler[t].op = "record" =>
         /\ ans.recorded = hash
         /\ acked' = IF ans.status = "recorded" THEN acked \cup {hash}
                                                ELSE acked \ {hash}
  BY <1>1 DEF SaveProofWrite, Acknowledge, InStep, RecordsOwn, Recording,
              Proving
<1>12. /\ handler[t].op # "record" => acked' = acked /\ ans.tx # None
  BY <1>1, <1>2 DEF SaveProofWrite, InStep, VerifiesKnown, Verifying, Proving
<1> HIDE DEF hash, ans
<1>13. /\ Lost' \subseteq Lost /\ misfiled' \subseteq misfiled
       /\ \A h \in Hashes : h # hash =>
             /\ h \in Lost' <=> h \in Lost
             /\ h \in misfiled' <=> h \in misfiled
       /\ ans.recorded # hash => hash \in misfiled' /\ hash \in Lost'
       /\ ans.recorded = hash => hash \notin Lost'
  BY <1>4, <1>7 DEF Lost
<1>14. \A h \in Hashes : h # hash /\ Known(h) => Known(h)'
  BY <1>6, <1>13 DEF Known, Verifiable
<1>15. RecordsFollow(t)'
  <2> SUFFICES ASSUME NEW h \in Hashes, h \notin Lost'
               PROVE  SameAnswer(h)'
    BY DEF RecordsFollow
  <2>1. CASE h = hash
    BY <1>4, <1>6, <1>7, <1>13, <2>1 DEF SameAnswer, Verifiable
  <2>2. CASE h # hash
    <3>1. SameAnswer(h)
      BY <1>1, <1>13, <2>2 DEF InStep, RecordsFollow, Ahead, hash
    <3>2. QED  BY <1>4, <1>6, <2>2, <3>1 DEF SameAnswer, Verifiable
  <2>3. QED  BY <2>1, <2>2
<1>16. AckedIsDurable'
  <2> SUFFICES ASSUME NEW h \in acked', h \notin Lost'
               PROVE  Verifiable(disk'.proofs[h], h)
    BY DEF AckedIsDurable, Verifiable
  <2>1. CASE h = hash
    <3>1. ans.recorded = hash /\ ans.tx # None
      BY <1>10, <1>11, <1>12, <1>13, <2>1 DEF Backed
    <3>2. QED  BY <1>1, <1>6, <2>1, <3>1 DEF Verifiable
  <2>2. CASE h # hash
    <3>1. h \in acked /\ h \in Hashes
      BY <1>11, <1>12, <2>2 DEF TypeOK
    <3>2. Verifiable(disk.proofs[h], h)
      BY <1>13, <2>2, <3>1 DEF SerialInv, AckedIsDurable
    <3>3. QED  BY <1>6, <2>2, <3>1, <3>2
  <2>3. QED  BY <2>1, <2>2
<1>17. Owned'
  <2>1. Honest(LatestValue)' /\ Honest(disk.latest)'
    <3>1. heap[latest].proof.recorded \in Hashes \cup {None}
      BY <1>1, <1>7 DEF Proof
    <3>2. ~Borrowed(LatestValue) => ~Borrowed(LatestValue)'
      BY <1>7 DEF Borrowed
    <3>3. Borrowed(LatestValue) => Known(LatestValue.proof.recorded)'
      BY <1>2, <1>7, <1>14, <3>1
         DEF SerialInv, Owned, Honest, Borrowed, LatestValue, LatestHash
    <3>4. QED  BY <1>5, <1>7, <3>2, <3>3 DEF Honest
  <2>2. ASSUME NEW a \in Assessment, Owns(a),
               a.hash # hash \/ a = heap[latest]
        PROVE  Owns(a)'
    <3>1. a.hash \in Hashes
      BY DEF Assessment
    <3>2. CASE a.hash # hash
      BY <1>13, <2>2, <3>1, <3>2 DEF Owns
    <3>3. CASE a = heap[latest]
      BY <1>7, <1>13, <2>2, <3>3 DEF Owns, LatestHash
    <3>4. QED  BY <2>2, <3>2, <3>3
  <2>3. Owns(None)'
    BY DEF Owns
  <2>4. \A r \in Refs : Owns(heap[r])' /\ (heap'[r] # None => r = latest')
    <3> SUFFICES ASSUME NEW r \in Refs
                 PROVE  Owns(heap[r])' /\ (heap'[r] # None => r = latest')
      OBVIOUS
    <3>1. /\ heap'[r] = heap[r] /\ Owns(heap[r])
          /\ heap[r] # None => r = latest
      BY <1>4 DEF SerialInv, Owned
    <3>2. CASE heap[r] = None
      BY <1>4, <2>3, <3>1, <3>2 DEF Owns
    <3>3. CASE heap[r] # None
      <4>1. heap[r] \in Assessment
        BY <3>3 DEF TypeOK
      <4>2. Owns(heap[r])'
        BY <1>4, <2>2, <3>1, <3>3, <4>1 DEF Owns
      <4>3. QED  BY <1>4, <3>1, <4>2
    <3>4. QED  BY <3>2, <3>3
  <2>5. Owns(disk.latest)'
    <3>1. disk.latest = heap[latest] /\ latest \in Refs
      BY <1>2, <1>7 DEF LatestValue, TypeOK
    <3>2. Owns(heap[latest])'
      BY <1>4, <2>4, <3>1
    <3>3. QED  BY <1>4, <1>5, <3>1, <3>2 DEF Owns
  <2>6. \A i \in DOMAIN disk'.history : Owns(disk.history[i])'
    <3> SUFFICES ASSUME NEW i \in DOMAIN disk.history
                 PROVE  Owns(disk.history[i])'
      BY <1>5
    <3>1. disk.history[i] \in Assessment
      BY ElementOfSeq, LenProperties DEF TypeOK, State
    <3>2. Owns(disk.history[i])
      BY DEF SerialInv, Owned, StateOwns
    <3>3. QED  BY <1>5, <1>9, <2>2, <3>1, <3>2 DEF Owns
  <2>7. OwnRecords(store)' /\ OwnRecords(disk.proofs)'
    BY <1>4, <1>6, <1>8, <1>13 DEF SerialInv, Owned, OwnRecords
  <2>8. QED  BY <2>1, <2>4, <2>5, <2>6, <2>7 DEF Owned, StateOwns
<1>18. RecordsOwn(t)' /\ VerifiesKnown(t)' /\ FileFollows(t)'
  BY <1>3, <1>5, <1>7
     DEF RecordsOwn, VerifiesKnown, FileFollows, Recording, Verifying, Proving,
         Saving
<1>19. QED  BY <1>15, <1>16, <1>17, <1>18, SerialStep DEF InStep

LEMMA CrashSerial ==
    ASSUME OneAtATime, TypeOK, SerialInv, CrashRestart
    PROVE  SerialInv'
<1>1. PICK r \in Refs :
         /\ latest' = IF disk.latest = None THEN None ELSE r
         /\ heap' = [x \in Refs |-> IF x = r THEN disk.latest ELSE None]
  BY DEF CrashRestart
<1>2. /\ store' = disk.proofs
      /\ UNCHANGED <<disk, acked, unsaved, misfiled>>
      /\ \A t \in Threads : handler'[t].pc = "idle"
  BY DEF CrashRestart, historyVars, Idle
<1>3. LatestValue' = disk'.latest
  BY <1>1, <1>2, RefsAssumption DEF LatestValue
<1>4. Owned'
  <2>1. \A h : Known(h)' <=> Known(h)
    BY <1>2 DEF Known, Lost, Verifiable
  <2>2. Honest(disk.latest)'
    BY <1>2, <2>1 DEF SerialInv, Owned, Honest, Borrowed
  <2>3. Honest(LatestValue)'
    BY <1>3, <2>2 DEF Honest, Borrowed
  <2>4. \A x \in Refs : Owns(heap[x])' /\ (heap'[x] # None => x = latest')
    BY <1>1, <1>2 DEF SerialInv, Owned, StateOwns, Owns
  <2>5. QED
    BY <1>2, <2>2, <2>3, <2>4 DEF SerialInv, Owned, StateOwns, OwnRecords, Owns
<1>5. AckedIsDurable'
  BY <1>2 DEF SerialInv, AckedIsDurable, Lost, Verifiable
<1>6. ASSUME NEW t \in Threads PROVE InStep(t)'
  BY <1>2, <1>3
     DEF InStep, RecordsOwn, VerifiesKnown, FileFollows, RecordsFollow,
         Recording, Verifying, Proving, Saving, SameAnswer, Verifiable
<1>7. QED  BY <1>4, <1>5, <1>6 DEF SerialInv

-----------------------------------------------------------------------------
LEMMA SerialNext ==
    ASSUME OneAtATime, TypeOK, Shape, HistoryIsSound, BackedInv, SerialInv,
           [Next]_vars
    PROVE  SerialInv'
<1>1. CASE UNCHANGED vars
  BY <1>1 DEF vars, serverVars, historyVars, SerialInv, Owned, AckedIsDurable,
              InStep, RecordsOwn, VerifiesKnown, FileFollows, RecordsFollow,
              Ahead, Proving, Recording, Verifying, SameAnswer, LatestHash,
              LatestValue, StateOwns, OwnRecords, Owns, Honest, Borrowed,
              Known, Lost, Verifiable
<1>2. ASSUME NEW t \in Threads, Request(t)
      PROVE  SerialInv'
  <2>1. PICK h \in Hashes :
           \/ Preflight(t, h)
           \/ \E sure \in BOOLEAN : RecordRefuse(t, h, sure)
           \/ \E sure \in BOOLEAN : RecordAccept(t, h, sure)
           \/ VerifyRefuse(t, h)
           \/ \E tx \in Txs \cup {None} : VerifyMatch(t, h, tx)
    BY <1>2 DEF Request
  <2>2. QED
    BY <1>1, <2>1, PreflightSerial, RecordAcceptSerial, VerifyMatchSerial
       DEF RecordRefuse, VerifyRefuse
<1>3. ASSUME NEW t \in Threads, Continue(t)
      PROVE  SerialInv'
  BY <1>3, RecordPutSerial, RecordTestSerial, RecordAttachSerial,
     VerifyAttachSerial, VerifyPutSerial, LoadSerial, LatestWriteSerial,
     HistoryWriteSerial, ProofLoadSerial, ProofWriteSerial
     DEF Continue
<1>4. CASE CrashRestart
  BY <1>4, CrashSerial
<1>5. QED  BY <1>1, <1>2, <1>3, <1>4 DEF Next

LEMMA InitSerial ==
    ASSUME OneAtATime, Init
    PROVE  SerialInv
<1>1. /\ DOMAIN EmptyState.history = {} /\ EmptyState.latest = None
      /\ EmptyState.proofs = [h \in Hashes |-> None]
  BY EmptyStateType, EmptySeq, LenProperties DEF EmptyState, State
<1>2. Owned
  BY <1>1 DEF Init, Owned, StateOwns, OwnRecords, Owns, Honest, Borrowed,
              LatestValue
<1>3. AckedIsDurable
  BY DEF Init, AckedIsDurable
<1>4. ASSUME NEW t \in Threads PROVE InStep(t)
  <2>1. handler[t].pc = "idle" /\ latest = None
    BY DEF Init, Idle
  <2>2. QED
    BY <1>1, <2>1
       DEF Init, InStep, RecordsOwn, VerifiesKnown, FileFollows,
           RecordsFollow, Recording, Verifying, Proving, Saving, SameAnswer,
           LatestValue
<1>5. QED  BY <1>2, <1>3, <1>4 DEF SerialInv

LEMMA SerialInvariant == OneAtATime => (Spec => []SerialInv)
<1> SUFFICES ASSUME OneAtATime PROVE Spec => []SerialInv
  OBVIOUS
<1>1. Init => SerialInv
  BY InitSerial
<1>2. TypeOK /\ Shape /\ HistoryIsSound /\ BackedInv /\ SerialInv /\ [Next]_vars
          => SerialInv'
  BY SerialNext
<1>3. QED
  BY <1>1, <1>2, Invariant, HistorySound, BackedInvariant, PTL DEF Spec

\* Between calls a restart loads what memory holds, whatever calls and crashes
\* came before and whichever hashes they named: the latest assessment with its
\* proof, and records that answer each verification in the same way, except
\* for the hashes that were recorded before any pre-flight or misfiled.
THEOREM RestartFaithful == OneAtATime => (Spec => []RestartIsFaithful)
<1> SUFFICES ASSUME OneAtATime PROVE Spec => []RestartIsFaithful
  OBVIOUS
<1>1. SerialInv => RestartIsFaithful
  <2> SUFFICES ASSUME SerialInv, Quiescent
               PROVE  /\ disk.latest = LatestValue
                      /\ \A h \in Hashes \ Lost : SameAnswer(h)
    BY DEF RestartIsFaithful, SameAnswer
  <2>1. PICK t \in Threads : handler[t].pc = "idle" /\ InStep(t)
    BY DEF OneAtATime, Quiescent, SerialInv
  <2>2. QED  BY <2>1 DEF InStep, FileFollows, RecordsFollow, Ahead, Proving
<1>2. QED  BY <1>1, SerialInvariant, PTL

\* A record call that was answered "recorded" survives every crash from then
\* on, until a later call for the same hash is answered otherwise, or a
\* verification of another hash is saved in its place.
THEOREM AckedStaysDurable == OneAtATime => (Spec => []AckedIsDurable)
<1> SUFFICES ASSUME OneAtATime PROVE Spec => []AckedIsDurable
  OBVIOUS
<1>1. SerialInv => AckedIsDurable
  BY DEF SerialInv
<1>2. QED  BY <1>1, SerialInvariant, PTL

\* Only a verification of a hash that is not the latest gives an assessment
\* the proof of another one; saving its own proof again takes it back.
THEOREM ProofsStayOwn == OneAtATime => (Spec => []ProofsMatchTheirAssessment)
<1> SUFFICES ASSUME OneAtATime PROVE Spec => []ProofsMatchTheirAssessment
  OBVIOUS
<1>1. SerialInv => ProofsMatchTheirAssessment
  BY DEF SerialInv, Owned, StateOwns, OwnRecords, ProofsMatchTheirAssessment
<1>2. QED  BY <1>1, SerialInvariant, PTL
=============================================================================
