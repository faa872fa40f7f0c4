------------------------ MODULE PreflightPages_proofs ------------------------
(***************************************************************************)
(* What the app's pages show, for any number of pages, users' inputs and   *)
(* agents, with messages lost or late at any point and restarts of the     *)
(* server in any environment.                                              *)
(***************************************************************************)
EXTENDS PreflightPages, SequenceTheorems, TLAPS

-----------------------------------------------------------------------------
(* The inductive invariant.  A file only ever gains a latest assessment and *)
(* proof records, so that what a page holds stays filed.                    *)

Answered(call) == call.back /\ call.ok

\* What a function holds is of the kind that its next step takes.
CallShape(call) ==
    /\ call.step \in {"record", "verify"} => call.mine \in Shown
    /\ Answered(call) =>
          /\ call.step = "latest" => call.answer \in Assessment \cup {None}
          /\ call.step = "preflight" => call.answer \in Assessment
          /\ call.step \in {"record", "verify"} => call.answer \in PageProof

Shape == \A p \in Pages, k \in Kinds : CallShape(calls[p][k])

\* A transaction is shown of a hash only if the file has a record of it.
Filed(h, proof, file) ==
    /\ file.latest # None
    /\ proof.tx # None => file.proofs[h] # None

\* A proof that a call gave for h.
ProofOf(h, proof, file) ==
    /\ Filed(h, proof, file)
    /\ proof.status # "verified_mismatch" => proof.recorded \in {None, h}
    /\ proof.status \in {"recorded", "verified_matched"} => proof.tx # None

ShownOK(s, file) ==
    s # None => /\ Filed(s.hash, s.proof, file)
                /\ ~s.restored => ProofOf(s.hash, s.proof, file)

AnswerOK(call, file) ==
    /\ call.step = "latest" /\ call.answer # None
          => Filed(call.answer.hash, call.answer.proof, file)
    /\ call.step = "preflight"
          => ProofOf(call.answer.hash, call.answer.proof, file)
    /\ call.step \in {"record", "verify"}
          => ProofOf(call.mine.hash, call.answer, file)

CallOK(call, file) ==
    /\ call.step \in {"record", "verify"}
          => Filed(call.mine.hash, call.mine.proof, file)
    /\ call.step = "verify" => call.mine.proof.tx # None
    /\ Answered(call) => AnswerOK(call, file)

PagesOK == /\ \A p \in Pages : ShownOK(shown[p], disk)
           /\ \A p \in Pages, k \in Kinds : CallOK(calls[p][k], disk)

\* A record without a transaction is of the hash that it is kept under.
PendingIsOwn(records) ==
    \A h \in Hashes : records[h] # None /\ records[h].tx = None
                          => records[h].recorded = h

Kept(h, file) == file.proofs[h].tx # None /\ file.proofs[h].recorded = h

ServerOK ==
    /\ latest = disk.latest
    /\ latest = None => \A h \in Hashes : disk.proofs[h] = None
    /\ latest # None => Filed(latest.hash, latest.proof, disk)
    /\ PendingIsOwn(store)
    /\ PendingIsOwn(disk.proofs)
    /\ \A h \in acked : disk.proofs[h] # None => Kept(h, disk)

Inv == TypeOK /\ Shape /\ PagesOK /\ ServerOK

-----------------------------------------------------------------------------
(* The state file.                                                         *)

LEMMA PushType ==
    ASSUME NEW history \in Seq(Assessment), NEW a \in Assessment
    PROVE  Push(history, a) \in Seq(Assessment)
<1> DEFINE rest == Without(history, a.hash)
           longer == <<a>> \o rest
           n == IF Len(longer) <= HistoryCap THEN Len(longer) ELSE HistoryCap
<1>1. DOMAIN history = 1 .. Len(history) /\ Len(history) \in Nat
  BY LenProperties
<1>2. ASSUME NEW i \in 1 .. Len(history)
      PROVE  RemoveAt(history, i) \in Seq(Assessment)
  <2>1. /\ \A j \in 1 .. i - 1 : history[j] \in Assessment
        /\ \A j \in i + 1 .. Len(history) : history[j] \in Assessment
    BY <1>1, ElementOfSeq
  <2>2. /\ SubSeq(history, 1, i - 1) \in Seq(Assessment)
        /\ SubSeq(history, i + 1, Len(history)) \in Seq(Assessment)
    BY <1>1, <2>1, SubSeqProperties
  <2>3. QED  BY <2>2, ConcatProperties DEF RemoveAt
<1>3. rest \in Seq(Assessment)
  <2>1. CASE \E i \in DOMAIN history : history[i].hash = a.hash
    <3>1. (CHOOSE i \in DOMAIN history : history[i].hash = a.hash)
              \in 1 .. Len(history)
      BY <1>1, <2>1
    <3>2. QED  BY <1>2, <2>1, <3>1 DEF Without
  <2>2. CASE ~ \E i \in DOMAIN history : history[i].hash = a.hash
    BY <2>2 DEF Without
  <2>3. QED  BY <2>1, <2>2
<1> HIDE DEF rest
<1>4. <<a>> \in Seq(Assessment)
  OBVIOUS
<1>5. longer \in Seq(Assessment) /\ Len(longer) \in Nat
  BY <1>3, <1>4, ConcatProperties, LenProperties
<1> HIDE DEF longer
<1>6. n \in Nat /\ n <= Len(longer)
  BY <1>5, CapAssumption
<1> HIDE DEF n
<1>7. \A j \in 1 .. n : longer[j] \in Assessment
  BY <1>5, <1>6, ElementOfSeq
<1>8. SubSeq(longer, 1, n) \in Seq(Assessment)
  BY <1>6, <1>7, SubSeqProperties
<1>9. QED  BY <1>8 DEF Push, n, longer, rest

LEMMA SaveProperties ==
    ASSUME NEW state \in State, NEW a \in Assessment
    PROVE  /\ Save(state, a) \in State
           /\ Save(state, a).latest = a
           /\ Save(state, a).proofs = state.proofs
<1>1. Push(state.history, a) \in Seq(Assessment)
  BY PushType DEF State
<1>2. SetLatest(state, a) = [latest |-> a, history |-> state.history,
                             proofs |-> state.proofs]
  BY DEF SetLatest, State
<1>3. Save(state, a) = [latest |-> a, history |-> Push(state.history, a),
                        proofs |-> state.proofs]
  BY <1>2 DEF Save, PushHistory
<1>4. QED  BY <1>1, <1>3 DEF State

LEMMA SetProofProperties ==
    ASSUME NEW state \in State, NEW h \in Hashes, NEW proof \in Proof
    PROVE  /\ SetProof(state, h, proof) \in State
           /\ SetProof(state, h, proof).latest = state.latest
           /\ SetProof(state, h, proof).proofs
                  = [state.proofs EXCEPT ![h] = proof]
BY DEF SetProof, State

-----------------------------------------------------------------------------
(* The endpoints' functions, on the one latest assessment.                 *)

LEMMA ServerFunctions ==
    ASSUME NEW h
    PROVE  /\ Server!Accepts(h, TRUE) <=> /\ latest # None => h = latest.hash
                                          /\ env.recorder
           /\ Server!RecordFor(h) =
                IF store[h] # None THEN store[h]
                ELSE IF /\ latest # None
                        /\ latest.proof.status \in {"recorded",
                                                    "verified_matched"}
                        /\ latest.proof.recorded = h
                     THEN latest.proof ELSE None
BY LatestAssumption
   DEF Server!Accepts, Server!LatestHash, Server!RecordFor

LEMMA ServerProofs ==
    ASSUME TypeOK, NEW h \in Hashes
    PROVE  /\ Server!InitialProof \in Proof
           /\ Server!InitialProof.tx = None
           /\ Server!InitialProof.recorded = None
           /\ Server!InitialProof.status \notin {"recorded", "verified_matched",
                                                 "verified_mismatch"}
           /\ Server!RecordedProof(h) \in Proof
           /\ Server!RecordedProof(h).recorded = h
           /\ Server!RecordedProof(h).status \in {"pending", "recorded"}
           /\ Server!RecordedProof(h).status = "recorded"
                <=> Server!RecordedProof(h).tx # None
           /\ Server!RecordFor(h) \in Proof \cup {None}
<1>1. env.recorder \in BOOLEAN /\ env.tx \in Txs \cup {None}
  BY EnvironmentsAssumption DEF TypeOK
<1>2. Server!RecordFor(h) \in Proof \cup {None}
  BY ServerFunctions DEF TypeOK, Assessment
<1>3. QED
  BY <1>1, <1>2 DEF Server!InitialProof, Server!RecordedProof, Proof, Statuses

LEMMA MatchesMeans ==
    ASSUME NEW h, Server!Matches(h)
    PROVE  /\ Server!RecordFor(h) # None
           /\ Server!RecordFor(h).tx # None
           /\ Server!RecordFor(h).recorded = h
BY DEF Server!Matches

LEMMA ProofIsPageProof == Proof \subseteq PageProof
BY DEF Proof, PageProof

-----------------------------------------------------------------------------
(* The state of the pages.                                                 *)

\* What is filed stays filed.
Keeps(file, next) ==
    /\ file.latest # None => next.latest # None
    /\ \A h \in Hashes : file.proofs[h] # None => next.proofs[h] # None

LEMMA FiledStays ==
    ASSUME NEW file, NEW next, Keeps(file, next), NEW h \in Hashes, NEW proof
    PROVE  /\ Filed(h, proof, file) => Filed(h, proof, next)
           /\ ProofOf(h, proof, file) => ProofOf(h, proof, next)
BY DEF Keeps, Filed, ProofOf

LEMMA ShownStays ==
    ASSUME NEW file, NEW next, Keeps(file, next),
           NEW s \in Shown \cup {None}, ShownOK(s, file)
    PROVE  ShownOK(s, next)
BY FiledStays DEF ShownOK, Shown

LEMMA CallStays ==
    ASSUME NEW file, NEW next, Keeps(file, next),
           NEW call \in Call, CallShape(call), CallOK(call, file)
    PROVE  CallOK(call, next)
<1>1. call.step \in {"record", "verify"} => call.mine.hash \in Hashes
  BY DEF CallShape, Shown
<1>2. Answered(call) /\ call.step = "preflight" => call.answer.hash \in Hashes
  BY DEF CallShape, Assessment
<1>3. Answered(call) /\ call.step = "latest" /\ call.answer # None
          => call.answer.hash \in Hashes
  BY DEF CallShape, Assessment
<1>4. Answered(call) => AnswerOK(call, next)
  BY <1>1, <1>2, <1>3, FiledStays DEF CallOK, AnswerOK
<1>5. QED  BY <1>1, <1>4, FiledStays DEF CallOK

\* A step that changes one function of a page and what the page shows, and
\* perhaps the file.
LEMMA PageStep ==
    ASSUME TypeOK, Shape, PagesOK, NEW p \in Pages, NEW k \in Kinds,
           NEW call \in Call, CallShape(call), CallOK(call, disk'),
           NEW s \in Shown \cup {None}, ShownOK(s, disk'),
           Keeps(disk, disk'), Become(p, k, call),
           shown' = [shown EXCEPT ![p] = s]
    PROVE  /\ shown' \in [Pages -> Shown \cup {None}]
           /\ calls' \in [Pages -> [Kinds -> Call]]
           /\ Shape'
           /\ PagesOK'
<1>1. shown' \in [Pages -> Shown \cup {None}]
  BY DEF TypeOK
<1>2. calls' \in [Pages -> [Kinds -> Call]]
  BY DEF TypeOK, Become
<1>3. ASSUME NEW q \in Pages, NEW l \in Kinds
      PROVE  \/ calls'[q][l] = call
             \/ calls'[q][l] = calls[q][l]
  BY DEF TypeOK, Become
<1>4. ASSUME NEW q \in Pages, NEW l \in Kinds
      PROVE  /\ CallShape(calls'[q][l])
             /\ CallOK(calls'[q][l], disk')
  <2>1. /\ calls[q][l] \in Call
        /\ CallShape(calls[q][l])
        /\ CallOK(calls[q][l], disk)
    BY DEF TypeOK, Shape, PagesOK
  <2>2. CallOK(calls[q][l], disk')
    BY <2>1, CallStays
  <2>3. QED  BY <1>3, <2>1, <2>2
<1>5. ASSUME NEW q \in Pages
      PROVE  ShownOK(shown'[q], disk')
  <2>1. ShownOK(shown[q], disk')
    BY ShownStays DEF TypeOK, PagesOK
  <2>2. shown'[q] = s \/ shown'[q] = shown[q]
    BY DEF TypeOK
  <2>3. QED  BY <2>1, <2>2
<1>6. QED  BY <1>1, <1>2, <1>4, <1>5 DEF Shape, PagesOK

LEMMA CallStep ==
    ASSUME TypeOK, Shape, PagesOK, NEW p \in Pages, NEW k \in Kinds,
           NEW call \in Call, CallShape(call), CallOK(call, disk'),
           Keeps(disk, disk'), Become(p, k, call), UNCHANGED shown
    PROVE  /\ shown' \in [Pages -> Shown \cup {None}]
           /\ calls' \in [Pages -> [Kinds -> Call]]
           /\ Shape'
           /\ PagesOK'
<1>1. shown' = [shown EXCEPT ![p] = shown[p]] /\ shown[p] \in Shown \cup {None}
  BY DEF TypeOK
<1>2. ShownOK(shown[p], disk')
  BY <1>1, ShownStays DEF PagesOK
<1>3. QED  BY <1>1, <1>2, PageStep

LEMMA SameFile == ASSUME UNCHANGED disk PROVE Keeps(disk, disk')
BY DEF Keeps

\* A step of the pages that leaves the server alone.
LEMMA ServerSame ==
    ASSUME ServerOK, UNCHANGED serverVars
    PROVE  ServerOK'
BY DEF ServerOK, serverVars, PendingIsOwn

\* A call that has just been sent.
LEMMA SentCall ==
    ASSUME NEW step \in {"latest", "preflight", "record", "verify", "refresh"},
           NEW mine \in Shown \cup Forms \cup {None}
    PROVE  /\ Sent(step, mine) \in Call
           /\ Sent(step, mine).step = step
           /\ Sent(step, mine).mine = mine
           /\ ~Answered(Sent(step, mine))
BY DEF Sent, NoCall, Call, Answered

LEMMA PlainCall ==
    ASSUME NEW file, NEW call \in {NoCall, Sent("latest", None),
                                  Sent("refresh", None)}
    PROVE  call \in Call /\ CallShape(call) /\ CallOK(call, file)
<1>1. CASE call = NoCall
  BY <1>1 DEF NoCall, Call, CallShape, CallOK, Answered
<1>2. CASE call = Sent("latest", None)
  BY <1>2, SentCall DEF CallShape, CallOK
<1>3. CASE call = Sent("refresh", None)
  BY <1>3, SentCall DEF CallShape, CallOK
<1>4. QED  BY <1>1, <1>2, <1>3

-----------------------------------------------------------------------------
(* What users do.                                                          *)

LEMMA InitInv == Init => Inv
<1> SUFFICES ASSUME Init PROVE Inv
  OBVIOUS
<1>1. Opening \in [Kinds -> Call]
  BY PlainCall DEF Opening
<1>2. EmptyState \in State
  BY EmptySeq DEF EmptyState, State
<1>3. TypeOK
  BY <1>1, <1>2, FormsAssumption DEF Init, TypeOK, EmptyState, Kinds, State
<1>4. \A k \in Kinds : CallShape(Opening[k]) /\ CallOK(Opening[k], disk)
  BY PlainCall DEF Opening
<1>5. Shape /\ PagesOK
  BY <1>4 DEF Init, Shape, PagesOK, ShownOK
<1>6. ServerOK
  BY DEF Init, ServerOK, EmptyState, PendingIsOwn
<1>7. QED  BY <1>3, <1>5, <1>6 DEF Inv

LEMMA ReloadInv ==
    ASSUME Inv, NEW p \in Pages, Reload(p)
    PROVE  Inv'
<1> USE DEF Inv, Reload
<1>1. Opening \in [Kinds -> Call]
  BY PlainCall DEF Opening
<1>2. \A k \in Kinds : CallShape(Opening[k]) /\ CallOK(Opening[k], disk)
  BY PlainCall DEF Opening
<1>3. TypeOK'
  BY <1>1, FormsAssumption DEF TypeOK, serverVars, Kinds
<1>4. ASSUME NEW q \in Pages
      PROVE  /\ shown'[q] \in {None, shown[q]}
             /\ calls'[q] \in {Opening, calls[q]}
  BY DEF TypeOK
<1>5. Shape'
  BY <1>2, <1>4 DEF Shape
<1>6. PagesOK'
  BY <1>2, <1>4 DEF PagesOK, ShownOK, serverVars
<1>7. QED  BY <1>3, <1>5, <1>6, ServerSame

LEMMA EditFormInv ==
    ASSUME Inv, NEW p \in Pages, NEW f \in Forms, EditForm(p, f)
    PROVE  Inv'
<1> USE DEF Inv, EditForm
<1>1. TypeOK'
  BY DEF TypeOK, serverVars
<1>2. Shape'
  BY DEF Shape
<1>3. \A q \in Pages : shown'[q] \in {None, shown[q]}
  BY DEF TypeOK
<1>4. PagesOK'
  BY <1>3 DEF PagesOK, ShownOK, serverVars
<1>5. QED  BY <1>1, <1>2, <1>4, ServerSame

LEMMA StartInv ==
    ASSUME Inv, NEW p \in Pages, NEW flag \in Kinds,
           NEW step \in {"preflight", "record", "verify"},
           NEW mine \in Shown \cup Forms,
           step \in {"record", "verify"} =>
               mine \in Shown /\ Filed(mine.hash, mine.proof, disk),
           step = "verify" => mine.proof.tx # None,
           Start(p, flag, step, mine)
    PROVE  Inv'
<1> USE DEF Inv, Start
<1>1. disk' = disk
  BY DEF serverVars
<1>2. /\ Sent(step, mine) \in Call
      /\ CallShape(Sent(step, mine))
      /\ CallOK(Sent(step, mine), disk')
  BY <1>1, SentCall DEF CallShape, CallOK
<1>3. /\ shown' \in [Pages -> Shown \cup {None}]
      /\ calls' \in [Pages -> [Kinds -> Call]]
      /\ Shape' /\ PagesOK'
  BY <1>1, <1>2, CallStep, SameFile
<1>4. TypeOK'
  BY <1>3 DEF TypeOK, serverVars
<1>5. QED  BY <1>3, <1>4, ServerSame

LEMMA UserInv ==
    ASSUME Inv, NEW p \in Pages, User(p)
    PROVE  Inv'
<1>1. CASE Reload(p)
  BY <1>1, ReloadInv
<1>2. CASE \E f \in Forms : EditForm(p, f)
  BY <1>2, EditFormInv
<1>3. CASE ClickRun(p)
  BY <1>3, StartInv DEF ClickRun, Inv, TypeOK, Kinds
<1>4. ASSUME shown[p] # None
      PROVE  /\ shown[p] \in Shown
             /\ Filed(shown[p].hash, shown[p].proof, disk)
  BY <1>4 DEF Inv, TypeOK, PagesOK, ShownOK
<1>5. CASE ClickRecord(p)
  BY <1>4, <1>5, StartInv DEF ClickRecord, Kinds
<1>6. CASE ClickVerify(p)
  BY <1>4, <1>6, StartInv DEF ClickVerify, CanVerify, Kinds
<1>7. QED  BY <1>1, <1>2, <1>3, <1>5, <1>6 DEF User

-----------------------------------------------------------------------------
(* What the server answers.                                                *)

Replied(call, answer) == [call EXCEPT !.back = TRUE, !.answer = answer]

LEMMA RepliedCall ==
    ASSUME NEW call \in Call,
           NEW answer \in Assessment \cup PageProof \cup {None}
    PROVE  /\ Replied(call, answer) \in Call
           /\ Replied(call, answer).step = call.step
           /\ Replied(call, answer).mine = call.mine
           /\ Replied(call, answer).answer = answer
BY DEF Call, Replied

\* The answer is what its function expects of the file as it is by now.
LEMMA ReplyStep ==
    ASSUME Inv, NEW p \in Pages, NEW k \in Kinds,
           NEW answer \in Assessment \cup PageProof \cup {None},
           Reply(p, k, answer), Keeps(disk, disk'), UNCHANGED shown,
           calls[p][k].step = "latest" => answer \in Assessment \cup {None},
           calls[p][k].step = "preflight" => answer \in Assessment,
           calls[p][k].step \in {"record", "verify"} => answer \in PageProof,
           AnswerOK(Replied(calls[p][k], answer), disk')
    PROVE  /\ shown' \in [Pages -> Shown \cup {None}]
           /\ calls' \in [Pages -> [Kinds -> Call]]
           /\ Shape' /\ PagesOK'
<1> DEFINE call == Replied(calls[p][k], answer)
<1>1. /\ calls[p][k] \in Call
      /\ CallShape(calls[p][k])
      /\ CallOK(calls[p][k], disk)
  BY DEF Inv, TypeOK, Shape, PagesOK
<1>2. CallOK(calls[p][k], disk')
  BY <1>1, CallStays
<1>3. /\ call \in Call
      /\ call.step = calls[p][k].step
      /\ call.mine = calls[p][k].mine
      /\ call.answer = answer
  BY <1>1, RepliedCall
<1>4. Become(p, k, call) /\ AnswerOK(call, disk')
  BY DEF Reply, Replied
<1> HIDE DEF call
<1>5. CallShape(call)
  BY <1>1, <1>3 DEF CallShape
<1>6. CallOK(call, disk')
  BY <1>2, <1>3, <1>4 DEF CallOK
<1>7. QED  BY <1>3, <1>4, <1>5, <1>6, CallStep DEF Inv

\* A request that is refused or lost, or answered with nothing to show.
LEMMA BareStep ==
    ASSUME Inv, NEW p \in Pages, NEW k \in Kinds, NEW call \in Call,
           call.step = calls[p][k].step, call.mine = calls[p][k].mine,
           ~Answered(call) \/ call.step = "refresh",
           Become(p, k, call),
           UNCHANGED <<serverVars, form, shown, failed, busy, told>>
    PROVE  Inv'
<1>1. disk' = disk
  BY DEF serverVars
<1>2. CallShape(calls[p][k]) /\ CallOK(calls[p][k], disk')
  BY <1>1 DEF Inv, Shape, PagesOK
<1>3. CallShape(call) /\ CallOK(call, disk')
  BY <1>2 DEF CallShape, CallOK, AnswerOK
<1>4. /\ shown' \in [Pages -> Shown \cup {None}]
      /\ calls' \in [Pages -> [Kinds -> Call]]
      /\ Shape' /\ PagesOK'
  BY <1>1, <1>3, CallStep, SameFile DEF Inv
<1>5. TypeOK'
  BY <1>4 DEF Inv, TypeOK, serverVars
<1>6. QED  BY <1>4, <1>5, ServerSame DEF Inv

LEMMA ServeLatestInv ==
    ASSUME Inv, NEW p \in Pages, NEW k \in Kinds, ServeLatest(p, k)
    PROVE  Inv'
<1> USE DEF ServeLatest, Waits
<1> DEFINE call == Replied(calls[p][k], latest)
<1>1. latest \in Assessment \cup {None} /\ disk' = disk
  BY DEF Inv, TypeOK, serverVars
<1>2. call.step = "latest" /\ call.answer = latest
  BY <1>1, RepliedCall DEF Inv, TypeOK
<1>3. AnswerOK(call, disk')
  BY <1>1, <1>2 DEF AnswerOK, Inv, ServerOK
<1> HIDE DEF call
<1>4. /\ shown' \in [Pages -> Shown \cup {None}]
      /\ calls' \in [Pages -> [Kinds -> Call]]
      /\ Shape' /\ PagesOK'
  BY <1>1, <1>3, ReplyStep, SameFile DEF call
<1>5. TypeOK'
  BY <1>4 DEF Inv, TypeOK, serverVars
<1>6. QED  BY <1>4, <1>5, ServerSame DEF Inv

LEMMA ServePreflightInv ==
    ASSUME Inv, NEW p \in Pages, NEW k \in Kinds, ServePreflight(p, k)
    PROVE  Inv'
<1> USE DEF ServePreflight, Waits
<1> DEFINE call == Replied(calls[p][k], latest')
<1>1. PICK h \in Hashes : latest' = [hash |-> h, proof |-> Server!InitialProof]
  OBVIOUS
<1>2. /\ latest' \in Assessment
      /\ latest' # None
      /\ latest'.hash = h
      /\ latest'.proof.tx = None
      /\ latest'.proof.recorded = None
      /\ latest'.proof.status \notin {"recorded", "verified_matched"}
  BY <1>1, ServerProofs, NoneAssumption DEF Inv, Assessment
<1>3. disk' \in State /\ disk'.latest = latest' /\ disk'.proofs = disk.proofs
  BY <1>2, SaveProperties DEF Inv, TypeOK
<1>4. Keeps(disk, disk')
  BY <1>2, <1>3 DEF Keeps
<1>5. call.step = "preflight" /\ call.answer = latest'
  BY <1>2, RepliedCall DEF Inv, TypeOK
<1>6. ProofOf(latest'.hash, latest'.proof, disk')
  BY <1>2, <1>3 DEF ProofOf, Filed
<1>7. AnswerOK(call, disk')
  BY <1>5, <1>6 DEF AnswerOK
<1> HIDE DEF call
<1>8. /\ shown' \in [Pages -> Shown \cup {None}]
      /\ calls' \in [Pages -> [Kinds -> Call]]
      /\ Shape' /\ PagesOK'
  BY <1>2, <1>4, <1>7, ReplyStep DEF call
<1>9. TypeOK'
  BY <1>2, <1>3, <1>8 DEF Inv, TypeOK
<1>10. ServerOK'
  BY <1>2, <1>3, <1>6 DEF Inv, ServerOK, PendingIsOwn, ProofOf, Kept
<1>11. QED  BY <1>8, <1>9, <1>10 DEF Inv

LEMMA AcceptsMeans ==
    ASSUME NEW h, Record(h)
    PROVE  latest # None => latest.hash = h
BY ServerFunctions DEF Record

\* What record_assessment_proof does to the server's state.
LEMMA RecordServer ==
    ASSUME Inv, NEW h \in Hashes, Record(h)
    PROVE  /\ ServerOK'
           /\ Keeps(disk, disk')
           /\ env' = env
           /\ latest' \in Assessment \cup {None}
           /\ store' \in [Hashes -> Proof \cup {None}]
           /\ disk' \in State
           /\ acked' \subseteq Hashes
           /\ latest # None => ProofOf(h, Server!RecordedProof(h), disk')
<1> DEFINE proof == Server!RecordedProof(h)
<1>1. /\ proof \in Proof
      /\ proof # None
      /\ proof.recorded = h
      /\ proof.status = "recorded" <=> proof.tx # None
      /\ proof.status \in {"pending", "recorded"}
  BY ServerProofs, NoneAssumption DEF Inv
<1>2. store' = [store EXCEPT ![h] = proof]
  BY DEF Record
<1>3. acked' = IF proof.status = "recorded" THEN acked \cup {h} ELSE acked \ {h}
  BY DEF Record
<1>4. /\ latest' = IF latest = None THEN None ELSE [latest EXCEPT !.proof = proof]
      /\ disk' = IF latest = None THEN disk
                 ELSE SetProof(Save(disk, latest'), h, proof)
      /\ env' = env
  BY DEF Record
<1> HIDE DEF proof
<1>5. /\ store' \in [Hashes -> Proof \cup {None}]
      /\ acked' \subseteq Hashes
  BY <1>1, <1>2, <1>3 DEF Inv, TypeOK
<1>6. PendingIsOwn(store')
  BY <1>1, <1>2 DEF Inv, TypeOK, ServerOK, PendingIsOwn
<1>7. CASE latest = None
  <2>1. latest' = None /\ disk' = disk
    BY <1>4, <1>7
  <2>2. ServerOK'
    BY <1>5, <1>6, <1>7, <2>1 DEF Inv, ServerOK
  <2>3. QED
    BY <1>4, <1>5, <1>7, <2>1, <2>2, SameFile DEF Inv, TypeOK
<1>8. CASE latest # None
  <2>1. /\ latest' \in Assessment
        /\ latest' # None
        /\ latest'.hash = h
        /\ latest'.proof = proof
    BY <1>1, <1>4, <1>8, AcceptsMeans, NoneAssumption
       DEF Inv, TypeOK, Assessment
  <2>2. /\ Save(disk, latest') \in State
        /\ Save(disk, latest').latest = latest'
        /\ Save(disk, latest').proofs = disk.proofs
    BY <2>1, SaveProperties DEF Inv, TypeOK
  <2>3. /\ disk' \in State
        /\ disk'.latest = latest'
        /\ disk'.proofs = [disk.proofs EXCEPT ![h] = proof]
    BY <1>1, <1>4, <1>8, <2>2, SetProofProperties
  <2>4. disk.proofs \in [Hashes -> Proof \cup {None}]
    BY DEF Inv, TypeOK, State
  <2>5. /\ disk'.proofs[h] = proof
        /\ \A g \in Hashes : g # h => disk'.proofs[g] = disk.proofs[g]
    BY <2>3, <2>4
  <2>6. Keeps(disk, disk')
    BY <1>1, <2>1, <2>3, <2>5 DEF Keeps
  <2>7. ProofOf(h, proof, disk')
    BY <1>1, <2>1, <2>3, <2>5 DEF ProofOf, Filed
  <2>8. PendingIsOwn(disk'.proofs)
    BY <1>1, <2>5 DEF Inv, ServerOK, PendingIsOwn
  <2>9. ASSUME NEW g \in acked'
        PROVE  disk'.proofs[g] # None => Kept(g, disk')
    BY <1>1, <1>3, <1>5, <2>5, <2>9 DEF Inv, ServerOK, Kept
  <2>10. ServerOK'
    BY <1>6, <2>1, <2>3, <2>7, <2>8, <2>9 DEF ServerOK, ProofOf
  <2>11. QED  BY <1>4, <1>5, <2>1, <2>3, <2>6, <2>7, <2>10 DEF proof
<1>9. QED  BY <1>7, <1>8

LEMMA ServeRecordInv ==
    ASSUME Inv, NEW p \in Pages, NEW k \in Kinds, ServeRecord(p, k)
    PROVE  Inv'
<1> USE DEF ServeRecord, Waits, Asked
<1> DEFINE h == calls[p][k].mine.hash
           proof == Server!RecordedProof(h)
           call == Replied(calls[p][k], proof)
<1>1. calls[p][k] \in Call /\ calls[p][k].mine \in Shown /\ h \in Hashes
  BY DEF Inv, TypeOK, Shape, CallShape, Shown
<1>2. latest # None
  BY DEF Inv, PagesOK, CallOK, Filed, ServerOK
<1>3. /\ ServerOK'
      /\ Keeps(disk, disk')
      /\ env' = env
      /\ latest' \in Assessment \cup {None}
      /\ store' \in [Hashes -> Proof \cup {None}]
      /\ disk' \in State
      /\ acked' \subseteq Hashes
      /\ ProofOf(h, proof, disk')
  BY <1>1, <1>2, RecordServer
<1>4. proof \in PageProof
  BY <1>1, ServerProofs, ProofIsPageProof DEF Inv
<1> HIDE DEF proof
<1>5. call.step = "record" /\ call.answer = proof /\ call.mine.hash = h
  BY <1>1, <1>4, RepliedCall
<1>6. AnswerOK(call, disk')
  BY <1>3, <1>5 DEF AnswerOK
<1>7. Reply(p, k, proof)
  BY DEF proof
<1>8. /\ shown' \in [Pages -> Shown \cup {None}]
      /\ calls' \in [Pages -> [Kinds -> Call]]
      /\ Shape' /\ PagesOK'
  BY <1>3, <1>4, <1>6, <1>7, ReplyStep
<1>9. TypeOK'
  BY <1>3, <1>8 DEF Inv, TypeOK
<1>10. QED  BY <1>3, <1>8, <1>9 DEF Inv

LEMMA ServeVerifyInv ==
    ASSUME Inv, NEW p \in Pages, NEW k \in Kinds, ServeVerify(p, k)
    PROVE  Inv'
<1> USE DEF Waits, Asked
<1> DEFINE h == calls[p][k].mine.hash
           found == Server!RecordFor(h)
           kept == [found EXCEPT !.status = "verified_matched"]
           verified == [status   |-> "verified_matched",
                        tx       |-> calls[p][k].mine.proof.tx,
                        recorded |-> h]
           call == Replied(calls[p][k], verified)
<1>1. /\ calls[p][k] \in Call
      /\ calls[p][k].step = "verify"
      /\ calls[p][k].mine \in Shown
      /\ h \in Hashes
  BY DEF Inv, TypeOK, Shape, CallShape, Shown, ServeVerify
<1>2. /\ latest # None
      /\ disk.proofs[h] # None
      /\ calls[p][k].mine.proof.tx # None
  BY <1>1 DEF Inv, PagesOK, CallOK, Filed, ServerOK
<1>3. found \in Proof /\ found.tx # None
  BY <1>1, MatchesMeans, ServerProofs DEF Inv, ServeVerify
<1>4. /\ verified \in PageProof
      /\ verified.status = "verified_matched"
      /\ verified.tx # None
      /\ verified.recorded = h
  BY <1>1, <1>2 DEF PageProof, Shown, Statuses
<1>5. verified \in Proof /\ verified # None
  <2>1. verified \in Proof
    BY <1>1 DEF Proof, PageProof, Shown, Statuses
  <2>2. QED  BY <2>1, NoneAssumption
<1>6. kept \in Proof /\ kept.tx # None
  BY <1>3 DEF Proof, Statuses
<1>7. /\ store' = [store EXCEPT ![h] = kept]
      /\ latest' = [latest EXCEPT !.proof = verified]
      /\ disk' = SetProof(Save(disk, latest'), latest.hash, verified)
      /\ acked' = IF latest.hash # h THEN acked \ {latest.hash} ELSE acked
      /\ Reply(p, k, verified)
      /\ UNCHANGED <<env, form, shown, failed, busy, told>>
  BY <1>2 DEF ServeVerify
<1>8. call.step = "verify" /\ call.answer = verified /\ call.mine.hash = h
  BY <1>1, <1>4, RepliedCall
<1> HIDE DEF found, kept, verified, call
<1>9. /\ latest' \in Assessment
      /\ latest' # None
      /\ latest'.hash = latest.hash
      /\ latest'.proof = verified
      /\ latest.hash \in Hashes
  BY <1>2, <1>5, <1>7, NoneAssumption DEF Inv, TypeOK, Assessment
<1>10. /\ Save(disk, latest') \in State
       /\ Save(disk, latest').latest = latest'
       /\ Save(disk, latest').proofs = disk.proofs
  BY <1>9, SaveProperties DEF Inv, TypeOK
<1>11. /\ disk' \in State
       /\ disk'.latest = latest'
       /\ disk'.proofs = [disk.proofs EXCEPT ![latest.hash] = verified]
  BY <1>5, <1>7, <1>9, <1>10, SetProofProperties
<1>12. disk.proofs \in [Hashes -> Proof \cup {None}]
  BY DEF Inv, TypeOK, State
<1>13. /\ disk'.proofs[latest.hash] = verified
       /\ \A g \in Hashes : g # latest.hash => disk'.proofs[g] = disk.proofs[g]
  BY <1>9, <1>11, <1>12
<1>14. Keeps(disk, disk')
  BY <1>5, <1>9, <1>11, <1>13 DEF Keeps
<1>15. disk'.proofs[h] # None
  BY <1>1, <1>2, <1>14 DEF Keeps
<1>16. ProofOf(h, verified, disk')
  BY <1>4, <1>9, <1>11, <1>15 DEF ProofOf, Filed
<1>17. AnswerOK(call, disk')
  BY <1>8, <1>16 DEF AnswerOK
<1>18. /\ shown' \in [Pages -> Shown \cup {None}]
       /\ calls' \in [Pages -> [Kinds -> Call]]
       /\ Shape' /\ PagesOK'
  BY <1>1, <1>4, <1>7, <1>14, <1>17, ReplyStep DEF call
<1>19. /\ store' \in [Hashes -> Proof \cup {None}]
       /\ acked' \subseteq Hashes
  BY <1>1, <1>6, <1>7 DEF Inv, TypeOK
<1>20. TypeOK'
  BY <1>7, <1>9, <1>11, <1>18, <1>19 DEF Inv, TypeOK
<1>21. ServerOK'
  <2>1. PendingIsOwn(store')
    BY <1>1, <1>6, <1>7 DEF Inv, TypeOK, ServerOK, PendingIsOwn
  <2>2. PendingIsOwn(disk'.proofs)
    BY <1>4, <1>13 DEF Inv, ServerOK, PendingIsOwn
  <2>3. Filed(latest'.hash, latest'.proof, disk')
    BY <1>5, <1>9, <1>11, <1>13 DEF Filed
  <2>4. ASSUME NEW g \in acked', disk'.proofs[g] # None
        PROVE  Kept(g, disk')
    <3>1. g \in Hashes /\ g \in acked
      BY <1>7, <1>19, <2>4
    <3>2. CASE g = latest.hash
      BY <1>4, <1>7, <1>13, <2>4, <3>2 DEF Kept
    <3>3. CASE g # latest.hash
      BY <1>13, <2>4, <3>1, <3>3 DEF Inv, ServerOK, Kept
    <3>4. QED  BY <3>2, <3>3
  <2>5. QED  BY <1>9, <1>11, <2>1, <2>2, <2>3, <2>4 DEF ServerOK
<1>22. QED  BY <1>18, <1>20, <1>21 DEF Inv

LEMMA DenyVerifyInv ==
    ASSUME Inv, NEW p \in Pages, NEW k \in Kinds, DenyVerify(p, k)
    PROVE  Inv'
<1> USE DEF Waits, Asked
<1> DEFINE h == calls[p][k].mine.hash
           found == Server!RecordFor(h)
           answer == [status   |-> IF found # None /\ found.tx # None
                                   THEN "verified_mismatch" ELSE "not_found",
                      tx       |-> calls[p][k].mine.proof.tx,
                      recorded |-> IF found = None THEN None
                                                  ELSE found.recorded]
           call == Replied(calls[p][k], answer)
<1>1. /\ calls[p][k] \in Call
      /\ calls[p][k].step = "verify"
      /\ calls[p][k].mine \in Shown
      /\ h \in Hashes
      /\ disk' = disk
  BY DEF Inv, TypeOK, Shape, CallShape, Shown, DenyVerify, serverVars
<1>2. found \in Proof \cup {None}
  BY <1>1, ServerProofs DEF Inv
<1>3. answer \in PageProof
  BY <1>1, <1>2 DEF PageProof, Shown, Proof
<1>4. found # None /\ found.tx = None => found.recorded = h
  BY <1>1, ServerFunctions DEF Inv, ServerOK, PendingIsOwn
<1>5. answer.status # "verified_mismatch" => answer.recorded \in {None, h}
  BY <1>4
<1>6. Filed(h, calls[p][k].mine.proof, disk)
  BY <1>1 DEF Inv, PagesOK, CallOK
<1>7. ProofOf(h, answer, disk)
  BY <1>5, <1>6 DEF ProofOf, Filed
<1>8. call.step = "verify" /\ call.answer = answer /\ call.mine.hash = h
  BY <1>1, <1>3, RepliedCall
<1>9. Reply(p, k, answer) /\ UNCHANGED <<serverVars, form, shown, failed, busy, told>>
  BY DEF DenyVerify
<1> HIDE DEF found, answer
<1>10. AnswerOK(call, disk')
  BY <1>1, <1>7, <1>8 DEF AnswerOK
<1>11. /\ shown' \in [Pages -> Shown \cup {None}]
       /\ calls' \in [Pages -> [Kinds -> Call]]
       /\ Shape' /\ PagesOK'
  BY <1>1, <1>3, <1>9, <1>10, ReplyStep, SameFile
<1>12. TypeOK'
  BY <1>9, <1>11 DEF Inv, TypeOK, serverVars
<1>13. QED  BY <1>9, <1>11, <1>12, ServerSame DEF Inv

LEMMA ServeInv ==
    ASSUME Inv, NEW p \in Pages, NEW k \in Kinds, Serve(p, k) \/ Lose(p, k)
    PROVE  Inv'
<1>1. calls[p][k] \in Call
  BY DEF Inv, TypeOK
<1>2. CASE RefuseRecord(p, k)
  <2> DEFINE call == [calls[p][k] EXCEPT !.back = TRUE, !.ok = FALSE]
  <2>1. /\ call \in Call
        /\ call.step = calls[p][k].step
        /\ call.mine = calls[p][k].mine
        /\ ~Answered(call)
    BY <1>1 DEF Call, Answered
  <2>2. QED  BY <1>2, <2>1, BareStep DEF RefuseRecord, Refuse
<1>3. CASE ServeRefresh(p, k)
  <2>1. /\ Replied(calls[p][k], None) \in Call
        /\ Replied(calls[p][k], None).step = "refresh"
        /\ Replied(calls[p][k], None).mine = calls[p][k].mine
    BY <1>1, <1>3, RepliedCall DEF ServeRefresh, Waits
  <2>2. Become(p, k, Replied(calls[p][k], None))
    BY <1>3 DEF ServeRefresh, Reply, Replied
  <2>3. calls[p][k].step = "refresh"
    BY <1>3 DEF ServeRefresh, Waits
  <2>4. QED  BY <1>3, <2>1, <2>2, <2>3, BareStep DEF ServeRefresh
<1>4. CASE Lose(p, k)
  <2> DEFINE call == [calls[p][k] EXCEPT !.back = TRUE, !.ok = FALSE,
                                         !.answer = None]
  <2>1. /\ call \in Call
        /\ call.step = calls[p][k].step
        /\ call.mine = calls[p][k].mine
        /\ ~Answered(call)
    BY <1>1 DEF Call, Answered
  <2>2. QED  BY <1>4, <2>1, BareStep DEF Lose
<1>5. QED
  BY <1>2, <1>3, <1>4, ServeLatestInv, ServePreflightInv, ServeRecordInv,
     ServeVerifyInv, DenyVerifyInv DEF Serve

-----------------------------------------------------------------------------
(* What a page does with an answer.                                        *)

\* A function goes on to its refresh, or ends, with s on display.
LEMMA SettleStep ==
    ASSUME Inv, NEW p \in Pages, NEW k \in Kinds,
           NEW call \in {NoCall, Sent("refresh", None)}, Become(p, k, call),
           NEW s \in Shown \cup {None}, ShownOK(s, disk),
           shown' = [shown EXCEPT ![p] = s],
           form' \in [Pages -> Forms],
           failed' \in [Pages -> BOOLEAN],
           busy' \in [Pages -> SUBSET Kinds],
           UNCHANGED <<serverVars, told>>
    PROVE  Inv'
<1>1. disk' = disk
  BY DEF serverVars
<1>2. call \in Call /\ CallShape(call) /\ CallOK(call, disk')
  BY PlainCall
<1>3. /\ shown' \in [Pages -> Shown \cup {None}]
      /\ calls' \in [Pages -> [Kinds -> Call]]
      /\ Shape' /\ PagesOK'
  BY <1>1, <1>2, PageStep, SameFile DEF Inv
<1>4. TypeOK'
  BY <1>3 DEF Inv, TypeOK, serverVars
<1>5. QED  BY <1>3, <1>4, ServerSame DEF Inv

LEMMA EndStep ==
    ASSUME Inv, NEW p \in Pages, NEW k \in Kinds, End(p, k),
           failed' \in [Pages -> BOOLEAN],
           UNCHANGED <<serverVars, form, shown, told>>
    PROVE  Inv'
<1>1. /\ shown[p] \in Shown \cup {None}
      /\ ShownOK(shown[p], disk)
      /\ shown' = [shown EXCEPT ![p] = shown[p]]
      /\ form' \in [Pages -> Forms]
  BY DEF Inv, TypeOK, PagesOK
<1>2. busy' \in [Pages -> SUBSET Kinds]
  BY DEF Inv, TypeOK, End
<1>3. QED  BY <1>1, <1>2, SettleStep DEF End

LEMMA ViewProperties ==
    ASSUME NEW a \in Assessment, NEW restored \in BOOLEAN
    PROVE  /\ View(a, restored) \in Shown
           /\ View(a, restored).hash = a.hash
           /\ View(a, restored).proof = a.proof
           /\ View(a, restored).restored = restored
BY ProofIsPageProof DEF View, Shown, Assessment

LEMMA SettleInv ==
    ASSUME Inv, NEW p \in Pages, NEW k \in Kinds, Settle(p, k)
    PROVE  Inv'
<1> DEFINE call == calls[p][k]
<1>1. /\ call \in Call
      /\ CallShape(call)
      /\ CallOK(call, disk)
      /\ failed \in [Pages -> BOOLEAN]
      /\ busy \in [Pages -> SUBSET Kinds]
      /\ form \in [Pages -> Forms]
  BY DEF Inv, TypeOK, Shape, PagesOK
<1>2. CASE Restored(p, k)
  <2>1. /\ Answered(call) /\ call.step = "latest" /\ call.answer # None
        /\ shown' = [shown EXCEPT ![p] = View(call.answer, TRUE)]
        /\ form' = [form EXCEPT ![p] = FormOf[call.answer.hash]]
        /\ Become(p, k, Sent("refresh", None))
        /\ UNCHANGED <<serverVars, failed, busy, told>>
    BY <1>2 DEF Restored, Arrived, Answered, Refresh
  <2>2. call.answer \in Assessment
    BY <1>1, <2>1 DEF CallShape
  <2>3. View(call.answer, TRUE) \in Shown /\ ShownOK(View(call.answer, TRUE), disk)
    BY <1>1, <2>1, <2>2, ViewProperties DEF ShownOK, CallOK, AnswerOK
  <2>4. form' \in [Pages -> Forms]
    BY <1>1, <2>1, <2>2, FormsAssumption DEF Assessment
  <2>5. QED  BY <1>1, <2>1, <2>3, <2>4, SettleStep
<1>3. CASE ShowRun(p, k)
  <2>1. /\ Answered(call) /\ call.step = "preflight"
        /\ shown' = [shown EXCEPT ![p] = View(call.answer, FALSE)]
        /\ Become(p, k, Sent("refresh", None))
        /\ UNCHANGED <<serverVars, form, failed, busy, told>>
    BY <1>3 DEF ShowRun, Arrived, Answered, Refresh
  <2>2. call.answer \in Assessment
    BY <1>1, <2>1 DEF CallShape
  <2>3. View(call.answer, FALSE) \in Shown /\ ShownOK(View(call.answer, FALSE), disk)
    BY <1>1, <2>1, <2>2, ViewProperties DEF ShownOK, CallOK, AnswerOK, ProofOf
  <2>4. QED  BY <1>1, <2>1, <2>3, SettleStep
<1>4. CASE ShowProof(p, k)
  <2> DEFINE s == [call.mine EXCEPT !.proof = call.answer, !.restored = FALSE]
  <2>1. /\ Answered(call) /\ call.step \in {"record", "verify"}
        /\ shown' = [shown EXCEPT ![p] = s]
        /\ Become(p, k, Sent("refresh", None))
        /\ UNCHANGED <<serverVars, form, failed, busy, told>>
    BY <1>4 DEF ShowProof, Arrived, Answered, Refresh
  <2>2. call.mine \in Shown /\ call.answer \in PageProof
    BY <1>1, <2>1 DEF CallShape
  <2>3. /\ s \in Shown
        /\ s.hash = call.mine.hash
        /\ s.proof = call.answer
    BY <2>2 DEF Shown
  <2>4. ProofOf(call.mine.hash, call.answer, disk)
    BY <1>1, <2>1 DEF CallOK, AnswerOK
  <2> HIDE DEF s
  <2>5. ShownOK(s, disk)
    BY <2>3, <2>4 DEF ShownOK, ProofOf
  <2>6. QED  BY <1>1, <2>1, <2>3, <2>5, SettleStep
<1>5. CASE NothingToRestore(p, k) \/ Done(p, k)
  BY <1>1, <1>5, EndStep DEF NothingToRestore, Done
<1>6. CASE Fail(p, k)
  <2>1. failed' \in [Pages -> BOOLEAN]
    BY <1>1, <1>6 DEF Fail
  <2>2. QED  BY <1>6, <2>1, EndStep DEF Fail
<1>7. QED  BY <1>2, <1>3, <1>4, <1>5, <1>6 DEF Settle

-----------------------------------------------------------------------------
(* The agent, the restarts, and the theorems.                              *)

LEMMA PagesSame ==
    ASSUME Inv, UNCHANGED pageVars, Keeps(disk, disk')
    PROVE  Shape' /\ PagesOK'
<1>1. Shape'
  BY DEF Inv, Shape, pageVars
<1>2. ASSUME NEW p \in Pages
      PROVE  ShownOK(shown[p], disk')
  BY ShownStays DEF Inv, TypeOK, PagesOK
<1>3. ASSUME NEW p \in Pages, NEW k \in Kinds
      PROVE  CallOK(calls[p][k], disk')
  BY CallStays DEF Inv, TypeOK, Shape, PagesOK
<1>4. QED  BY <1>1, <1>2, <1>3 DEF PagesOK, pageVars

LEMMA AgentInv == ASSUME Inv, Agent PROVE Inv'
<1>1. ASSUME NEW h \in Hashes, AgentAsks(h)
      PROVE  Inv'
  <2>1. TypeOK'
    BY <1>1 DEF AgentAsks, Inv, TypeOK, serverVars, pageVars
  <2>2. UNCHANGED serverVars /\ UNCHANGED disk /\ UNCHANGED pageVars
    BY <1>1 DEF AgentAsks, serverVars
  <2>3. QED  BY <2>1, <2>2, PagesSame, SameFile, ServerSame DEF Inv
<1>2. CASE AgentReads
  <2>1. latest.hash \in Hashes
    BY <1>2 DEF AgentReads, Inv, TypeOK, Assessment
  <2>2. TypeOK'
    BY <1>2, <2>1 DEF AgentReads, Inv, TypeOK, serverVars, pageVars
  <2>3. UNCHANGED serverVars /\ UNCHANGED disk /\ UNCHANGED pageVars
    BY <1>2 DEF AgentReads, serverVars
  <2>4. QED  BY <2>2, <2>3, PagesSame, SameFile, ServerSame DEF Inv
<1>3. CASE AgentRecords
  <2>1. told \in Hashes /\ Record(told) /\ UNCHANGED <<pageVars, told>>
    BY <1>3 DEF AgentRecords, Inv, TypeOK
  <2>2. /\ ServerOK'
        /\ Keeps(disk, disk')
        /\ env' = env
        /\ latest' \in Assessment \cup {None}
        /\ store' \in [Hashes -> Proof \cup {None}]
        /\ disk' \in State
        /\ acked' \subseteq Hashes
    BY <2>1, RecordServer
  <2>3. Shape' /\ PagesOK'
    BY <2>1, <2>2, PagesSame
  <2>4. TypeOK'
    BY <2>1, <2>2 DEF Inv, TypeOK, pageVars
  <2>5. QED  BY <2>2, <2>3, <2>4 DEF Inv
<1>4. QED  BY <1>1, <1>2, <1>3 DEF Agent

LEMMA RestartInv == ASSUME Inv, Restart PROVE Inv'
<1> USE DEF Restart
<1>1. TypeOK'
  BY DEF Inv, TypeOK, State, pageVars
<1>2. Shape' /\ PagesOK'
  BY PagesSame, SameFile
<1>3. ServerOK'
  BY DEF Inv, ServerOK, PendingIsOwn
<1>4. QED  BY <1>1, <1>2, <1>3 DEF Inv

LEMMA NextInv == Inv /\ [Next]_vars => Inv'
<1> SUFFICES ASSUME Inv, [Next]_vars PROVE Inv'
  OBVIOUS
<1>1. CASE Next
  BY <1>1, UserInv, ServeInv, SettleInv, AgentInv, RestartInv
     DEF Next, Advance
<1>2. CASE UNCHANGED vars
  <2>1. TypeOK'
    BY <1>2 DEF Inv, TypeOK, vars, serverVars, pageVars
  <2>2. UNCHANGED serverVars /\ UNCHANGED disk /\ UNCHANGED pageVars
    BY <1>2 DEF vars, serverVars
  <2>3. QED  BY <2>1, <2>2, PagesSame, SameFile, ServerSame DEF Inv
<1>3. QED  BY <1>1, <1>2

LEMMA Invariant == Spec => []Inv
BY InitInv, NextInv, PTL DEF Spec

\* Every variable keeps its type: what the pages wait for and show, and what
\* the server and its file hold.
THEOREM PagesTypeCorrect == Spec => []TypeOK
BY Invariant, PTL DEF Inv

\* However many pages and agents work with one server, with calls that are lost
\* or served late and with restarts in between: a proof that came by a click of
\* the user's is of the result that it is shown with, or is shown as a mismatch.
THEOREM ShownOwn == Spec => []ShownProofIsOwn
<1>1. Inv => ShownProofIsOwn
  BY DEF Inv, PagesOK, ShownOK, ProofOf, ShownProofIsOwn
<1>2. QED  BY <1>1, Invariant, PTL

\* And as long as its record call stands, what is shown as recorded or verified
\* is in the file, with a transaction and under its own hash, so that a restart
\* at any point finds it.
THEOREM ShownDurable == Spec => []ShownIsDurable
<1>1. Inv => ShownIsDurable
  <2> SUFFICES ASSUME Inv, NEW p \in Pages,
                      shown[p] # None,
                      ~shown[p].restored,
                      shown[p].proof.status \in {"recorded", "verified_matched"},
                      shown[p].hash \in acked
               PROVE  /\ disk.proofs[shown[p].hash] # None
                      /\ Kept(shown[p].hash, disk)
    BY DEF ShownIsDurable, Kept
  <2>1. shown[p].proof.tx # None /\ disk.proofs[shown[p].hash] # None
    BY DEF Inv, PagesOK, ShownOK, ProofOf, Filed
  <2>2. QED  BY <2>1 DEF Inv, ServerOK
<1>2. QED  BY <1>1, Invariant, PTL
=============================================================================
