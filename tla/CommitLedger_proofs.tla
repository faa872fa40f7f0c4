-------------------------- MODULE CommitLedger_proofs --------------------------
(***************************************************************************)
(* What holds of CommitLedger for any number of calls, keys, assessments   *)
(* and transactions, with crashes and with any behaviour of the node.      *)
(***************************************************************************)
EXTENDS CommitLedger, FiniteSetTheorems, SequenceTheorems,
        WellFoundedInduction, TLAPS

-----------------------------------------------------------------------------
(* The smallest index, and the sequences that the module changes.          *)

\* There is one, because the initial segments that end in the set are finite
\* and finite sets do not get smaller for ever.
LEMMA FirstIsIn == ASSUME NEW S, S \subseteq Nat, S # {} PROVE First(S) \in S
<1> DEFINE segments == {1 .. i : i \in S}
<1>1. segments # {}  OBVIOUS
<1>2. segments \subseteq FiniteSubsetsOf(Nat)
  BY FS_Interval DEF FiniteSubsetsOf
<1>3. IsWellFoundedOn(StrictSubsetOrdering(Nat), FiniteSubsetsOf(Nat))
  BY FS_StrictSubsetOrderingWellFounded
<1>4. PICK x \in segments :
          \A y \in segments : ~ (<<y, x>> \in StrictSubsetOrdering(Nat))
  <2> HIDE DEF segments
  <2>1. QED  BY <1>1, <1>2, <1>3, WFMin
<1>5. PICK i \in S : x = 1 .. i  OBVIOUS
<1>6. ASSUME NEW j \in S PROVE i <= j
  <2>1. ~ (<<1 .. j, 1 .. i>> \in StrictSubsetOrdering(Nat))
    BY <1>4, <1>5
  <2>2. ~ (1 .. j \subseteq 1 .. i /\ 1 .. j # 1 .. i)
    BY <2>1 DEF StrictSubsetOrdering
  <2>3. SUFFICES ASSUME j < i PROVE FALSE  OBVIOUS
  <2>4. i \in 1 .. i /\ i \notin 1 .. j  BY <2>3
  <2>5. 1 .. j \subseteq 1 .. i  BY <2>3
  <2>6. QED  BY <2>2, <2>4, <2>5
<1>7. QED  BY <1>6 DEF First

LEMMA Indices ==
    ASSUME NEW S, NEW s \in Seq(S)
    PROVE  /\ DOMAIN s = 1 .. Len(s)
           /\ Len(s) \in Nat
           /\ DOMAIN s \subseteq Nat
           /\ \A i \in DOMAIN s : s[i] \in S
BY LenProperties, ElementOfSeq

LEMMA Appended ==
    ASSUME NEW S, NEW s \in Seq(S), NEW e \in S
    PROVE  /\ Append(s, e) \in Seq(S)
           /\ Len(s) + 1 \notin DOMAIN s
           /\ DOMAIN Append(s, e) = DOMAIN s \cup {Len(s) + 1}
           /\ Append(s, e)[Len(s) + 1] = e
           /\ \A i \in DOMAIN s : Append(s, e)[i] = s[i]
<1>1. Append(s, e) \in Seq(S) /\ Len(Append(s, e)) = Len(s) + 1
  BY AppendProperties
<1>2. DOMAIN Append(s, e) = 1 .. Len(s) + 1
  BY <1>1, LenProperties
<1>3. Len(s) \in Nat /\ DOMAIN s = 1 .. Len(s)
  BY LenProperties
<1>4. QED  BY <1>1, <1>2, <1>3, AppendProperties

\* What maps the elements of a sequence one by one gives a sequence.
LEMMA Mapped ==
    ASSUME NEW S, NEW s \in Seq(S), NEW t,
           t = [i \in DOMAIN s |-> t[i]], \A i \in DOMAIN s : t[i] \in S
    PROVE  t \in Seq(S) /\ DOMAIN t = DOMAIN s
<1>1. DOMAIN s = 1 .. Len(s) /\ Len(s) \in Nat
  BY LenProperties
<1>2. t \in [1 .. Len(s) -> S]
  BY <1>1
<1>3. QED  BY <1>1, <1>2, SeqDef

-----------------------------------------------------------------------------
(* Types.                                                                  *)

\* What a call carries at each of its steps.
CommitShape(c) ==
    /\ c.pc # "idle" => c.hash \in Hashes /\ c.key \in Keys
    /\ c.pc = "store" => c.status \in Statuses
    /\ c.pc = "attach" => c.record \in Record

VerificationShape(c, known) ==
    /\ c.pc # "idle" => c.tx \in Txs
    /\ c.pc = "receipt" => known[c.tx] \in Transaction
    /\ c.pc = "attach" => c.verdict \in Verdicts

Shape == /\ \A t \in Committers : CommitShape(committer[t])
         /\ \A v \in Verifiers : VerificationShape(verifier[v], txs)

Typed == TypeOK /\ Shape

LEMMA IdleIsTyped == /\ NoCommit \in Commit /\ CommitShape(NoCommit)
                     /\ NoVerification \in Verification
                     /\ VerificationShape(NoVerification, txs)
BY DEF NoCommit, Commit, CommitShape, NoVerification, Verification,
       VerificationShape, Modes

LEMMA InitTyped == Init => Typed
<1> SUFFICES ASSUME Init PROVE Typed  OBVIOUS
<1>1. records \in Seq(Record) /\ rows \in Seq(Row)
  BY EmptySeq DEF Init
<1>2. QED  BY <1>1, IdleIsTyped DEF Init, Typed, TypeOK, Shape

\* A step of one call keeps the types if what it makes of the call is well
\* shaped.
LEMMA StepIsTyped ==
    ASSUME Typed, NEW t \in Committers, NEW c, Step(t, c),
           c \in Commit, CommitShape(c)
    PROVE  /\ committer' \in [Committers -> Commit]
           /\ \A u \in Committers : CommitShape(committer'[u])
BY DEF Typed, TypeOK, Shape, Step

LEMMA VStepIsTyped ==
    ASSUME Typed, NEW v \in Verifiers, NEW c, VStep(v, c),
           c \in Verification, VerificationShape(c, txs)
    PROVE  /\ verifier' \in [Verifiers -> Verification]
           /\ \A u \in Verifiers : VerificationShape(verifier'[u], txs)
BY DEF Typed, TypeOK, Shape, VStep

\* A step of the ledger alone: what is left to show.
LEMMA CommitStepTyped ==
    ASSUME Typed, NEW t \in Committers, NEW c, Step(t, c),
           c \in Commit, CommitShape(c),
           UNCHANGED <<configured, verifier, chainVars, rows, sent>>,
           records' \in Seq(Record), lock' \in Committers \cup {None}
    PROVE  Typed'
<1>1. /\ committer' \in [Committers -> Commit]
      /\ \A u \in Committers : CommitShape(committer'[u])
  BY StepIsTyped
<1>2. QED  BY <1>1 DEF Typed, TypeOK, Shape, chainVars

LEMMA VerifyStepTyped ==
    ASSUME Typed, NEW v \in Verifiers, NEW c, VStep(v, c),
           c \in Verification, VerificationShape(c, txs),
           UNCHANGED <<ledgerVars, committer, chainVars, sent>>,
           rows' \in Seq(Row)
    PROVE  Typed'
<1>1. /\ verifier' \in [Verifiers -> Verification]
      /\ \A u \in Verifiers : VerificationShape(verifier'[u], txs)
  BY VStepIsTyped
<1>2. QED  BY <1>1 DEF Typed, TypeOK, Shape, chainVars, ledgerVars

LEMMA CommitCallTyped ==
    ASSUME Typed, NEW t \in Committers, NEW h \in Hashes, NEW key \in Keys,
           NEW mode \in Modes, CommitCall(t, h, key, mode)
    PROVE  Typed'
<1> DEFINE c == [NoCommit EXCEPT !.pc = "lock", !.hash = h, !.key = key,
                                 !.mode = mode]
<1>1. c \in Commit /\ CommitShape(c)
  BY IdleIsTyped DEF Commit, CommitShape
<1>2. Step(t, c)  BY DEF CommitCall
<1> HIDE DEF c
<1>3. QED
  BY <1>1, <1>2, CommitStepTyped DEF CommitCall, ledgerVars, Typed, TypeOK

LEMMA KeyHasRecord ==
    ASSUME Typed, NEW key, RecordsOf(key) # {}
    PROVE  /\ First(RecordsOf(key)) \in DOMAIN records
           /\ records[First(RecordsOf(key))] \in Record
           /\ records[First(RecordsOf(key))].key = key
<1>1. RecordsOf(key) \subseteq DOMAIN records /\ DOMAIN records \subseteq Nat
  BY Indices DEF Typed, TypeOK, RecordsOf
<1>2. First(RecordsOf(key)) \in RecordsOf(key)  BY <1>1, FirstIsIn
<1>3. QED  BY <1>2, Indices DEF Typed, TypeOK, RecordsOf

LEMMA HitTyped == ASSUME Typed, NEW t \in Committers, Hit(t) PROVE Typed'
<1> DEFINE c == [committer[t] EXCEPT !.pc = "attach",
                    !.record = records[First(RecordsOf(committer[t].key))]]
<1>1. records[First(RecordsOf(committer[t].key))] \in Record
  BY KeyHasRecord DEF Hit
<1>2. c \in Commit /\ CommitShape(c)
  BY <1>1 DEF Commit, CommitShape, Typed, TypeOK, Shape, Hit
<1>3. Step(t, c)  BY DEF Hit
<1> HIDE DEF c
<1>4. QED
  BY <1>2, <1>3, CommitStepTyped DEF Hit, ledgerVars, Typed, TypeOK

LEMMA MissTyped == ASSUME Typed, NEW t \in Committers, Miss(t) PROVE Typed'
<1> DEFINE c == IF committer[t].mode = "local_only"
                THEN [committer[t] EXCEPT !.pc = "store",
                                          !.status = "recorded_local"]
                ELSE IF ~configured
                THEN [committer[t] EXCEPT !.pc = "store",
                                          !.status = "pending_unavailable"]
                ELSE [committer[t] EXCEPT !.pc = "nonce"]
<1>1. c \in Commit /\ CommitShape(c)
  BY DEF Commit, CommitShape, Typed, TypeOK, Shape, Miss, Statuses
<1>2. Step(t, c)  BY DEF Miss
<1> HIDE DEF c
<1>3. QED  BY <1>1, <1>2, CommitStepTyped DEF Miss, Typed, TypeOK

LEMMA ReadNonceTyped ==
    ASSUME Typed, NEW t \in Committers, ReadNonce(t) PROVE Typed'
<1> DEFINE c == [committer[t] EXCEPT !.pc = "send", !.nonce = accountNonce]
<1>1. c \in Commit /\ CommitShape(c)
  BY DEF Commit, CommitShape, Typed, TypeOK, Shape, ReadNonce
<1>2. Step(t, c)  BY DEF ReadNonce
<1> HIDE DEF c
<1>3. QED
  BY <1>1, <1>2, CommitStepTyped DEF ReadNonce, ledgerVars, Typed, TypeOK

LEMMA SendFailsTyped ==
    ASSUME Typed, NEW t \in Committers, SendFails(t) PROVE Typed'
<1> DEFINE c == [committer[t] EXCEPT !.pc = "store",
                                     !.status = "pending_retry"]
<1>1. c \in Commit /\ CommitShape(c)
  BY DEF Commit, CommitShape, Typed, TypeOK, Shape, SendFails, Statuses
<1>2. Step(t, c)  BY DEF SendFails
<1> HIDE DEF c
<1>3. QED
  BY <1>1, <1>2, CommitStepTyped DEF SendFails, ledgerVars, Typed, TypeOK

\* The transactions after a send: the new one, and those before with another
\* state perhaps.
LEMMA SentTransactions ==
    ASSUME Typed, NEW t \in Committers, NEW x \in Txs, NEW heard \in BOOLEAN,
           SendAccepted(t, x, heard)
    PROVE  /\ txs' \in [Txs -> Transaction \cup {None}]
           /\ txs'[x] \in Transaction
           /\ txs'[x].server = TRUE /\ txs'[x].logger = TRUE
           /\ txs'[x].hash = committer[t].hash
           /\ txs'[x].state = "pending"
           /\ \A y \in Txs \ {x} :
                  \/ txs'[y] = txs[y]
                  \/ /\ txs[y] # None /\ txs[y].state = "pending"
                     /\ txs'[y] = [txs[y] EXCEPT !.state = "dropped"]
           /\ \A y \in Txs \ {x} :
                  txs[y] \in Transaction => txs'[y] \in Transaction
<1>1. committer[t].hash \in Hashes /\ committer[t].nonce \in Nat
  BY DEF SendAccepted, Typed, TypeOK, Shape, CommitShape, Commit
<1>2. txs'[x] = [server |-> TRUE, nonce |-> committer[t].nonce,
                 hash |-> committer[t].hash, logger |-> TRUE,
                 state |-> "pending"]
  BY DEF SendAccepted
<1>3. ASSUME NEW y \in Txs \ {x}
      PROVE  \/ txs'[y] = txs[y]
             \/ /\ txs[y] # None /\ txs[y].state = "pending"
                /\ txs'[y] = [txs[y] EXCEPT !.state = "dropped"]
  BY DEF SendAccepted
<1>4. txs'[x] \in Transaction  BY <1>1, <1>2 DEF Transaction
<1>5. ASSUME NEW y \in Txs \ {x}, txs[y] \in Transaction
      PROVE  txs'[y] \in Transaction
  <2>1. [txs[y] EXCEPT !.state = "dropped"] \in Transaction
    BY <1>5 DEF Transaction
  <2>2. QED  BY <1>3, <1>5, <2>1
<1>6. \A y \in Txs : txs'[y] \in Transaction \cup {None}
  BY <1>3, <1>4, <1>5 DEF Typed, TypeOK
<1>7. txs' \in [Txs -> Transaction \cup {None}]
  BY <1>6 DEF SendAccepted
<1>8. QED  BY <1>2, <1>3, <1>4, <1>5, <1>7

\* Verify calls stay well shaped while transactions change their state only.
LEMMA VerifiersKeepShape ==
    ASSUME Typed, UNCHANGED verifier, NEW x,
           txs' \in [Txs -> Transaction \cup {None}],
           \A y \in Txs \ {x} :
               txs[y] \in Transaction => txs'[y] \in Transaction,
           x \in Txs => txs'[x] \in Transaction
    PROVE  \A v \in Verifiers : VerificationShape(verifier'[v], txs')
<1>1. \A y \in Txs : txs[y] \in Transaction => txs'[y] \in Transaction
  OBVIOUS
<1>2. QED  BY <1>1 DEF Typed, Shape, VerificationShape

LEMMA SendAcceptedTyped ==
    ASSUME Typed, NEW t \in Committers, NEW x \in Txs, NEW heard \in BOOLEAN,
           SendAccepted(t, x, heard)
    PROVE  Typed'
<1> DEFINE status == IF heard THEN "recorded" ELSE "pending_retry"
           tx == IF heard THEN x ELSE None
           c == [committer[t] EXCEPT !.pc = "store", !.status = status,
                                     !.tx = tx]
<1>1. c \in Commit /\ CommitShape(c)
  <2>1. status \in Statuses /\ tx \in Txs \cup {None}  BY DEF Statuses
  <2>2. /\ committer[t] \in Commit
        /\ committer[t].hash \in Hashes /\ committer[t].key \in Keys
    BY DEF CommitShape, Typed, TypeOK, Shape, SendAccepted
  <2> HIDE DEF status, tx
  <2>3. QED  BY <2>1, <2>2 DEF Commit, CommitShape
<1>2. Step(t, c)  BY DEF SendAccepted
<1>3. /\ committer' \in [Committers -> Commit]
      /\ \A u \in Committers : CommitShape(committer'[u])
  <2> HIDE DEF c
  <2>1. QED  BY <1>1, <1>2, StepIsTyped
<1>4. /\ txs' \in [Txs -> Transaction \cup {None}]
      /\ txs'[x] \in Transaction
      /\ \A y \in Txs \ {x} :
            txs[y] \in Transaction => txs'[y] \in Transaction
  BY SentTransactions
<1>5. \A v \in Verifiers : VerificationShape(verifier'[v], txs')
  BY <1>4, VerifiersKeepShape DEF SendAccepted
<1>6. sent' \in [Keys -> Txs \cup {None}]
  BY DEF SendAccepted, Typed, TypeOK
<1>7. QED
  BY <1>3, <1>4, <1>5, <1>6
  DEF SendAccepted, ledgerVars, Typed, TypeOK, Shape

\* The record that a commit call stores.
LEMMA RecordOfCall ==
    ASSUME Typed, NEW t \in Committers, committer[t].pc = "store"
    PROVE  [id |-> IdOf[committer[t].hash], hash |-> committer[t].hash,
            key |-> committer[t].key, status |-> committer[t].status,
            tx |-> committer[t].tx, outcome |-> FALSE] \in Record
<1>1. /\ committer[t].hash \in Hashes
      /\ committer[t].key \in Keys
      /\ committer[t].status \in Statuses
      /\ committer[t].tx \in Txs \cup {None}
  BY DEF Typed, TypeOK, Shape, CommitShape, Commit
<1>2. QED  BY <1>1, IdsAssumption DEF Record

LEMMA StoreTyped == ASSUME Typed, NEW t \in Committers, Store(t) PROVE Typed'
<1> DEFINE record == [id |-> IdOf[committer[t].hash], hash |-> committer[t].hash,
                      key |-> committer[t].key, status |-> committer[t].status,
                      tx |-> committer[t].tx, outcome |-> FALSE]
           c == [committer[t] EXCEPT !.pc = "attach", !.record = record]
<1>1. record \in Record  BY RecordOfCall DEF Store
<1>2. CASE committer[t].hash \in Complete
  <2>1. /\ records' = Append(records, record)
        /\ Step(t, c)
    BY <1>2 DEF Store
  <2> HIDE DEF record
  <2>2. c \in Commit /\ CommitShape(c)
    BY <1>1 DEF Commit, CommitShape, Typed, TypeOK, Shape, Store
  <2>3. records' \in Seq(Record)  BY <1>1, <2>1, Appended DEF Typed, TypeOK
  <2> HIDE DEF c
  <2>4. QED  BY <2>1, <2>2, <2>3, CommitStepTyped DEF Store
<1>3. CASE committer[t].hash \notin Complete
  BY <1>3, IdleIsTyped, CommitStepTyped DEF Store, Typed, TypeOK
<1>4. QED  BY <1>2, <1>3

\* A call whose request is over, after the rows have been patched.
LEMMA AttachCommitTyped ==
    ASSUME Typed, NEW t \in Committers, AttachCommit(t) PROVE Typed'
<1> DEFINE r == committer[t].record
           patched(row) == [row EXCEPT !.tx = r.tx, !.commit = r.status]
<1>1. r.tx \in Txs \cup {None} /\ r.status \in Statuses
  BY DEF AttachCommit, Typed, Shape, CommitShape, Record
<1>2. ASSUME NEW row \in Row PROVE patched(row) \in Row
  <2> HIDE DEF r
  <2>1. QED  BY <1>1 DEF Row
<1>3. rows' = [i \in DOMAIN rows |-> rows'[i]]
  BY DEF AttachCommit
<1>4. \A i \in DOMAIN rows : rows'[i] = rows[i] \/ rows'[i] = patched(rows[i])
  BY DEF AttachCommit
<1>5. rows \in Seq(Row) /\ \A i \in DOMAIN rows : rows[i] \in Row
  BY Indices DEF Typed, TypeOK
<1> HIDE DEF patched
<1>6. \A i \in DOMAIN rows : rows'[i] \in Row  BY <1>2, <1>4, <1>5
<1>7. rows' \in Seq(Row)  BY <1>3, <1>5, <1>6, Mapped
<1>8. /\ committer' \in [Committers -> Commit]
      /\ \A u \in Committers : CommitShape(committer'[u])
  BY IdleIsTyped, StepIsTyped DEF AttachCommit
<1>9. QED
  BY <1>7, <1>8
  DEF AttachCommit, ledgerVars, chainVars, Typed, TypeOK, Shape

LEMMA ScanTyped == ASSUME Typed, NEW h \in Hashes, Scan(h) PROVE Typed'
<1> DEFINE row == [hash |-> h, tx |-> None, commit |-> None, verified |-> None]
           longer == Append(rows, row)
<1>1. row \in Row  BY DEF Row
<1>2. longer \in Seq(Row) /\ longer # <<>>
  BY <1>1, AppendProperties DEF Typed, TypeOK
<1>3. rows' = IF Len(longer) > RowCap THEN Tail(longer) ELSE longer
  BY DEF Scan
<1> HIDE DEF longer
<1>4. rows' \in Seq(Row)  BY <1>2, <1>3, HeadTailProperties
<1>5. QED  BY <1>4 DEF Scan, ledgerVars, chainVars, Typed, TypeOK, Shape

\* What an outcome does to the records: it adds a stub, which has no key and no
\* transaction, or it marks one record.
LEMMA OutcomeRecords ==
    ASSUME Typed, NEW id \in Ids, Outcome(id)
    PROVE  /\ records' \in Seq(Record)
           /\ DOMAIN records \subseteq DOMAIN records'
           /\ \A i \in DOMAIN records :
                  /\ records'[i].key = records[i].key
                  /\ records'[i].id = records[i].id
                  /\ Answer(records'[i]) = Answer(records[i])
                  /\ records'[i].status = records[i].status
                  /\ records'[i].tx = records[i].tx
                  /\ records'[i].hash = records[i].hash
           /\ \A i \in DOMAIN records' \ DOMAIN records :
                  /\ records'[i].key = None /\ records'[i].tx = None
                  /\ records'[i].hash = None
                  /\ records'[i].status = "pending_unavailable"
<1> DEFINE stub == [id |-> id, hash |-> None, key |-> None,
                    status |-> "pending_unavailable", tx |-> None,
                    outcome |-> TRUE]
           n == First(RecordsWithId(id))
<1>1. records \in Seq(Record) /\ \A i \in DOMAIN records : records[i] \in Record
  BY Indices DEF Typed, TypeOK
<1>2. CASE RecordsWithId(id) = {}
  <2>1. stub \in Record  BY DEF Record, Statuses
  <2>2. records' = Append(records, stub)  BY <1>2 DEF Outcome
  <2>3. /\ stub.key = None /\ stub.tx = None /\ stub.hash = None
        /\ stub.status = "pending_unavailable"
    OBVIOUS
  <2> HIDE DEF stub
  <2>4. QED  BY <1>1, <2>1, <2>2, <2>3, Appended
<1>3. CASE RecordsWithId(id) # {}
  <2> DEFINE marked(r) == [r EXCEPT !.outcome = TRUE]
  <2>1. records' = [records EXCEPT ![n].outcome = TRUE]  BY <1>3 DEF Outcome
  <2> HIDE DEF n
  <2>2. /\ records' = [i \in DOMAIN records |-> records'[i]]
        /\ \A i \in DOMAIN records : \/ records'[i] = records[i]
                                     \/ records'[i] = marked(records[i])
    BY <2>1
  <2>3. ASSUME NEW r \in Record
        PROVE  /\ marked(r) \in Record
               /\ marked(r).key = r.key /\ marked(r).id = r.id
               /\ marked(r).status = r.status /\ marked(r).tx = r.tx
               /\ marked(r).hash = r.hash
    BY DEF Record
  <2> HIDE DEF marked
  <2>4. records' \in Seq(Record) /\ DOMAIN records' = DOMAIN records
    BY <1>1, <2>2, <2>3, Mapped
  <2>5. QED  BY <1>1, <2>2, <2>3, <2>4 DEF Answer
<1>4. QED  BY <1>2, <1>3

LEMMA OutcomeTyped == ASSUME Typed, NEW id \in Ids, Outcome(id) PROVE Typed'
BY OutcomeRecords DEF Outcome, chainVars, Typed, TypeOK, Shape

LEMMA FoundHasRecord ==
    ASSUME Typed, NEW id, NEW x, Found(id, x) # {}
    PROVE  /\ First(Found(id, x)) \in DOMAIN records
           /\ records[First(Found(id, x))] \in Record
           /\ \/ records[First(Found(id, x))].id = id
              \/ records[First(Found(id, x))].tx = x
<1>1. Found(id, x) \subseteq DOMAIN records /\ DOMAIN records \subseteq Nat
  BY Indices DEF Typed, TypeOK, Found
<1>2. First(Found(id, x)) \in Found(id, x)  BY <1>1, FirstIsIn
<1>3. QED  BY <1>2, Indices DEF Typed, TypeOK, Found

LEMMA VerifyCallTyped ==
    ASSUME Typed, NEW v \in Verifiers, NEW x \in Txs,
           NEW id \in Ids \cup {None}, NEW h \in Hashes \cup {None},
           VerifyCall(v, x, id, h)
    PROVE  Typed'
<1> DEFINE found == Found(id, x)
           local == records[First(found)]
           expected == IF h # None \/ found = {} THEN h ELSE local.hash
           named == IF found = {} THEN id ELSE local.id
           known == IF found = {} THEN expected ELSE local.hash
           c == [NoVerification EXCEPT !.pc = "tx", !.tx = x,
                     !.expected = expected, !.id = named, !.local = known]
<1>1. found # {} => local.hash \in Hashes \cup {None} /\ local.id \in Ids
  BY FoundHasRecord DEF Record
<1>2. VStep(v, c)  BY DEF VerifyCall
<1> HIDE DEF found, local
<1>3. /\ expected \in Hashes \cup {None} /\ known \in Hashes \cup {None}
      /\ named \in Ids \cup {None}
  BY <1>1
<1> HIDE DEF expected, known, named
<1>4. c \in Verification /\ VerificationShape(c, txs)
  BY <1>3 DEF NoVerification, Verification, VerificationShape
<1> HIDE DEF c
<1>5. QED  BY <1>2, <1>4, VerifyStepTyped DEF VerifyCall, Typed, TypeOK

\* The three ways to conclude a verification.
LEMMA ConcludeTyped ==
    ASSUME Typed, NEW v \in Verifiers, verifier[v].pc \in {"tx", "receipt"},
           NEW verdict \in Verdicts, NEW seen \in Hashes \cup {None},
           Conclude(v, verdict, seen),
           UNCHANGED <<ledgerVars, committer, chainVars, rows, sent>>
    PROVE  Typed'
<1> DEFINE c == [verifier[v] EXCEPT !.pc = "attach", !.verdict = verdict,
                                    !.seen = seen]
<1>1. verifier[v] \in Verification /\ verifier[v].tx \in Txs
  BY DEF Typed, TypeOK, Shape, VerificationShape
<1>2. c \in Verification /\ VerificationShape(c, txs)
  BY <1>1 DEF Verification, VerificationShape
<1>3. VStep(v, c)  BY DEF Conclude
<1> HIDE DEF c
<1>4. QED  BY <1>2, <1>3, VerifyStepTyped DEF Typed, TypeOK

LEMMA ReadTransactionTyped ==
    ASSUME Typed, NEW v \in Verifiers, ReadTransaction(v) PROVE Typed'
<1> DEFINE tx == txs[verifier[v].tx]
           c == [verifier[v] EXCEPT !.pc = "receipt"]
<1>1. \/ Conclude(v, "unknown", None)
      \/ Conclude(v, "mismatch", None)
      \/ tx # None /\ VStep(v, c)
  BY DEF ReadTransaction
<1>2. CASE Conclude(v, "unknown", None) \/ Conclude(v, "mismatch", None)
  BY <1>2, ConcludeTyped DEF ReadTransaction, Verdicts
<1>3. CASE tx # None /\ VStep(v, c)
  <2>1. verifier[v] \in Verification /\ verifier[v].tx \in Txs
    BY DEF ReadTransaction, Typed, TypeOK, Shape, VerificationShape
  <2>2. tx \in Transaction  BY <1>3, <2>1 DEF Typed, TypeOK
  <2>3. c \in Verification /\ VerificationShape(c, txs)
    BY <2>1, <2>2 DEF Verification, VerificationShape
  <2> HIDE DEF c
  <2>4. QED
    BY <1>3, <2>3, VerifyStepTyped DEF ReadTransaction, Typed, TypeOK
<1>4. QED  BY <1>1, <1>2, <1>3

LEMMA ReadReceiptTyped ==
    ASSUME Typed, NEW v \in Verifiers, ReadReceipt(v) PROVE Typed'
<1> DEFINE tx == txs[verifier[v].tx]
<1>1. tx.hash \in Hashes
  BY DEF ReadReceipt, Typed, Shape, VerificationShape, Transaction
<1>2. \/ Conclude(v, "pending", None)
      \/ Conclude(v, "failed", None)
      \/ Conclude(v, "mismatch", tx.hash)
      \/ Conclude(v, "verified", tx.hash)
  BY DEF ReadReceipt
<1> HIDE DEF tx
<1>3. \E verdict \in Verdicts, seen \in Hashes \cup {None} :
          Conclude(v, verdict, seen)
  BY <1>1, <1>2 DEF Verdicts
<1>4. QED  BY <1>3, ConcludeTyped DEF ReadReceipt

LEMMA ReadFailsTyped ==
    ASSUME Typed, NEW v \in Verifiers, ReadFails(v) PROVE Typed'
BY ConcludeTyped DEF ReadFails, Verdicts

LEMMA AttachVerificationTyped ==
    ASSUME Typed, NEW v \in Verifiers, AttachVerification(v) PROVE Typed'
<1> DEFINE c == verifier[v]
           patched(row) == [row EXCEPT !.tx = c.tx, !.verified = c.verdict]
<1>1. c.tx \in Txs /\ c.verdict \in Verdicts
  BY DEF AttachVerification, Typed, Shape, VerificationShape
<1>2. ASSUME NEW row \in Row PROVE patched(row) \in Row
  <2> HIDE DEF c
  <2>1. QED  BY <1>1 DEF Row
<1>3. /\ rows' = [i \in DOMAIN rows |-> rows'[i]]
      /\ \A i \in DOMAIN rows : \/ rows'[i] = rows[i]
                                \/ rows'[i] = patched(rows[i])
  BY DEF AttachVerification
<1>4. rows \in Seq(Row) /\ \A i \in DOMAIN rows : rows[i] \in Row
  BY Indices DEF Typed, TypeOK
<1> HIDE DEF patched
<1>5. rows' \in Seq(Row)  BY <1>2, <1>3, <1>4, Mapped
<1>6. QED  BY <1>5, IdleIsTyped, VerifyStepTyped DEF AttachVerification

LEMMA ForeignSendTyped ==
    ASSUME Typed, NEW x \in Txs, NEW h \in Hashes, NEW logger \in BOOLEAN,
           ForeignSend(x, h, logger)
    PROVE  Typed'
<1> DEFINE tx == [server |-> FALSE, nonce |-> 0, hash |-> h, logger |-> logger,
                  state |-> "pending"]
<1>1. tx \in Transaction  BY DEF Transaction
<1>2. txs' = [txs EXCEPT ![x] = tx]  BY DEF ForeignSend
<1> HIDE DEF tx
<1>3. /\ txs' \in [Txs -> Transaction \cup {None}]
      /\ txs'[x] \in Transaction
      /\ \A y \in Txs \ {x} :
            txs[y] \in Transaction => txs'[y] \in Transaction
  BY <1>1, <1>2 DEF Typed, TypeOK
<1>4. \A v \in Verifiers : VerificationShape(verifier'[v], txs')
  BY <1>3, VerifiersKeepShape DEF ForeignSend
<1>5. QED
  BY <1>3, <1>4 DEF ForeignSend, ledgerVars, Typed, TypeOK, Shape

LEMMA MineTyped ==
    ASSUME Typed, NEW x \in Txs, NEW state \in {"mined", "reverted"},
           Mine(x, state)
    PROVE  Typed'
<1> DEFINE tx == [txs[x] EXCEPT !.state = state]
<1>1. tx \in Transaction  BY DEF Mine, Transaction, Typed, TypeOK
<1>2. txs' = [txs EXCEPT ![x] = tx]  BY DEF Mine
<1> HIDE DEF tx
<1>3. /\ txs' \in [Txs -> Transaction \cup {None}]
      /\ txs'[x] \in Transaction
      /\ \A y \in Txs \ {x} :
            txs[y] \in Transaction => txs'[y] \in Transaction
  BY <1>1, <1>2 DEF Typed, TypeOK
<1>4. \A v \in Verifiers : VerificationShape(verifier'[v], txs')
  BY <1>3, VerifiersKeepShape DEF Mine
<1>5. accountNonce' \in Nat  BY DEF Mine, Typed, TypeOK
<1>6. QED
  BY <1>3, <1>4, <1>5 DEF Mine, ledgerVars, Typed, TypeOK, Shape

LEMMA CrashRestartTyped == ASSUME Typed, CrashRestart PROVE Typed'
<1>1. records' \in Seq(Record) /\ rows' \in Seq(Row)
  BY EmptySeq DEF CrashRestart, Typed, TypeOK
<1>2. \A v \in Verifiers : VerificationShape(verifier'[v], txs')
  BY DEF CrashRestart, NoVerification, VerificationShape
<1>3. QED
  BY <1>1, <1>2, IdleIsTyped
  DEF CrashRestart, chainVars, Typed, TypeOK, Shape

LEMMA SameTyped == ASSUME Typed, UNCHANGED vars PROVE Typed'
BY DEF vars, ledgerVars, chainVars, Typed, TypeOK, Shape

LEMMA NextTyped == ASSUME Typed, [Next]_vars PROVE Typed'
<1>1. CASE Clients
  BY <1>1, ScanTyped, SameTyped, CommitCallTyped, OutcomeTyped, VerifyCallTyped
  DEF Clients, CommitRefuse
<1>2. ASSUME NEW t \in Committers, Proceed(t) PROVE Typed'
  BY <1>2, HitTyped, MissTyped, ReadNonceTyped, SendFailsTyped,
     SendAcceptedTyped, StoreTyped, AttachCommitTyped DEF Proceed
<1>3. ASSUME NEW v \in Verifiers, ProceedVerify(v) PROVE Typed'
  BY <1>3, ReadTransactionTyped, ReadReceiptTyped, ReadFailsTyped,
     AttachVerificationTyped DEF ProceedVerify
<1>4. CASE Chain
  BY <1>4, ForeignSendTyped, MineTyped DEF Chain
<1>5. CASE CrashRestart \/ UNCHANGED vars
  BY <1>5, CrashRestartTyped, SameTyped
<1>6. QED  BY <1>1, <1>2, <1>3, <1>4, <1>5 DEF Next

LEMMA AlwaysTyped == Spec => []Typed
<1>1. Init => Typed  BY InitTyped
<1>2. Typed /\ [Next]_vars => Typed'  BY NextTyped
<1>3. QED  BY <1>1, <1>2, PTL DEF Spec

\* The ledger, the calls, the chain and the history are well typed: no call
\* dereferences a record or a transaction that is not there.
THEOREM TypeCorrect == Spec => []TypeOK
<1>1. Typed => TypeOK  BY DEF Typed
<1>2. QED  BY <1>1, AlwaysTyped, PTL

-----------------------------------------------------------------------------
(* The ledger: who holds the lock has a fresh key, and what is recorded is *)
(* backed by a transaction that the server sent.                           *)

Held == \A t \in Committers :
            lock = t <=> committer[t].pc \in {"nonce", "send", "store"}

FreshKey == \A t \in Committers :
                lock = t => RecordsOf(committer[t].key) = {}

Backs(tx, h) == tx # None /\ tx.server /\ tx.logger /\ tx.hash = h

\* What a call has sent is its own, and not in the records yet.
CallsAreBacked ==
    \A t \in Committers :
        /\ committer[t].pc \in {"lock", "nonce", "send"} =>
              committer[t].tx = None
        /\ committer[t].pc = "store" =>
              IF committer[t].status = "recorded"
              THEN /\ committer[t].tx # None
                   /\ Backs(txs[committer[t].tx], committer[t].hash)
                   /\ \A i \in DOMAIN records : records[i].tx # committer[t].tx
              ELSE committer[t].tx = None

Sound == Typed /\ Held /\ FreshKey /\ CallsAreBacked /\ RecordedIsBacked

\* Transactions change their state only, none goes away, and mined is mined.
SameCall(x) ==
    /\ txs'[x] # None
    /\ txs'[x].server = txs[x].server
    /\ txs'[x].logger = txs[x].logger
    /\ txs'[x].hash = txs[x].hash
    /\ txs[x].state = "mined" => txs'[x].state = "mined"

Grown == \A x \in Txs : txs[x] # None => SameCall(x)

LEMMA WithState ==
    ASSUME NEW tx \in Transaction,
           NEW state \in {"pending", "dropped", "mined", "reverted"}
    PROVE  LET later == [tx EXCEPT !.state = state]
           IN  /\ later # None
               /\ later.server = tx.server
               /\ later.logger = tx.logger
               /\ later.hash = tx.hash
<1>1. [tx EXCEPT !.state = state] \in Transaction  BY DEF Transaction
<1>2. QED  BY <1>1, TransactionAssumption DEF Transaction

LEMMA RecordTypes ==
    ASSUME Typed
    PROVE  \A i \in DOMAIN records : /\ records[i] \in Record
                                    /\ records[i].tx \in Txs \cup {None}
                                    /\ records[i].hash \in Hashes \cup {None}
                                    /\ records[i].id \in Ids
<1>1. \A i \in DOMAIN records : records[i] \in Record
  BY Indices DEF Typed, TypeOK
<1>2. QED  BY <1>1 DEF Record

LEMMA ServerGrows ==
    ASSUME Typed, NEW t \in Committers, NEW x \in Txs, NEW heard \in BOOLEAN,
           SendAccepted(t, x, heard)
    PROVE  Grown
<1> SUFFICES ASSUME NEW y \in Txs, txs[y] # None PROVE SameCall(y)
  BY DEF Grown
<1>1. txs[y] \in Transaction  BY DEF Typed, TypeOK
<1>2. y # x  BY DEF SendAccepted
<1>3. \/ txs'[y] = txs[y]
      \/ /\ txs'[y] = [txs[y] EXCEPT !.state = "dropped"]
         /\ txs[y].state = "pending"
  BY <1>2 DEF SendAccepted
<1>4. QED  BY <1>1, <1>3, WithState DEF SameCall

LEMMA ChainGrows == ASSUME Typed, Chain PROVE Grown
<1> SUFFICES ASSUME NEW y \in Txs, txs[y] # None PROVE SameCall(y)
  BY DEF Grown
<1>1. txs[y] \in Transaction /\ txs \in [Txs -> Transaction \cup {None}]
  BY DEF Typed, TypeOK
<1>2. ASSUME NEW x \in Txs, NEW h \in Hashes, NEW logger \in BOOLEAN,
             ForeignSend(x, h, logger)
      PROVE  txs'[y] = txs[y]
  BY <1>1, <1>2 DEF ForeignSend
<1>3. ASSUME NEW x \in Txs, NEW state \in {"mined", "reverted"}, Mine(x, state)
      PROVE  \/ txs'[y] = txs[y]
             \/ /\ txs'[y] = [txs[y] EXCEPT !.state = state]
                /\ txs[y].state = "pending"
  BY <1>1, <1>3 DEF Mine
<1>4. \/ txs'[y] = txs[y]
      \/ \E state \in {"mined", "reverted"} :
            /\ txs'[y] = [txs[y] EXCEPT !.state = state]
            /\ txs[y].state = "pending"
  BY <1>2, <1>3 DEF Chain
<1>5. CASE txs'[y] = txs[y]  BY <1>5 DEF SameCall
<1>6. ASSUME NEW state \in {"mined", "reverted"},
             txs'[y] = [txs[y] EXCEPT !.state = state], txs[y].state = "pending"
      PROVE  SameCall(y)
  BY <1>1, <1>6, WithState DEF SameCall
<1>7. QED  BY <1>4, <1>5, <1>6

\* Steps that leave the ledger and the commit calls alone.
Quiet == Grown /\ UNCHANGED <<records, lock, committer>>

LEMMA QuietSound ==
    ASSUME Sound, Typed', Quiet PROVE Sound'
<1>1. Held' /\ FreshKey'
  BY DEF Sound, Quiet, Held, FreshKey, RecordsOf
<1>2. CallsAreBacked'
  BY SMTT(30)
  DEF Sound, Quiet, Grown, SameCall, CallsAreBacked, Backs, Typed, TypeOK, Commit
<1>3. RecordedIsBacked'
  <2>1. \A i \in DOMAIN records : records[i].tx \in Txs \cup {None}
    BY RecordTypes DEF Sound
  <2>2. QED  BY <2>1 DEF Sound, Quiet, Grown, SameCall, RecordedIsBacked
<1>4. QED  BY <1>1, <1>2, <1>3 DEF Sound

\* The steps of a commit call.  Each changes one call, and the lock passes
\* from nobody to that call or from it to nobody.
LEMMA OthersKeep ==
    ASSUME Typed, NEW t \in Committers, NEW c, Step(t, c)
    PROVE  /\ committer'[t] = c
           /\ \A u \in Committers \ {t} : committer'[u] = committer[u]
BY DEF Typed, TypeOK, Step

LEMMA CommitCallSound ==
    ASSUME Sound, Typed', NEW t \in Committers, NEW h \in Hashes,
           NEW key \in Keys, NEW mode \in Modes, CommitCall(t, h, key, mode)
    PROVE  Sound'
<1> DEFINE c == [NoCommit EXCEPT !.pc = "lock", !.hash = h, !.key = key,
                                 !.mode = mode]
<1>1. /\ committer'[t] = c
      /\ \A u \in Committers \ {t} : committer'[u] = committer[u]
  BY OthersKeep DEF CommitCall, Sound
<1>2. c.pc = "lock" /\ c.tx = None  BY DEF NoCommit
<1> HIDE DEF c
<1>3. /\ UNCHANGED <<records, lock, txs>> /\ committer[t].pc = "idle"
      /\ lock # t
  BY DEF CommitCall, ledgerVars, chainVars, Sound, Held
<1>4. Held' /\ FreshKey'
  BY <1>1, <1>2, <1>3 DEF Sound, Held, FreshKey, RecordsOf
<1>5. CallsAreBacked'
  BY <1>1, <1>2, <1>3 DEF Sound, CallsAreBacked, Backs
<1>6. RecordedIsBacked'  BY <1>3 DEF Sound, RecordedIsBacked
<1>7. QED  BY <1>4, <1>5, <1>6 DEF Sound

LEMMA HitSound ==
    ASSUME Sound, Typed', NEW t \in Committers, Hit(t) PROVE Sound'
<1> DEFINE c == [committer[t] EXCEPT !.pc = "attach",
                    !.record = records[First(RecordsOf(committer[t].key))]]
<1>1. /\ committer'[t] = c
      /\ \A u \in Committers \ {t} : committer'[u] = committer[u]
  BY OthersKeep DEF Hit, Sound
<1>2. c.pc = "attach"  BY DEF Sound, Typed, TypeOK, Commit
<1> HIDE DEF c
<1>3. UNCHANGED <<records, lock, txs>> /\ lock # t
  BY DEF Hit, ledgerVars, chainVars, Sound, Held
<1>4. Held' /\ FreshKey'
  BY <1>1, <1>2, <1>3 DEF Sound, Held, FreshKey, RecordsOf
<1>5. CallsAreBacked'
  BY <1>1, <1>2, <1>3 DEF Sound, CallsAreBacked, Backs
<1>6. RecordedIsBacked'  BY <1>3 DEF Sound, RecordedIsBacked
<1>7. QED  BY <1>4, <1>5, <1>6 DEF Sound

LEMMA MissSound ==
    ASSUME Sound, Typed', NEW t \in Committers, Miss(t) PROVE Sound'
<1>1. PICK c : /\ committer'[t] = c
               /\ c.pc \in {"nonce", "store"}
               /\ c.key = committer[t].key
               /\ c.tx = committer[t].tx
               /\ c.pc = "store" => c.status # "recorded"
  <2>1. committer[t] \in Commit /\ committer' = [committer EXCEPT ![t] = committer'[t]]
    BY DEF Miss, Step, Sound, Typed, TypeOK
  <2>2. \/ committer'[t] = [committer[t] EXCEPT !.pc = "store",
                                               !.status = "recorded_local"]
        \/ committer'[t] = [committer[t] EXCEPT !.pc = "store",
                                               !.status = "pending_unavailable"]
        \/ committer'[t] = [committer[t] EXCEPT !.pc = "nonce"]
    BY DEF Miss, Step, Sound, Typed, TypeOK
  <2>3. QED  BY <2>1, <2>2 DEF Commit
<1>2. \A u \in Committers \ {t} : committer'[u] = committer[u]
  BY DEF Miss, Step, Sound, Typed, TypeOK
<1>3. /\ UNCHANGED <<records, txs>> /\ lock = None /\ lock' = t
      /\ committer[t].pc = "lock"
      /\ RecordsOf(committer[t].key) = {}
  BY DEF Miss, chainVars
<1>4. \A u \in Committers : lock # u  BY <1>3, NoneAssumption
<1>5. Held'  BY <1>1, <1>2, <1>3, <1>4 DEF Sound, Held
<1>6. FreshKey'  BY <1>1, <1>2, <1>3 DEF FreshKey, RecordsOf
<1>7. CallsAreBacked'
  BY <1>1, <1>2, <1>3 DEF Sound, CallsAreBacked, Backs
<1>8. RecordedIsBacked'  BY <1>3 DEF Sound, RecordedIsBacked
<1>9. QED  BY <1>5, <1>6, <1>7, <1>8 DEF Sound

LEMMA ReadNonceSound ==
    ASSUME Sound, Typed', NEW t \in Committers, ReadNonce(t) PROVE Sound'
<1> DEFINE c == [committer[t] EXCEPT !.pc = "send", !.nonce = accountNonce]
<1>1. /\ committer'[t] = c
      /\ \A u \in Committers \ {t} : committer'[u] = committer[u]
  BY OthersKeep DEF ReadNonce, Sound
<1>2. c.pc = "send" /\ c.key = committer[t].key /\ c.tx = committer[t].tx
  BY DEF Sound, Typed, TypeOK, Commit
<1> HIDE DEF c
<1>3. UNCHANGED <<records, lock, txs>> /\ committer[t].pc = "nonce"
  BY DEF ReadNonce, ledgerVars, chainVars
<1>4. Held' /\ FreshKey'
  BY <1>1, <1>2, <1>3 DEF Sound, Held, FreshKey, RecordsOf
<1>5. CallsAreBacked'
  BY <1>1, <1>2, <1>3 DEF Sound, CallsAreBacked, Backs
<1>6. RecordedIsBacked'  BY <1>3 DEF Sound, RecordedIsBacked
<1>7. QED  BY <1>4, <1>5, <1>6 DEF Sound

LEMMA SendFailsSound ==
    ASSUME Sound, Typed', NEW t \in Committers, SendFails(t) PROVE Sound'
<1> DEFINE c == [committer[t] EXCEPT !.pc = "store",
                                     !.status = "pending_retry"]
<1>1. /\ committer'[t] = c
      /\ \A u \in Committers \ {t} : committer'[u] = committer[u]
  BY OthersKeep DEF SendFails, Sound
<1>2. /\ c.pc = "store" /\ c.key = committer[t].key
      /\ c.tx = committer[t].tx /\ c.status # "recorded"
  BY DEF Sound, Typed, TypeOK, Commit
<1> HIDE DEF c
<1>3. /\ UNCHANGED <<records, lock, txs>>
      /\ committer[t].pc \in {"nonce", "send"}
  BY DEF SendFails, ledgerVars, chainVars
<1>4. Held' /\ FreshKey'
  BY <1>1, <1>2, <1>3 DEF Sound, Held, FreshKey, RecordsOf
<1>5. CallsAreBacked'
  BY <1>1, <1>2, <1>3 DEF Sound, CallsAreBacked, Backs
<1>6. RecordedIsBacked'  BY <1>3 DEF Sound, RecordedIsBacked
<1>7. QED  BY <1>4, <1>5, <1>6 DEF Sound

LEMMA SendAcceptedSound ==
    ASSUME Sound, Typed', NEW t \in Committers, NEW x \in Txs,
           NEW heard \in BOOLEAN, SendAccepted(t, x, heard)
    PROVE  Sound'
<1> DEFINE status == IF heard THEN "recorded" ELSE "pending_retry"
           tx == IF heard THEN x ELSE None
           c == [committer[t] EXCEPT !.pc = "store", !.status = status,
                                     !.tx = tx]
<1>1. /\ committer'[t] = c
      /\ \A u \in Committers \ {t} : committer'[u] = committer[u]
  BY OthersKeep DEF SendAccepted, Sound
<1>2. IF status = "recorded" THEN tx = x ELSE tx = None  OBVIOUS
<1>3. committer[t] \in Commit  BY DEF Sound, Typed, TypeOK
<1> HIDE DEF status, tx
<1>4. /\ c.pc = "store" /\ c.key = committer[t].key /\ c.hash = committer[t].hash
      /\ c.tx = tx /\ c.status = status
  BY <1>3 DEF Commit
<1> HIDE DEF c
<1>5. UNCHANGED <<records, lock>> /\ committer[t].pc = "send" /\ txs[x] = None
  BY DEF SendAccepted, ledgerVars
<1>6. Grown  BY ServerGrows DEF Sound
<1>7. Backs(txs'[x], committer[t].hash) /\ x # None
  <2>1. Typed  BY DEF Sound
  <2>2. /\ txs'[x] \in Transaction /\ txs'[x].server = TRUE
        /\ txs'[x].logger = TRUE /\ txs'[x].hash = committer[t].hash
    BY <2>1, SentTransactions
  <2>3. txs'[x] # None  BY <2>2, TransactionAssumption
  <2>4. QED  BY <2>2, <2>3, NoneAssumption DEF Backs
<1>8. \A i \in DOMAIN records : records[i].tx # x
  BY <1>5, <1>7 DEF Sound, RecordedIsBacked
<1>9. Held' /\ FreshKey'
  BY <1>1, <1>4, <1>5 DEF Sound, Held, FreshKey, RecordsOf
<1>10. CallsAreBacked'
  <2> SUFFICES ASSUME NEW u \in Committers
               PROVE  /\ committer'[u].pc \in {"lock", "nonce", "send"} =>
                            committer'[u].tx = None
                      /\ committer'[u].pc = "store" =>
                            IF committer'[u].status = "recorded"
                            THEN /\ committer'[u].tx # None
                                 /\ Backs(txs'[committer'[u].tx],
                                          committer'[u].hash)
                                 /\ \A i \in DOMAIN records :
                                       records[i].tx # committer'[u].tx
                            ELSE committer'[u].tx = None
    BY <1>5 DEF CallsAreBacked
  <2>1. CASE u = t  BY <1>1, <1>2, <1>4, <1>7, <1>8, <2>1
  <2>2. CASE u # t
    \* Nobody else is between the lock and the record.
    <3>1. lock = t  BY <1>5 DEF Sound, Held
    <3>2. committer[u].pc # "store"  BY <2>2, <3>1 DEF Sound, Held
    <3>3. QED  BY <1>1, <2>2, <3>2 DEF Sound, CallsAreBacked
  <2>3. QED  BY <2>1, <2>2
<1>11. RecordedIsBacked'
  <2>1. \A i \in DOMAIN records : records[i].tx \in Txs \cup {None}
    BY RecordTypes DEF Sound
  <2>2. QED  BY <1>5, <1>6, <2>1 DEF Sound, Grown, SameCall, RecordedIsBacked
<1>12. QED  BY <1>9, <1>10, <1>11 DEF Sound

LEMMA StoreSound ==
    ASSUME Sound, Typed', NEW t \in Committers, Store(t) PROVE Sound'
<1> DEFINE old == committer[t]
           record == [id |-> IdOf[old.hash], hash |-> old.hash, key |-> old.key,
                      status |-> old.status, tx |-> old.tx, outcome |-> FALSE]
<1>1. /\ old.pc = "store" /\ lock = t /\ lock' = None
      /\ UNCHANGED txs
      /\ committer' = [committer EXCEPT ![t] = committer'[t]]
      /\ committer'[t].pc \in {"idle", "attach"}
  <2>1. /\ old.pc = "store" /\ lock' = None /\ UNCHANGED txs
        /\ \/ Step(t, [old EXCEPT !.pc = "attach", !.record = record])
           \/ Step(t, NoCommit)
    BY DEF Store, chainVars
  <2>2. lock = t  BY <2>1 DEF Sound, Held
  <2>3. old \in Commit /\ committer \in [Committers -> Commit]
    BY DEF Sound, Typed, TypeOK
  <2> HIDE DEF record
  <2>4. /\ NoCommit.pc = "idle"
        /\ [old EXCEPT !.pc = "attach", !.record = record].pc = "attach"
    BY <2>3 DEF Commit, NoCommit
  <2>5. /\ committer' = [committer EXCEPT ![t] = committer'[t]]
        /\ committer'[t].pc \in {"idle", "attach"}
    BY <2>1, <2>3, <2>4 DEF Step
  <2>6. QED  BY <2>1, <2>2, <2>5
<1>2. \A u \in Committers \ {t} :
          /\ committer'[u] = committer[u]
          /\ committer[u].pc \notin {"nonce", "send", "store"}
  BY <1>1 DEF Sound, Held, Typed, TypeOK
<1>3. Held' /\ FreshKey'
  BY <1>1, <1>2, NoneAssumption DEF Sound, Held, FreshKey
<1>4. CallsAreBacked'
  BY <1>1, <1>2 DEF Sound, CallsAreBacked
<1>5. RecordedIsBacked'
  <2>1. CASE old.hash \in Complete
    <3>1. records' = Append(records, record)  BY <2>1 DEF Store
    <3>2. record \in Record  BY <1>1, RecordOfCall DEF Sound
    <3>3. /\ record.status = old.status /\ record.tx = old.tx
          /\ record.hash = old.hash
      OBVIOUS
    <3> HIDE DEF record
    <3> DEFINE n == Len(records) + 1
    <3>4. /\ n \notin DOMAIN records
          /\ DOMAIN records' = DOMAIN records \cup {n}
          /\ records'[n] = record
          /\ \A i \in DOMAIN records : records'[i] = records[i]
      BY <3>1, <3>2, Appended DEF Sound, Typed, TypeOK
    <3> HIDE DEF n
    <3>5. IF old.status = "recorded"
          THEN /\ old.tx # None
               /\ Backs(txs[old.tx], old.hash)
               /\ \A i \in DOMAIN records : records[i].tx # old.tx
          ELSE old.tx = None
      BY <1>1 DEF Sound, CallsAreBacked
    <3>6. QED
      BY <1>1, <3>3, <3>4, <3>5 DEF Sound, RecordedIsBacked, Backs
  <2>2. CASE old.hash \notin Complete
    BY <1>1, <2>2 DEF Store, Sound, RecordedIsBacked
  <2>3. QED  BY <2>1, <2>2
<1>6. QED  BY <1>3, <1>4, <1>5 DEF Sound

LEMMA AttachCommitSound ==
    ASSUME Sound, Typed', NEW t \in Committers, AttachCommit(t) PROVE Sound'
<1>1. /\ committer'[t] = NoCommit
      /\ \A u \in Committers \ {t} : committer'[u] = committer[u]
  BY OthersKeep DEF AttachCommit, Sound
<1>2. NoCommit.pc = "idle"  BY DEF NoCommit
<1>3. UNCHANGED <<records, lock, txs>> /\ lock # t
  BY DEF AttachCommit, ledgerVars, chainVars, Sound, Held
<1>4. Held' /\ FreshKey'
  BY <1>1, <1>2, <1>3 DEF Sound, Held, FreshKey, RecordsOf
<1>5. CallsAreBacked'
  BY <1>1, <1>2, <1>3 DEF Sound, CallsAreBacked, Backs
<1>6. RecordedIsBacked'  BY <1>3 DEF Sound, RecordedIsBacked
<1>7. QED  BY <1>4, <1>5, <1>6 DEF Sound

LEMMA OutcomeSound ==
    ASSUME Sound, Typed', NEW id \in Ids, Outcome(id) PROVE Sound'
<1>1. UNCHANGED <<committer, lock, txs>> /\ lock = None
  BY DEF Outcome, chainVars
<1>2. /\ DOMAIN records \subseteq DOMAIN records'
      /\ \A i \in DOMAIN records : /\ records'[i].status = records[i].status
                                   /\ records'[i].tx = records[i].tx
                                   /\ records'[i].hash = records[i].hash
      /\ \A i \in DOMAIN records' \ DOMAIN records :
            /\ records'[i].tx = None
            /\ records'[i].status = "pending_unavailable"
  BY OutcomeRecords DEF Sound
<1>3. Held' /\ FreshKey'
  BY <1>1, NoneAssumption DEF Sound, Held, FreshKey
<1>4. CallsAreBacked'
  <2>1. \A u \in Committers : committer[u].pc # "store"
    BY <1>1, NoneAssumption DEF Sound, Held
  <2>2. QED  BY <1>1, <2>1 DEF Sound, CallsAreBacked
<1>5. RecordedIsBacked'
  BY <1>1, <1>2 DEF Sound, RecordedIsBacked
<1>6. QED  BY <1>3, <1>4, <1>5 DEF Sound

LEMMA CrashRestartSound ==
    ASSUME Sound, Typed', CrashRestart PROVE Sound'
<1>1. /\ records' = <<>> /\ lock' = None
      /\ \A t \in Committers : committer'[t].pc = "idle"
  BY DEF CrashRestart, NoCommit
<1>2. DOMAIN records' = {}  BY <1>1
<1>3. Held' /\ FreshKey' /\ CallsAreBacked'
  BY <1>1, NoneAssumption DEF Held, FreshKey, CallsAreBacked
<1>4. RecordedIsBacked'  BY <1>2 DEF RecordedIsBacked
<1>5. QED  BY <1>3, <1>4 DEF Sound

\* The steps that are not a commit call's.
LEMMA OthersAreQuiet ==
    ASSUME Sound
    PROVE  /\ \A h \in Hashes : Scan(h) => Quiet
           /\ \A v \in Verifiers, x \in Txs, id \in Ids \cup {None},
                 h \in Hashes \cup {None} : VerifyCall(v, x, id, h) => Quiet
           /\ \A v \in Verifiers : ProceedVerify(v) => Quiet
           /\ Chain => Quiet
           /\ UNCHANGED vars => Quiet
<1>1. UNCHANGED <<ledgerVars, chainVars, committer>> => Quiet
  BY DEF Quiet, Grown, SameCall, ledgerVars, chainVars
<1>2. Chain => Quiet
  BY ChainGrows DEF Sound, Quiet, Chain, ForeignSend, Mine, ledgerVars
<1>3. \A h \in Hashes : Scan(h) => Quiet  BY <1>1 DEF Scan
<1>4. \A v \in Verifiers, x \in Txs, id \in Ids \cup {None},
        h \in Hashes \cup {None} : VerifyCall(v, x, id, h) => Quiet
  BY <1>1 DEF VerifyCall
<1>5. \A v \in Verifiers : ProceedVerify(v) => Quiet
  BY <1>1 DEF ProceedVerify, ReadTransaction, ReadReceipt, ReadFails,
              AttachVerification
<1>6. UNCHANGED vars => Quiet  BY <1>1 DEF vars
<1>7. QED  BY <1>2, <1>3, <1>4, <1>5, <1>6

LEMMA InitSound == Init => Sound
<1> SUFFICES ASSUME Init PROVE Sound  OBVIOUS
<1>1. DOMAIN records = {} /\ lock = None  BY DEF Init
<1>2. \A t \in Committers : committer[t].pc = "idle"
  BY DEF Init, NoCommit
<1>3. Held /\ FreshKey /\ CallsAreBacked
  BY <1>1, <1>2, NoneAssumption DEF Held, FreshKey, CallsAreBacked
<1>4. QED  BY <1>1, <1>3, InitTyped DEF Sound, RecordedIsBacked

LEMMA NextSound == ASSUME Sound, [Next]_vars PROVE Sound'
<1>1. Typed'  BY NextTyped DEF Sound
<1>2. ASSUME Quiet PROVE Sound'  BY <1>1, <1>2, QuietSound
<1>3. CASE Clients
  <2>1. ASSUME NEW h \in Hashes, NEW mode \in Modes,
               NEW confirmed \in BOOLEAN, CommitRefuse(h, mode, confirmed)
        PROVE  Sound'
    BY <1>2, <2>1, OthersAreQuiet DEF CommitRefuse
  <2>2. QED
    BY <1>1, <1>2, <1>3, <2>1, OthersAreQuiet, CommitCallSound, OutcomeSound
    DEF Clients
<1>4. ASSUME NEW t \in Committers, Proceed(t) PROVE Sound'
  BY <1>1, <1>4, HitSound, MissSound, ReadNonceSound, SendFailsSound,
     SendAcceptedSound, StoreSound, AttachCommitSound DEF Proceed
<1>5. CASE CrashRestart  BY <1>1, <1>5, CrashRestartSound
<1>6. QED  BY <1>2, <1>3, <1>4, <1>5, OthersAreQuiet DEF Next

LEMMA AlwaysSound == Spec => []Sound
<1>1. Init => Sound  BY InitSound
<1>2. Sound /\ [Next]_vars => Sound'  BY NextSound
<1>3. QED  BY <1>1, <1>2, PTL DEF Spec

\* Whatever the node does, however many calls race, a record that says
\* "recorded" has a transaction of its own that the server sent for it.
THEOREM AlwaysBacked == Spec => []RecordedIsBacked
<1>1. Sound => RecordedIsBacked  BY DEF Sound
<1>2. QED  BY <1>1, AlwaysSound, PTL

-----------------------------------------------------------------------------
(* What a verification says.                                               *)

\* A call that waits for a receipt has seen a call of the logger.
Verifying ==
    /\ \A v \in Verifiers :
          verifier[v].pc = "receipt" => /\ txs[verifier[v].tx] # None
                                        /\ txs[verifier[v].tx].logger
    /\ VerifiedIsMined

\* Steps of others: transactions grow, and verify calls stay or are lost.
LEMMA OthersVerifying ==
    ASSUME Typed, Verifying, Grown,
           \A v \in Verifiers : \/ verifier'[v] = verifier[v]
                                \/ verifier'[v].pc \notin {"receipt", "attach"}
    PROVE  Verifying'
BY DEF Typed, TypeOK, Shape, VerificationShape, Verifying, VerifiedIsMined,
       Grown, SameCall

\* A step of one verify call, to what it becomes.
LEMMA OneVerifying ==
    ASSUME Typed, Verifying, UNCHANGED txs, NEW v \in Verifiers, NEW c,
           VStep(v, c),
           c.pc = "receipt" => txs[c.tx] # None /\ txs[c.tx].logger,
           c.pc = "attach" /\ c.verdict = "verified" =>
               /\ txs[c.tx] # None
               /\ txs[c.tx].state = "mined" /\ txs[c.tx].logger
               /\ txs[c.tx].hash = c.seen
               /\ c.expected \in {None, c.seen}
    PROVE  Verifying'
<1>1. \A u \in Verifiers : verifier'[u] = IF u = v THEN c ELSE verifier[u]
  BY DEF Typed, TypeOK, VStep
<1>2. QED  BY <1>1 DEF Verifying, VerifiedIsMined

LEMMA ConcludeVerifying ==
    ASSUME Typed, Verifying, UNCHANGED txs, NEW v \in Verifiers, NEW verdict,
           NEW seen, Conclude(v, verdict, seen),
           verdict = "verified" =>
               LET tx == txs[verifier[v].tx]
               IN  /\ tx # None
                   /\ tx.state = "mined" /\ tx.logger
                   /\ tx.hash = seen
                   /\ verifier[v].expected \in {None, seen}
    PROVE  Verifying'
<1> DEFINE c == [verifier[v] EXCEPT !.pc = "attach", !.verdict = verdict,
                                    !.seen = seen]
<1>1. VStep(v, c)  BY DEF Conclude
<1>2. /\ c.pc = "attach" /\ c.verdict = verdict /\ c.seen = seen
      /\ c.tx = verifier[v].tx /\ c.expected = verifier[v].expected
  BY DEF Typed, TypeOK, Verification
<1> HIDE DEF c
<1>3. QED  BY <1>1, <1>2, OneVerifying

LEMMA ReadTransactionVerifying ==
    ASSUME Typed, Verifying, NEW v \in Verifiers, ReadTransaction(v)
    PROVE  Verifying'
<1> DEFINE tx == txs[verifier[v].tx]
           c == [verifier[v] EXCEPT !.pc = "receipt"]
<1>1. UNCHANGED txs  BY DEF ReadTransaction, chainVars
<1>2. \/ Conclude(v, "unknown", None)
      \/ Conclude(v, "mismatch", None)
      \/ tx # None /\ tx.logger /\ VStep(v, c)
  BY DEF ReadTransaction
<1>3. CASE Conclude(v, "unknown", None) \/ Conclude(v, "mismatch", None)
  BY <1>1, <1>3, ConcludeVerifying
<1>4. CASE tx # None /\ tx.logger /\ VStep(v, c)
  <2>1. c.pc = "receipt" /\ c.tx = verifier[v].tx
    BY DEF Typed, TypeOK, Verification
  <2> HIDE DEF c
  <2>2. QED  BY <1>1, <1>4, <2>1, OneVerifying
<1>5. QED  BY <1>2, <1>3, <1>4

LEMMA ReadReceiptVerifying ==
    ASSUME Typed, Verifying, NEW v \in Verifiers, ReadReceipt(v)
    PROVE  Verifying'
<1> DEFINE tx == txs[verifier[v].tx]
<1>1. UNCHANGED txs /\ verifier[v].pc = "receipt"
  BY DEF ReadReceipt, chainVars
<1>2. tx # None /\ tx.logger  BY <1>1 DEF Verifying
<1>3. tx.state \in {"pending", "dropped", "mined", "reverted"}
  BY <1>1 DEF Typed, Shape, VerificationShape, Transaction
<1>4. \/ Conclude(v, "pending", None)
      \/ Conclude(v, "failed", None)
      \/ Conclude(v, "mismatch", tx.hash)
      \/ /\ Conclude(v, "verified", tx.hash)
         /\ tx.state = "mined"
         /\ verifier[v].expected \in {None, tx.hash}
  BY <1>3 DEF ReadReceipt
<1> HIDE DEF tx
<1>5. tx = txs[verifier[v].tx]  BY DEF tx
<1>6. QED  BY <1>1, <1>2, <1>4, <1>5, ConcludeVerifying

LEMMA NextVerifying ==
    ASSUME Typed, Verifying, [Next]_vars PROVE Verifying'
<1>1. UNCHANGED txs => Grown  BY DEF Grown, SameCall
<1>2. ASSUME UNCHANGED <<txs, verifier>> PROVE Verifying'
  BY <1>1, <1>2, OthersVerifying
<1>3. CASE Clients
  <2>1. ASSUME NEW v \in Verifiers, NEW x \in Txs,
               NEW id \in Ids \cup {None}, NEW h \in Hashes \cup {None},
               VerifyCall(v, x, id, h)
        PROVE  Verifying'
    <3> DEFINE c(e, i, l) == [NoVerification EXCEPT !.pc = "tx", !.tx = x,
                                  !.expected = e, !.id = i, !.local = l]
    <3>1. \A e, i, l : c(e, i, l).pc = "tx"  BY DEF NoVerification
    <3>2. UNCHANGED txs /\ \E e, i, l : VStep(v, c(e, i, l))
      BY <2>1 DEF VerifyCall, chainVars
    <3> HIDE DEF c
    <3>3. QED  BY <3>1, <3>2, OneVerifying
  <2>2. QED
    BY <1>2, <1>3, <2>1
    DEF Clients, Scan, CommitRefuse, CommitCall, Outcome, chainVars, vars
<1>4. ASSUME NEW t \in Committers, Proceed(t) PROVE Verifying'
  <2>1. \/ UNCHANGED <<txs, verifier>>
        \/ \E x \in Txs, heard \in BOOLEAN : SendAccepted(t, x, heard)
    BY <1>4 DEF Proceed, Hit, Miss, ReadNonce, SendFails, Store, AttachCommit,
                chainVars
  <2>2. ASSUME NEW x \in Txs, NEW heard \in BOOLEAN, SendAccepted(t, x, heard)
        PROVE  Verifying'
    BY <2>2, ServerGrows, OthersVerifying DEF SendAccepted
  <2>3. QED  BY <1>2, <2>1, <2>2
<1>5. ASSUME NEW v \in Verifiers, ProceedVerify(v) PROVE Verifying'
  <2>1. CASE ReadFails(v)
    BY <2>1, ConcludeVerifying DEF ReadFails, chainVars
  <2>2. CASE AttachVerification(v)
    BY <2>2, OneVerifying DEF AttachVerification, NoVerification, chainVars
  <2>3. QED
    BY <1>5, <2>1, <2>2, ReadTransactionVerifying, ReadReceiptVerifying
    DEF ProceedVerify
<1>6. CASE Chain
  BY <1>6, ChainGrows, OthersVerifying DEF Chain, ForeignSend, Mine
<1>7. CASE CrashRestart
  BY <1>1, <1>7, OthersVerifying DEF CrashRestart, NoVerification, chainVars
<1>8. CASE UNCHANGED vars
  BY <1>2, <1>8 DEF vars, chainVars
<1>9. QED  BY <1>3, <1>4, <1>5, <1>6, <1>7, <1>8 DEF Next

\* "Verified" is said only of a mined call of the logger, and with the hash
\* that it carries, for any callers and while transactions come and go between
\* the verifier's reads.
THEOREM AlwaysMined == Spec => []VerifiedIsMined
<1>1. Init => Verifying
  BY DEF Init, NoVerification, Verifying, VerifiedIsMined
<1>2. Typed /\ Verifying /\ [Next]_vars => Verifying'  BY NextVerifying
<1>3. Verifying => VerifiedIsMined  BY DEF Verifying
<1>4. QED  BY <1>1, <1>2, <1>3, AlwaysTyped, PTL DEF Spec

-----------------------------------------------------------------------------
(* What the clients of a key are told.                                     *)

Told(k) == Answer(records[First(RecordsOf(k))])

AnswersAreTold ==
    \A t \in Committers :
        committer[t].pc = "attach" =>
            /\ RecordsOf(committer[t].key) # {}
            /\ Answer(committer[t].record) = Told(committer[t].key)

\* The records of a key and its answer outlive what happens to other keys.
LEMMA KeyIsKept ==
    ASSUME Typed, NEW k,
           DOMAIN records \subseteq DOMAIN records',
           \A i \in DOMAIN records : /\ records'[i].key = records[i].key
                                    /\ Answer(records'[i]) = Answer(records[i]),
           \A i \in DOMAIN records' \ DOMAIN records : records'[i].key # k
    PROVE  /\ RecordsOf(k)' = RecordsOf(k)
           /\ RecordsOf(k) # {} => Told(k)' = Told(k)
<1>1. RecordsOf(k)' = RecordsOf(k)  BY DEF RecordsOf
<1>2. ASSUME RecordsOf(k) # {} PROVE Told(k)' = Told(k)
  <2>1. First(RecordsOf(k)) \in DOMAIN records  BY <1>2, KeyHasRecord
  <2>2. Told(k)' = Answer(records'[First(RecordsOf(k))])  BY <1>1 DEF Told
  <2>3. QED  BY <2>1, <2>2 DEF Told
<1>3. QED  BY <1>1, <1>2

LEMMA OutcomeKeeps ==
    ASSUME Typed, NEW id \in Ids, Outcome(id), NEW k \in Keys
    PROVE  /\ RecordsOf(k)' = RecordsOf(k)
           /\ RecordsOf(k) # {} => Told(k)' = Told(k)
BY OutcomeRecords, KeyIsKept, NoneAssumption

\* A commit that is stored is the one record of its key.
LEMMA StoreTells ==
    ASSUME Sound, NEW t \in Committers, Store(t),
           committer[t].hash \in Complete, NEW key, key = committer[t].key
    PROVE  /\ RecordsOf(key)' # {}
           /\ committer'[t].pc = "attach" /\ committer'[t].key = key
           /\ committer'[t].record =
                 [id |-> IdOf[committer[t].hash], hash |-> committer[t].hash,
                  key |-> key, status |-> committer[t].status,
                  tx |-> committer[t].tx, outcome |-> FALSE]
           /\ Told(key)' = Answer(committer'[t].record)
           /\ \A k \in Keys \ {key} :
                  /\ RecordsOf(k)' = RecordsOf(k)
                  /\ RecordsOf(k) # {} => Told(k)' = Told(k)
<1> DEFINE old == committer[t]
           record == [id |-> IdOf[old.hash], hash |-> old.hash, key |-> old.key,
                      status |-> old.status, tx |-> old.tx, outcome |-> FALSE]
           c == [old EXCEPT !.pc = "attach", !.record = record]
           n == Len(records) + 1
<1>1. records' = Append(records, record) /\ Step(t, c)  BY DEF Store
<1>2. record \in Record  BY RecordOfCall DEF Store, Sound
<1>3. record.key = key  OBVIOUS
<1> HIDE DEF record
<1>4. /\ n \notin DOMAIN records
      /\ DOMAIN records' = DOMAIN records \cup {n}
      /\ records'[n] = record
      /\ \A i \in DOMAIN records : records'[i] = records[i]
  BY <1>1, <1>2, Appended DEF Sound, Typed, TypeOK
<1>5. n \in Nat  BY Indices DEF Sound, Typed, TypeOK
<1> HIDE DEF n
<1>6. RecordsOf(key) = {}  BY DEF Store, Sound, Held, FreshKey
<1>7. RecordsOf(key)' = {n}  BY <1>3, <1>4, <1>6 DEF RecordsOf
<1>8. First({n}) = n  BY <1>5, FirstIsIn
<1>9. Told(key)' = Answer(record)  BY <1>4, <1>7, <1>8 DEF Told
<1>10. committer'[t] = c  BY <1>1, OthersKeep DEF Sound
<1>11. c.pc = "attach" /\ c.key = key /\ c.record = record
  BY DEF Sound, Typed, TypeOK, Commit
<1>12. ASSUME NEW k \in Keys \ {key}
       PROVE  /\ RecordsOf(k)' = RecordsOf(k)
              /\ RecordsOf(k) # {} => Told(k)' = Told(k)
  BY <1>3, <1>4, KeyIsKept DEF Sound
<1>13. QED  BY <1>7, <1>9, <1>10, <1>11, <1>12 DEF record

\* The steps of a call between its arrival and its record.
LEMMA UnderWay ==
    ASSUME Typed, NEW t \in Committers
    PROVE  /\ Miss(t) => /\ committer'[t].pc \in {"nonce", "store"}
                         /\ committer'[t].key = committer[t].key
           /\ ReadNonce(t) => /\ committer'[t].pc = "send"
                              /\ committer'[t].key = committer[t].key
           /\ SendFails(t) => /\ committer'[t].pc = "store"
                              /\ committer'[t].key = committer[t].key
           /\ \A x \in Txs, heard \in BOOLEAN : SendAccepted(t, x, heard) =>
                              /\ committer'[t].pc = "store"
                              /\ committer'[t].key = committer[t].key
           /\ Hit(t) => /\ committer'[t].pc = "attach"
                        /\ committer'[t].key = committer[t].key
<1> DEFINE Goes(pcs) == /\ committer'[t].pc \in pcs
                        /\ committer'[t].key = committer[t].key
<1>1. committer[t] \in Commit /\ committer \in [Committers -> Commit]
  BY DEF Typed, TypeOK
<1>2. ASSUME Miss(t) PROVE Goes({"nonce", "store"})
  <2>1. \/ committer'[t] = [committer[t] EXCEPT !.pc = "store",
                                               !.status = "recorded_local"]
        \/ committer'[t] = [committer[t] EXCEPT !.pc = "store",
                                               !.status = "pending_unavailable"]
        \/ committer'[t] = [committer[t] EXCEPT !.pc = "nonce"]
    BY <1>1, <1>2 DEF Miss, Step
  <2>2. QED  BY <1>1, <2>1 DEF Commit
<1>3. ASSUME ReadNonce(t) PROVE Goes({"send"})
  <2>1. committer'[t] = [committer[t] EXCEPT !.pc = "send",
                                             !.nonce = accountNonce]
    BY <1>1, <1>3 DEF ReadNonce, Step
  <2>2. QED  BY <1>1, <2>1 DEF Commit
<1>4. ASSUME SendFails(t) PROVE Goes({"store"})
  <2>1. committer'[t] = [committer[t] EXCEPT !.pc = "store",
                                             !.status = "pending_retry"]
    BY <1>1, <1>4 DEF SendFails, Step
  <2>2. QED  BY <1>1, <2>1 DEF Commit
<1>5. ASSUME NEW x \in Txs, NEW heard \in BOOLEAN, SendAccepted(t, x, heard)
      PROVE  Goes({"store"})
  <2> DEFINE status == IF heard THEN "recorded" ELSE "pending_retry"
             tx == IF heard THEN x ELSE None
  <2>1. committer'[t] = [committer[t] EXCEPT !.pc = "store", !.status = status,
                                             !.tx = tx]
    BY <1>1, <1>5 DEF SendAccepted, Step
  <2> HIDE DEF status, tx
  <2>2. QED  BY <1>1, <2>1 DEF Commit
<1>6. ASSUME Hit(t) PROVE Goes({"attach"})
  <2> DEFINE record == records[First(RecordsOf(committer[t].key))]
  <2>1. committer'[t] = [committer[t] EXCEPT !.pc = "attach",
                                             !.record = record]
    BY <1>1, <1>6 DEF Hit, Step
  <2> HIDE DEF record
  <2>2. QED  BY <1>1, <2>1 DEF Commit
<1>7. QED  BY <1>2, <1>3, <1>4, <1>5, <1>6

\* Steps that leave the records alone, and give no new answer.
LEMMA SameAnswers ==
    ASSUME AnswersAreTold, UNCHANGED records,
           \A t \in Committers : committer'[t].pc = "attach" =>
                                      committer'[t] = committer[t]
    PROVE  AnswersAreTold'
BY DEF AnswersAreTold, Told, RecordsOf

LEMMA HitAnswers ==
    ASSUME Typed, AnswersAreTold, NEW t \in Committers, Hit(t)
    PROVE  AnswersAreTold'
<1> DEFINE key == committer[t].key
           c == [committer[t] EXCEPT !.pc = "attach",
                                     !.record = records[First(RecordsOf(key))]]
<1>1. Step(t, c) /\ RecordsOf(key) # {} /\ UNCHANGED records
  BY DEF Hit, ledgerVars
<1>2. c.key = key /\ c.record = records[First(RecordsOf(key))]
  BY DEF Typed, TypeOK, Commit
<1> HIDE DEF c
<1>3. /\ committer'[t] = c
      /\ \A u \in Committers \ {t} : committer'[u] = committer[u]
  BY <1>1, OthersKeep
<1>4. \A k : RecordsOf(k)' = RecordsOf(k) /\ Told(k)' = Told(k)
  BY <1>1 DEF Told, RecordsOf
<1> SUFFICES ASSUME NEW u \in Committers, committer'[u].pc = "attach",
                    NEW k, k = committer'[u].key
             PROVE  /\ RecordsOf(k)' # {}
                    /\ Answer(committer'[u].record) = Told(k)'
  BY DEF AnswersAreTold, RecordsOf, Told
<1>5. CASE u = t
  <2>1. k = key  BY <1>2, <1>3, <1>5
  <2>2. Answer(committer'[u].record) = Told(k)
    BY <1>2, <1>3, <1>5, <2>1 DEF Told
  <2>3. QED  BY <1>1, <1>4, <2>1, <2>2
<1>6. CASE u # t
  <2>1. committer'[u] = committer[u]  BY <1>3, <1>6
  <2>2. RecordsOf(k) # {} /\ Answer(committer[u].record) = Told(k)
    BY <2>1 DEF AnswersAreTold
  <2>3. QED  BY <1>4, <2>1, <2>2
<1>7. QED  BY <1>5, <1>6

LEMMA StoreAnswers ==
    ASSUME Sound, AnswersAreTold, NEW t \in Committers, Store(t)
    PROVE  AnswersAreTold'
<1>1. CASE committer[t].hash \in Complete
  <2>1. PICK key : key = committer[t].key  OBVIOUS
  <2>2. /\ RecordsOf(key)' # {}
        /\ committer'[t].pc = "attach" /\ committer'[t].key = key
        /\ Told(key)' = Answer(committer'[t].record)
        /\ \A k \in Keys \ {key} :
              /\ RecordsOf(k)' = RecordsOf(k)
              /\ RecordsOf(k) # {} => Told(k)' = Told(k)
    BY <1>1, <2>1, StoreTells
  <2>3. RecordsOf(key) = {}  BY <2>1 DEF Store, Sound, Held, FreshKey
  <2> SUFFICES ASSUME NEW u \in Committers, committer'[u].pc = "attach",
                      NEW k, k = committer'[u].key
               PROVE  /\ RecordsOf(k)' # {}
                      /\ Answer(committer'[u].record) = Told(k)'
    BY DEF AnswersAreTold, RecordsOf, Told
  <2>4. CASE u = t  BY <2>2, <2>4
  <2>5. CASE u # t
    <3>1. committer'[u] = committer[u]
      BY <2>5 DEF Store, Step, Sound, Typed, TypeOK
    <3>2. k \in Keys  BY <3>1 DEF Sound, Typed, Shape, CommitShape
    <3>3. RecordsOf(k) # {} /\ Answer(committer[u].record) = Told(k)
      BY <3>1 DEF AnswersAreTold
    <3>4. QED  BY <2>2, <2>3, <3>1, <3>2, <3>3
  <2>6. QED  BY <2>4, <2>5
<1>2. CASE committer[t].hash \notin Complete
  BY <1>2, SameAnswers
  DEF Store, Step, NoCommit, Sound, Typed, TypeOK
<1>3. QED  BY <1>1, <1>2

LEMMA OutcomeAnswers ==
    ASSUME Typed, AnswersAreTold, NEW id \in Ids, Outcome(id)
    PROVE  AnswersAreTold'
<1> SUFFICES ASSUME NEW u \in Committers, committer'[u].pc = "attach",
                    NEW k, k = committer'[u].key
             PROVE  /\ RecordsOf(k)' # {}
                    /\ Answer(committer'[u].record) = Told(k)'
  BY DEF AnswersAreTold, RecordsOf, Told
<1>1. committer'[u] = committer[u]  BY DEF Outcome
<1>2. k \in Keys  BY <1>1 DEF Typed, Shape, CommitShape
<1>3. RecordsOf(k) # {} /\ Answer(committer[u].record) = Told(k)
  BY <1>1 DEF AnswersAreTold
<1>4. QED  BY <1>1, <1>2, <1>3, OutcomeKeeps

LEMMA NextAnswers ==
    ASSUME Sound, AnswersAreTold, [Next]_vars PROVE AnswersAreTold'
<1>1. ASSUME Quiet PROVE AnswersAreTold'
  BY <1>1, SameAnswers DEF Quiet
<1>2. CASE Clients
  <2>1. ASSUME NEW t \in Committers, NEW h \in Hashes, NEW key \in Keys,
               NEW mode \in Modes, CommitCall(t, h, key, mode)
        PROVE  AnswersAreTold'
    BY <2>1, SameAnswers
    DEF CommitCall, Step, NoCommit, ledgerVars, Sound, Typed, TypeOK
  <2>2. QED
    BY <1>1, <1>2, <2>1, OthersAreQuiet, OutcomeAnswers
    DEF Clients, CommitRefuse, Sound
<1>3. ASSUME NEW t \in Committers, Proceed(t) PROVE AnswersAreTold'
  <2>1. ASSUME Miss(t) \/ ReadNonce(t) \/ SendFails(t) \/ AttachCommit(t)
               \/ \E x \in Txs, heard \in BOOLEAN : SendAccepted(t, x, heard)
        PROVE  AnswersAreTold'
    <3>1. UNCHANGED records
      BY <2>1 DEF Miss, ReadNonce, SendFails, AttachCommit, SendAccepted,
                  ledgerVars
    <3>2. \A u \in Committers \ {t} : committer'[u] = committer[u]
      BY <2>1 DEF Miss, ReadNonce, SendFails, AttachCommit, SendAccepted,
                  Step, Sound, Typed, TypeOK
    <3>3. committer'[t].pc # "attach"
      <4>1. CASE AttachCommit(t)
        <5>1. Typed /\ Step(t, NoCommit)  BY <4>1 DEF AttachCommit, Sound
        <5>2. committer'[t] = NoCommit  BY <5>1, OthersKeep
        <5>3. QED  BY <5>2 DEF NoCommit
      <4>2. CASE ~ AttachCommit(t)  BY <2>1, <4>2, UnderWay DEF Sound
      <4>3. QED  BY <4>1, <4>2
    <3>4. QED  BY <3>1, <3>2, <3>3, SameAnswers
  <2>2. QED
    BY <1>3, <2>1, HitAnswers, StoreAnswers DEF Proceed, Sound
<1>4. CASE CrashRestart
  BY <1>4 DEF CrashRestart, NoCommit, AnswersAreTold
<1>5. QED  BY <1>1, <1>2, <1>3, <1>4, OthersAreQuiet DEF Next

\* Two calls with one key are never told different things, whichever of them
\* sent, and whatever outcomes and other commits come in between.
THEOREM AlwaysAgree == Spec => []AnswersAgree
<1>1. Init => AnswersAreTold  BY DEF Init, NoCommit, AnswersAreTold
<1>2. Sound /\ AnswersAreTold /\ [Next]_vars => AnswersAreTold'
  BY NextAnswers
<1>3. AnswersAreTold => AnswersAgree
  BY DEF AnswersAreTold, AnswersAgree, Answered, Told
<1>4. QED  BY <1>1, <1>2, <1>3, AlwaysSound, PTL DEF Spec

-----------------------------------------------------------------------------
(* The refinement.  A key that has sent is being tried or has an answer;    *)
(* this needs the record to follow the send, which is what an assessment    *)
(* that lacks a field breaks.                                               *)

SentIsTried ==
    \A k \in Keys : sent[k] # None =>
        \/ RecordsOf(k) # {}
        \/ \E t \in Committers : /\ lock = t
                                 /\ committer[t].key = k
                                 /\ committer[t].pc = "store"

Trusty == Sound /\ SentIsTried

\* What a key's answer depends on.
LEMMA SameAnswer ==
    ASSUME NEW k,
           RecordsOf(k)' = RecordsOf(k),
           RecordsOf(k) # {} => Told(k)' = Told(k),
           (\E t \in Committers : lock = t /\ committer[t].key = k)'
               <=> \E t \in Committers : lock = t /\ committer[t].key = k
    PROVE  Answered(k)' = Answered(k)
BY DEF Answered, Told, Trying

LEMMA BookStutters ==
    ASSUME UNCHANGED <<records, lock, sent>>,
           \A t \in Committers : lock = t => committer'[t].key = committer[t].key
    PROVE  UNCHANGED Book!vars
<1>1. ASSUME NEW k PROVE Answered(k)' = Answered(k)
  <2>1. RecordsOf(k)' = RecordsOf(k) /\ Told(k)' = Told(k)
    BY DEF RecordsOf, Told
  <2>2. QED  BY <2>1, SameAnswer
<1>2. QED  BY <1>1 DEF Book!vars

LEMMA BookTries ==
    ASSUME Trusty, NEW t \in Committers, Miss(t),
           NEW key, key = committer[t].key
    PROVE  Book!Next
<1>1. key \in Keys  BY DEF Trusty, Sound, Typed, Shape, CommitShape, Miss
<1>2. /\ RecordsOf(key) = {} /\ lock = None /\ lock' = t
      /\ UNCHANGED <<records, sent>>
  BY DEF Miss
<1>3. /\ committer'[t].key = key
      /\ \A u \in Committers \ {t} : committer'[u] = committer[u]
  BY UnderWay, OthersKeep DEF Miss, Trusty, Sound
<1>4. \A u \in Committers : lock # u  BY <1>2, NoneAssumption
<1>5. \A k : RecordsOf(k)' = RecordsOf(k) /\ Told(k)' = Told(k)
  BY <1>2 DEF RecordsOf, Told
<1>6. Answered(key) = None  BY <1>2, <1>4 DEF Answered
<1>7. Answered(key)' = Trying
  <2>1. RecordsOf(key)' = {}  BY <1>2, <1>5
  <2>2. QED  BY <1>2, <1>3, <2>1 DEF Answered, Trying
<1>8. ASSUME NEW k \in Keys \ {key} PROVE Answered(k)' = Answered(k)
  BY <1>2, <1>3, <1>4, <1>5, SameAnswer
<1>9. [k \in Keys |-> Answered(k)]' =
         [[k \in Keys |-> Answered(k)] EXCEPT ![key] = Trying]
  BY <1>1, <1>7, <1>8
<1>10. Book!Try(key)  BY <1>1, <1>2, <1>6, <1>9 DEF Book!Try
<1>11. QED  BY <1>1, <1>10 DEF Book!Next

LEMMA BookSends ==
    ASSUME Trusty, NEW t \in Committers, NEW x \in Txs, NEW heard \in BOOLEAN,
           SendAccepted(t, x, heard), NEW key, key = committer[t].key
    PROVE  Book!Next
<1>1. key \in Keys /\ committer[t].pc = "send"
  BY DEF Trusty, Sound, Typed, Shape, CommitShape, SendAccepted
<1>2. UNCHANGED <<records, lock>> /\ sent' = [sent EXCEPT ![key] = x]
  BY DEF SendAccepted, ledgerVars
<1>3. lock = t /\ RecordsOf(key) = {}
  BY <1>1 DEF Trusty, Sound, Held, FreshKey
<1>4. sent[key] = None
  <2>1. ASSUME NEW u \in Committers, lock = u PROVE committer[u].pc # "store"
    BY <1>1, <1>3, <2>1
  <2>2. QED  BY <1>1, <1>3, <2>1 DEF Trusty, SentIsTried
<1>5. Answered(key) = Trying  BY <1>3 DEF Answered
<1>6. \A u \in Committers : committer'[u].key = committer[u].key
  BY ZenonT(40), UnderWay, OthersKeep DEF SendAccepted, Trusty, Sound
<1>7. ASSUME NEW k PROVE Answered(k)' = Answered(k)
  <2>1. RecordsOf(k)' = RecordsOf(k) /\ Told(k)' = Told(k)
    BY <1>2 DEF RecordsOf, Told
  <2>2. QED  BY <1>2, <1>6, <2>1, SameAnswer
<1>8. UNCHANGED [k \in Keys |-> Answered(k)]  BY <1>7
<1>9. Book!Send(key, x)  BY <1>1, <1>2, <1>4, <1>5, <1>8 DEF Book!Send
<1>10. QED  BY <1>1, <1>9 DEF Book!Next

LEMMA BookSettles ==
    ASSUME Trusty, Complete = Hashes, NEW t \in Committers, Store(t),
           NEW key, key = committer[t].key
    PROVE  Book!Next
<1> DEFINE record == committer'[t].record
           Answers == [hash : Hashes, status : Statuses, tx : Txs \cup {None}]
<1>1. /\ key \in Keys /\ committer[t].hash \in Complete
      /\ committer[t].pc = "store" /\ UNCHANGED sent /\ lock' = None
  BY DEF Trusty, Sound, Typed, Shape, CommitShape, Store
<1>2. lock = t /\ RecordsOf(key) = {}
  BY <1>1 DEF Trusty, Sound, Held, FreshKey
<1>3. /\ RecordsOf(key)' # {}
      /\ Told(key)' = Answer(record)
      /\ \A k \in Keys \ {key} :
            /\ RecordsOf(k)' = RecordsOf(k)
            /\ RecordsOf(k) # {} => Told(k)' = Told(k)
  BY <1>1, StoreTells DEF Trusty
<1>4. Answer(record) \in Answers
  <2>1. record = [id |-> IdOf[committer[t].hash], hash |-> committer[t].hash,
                  key |-> committer[t].key, status |-> committer[t].status,
                  tx |-> committer[t].tx, outcome |-> FALSE]
    BY <1>1, StoreTells DEF Trusty
  <2>2. /\ committer[t].hash \in Hashes /\ committer[t].status \in Statuses
        /\ committer[t].tx \in Txs \cup {None}
    BY <1>1 DEF Trusty, Sound, Typed, TypeOK, Shape, CommitShape, Commit
  <2>3. QED  BY <2>1, <2>2 DEF Answer
<1> HIDE DEF record
<1>5. Answered(key) = Trying  BY <1>2 DEF Answered
<1>6. Answered(key)' = Answer(record)  BY <1>3 DEF Answered, Told
<1>7. ASSUME NEW k \in Keys \ {key} PROVE Answered(k)' = Answered(k)
  <2>1. ~ \E u \in Committers : lock = u /\ committer[u].key = k
    BY <1>2
  <2>2. ~ (\E u \in Committers : lock = u /\ committer[u].key = k)'
    BY <1>1, NoneAssumption
  <2>3. QED  BY <1>3, <2>1, <2>2, SameAnswer
<1>8. [k \in Keys |-> Answered(k)]' =
         [[k \in Keys |-> Answered(k)] EXCEPT ![key] = Answer(record)]
  BY <1>1, <1>6, <1>7
<1>9. Book!Settle(key, Answer(record))
  BY <1>1, <1>5, <1>8 DEF Book!Settle
<1>10. QED  BY <1>1, <1>4, <1>9 DEF Book!Next

LEMMA BookForgets == ASSUME CrashRestart PROVE Book!Next
<1>1. records' = <<>> /\ lock' = None /\ sent' = [k \in Keys |-> None]
  BY DEF CrashRestart
<1>2. ASSUME NEW k PROVE Answered(k)' = None
  <2>1. RecordsOf(k)' = {}  BY <1>1 DEF RecordsOf
  <2>2. ~ (\E u \in Committers : lock = u /\ committer[u].key = k)'
    BY <1>1, NoneAssumption
  <2>3. QED  BY <2>1, <2>2 DEF Answered
<1>3. QED  BY <1>1, <1>2 DEF Book!Next, Book!Forget

LEMMA BookIgnoresOutcome ==
    ASSUME Trusty, NEW id \in Ids, Outcome(id) PROVE UNCHANGED Book!vars
<1>1. UNCHANGED <<committer, lock, sent>>  BY DEF Outcome
<1>2. ASSUME NEW k \in Keys PROVE Answered(k)' = Answered(k)
  BY <1>1, OutcomeKeeps, SameAnswer DEF Trusty, Sound
<1>3. QED  BY <1>1, <1>2 DEF Book!vars

LEMMA BookNext ==
    ASSUME Trusty, Complete = Hashes, [Next]_vars
    PROVE  [Book!Next]_(Book!vars)
<1>1. ASSUME Quiet, UNCHANGED sent PROVE UNCHANGED Book!vars
  BY <1>1, BookStutters DEF Quiet
<1>2. Sound  BY DEF Trusty
<1>3. CASE Clients
  <2>1. ASSUME NEW t \in Committers, NEW h \in Hashes, NEW key \in Keys,
               NEW mode \in Modes, CommitCall(t, h, key, mode)
        PROVE  UNCHANGED Book!vars
    <3>1. UNCHANGED <<records, lock, sent>> /\ lock # t
      BY <1>2, <2>1 DEF CommitCall, ledgerVars, Sound, Held
    <3>2. \A u \in Committers \ {t} : committer'[u] = committer[u]
      BY <1>2, <2>1, OthersKeep DEF CommitCall, Sound
    <3>3. QED  BY <3>1, <3>2, BookStutters
  <2>2. QED
    BY ZenonT(40), <1>1, <1>2, <1>3, <2>1, OthersAreQuiet, BookIgnoresOutcome
    DEF Clients, CommitRefuse, Scan, VerifyCall, vars
<1>4. ASSUME NEW t \in Committers, Proceed(t) PROVE [Book!Next]_(Book!vars)
  <2>1. ASSUME ReadNonce(t) \/ SendFails(t) \/ Hit(t) \/ AttachCommit(t)
        PROVE  UNCHANGED Book!vars
    <3>1. UNCHANGED <<records, lock, sent>>
      BY <2>1 DEF ReadNonce, SendFails, Hit, AttachCommit, ledgerVars
    <3>2. \A u \in Committers \ {t} : committer'[u] = committer[u]
      BY <1>2, <2>1, OthersKeep
      DEF ReadNonce, SendFails, Hit, AttachCommit, Sound
    <3>3. lock = t => committer'[t].key = committer[t].key
      BY <1>2, <2>1, UnderWay DEF AttachCommit, Sound, Held
    <3>4. QED  BY <3>1, <3>2, <3>3, BookStutters
  <2>2. PICK key : key = committer[t].key  OBVIOUS
  <2>3. QED
    BY <1>4, <2>1, <2>2, BookTries, BookSends, BookSettles DEF Proceed
<1>5. ASSUME NEW v \in Verifiers, ProceedVerify(v) PROVE UNCHANGED Book!vars
  BY <1>1, <1>2, <1>5, OthersAreQuiet
  DEF ProceedVerify, ReadTransaction, ReadReceipt, ReadFails, AttachVerification
<1>6. CASE Chain
  BY <1>1, <1>2, <1>6, OthersAreQuiet DEF Chain, ForeignSend, Mine
<1>7. CASE CrashRestart  BY <1>7, BookForgets
<1>8. CASE UNCHANGED vars  BY <1>1, <1>2, <1>8, OthersAreQuiet DEF vars
<1>9. QED  BY <1>3, <1>4, <1>5, <1>6, <1>7, <1>8 DEF Next

\* A key that was tried or answered stays so while its records are kept and
\* its call, if it is about to store, stays there.
LEMMA StillTried ==
    ASSUME SentIsTried, UNCHANGED sent,
           \A k \in Keys : RecordsOf(k) # {} => RecordsOf(k)' # {},
           \A t \in Committers : lock = t /\ committer[t].pc = "store" =>
                                     lock' = t /\ committer'[t] = committer[t]
    PROVE  SentIsTried'
BY DEF SentIsTried

LEMMA SendIsTried ==
    ASSUME Trusty, NEW t \in Committers, NEW x \in Txs, NEW heard \in BOOLEAN,
           SendAccepted(t, x, heard)
    PROVE  SentIsTried'
<1>1. /\ committer'[t].pc = "store" /\ committer'[t].key = committer[t].key
      /\ lock = t
  BY UnderWay DEF SendAccepted, Trusty, Sound, Held
<1>2. UNCHANGED <<records, lock>>
      /\ sent' = [sent EXCEPT ![committer[t].key] = x]
  BY DEF SendAccepted, ledgerVars
<1>3. \A k : RecordsOf(k)' = RecordsOf(k)  BY <1>2 DEF RecordsOf
<1>4. committer[t].pc = "send"  BY DEF SendAccepted
<1> SUFFICES ASSUME NEW k \in Keys, sent'[k] # None
             PROVE  \/ RecordsOf(k)' # {}
                    \/ \E u \in Committers : /\ lock' = u
                                             /\ committer'[u].key = k
                                             /\ committer'[u].pc = "store"
  BY DEF SentIsTried, RecordsOf
<1>5. CASE k = committer[t].key  BY <1>1, <1>2, <1>5
<1>6. CASE k # committer[t].key
  <2>1. sent[k] # None  BY <1>2, <1>6 DEF Trusty, Sound, Typed, TypeOK
  <2>2. ~ \E u \in Committers : lock = u /\ committer[u].pc = "store"
    BY <1>1, <1>4
  <2>3. RecordsOf(k) # {}  BY <2>1, <2>2 DEF Trusty, SentIsTried
  <2>4. QED  BY <1>3, <2>3
<1>7. QED  BY <1>5, <1>6

LEMMA StoreIsTried ==
    ASSUME Trusty, Complete = Hashes, NEW t \in Committers, Store(t),
           NEW key, key = committer[t].key
    PROVE  SentIsTried'
<1>1. /\ committer[t].hash \in Complete /\ committer[t].pc = "store"
      /\ UNCHANGED sent
  BY DEF Trusty, Sound, Typed, Shape, CommitShape, Store
<1>2. lock = t  BY <1>1 DEF Trusty, Sound, Held
<1>3. /\ RecordsOf(key)' # {}
      /\ \A k \in Keys \ {key} : RecordsOf(k)' = RecordsOf(k)
  BY <1>1, StoreTells DEF Trusty
<1>4. ASSUME NEW k \in Keys, sent'[k] # None PROVE RecordsOf(k)' # {}
  <2>1. CASE k = key  BY <1>3, <2>1
  <2>2. CASE k # key
    <3>1. ~ \E u \in Committers : lock = u /\ committer[u].key = k
      BY <1>2, <2>2
    <3>2. RecordsOf(k) # {}  BY <1>1, <1>4, <3>1 DEF Trusty, SentIsTried
    <3>3. QED  BY <1>3, <2>2, <3>2
  <2>3. QED  BY <2>1, <2>2
<1>5. QED  BY <1>4 DEF SentIsTried

LEMMA NextIsTried ==
    ASSUME Trusty, Complete = Hashes, [Next]_vars PROVE SentIsTried'
<1>1. Sound /\ SentIsTried  BY DEF Trusty
<1>2. ASSUME Quiet, UNCHANGED sent PROVE SentIsTried'
  BY <1>1, <1>2, StillTried DEF Quiet, RecordsOf
<1>3. CASE Clients
  <2>1. ASSUME NEW t \in Committers, NEW h \in Hashes, NEW key \in Keys,
               NEW mode \in Modes, CommitCall(t, h, key, mode)
        PROVE  SentIsTried'
    <3>1. UNCHANGED <<records, lock, sent>> /\ committer[t].pc = "idle"
      BY <2>1 DEF CommitCall, ledgerVars
    <3>2. \A u \in Committers \ {t} : committer'[u] = committer[u]
      BY <1>1, <2>1, OthersKeep DEF CommitCall, Sound
    <3>3. QED  BY <1>1, <3>1, <3>2, StillTried DEF RecordsOf
  <2>2. ASSUME NEW id \in Ids, Outcome(id) PROVE SentIsTried'
    <3>1. UNCHANGED <<committer, lock, sent>>  BY <2>2 DEF Outcome
    <3>2. \A k \in Keys : RecordsOf(k)' = RecordsOf(k)
      BY <1>1, <2>2, OutcomeKeeps DEF Sound
    <3>3. QED  BY <1>1, <3>1, <3>2, StillTried
  <2>3. QED
    BY ZenonT(40), <1>1, <1>2, <1>3, <2>1, <2>2, OthersAreQuiet
    DEF Clients, CommitRefuse, Scan, VerifyCall, vars
<1>4. ASSUME NEW t \in Committers, Proceed(t) PROVE SentIsTried'
  <2>1. ASSUME Miss(t) \/ ReadNonce(t) \/ SendFails(t) \/ Hit(t)
                  \/ AttachCommit(t)
        PROVE  SentIsTried'
    <3>1. /\ UNCHANGED <<records, sent>> /\ committer[t].pc # "store"
          /\ lock # None => UNCHANGED lock
      BY <2>1 DEF Miss, ReadNonce, SendFails, Hit, AttachCommit, ledgerVars
    <3>2. \A u \in Committers \ {t} : committer'[u] = committer[u]
      BY <1>1, <2>1, OthersKeep
      DEF Miss, ReadNonce, SendFails, Hit, AttachCommit, Sound
    <3>3. \A u \in Committers : u # None  BY NoneAssumption
    <3>4. QED  BY <1>1, <3>1, <3>2, <3>3, StillTried DEF RecordsOf
  <2>2. PICK key : key = committer[t].key  OBVIOUS
  <2>3. QED
    BY <1>4, <2>1, <2>2, SendIsTried, StoreIsTried DEF Proceed
<1>5. ASSUME NEW v \in Verifiers, ProceedVerify(v) PROVE SentIsTried'
  BY <1>1, <1>2, <1>5, OthersAreQuiet
  DEF ProceedVerify, ReadTransaction, ReadReceipt, ReadFails, AttachVerification
<1>6. CASE Chain
  BY <1>1, <1>2, <1>6, OthersAreQuiet DEF Chain, ForeignSend, Mine
<1>7. CASE CrashRestart  BY <1>7 DEF CrashRestart, SentIsTried
<1>8. CASE UNCHANGED vars  BY <1>1, <1>2, <1>8, OthersAreQuiet DEF vars
<1>9. QED  BY <1>3, <1>4, <1>5, <1>6, <1>7, <1>8 DEF Next

LEMMA BookInit == ASSUME Init PROVE Book!Init
<1>1. ASSUME NEW k PROVE Answered(k) = None
  BY NoneAssumption DEF Init, Answered, RecordsOf
<1>2. QED  BY <1>1 DEF Init, Book!Init

\* However many calls race for the lock, whatever the node does and whenever
\* the process restarts, a key is tried once, sends at most once and has one
\* answer, if every assessment has the fields that the ledger reads.
THEOREM KeysAreIdempotent == Complete = Hashes => (Spec => Idempotent)
<1> SUFFICES ASSUME Complete = Hashes PROVE Spec => Idempotent
  OBVIOUS
<1>1. Init => Book!Init /\ SentIsTried
  BY BookInit DEF Init, SentIsTried
<1>2. Sound /\ SentIsTried /\ [Next]_vars =>
          SentIsTried' /\ [Book!Next]_(Book!vars)
  BY BookNext, NextIsTried DEF Trusty
<1>3. QED  BY <1>1, <1>2, AlwaysSound, PTL DEF Spec, Idempotent, Book!Spec

-----------------------------------------------------------------------------
(* What the history shows as verified.  With clients that name what is their *)
(* own, everything that names a transaction also names the id of the         *)
(* assessment whose hash it carries: records, the answers of commit calls,   *)
(* verify calls and rows.                                                    *)

Carries(tx, id) == tx # None /\ IdOf[tx.hash] = id

OwnRecord(r, known) ==
    /\ r.hash # None
    /\ r.id = IdOf[r.hash]
    /\ r.tx # None => Carries(known[r.tx], r.id)

\* A record without a key is an outcome's stub.
RecordsAreOwn ==
    \A i \in DOMAIN records :
        IF records[i].key # None THEN OwnRecord(records[i], txs)
        ELSE records[i].hash = None /\ records[i].tx = None

AnswersAreOwn ==
    \A t \in Committers :
        committer[t].pc = "attach" => OwnRecord(committer[t].record, txs)

OwnVerification(c, known) ==
    c.pc # "idle" =>
        /\ Carries(known[c.tx], c.id)
        /\ c.local # None => IdOf[c.local] = c.id
        /\ c.seen # None => IdOf[c.seen] = c.id

VerifiersAreOwn == \A v \in Verifiers : OwnVerification(verifier[v], txs)

\* Of these transactions, one has put a hash with this id on chain.
Logged(id, known) == \E x \in Txs : /\ Carries(known[x], id)
                                    /\ known[x].logger
                                    /\ known[x].state = "mined"

OwnRow(row, known) ==
    /\ row.tx # None => Carries(known[row.tx], IdOf[row.hash])
    /\ row.verified = "verified" => Logged(IdOf[row.hash], known)

RowsAreOwn == \A i \in DOMAIN rows : OwnRow(rows[i], txs)

LEMMA NextGrows == ASSUME Typed, [Next]_vars PROVE Grown
<1>1. UNCHANGED txs => Grown  BY DEF Grown, SameCall
<1>2. Clients => UNCHANGED txs
  BY DEF Clients, Scan, CommitRefuse, CommitCall, Outcome, VerifyCall,
         chainVars, vars
<1>3. ASSUME NEW t \in Committers, Proceed(t)
      PROVE  \/ UNCHANGED txs
             \/ \E x \in Txs, heard \in BOOLEAN : SendAccepted(t, x, heard)
  BY <1>3
  DEF Proceed, Hit, Miss, ReadNonce, SendFails, Store, AttachCommit, chainVars
<1>4. ASSUME NEW v \in Verifiers, ProceedVerify(v) PROVE UNCHANGED txs
  BY <1>4
  DEF ProceedVerify, ReadTransaction, ReadReceipt, ReadFails,
      AttachVerification, chainVars
<1>5. CrashRestart \/ UNCHANGED vars => UNCHANGED txs
  BY DEF CrashRestart, vars, chainVars
<1>6. QED  BY <1>1, <1>2, <1>3, <1>4, <1>5, ServerGrows, ChainGrows DEF Next

\* What has been true of a transaction stays true.
LEMMA OwnStays ==
    ASSUME Grown
    PROVE  /\ \A r \in Record : OwnRecord(r, txs) => OwnRecord(r, txs')
           /\ \A c : (c.pc # "idle" => c.tx \in Txs) /\ OwnVerification(c, txs)
                         => OwnVerification(c, txs')
           /\ \A row \in Row : OwnRow(row, txs) => OwnRow(row, txs')
<1>1. \A x \in Txs : \A id : Carries(txs[x], id) => Carries(txs'[x], id)
  BY DEF Grown, SameCall, Carries
<1>2. \A id : Logged(id, txs) => Logged(id, txs')
  BY DEF Grown, SameCall, Logged, Carries
<1>3. \A r \in Record : r.tx \in Txs \cup {None}  BY DEF Record
<1>4. \A row \in Row : row.tx \in Txs \cup {None}  BY DEF Row
<1>5. \A r \in Record : OwnRecord(r, txs) => OwnRecord(r, txs')
  BY <1>1, <1>3 DEF OwnRecord
<1>6. \A row \in Row : OwnRow(row, txs) => OwnRow(row, txs')
  BY <1>1, <1>2, <1>4 DEF OwnRow
<1>7. ASSUME NEW c, c.pc # "idle" => c.tx \in Txs, OwnVerification(c, txs)
      PROVE  OwnVerification(c, txs')
  BY <1>1, <1>7 DEF OwnVerification
<1>8. QED  BY <1>5, <1>6, <1>7

\* The steps that change the records.
LEMMA RecordSteps ==
    ASSUME [Next]_vars
    PROVE  \/ UNCHANGED records
           \/ \E id \in Ids : Outcome(id)
           \/ \E t \in Committers : Store(t)
           \/ CrashRestart
<1>1. Clients => UNCHANGED records \/ \E id \in Ids : Outcome(id)
  BY DEF Clients, Scan, CommitRefuse, CommitCall, VerifyCall, ledgerVars, vars
<1>2. \A t \in Committers : Proceed(t) => UNCHANGED records \/ Store(t)
  BY DEF Proceed, Hit, Miss, ReadNonce, SendFails, SendAccepted, AttachCommit,
         ledgerVars
<1>3. \A v \in Verifiers : ProceedVerify(v) => UNCHANGED records
  BY DEF ProceedVerify, ReadTransaction, ReadReceipt, ReadFails,
         AttachVerification, ledgerVars
<1>4. Chain \/ UNCHANGED vars => UNCHANGED records
  BY DEF Chain, ForeignSend, Mine, ledgerVars, vars
<1>5. QED  BY <1>1, <1>2, <1>3, <1>4 DEF Next

\* The record that a call stores.
LEMMA StoredIsOwn ==
    ASSUME Sound, NEW t \in Committers, committer[t].pc = "store"
    PROVE  LET c == committer[t]
           IN  OwnRecord([id |-> IdOf[c.hash], hash |-> c.hash, key |-> c.key,
                          status |-> c.status, tx |-> c.tx,
                          outcome |-> FALSE], txs)
<1> DEFINE c == committer[t]
<1>1. c.hash \in Hashes  BY DEF Sound, Typed, Shape, CommitShape
<1>2. c.tx # None => Carries(txs[c.tx], IdOf[c.hash])
  BY DEF Sound, CallsAreBacked, Backs, Carries
<1>3. QED  BY <1>1, <1>2, NoneAssumption DEF OwnRecord

LEMMA RecordsOwnNext ==
    ASSUME Sound, RecordsAreOwn, Grown, [Next]_vars PROVE RecordsAreOwn'
<1>1. /\ Typed /\ records \in Seq(Record)
      /\ \A i \in DOMAIN records : records[i] \in Record
  BY RecordTypes DEF Sound, Typed, TypeOK
<1>2. \A i \in DOMAIN records :
          OwnRecord(records[i], txs) => OwnRecord(records[i], txs')
  BY <1>1, OwnStays
<1>3. CASE UNCHANGED records
  BY <1>2, <1>3 DEF RecordsAreOwn
<1>4. ASSUME NEW id \in Ids, Outcome(id) PROVE RecordsAreOwn'
  <2>1. \A i \in DOMAIN records :
            OwnRecord(records[i], txs') => OwnRecord(records'[i], txs')
    BY <1>1, <1>4, OutcomeRecords DEF OwnRecord
  <2>2. QED  BY <1>1, <1>2, <1>4, <2>1, OutcomeRecords DEF RecordsAreOwn
<1>5. ASSUME NEW t \in Committers, Store(t) PROVE RecordsAreOwn'
  <2> DEFINE c == committer[t]
             record == [id |-> IdOf[c.hash], hash |-> c.hash, key |-> c.key,
                        status |-> c.status, tx |-> c.tx, outcome |-> FALSE]
  <2>1. /\ c.pc = "store" /\ UNCHANGED txs
        /\ records' \in {records, Append(records, record)}
    BY <1>5 DEF Store, chainVars
  <2>2. record \in Record /\ OwnRecord(record, txs)
    BY <1>1, <2>1, RecordOfCall, StoredIsOwn
  <2>3. record.key # None
    BY <1>1, <2>1, NoneAssumption DEF Typed, Shape, CommitShape
  <2> HIDE DEF record
  <2>4. CASE records' = Append(records, record)
    <3>1. /\ DOMAIN records' = DOMAIN records \cup {Len(records) + 1}
          /\ records'[Len(records) + 1] = record
          /\ \A i \in DOMAIN records : records'[i] = records[i]
      BY <1>1, <2>2, <2>4, Appended
    <3> DEFINE n == Len(records) + 1
    <3> HIDE DEF n
    <3>2. QED  BY <2>1, <2>2, <2>3, <3>1 DEF RecordsAreOwn, n
  <2>5. QED  BY <1>3, <2>1, <2>4
<1>6. CASE CrashRestart
  <2>1. DOMAIN records' = {}  BY <1>6 DEF CrashRestart
  <2>2. QED  BY <2>1 DEF RecordsAreOwn
<1>7. QED  BY <1>3, <1>4, <1>5, <1>6, RecordSteps

\* The record that answers a key.
LEMMA HitIsOwn ==
    ASSUME Typed, RecordsAreOwn, NEW t \in Committers, Hit(t)
    PROVE  OwnRecord(records[First(RecordsOf(committer[t].key))], txs)
<1>1. committer[t].key \in Keys  BY DEF Hit, Typed, Shape, CommitShape
<1>2. QED
  BY <1>1, KeyHasRecord, NoneAssumption DEF Hit, RecordsAreOwn

LEMMA AnswersOwnNext ==
    ASSUME Sound, RecordsAreOwn, AnswersAreOwn, Grown, [Next]_vars
    PROVE  AnswersAreOwn'
<1>1. Typed  BY DEF Sound
<1>2. \A t \in Committers :
          committer[t].pc = "attach" => OwnRecord(committer[t].record, txs')
  BY <1>1, OwnStays DEF AnswersAreOwn, Typed, Shape, CommitShape
\* What a step of one call has to show.
<1>3. ASSUME NEW t \in Committers, NEW c, Step(t, c),
             c.pc = "attach" => OwnRecord(c.record, txs')
      PROVE  AnswersAreOwn'
  BY <1>1, <1>2, <1>3, OthersKeep DEF AnswersAreOwn
<1>4. CASE UNCHANGED committer  BY <1>2, <1>4 DEF AnswersAreOwn
<1>5. ASSUME NEW t \in Committers, NEW h \in Hashes, NEW key \in Keys,
             NEW mode \in Modes, CommitCall(t, h, key, mode)
      PROVE  AnswersAreOwn'
  <2> DEFINE c == [NoCommit EXCEPT !.pc = "lock", !.hash = h, !.key = key,
                                   !.mode = mode]
  <2>1. Step(t, c) /\ c.pc # "attach"  BY <1>5 DEF CommitCall, NoCommit
  <2> HIDE DEF c
  <2>2. QED  BY <1>3, <2>1
<1>6. ASSUME NEW t \in Committers, Hit(t) PROVE AnswersAreOwn'
  <2> DEFINE r == records[First(RecordsOf(committer[t].key))]
             c == [committer[t] EXCEPT !.pc = "attach", !.record = r]
  <2>1. OwnRecord(r, txs)  BY <1>1, <1>6, HitIsOwn
  <2>2. Step(t, c) /\ UNCHANGED txs  BY <1>6 DEF Hit, chainVars
  <2> HIDE DEF r
  <2>3. c.record = r  BY <1>1 DEF Typed, TypeOK, Commit
  <2> HIDE DEF c
  <2>4. QED  BY <1>3, <2>1, <2>2, <2>3
<1>7. ASSUME NEW t \in Committers, Store(t) PROVE AnswersAreOwn'
  <2> DEFINE old == committer[t]
             r == [id |-> IdOf[old.hash], hash |-> old.hash, key |-> old.key,
                   status |-> old.status, tx |-> old.tx, outcome |-> FALSE]
             c == [old EXCEPT !.pc = "attach", !.record = r]
  <2>1. OwnRecord(r, txs)  BY <1>7, StoredIsOwn DEF Store
  <2>2. UNCHANGED txs /\ (Step(t, c) \/ Step(t, NoCommit))
    BY <1>7 DEF Store, chainVars
  <2> HIDE DEF r
  <2>3. c.record = r  BY <1>1 DEF Typed, TypeOK, Commit
  <2>4. NoCommit.pc # "attach"  BY DEF NoCommit
  <2> HIDE DEF c
  <2>5. QED  BY <1>3, <2>1, <2>2, <2>3, <2>4
<1>8. ASSUME NEW t \in Committers,
             Miss(t) \/ ReadNonce(t) \/ SendFails(t) \/ AttachCommit(t)
                \/ \E x \in Txs, heard \in BOOLEAN : SendAccepted(t, x, heard)
      PROVE  AnswersAreOwn'
  <2>1. committer' = [committer EXCEPT ![t] = committer'[t]]
    BY <1>1, <1>8
    DEF Miss, ReadNonce, SendFails, AttachCommit, SendAccepted, Step, Typed,
        TypeOK
  <2> DEFINE c == committer'[t]
  <2>2. committer[t] \in Commit /\ t \in DOMAIN committer
    BY <1>1 DEF Typed, TypeOK
  <2>3. ASSUME Miss(t) PROVE c.pc # "attach"
    BY <2>2, <2>3 DEF Miss, Step, Commit
  <2>4. ASSUME ReadNonce(t) \/ SendFails(t) PROVE c.pc # "attach"
    BY <2>2, <2>4 DEF ReadNonce, SendFails, Step, Commit
  <2>5. ASSUME AttachCommit(t) PROVE c.pc # "attach"
    BY <2>2, <2>5 DEF AttachCommit, Step, NoCommit
  <2>6. ASSUME NEW x \in Txs, NEW heard \in BOOLEAN, SendAccepted(t, x, heard)
        PROVE  c.pc # "attach"
    BY <2>2, <2>6 DEF SendAccepted, Step, Commit
  <2>7. c.pc # "attach"  BY <1>8, <2>3, <2>4, <2>5, <2>6
  <2>8. QED  BY <1>3, <2>1, <2>7 DEF Step
<1>9. CASE CrashRestart
  BY <1>9 DEF CrashRestart, AnswersAreOwn, NoCommit
<1>10. CASE Clients
  <2>1. \/ UNCHANGED committer
        \/ \E t \in Committers, h \in Hashes, key \in Keys, mode \in Modes :
              CommitCall(t, h, key, mode)
    BY <1>10 DEF Clients, Scan, CommitRefuse, Outcome, VerifyCall, vars
  <2>2. QED  BY <1>4, <1>5, <2>1
<1>11. ASSUME NEW v \in Verifiers, ProceedVerify(v) PROVE UNCHANGED committer
  BY <1>11
  DEF ProceedVerify, ReadTransaction, ReadReceipt, ReadFails, AttachVerification
<1>12. Chain \/ UNCHANGED vars => UNCHANGED committer
  BY DEF Chain, ForeignSend, Mine, ledgerVars, vars
<1>13. QED
  BY <1>4, <1>6, <1>7, <1>8, <1>9, <1>10, <1>11, <1>12 DEF Next, Proceed

\* A verify call names its transaction's hash from its start.
LEMMA CallIsOwn ==
    ASSUME Typed, RecordsAreOwn, OwnOnly, NEW v \in Verifiers,
           NEW x \in Txs, NEW id \in Ids \cup {None},
           NEW h \in Hashes \cup {None}, VerifyCall(v, x, id, h)
    PROVE  \E c : VStep(v, c) /\ OwnVerification(c, txs)
<1> DEFINE found == Found(id, x)
           local == records[First(found)]
           expected == IF h # None \/ found = {} THEN h ELSE local.hash
           named == IF found = {} THEN id ELSE local.id
           known == IF found = {} THEN expected ELSE local.hash
           c == [NoVerification EXCEPT !.pc = "tx", !.tx = x,
                     !.expected = expected, !.id = named, !.local = known]
<1>1. VStep(v, c)  BY DEF VerifyCall
<1>2. txs[x] # None /\ h = txs[x].hash /\ id = IdOf[h]
  BY DEF VerifyCall, Names
<1>3. h \in Hashes /\ h # None
  BY <1>2, NoneAssumption DEF Typed, TypeOK, Transaction
<1>4. found # {} => /\ local.id = id
                    /\ local.hash # None => IdOf[local.hash] = id
  <2>1. SUFFICES ASSUME found # {}
                 PROVE  /\ local.id = id
                        /\ local.hash # None => IdOf[local.hash] = id
    OBVIOUS
  <2>2. local \in Record /\ (local.id = id \/ local.tx = x)
    BY <2>1, FoundHasRecord
  <2>3. IF local.key # None THEN OwnRecord(local, txs)
        ELSE local.hash = None /\ local.tx = None
    BY <2>1, FoundHasRecord DEF RecordsAreOwn
  <2>4. x # None  BY NoneAssumption
  <2> HIDE DEF local, found
  <2>5. QED  BY <1>2, <2>2, <2>3, <2>4 DEF OwnRecord, Carries
<1> HIDE DEF found, local
<1>5. named = id /\ (known # None => IdOf[known] = id)  BY <1>2, <1>3, <1>4
<1> HIDE DEF expected, named, known
<1>6. c.tx = x /\ c.id = named /\ c.local = known /\ c.seen = None
  BY DEF NoVerification
<1> HIDE DEF c
<1>7. OwnVerification(c, txs)
  BY <1>2, <1>5, <1>6 DEF OwnVerification, Carries
<1>8. QED  BY <1>1, <1>7

LEMMA VerifiersOwnNext ==
    ASSUME Typed, RecordsAreOwn, VerifiersAreOwn, Grown, OwnOnly, [Next]_vars
    PROVE  VerifiersAreOwn'
<1>1. \A v \in Verifiers : OwnVerification(verifier[v], txs')
  BY OwnStays DEF VerifiersAreOwn, Typed, Shape, VerificationShape
<1>2. ASSUME NEW v \in Verifiers, NEW c, VStep(v, c), OwnVerification(c, txs')
      PROVE  VerifiersAreOwn'
  BY <1>1, <1>2 DEF VerifiersAreOwn, VStep, Typed, TypeOK
<1>3. CASE UNCHANGED verifier  BY <1>1, <1>3 DEF VerifiersAreOwn
<1>4. OwnVerification(NoVerification, txs')
  BY DEF OwnVerification, NoVerification
<1>5. ASSUME NEW v \in Verifiers, NEW verdict, NEW seen,
             verifier[v].pc # "idle", UNCHANGED txs,
             Conclude(v, verdict, seen), seen \in {None, txs[verifier[v].tx].hash}
      PROVE  VerifiersAreOwn'
  <2> DEFINE c == [verifier[v] EXCEPT !.pc = "attach", !.verdict = verdict,
                                      !.seen = seen]
  <2>1. VStep(v, c)  BY <1>5 DEF Conclude
  <2>2. c.tx = verifier[v].tx /\ c.id = verifier[v].id
        /\ c.local = verifier[v].local /\ c.seen = seen
    BY DEF Typed, TypeOK, Verification
  <2> HIDE DEF c
  <2>3. OwnVerification(c, txs)
    BY <1>5, <2>2 DEF VerifiersAreOwn, OwnVerification, Carries
  <2>4. QED  BY <1>2, <1>5, <2>1, <2>3
<1>6. ASSUME NEW v \in Verifiers, ReadTransaction(v) PROVE VerifiersAreOwn'
  <2> DEFINE c == [verifier[v] EXCEPT !.pc = "receipt"]
  <2>1. UNCHANGED txs /\ verifier[v].pc = "tx"
    BY <1>6 DEF ReadTransaction, chainVars
  <2>2. \/ Conclude(v, "unknown", None) \/ Conclude(v, "mismatch", None)
        \/ VStep(v, c)
    BY <1>6 DEF ReadTransaction
  <2>3. /\ c.tx = verifier[v].tx /\ c.id = verifier[v].id
        /\ c.local = verifier[v].local /\ c.seen = verifier[v].seen
    BY DEF Typed, TypeOK, Verification
  <2> HIDE DEF c
  <2>4. OwnVerification(c, txs)
    BY <2>1, <2>3 DEF VerifiersAreOwn, OwnVerification
  <2>5. QED  BY <1>2, <1>5, <2>1, <2>2, <2>4
<1>7. ASSUME NEW v \in Verifiers, ReadReceipt(v) PROVE VerifiersAreOwn'
  <2>1. UNCHANGED txs /\ verifier[v].pc = "receipt"
    BY <1>7 DEF ReadReceipt, chainVars
  <2>2. \E verdict, seen : /\ Conclude(v, verdict, seen)
                           /\ seen \in {None, txs[verifier[v].tx].hash}
    BY <1>7 DEF ReadReceipt
  <2>3. QED  BY <1>5, <2>1, <2>2
<1>8. ASSUME NEW v \in Verifiers, ReadFails(v) PROVE VerifiersAreOwn'
  BY <1>5, <1>8 DEF ReadFails, chainVars
<1>9. ASSUME NEW v \in Verifiers, AttachVerification(v) PROVE VerifiersAreOwn'
  BY <1>2, <1>4, <1>9 DEF AttachVerification
<1>10. CASE Clients
  <2>1. ASSUME NEW v \in Verifiers, NEW x \in Txs, NEW id \in Ids \cup {None},
               NEW h \in Hashes \cup {None}, VerifyCall(v, x, id, h)
        PROVE  VerifiersAreOwn'
    <3>1. UNCHANGED txs  BY <2>1 DEF VerifyCall, chainVars
    <3>2. QED  BY <1>2, <2>1, <3>1, CallIsOwn
  <2>2. \/ UNCHANGED verifier
        \/ \E v \in Verifiers, x \in Txs, id \in Ids \cup {None},
              h \in Hashes \cup {None} : VerifyCall(v, x, id, h)
    BY <1>10 DEF Clients, Scan, CommitRefuse, CommitCall, Outcome, vars
  <2>3. QED  BY <1>3, <2>1, <2>2
<1>11. ASSUME NEW t \in Committers, Proceed(t) PROVE UNCHANGED verifier
  BY <1>11
  DEF Proceed, Hit, Miss, ReadNonce, SendFails, SendAccepted, Store, AttachCommit
<1>12. CASE CrashRestart
  BY <1>4, <1>12 DEF CrashRestart, VerifiersAreOwn
<1>13. Chain \/ UNCHANGED vars => UNCHANGED verifier
  BY DEF Chain, ForeignSend, Mine, vars
<1>14. QED
  BY <1>3, <1>6, <1>7, <1>8, <1>9, <1>10, <1>11, <1>12, <1>13
  DEF Next, ProceedVerify

\* A row that an answer or a verification is attached to has its id.
LEMMA MatchedRow ==
    ASSUME NEW row \in Row, OwnRow(row, txs), NEW id, NEW hash,
           hash # None => IdOf[hash] = id, NEW x \in Txs \cup {None},
           x # None => Carries(txs[x], id), Matches(row, hash, id, x)
    PROVE  IdOf[row.hash] = id
  BY DEF Matches, OwnRow, Carries

\* What a row is after an answer or a verification was attached to it.
LEMMA PatchedRow ==
    ASSUME NEW row \in Row, OwnRow(row, txs), NEW x \in Txs \cup {None},
           x # None => Carries(txs[x], IdOf[row.hash]),
           NEW status, NEW verdict,
           verdict = "verified" => Logged(IdOf[row.hash], txs)
    PROVE  /\ OwnRow([row EXCEPT !.tx = x, !.commit = status], txs)
           /\ OwnRow([row EXCEPT !.tx = x, !.verified = verdict], txs)
<1> DEFINE a == [row EXCEPT !.tx = x, !.commit = status]
           b == [row EXCEPT !.tx = x, !.verified = verdict]
<1>1. a.tx = x /\ a.hash = row.hash /\ a.verified = row.verified  BY DEF Row
<1>2. b.tx = x /\ b.hash = row.hash /\ b.verified = verdict  BY DEF Row
<1> HIDE DEF a, b
<1>3. OwnRow(a, txs) /\ OwnRow(b, txs)  BY <1>1, <1>2 DEF OwnRow
<1>4. QED  BY <1>3 DEF a, b

LEMMA AttachCommitOwn ==
    ASSUME Typed, AnswersAreOwn, RowsAreOwn,
           NEW t \in Committers, AttachCommit(t)
    PROVE  RowsAreOwn'
<1> DEFINE r == committer[t].record
<1>1. UNCHANGED txs /\ DOMAIN rows' = DOMAIN rows
  BY DEF AttachCommit, chainVars
<1>2. r \in Record /\ OwnRecord(r, txs)
  BY DEF AttachCommit, AnswersAreOwn, Typed, Shape, CommitShape
<1>3. SUFFICES ASSUME NEW i \in DOMAIN rows PROVE OwnRow(rows'[i], txs)
  BY <1>1 DEF RowsAreOwn
<1>4. rows[i] \in Row /\ OwnRow(rows[i], txs)
  BY Indices DEF Typed, TypeOK, RowsAreOwn
<1>5. IF Matches(rows[i], r.hash, r.id, r.tx)
      THEN rows'[i] = [rows[i] EXCEPT !.tx = r.tx, !.commit = r.status]
      ELSE rows'[i] = rows[i]
  BY DEF AttachCommit
<1> HIDE DEF r
<1>6. CASE Matches(rows[i], r.hash, r.id, r.tx)
  <2>1. /\ r.hash \in Hashes /\ r.id = IdOf[r.hash] /\ r.tx \in Txs \cup {None}
        /\ r.tx # None => Carries(txs[r.tx], r.id)
    BY <1>2 DEF Record, OwnRecord
  <2>2. IdOf[rows[i].hash] = r.id  BY <1>4, <1>6, <2>1, MatchedRow
  <2>3. OwnRow([rows[i] EXCEPT !.tx = r.tx, !.commit = r.status], txs)
    BY <1>4, <2>1, <2>2, PatchedRow
  <2>4. QED  BY <1>5, <1>6, <2>3
<1>7. QED  BY <1>4, <1>5, <1>6

LEMMA AttachVerificationOwn ==
    ASSUME Typed, Verifying, VerifiersAreOwn, RowsAreOwn,
           NEW v \in Verifiers, AttachVerification(v)
    PROVE  RowsAreOwn'
<1> DEFINE c == verifier[v]
           hash == IF c.seen # None THEN c.seen ELSE c.local
<1>1. UNCHANGED txs /\ DOMAIN rows' = DOMAIN rows /\ c.pc = "attach"
  BY DEF AttachVerification, chainVars
<1>2. /\ Carries(txs[c.tx], c.id)
      /\ hash # None => IdOf[hash] = c.id
  BY <1>1 DEF VerifiersAreOwn, OwnVerification
<1>3. c.tx \in Txs  BY <1>1 DEF Typed, Shape, VerificationShape
<1>4. c.verdict = "verified" => Logged(c.id, txs)
  BY <1>1, <1>2, <1>3 DEF Verifying, VerifiedIsMined, Logged, Carries
<1>5. SUFFICES ASSUME NEW i \in DOMAIN rows PROVE OwnRow(rows'[i], txs)
  BY <1>1 DEF RowsAreOwn
<1>6. rows[i] \in Row /\ OwnRow(rows[i], txs)
  BY Indices DEF Typed, TypeOK, RowsAreOwn
<1>7. IF Matches(rows[i], hash, c.id, c.tx)
      THEN rows'[i] = [rows[i] EXCEPT !.tx = c.tx, !.verified = c.verdict]
      ELSE rows'[i] = rows[i]
  BY DEF AttachVerification
<1> HIDE DEF c, hash
<1>8. CASE Matches(rows[i], hash, c.id, c.tx)
  <2>1. IdOf[rows[i].hash] = c.id  BY <1>2, <1>3, <1>6, <1>8, MatchedRow
  <2>2. OwnRow([rows[i] EXCEPT !.tx = c.tx, !.verified = c.verdict], txs)
    BY <1>2, <1>3, <1>4, <1>6, <2>1, PatchedRow
  <2>3. QED  BY <1>7, <1>8, <2>2
<1>9. QED  BY <1>6, <1>7, <1>8

LEMMA ScanOwn ==
    ASSUME Typed, RowsAreOwn, NEW h \in Hashes, Scan(h) PROVE RowsAreOwn'
<1> DEFINE row == [hash |-> h, tx |-> None, commit |-> None, verified |-> None]
           longer == Append(rows, row)
<1>1. row \in Row /\ OwnRow(row, txs)
  <2>1. None # "verified"  BY VerdictAssumption DEF Verdicts
  <2>2. QED  BY <2>1 DEF Row, OwnRow
<1>2. rows \in Seq(Row)  BY DEF Typed, TypeOK
<1> HIDE DEF row
<1>3. /\ longer \in Seq(Row) /\ longer # <<>>
      /\ \A i \in DOMAIN longer : OwnRow(longer[i], txs)
  BY <1>1, <1>2, Appended, EmptySeq DEF RowsAreOwn
<1>4. rows' \in {longer, Tail(longer)} /\ UNCHANGED txs
  BY DEF Scan, chainVars, row
<1> HIDE DEF longer
<1>5. \A i \in DOMAIN Tail(longer) :
          i + 1 \in DOMAIN longer /\ Tail(longer)[i] = longer[i + 1]
  BY <1>3, HeadTailProperties, LenProperties
<1>6. QED  BY <1>3, <1>4, <1>5 DEF RowsAreOwn

LEMMA RowsOwnNext ==
    ASSUME Typed, Verifying, AnswersAreOwn, VerifiersAreOwn, RowsAreOwn, Grown,
           [Next]_vars
    PROVE  RowsAreOwn'
<1>1. \A i \in DOMAIN rows : OwnRow(rows[i], txs')
  BY Indices, OwnStays DEF RowsAreOwn, Typed, TypeOK
<1>2. CASE rows' \in {rows, <<>>}  BY <1>1, <1>2 DEF RowsAreOwn
<1>3. CASE Clients
  <2>1. UNCHANGED rows \/ \E h \in Hashes : Scan(h)
    BY <1>3 DEF Clients, CommitRefuse, CommitCall, Outcome, VerifyCall, vars
  <2>2. QED  BY <1>2, <2>1, ScanOwn
<1>4. ASSUME NEW t \in Committers, Proceed(t)
      PROVE  UNCHANGED rows \/ AttachCommit(t)
  BY <1>4 DEF Proceed, Hit, Miss, ReadNonce, SendFails, SendAccepted, Store
<1>5. ASSUME NEW v \in Verifiers, ProceedVerify(v)
      PROVE  UNCHANGED rows \/ AttachVerification(v)
  BY <1>5 DEF ProceedVerify, ReadTransaction, ReadReceipt, ReadFails
<1>6. Chain \/ CrashRestart \/ UNCHANGED vars => rows' \in {rows, <<>>}
  BY DEF Chain, ForeignSend, Mine, CrashRestart, vars
<1>7. QED
  BY <1>2, <1>3, <1>4, <1>5, <1>6, AttachCommitOwn, AttachVerificationOwn
  DEF Next

Own == RecordsAreOwn /\ AnswersAreOwn /\ VerifiersAreOwn /\ RowsAreOwn

LEMMA InitOwn == ASSUME Init PROVE Own
<1>1. DOMAIN records = {} /\ DOMAIN rows = {}  BY DEF Init
<1>2. AnswersAreOwn  BY DEF Init, AnswersAreOwn, NoCommit
<1>3. VerifiersAreOwn
  BY DEF Init, VerifiersAreOwn, OwnVerification, NoVerification
<1>4. QED  BY <1>1, <1>2, <1>3 DEF Own, RecordsAreOwn, RowsAreOwn

\* A scan that the history shows as verified has its own hash on chain or that
\* of an assessment with the same id, for any ids, any number of calls, whatever
\* the node does and whenever the process restarts, if a verify call names the
\* assessment that its transaction carries.
THEOREM VerifiedRowsStay == OwnOnly => (Spec => []VerifiedIdsAreOnChain)
<1> SUFFICES ASSUME OwnOnly PROVE Spec => []VerifiedIdsAreOnChain
  OBVIOUS
<1>1. Init => Verifying /\ Own
  BY InitOwn DEF Init, NoVerification, Verifying, VerifiedIsMined
<1>2. Sound /\ Verifying /\ Own /\ [Next]_vars => Verifying' /\ Own'
  BY NextVerifying, NextGrows, RecordsOwnNext, AnswersOwnNext,
     VerifiersOwnNext, RowsOwnNext
  DEF Sound, Own
<1>3. Sound /\ Own => VerifiedIdsAreOnChain
  <2> SUFFICES ASSUME Sound, Own, NEW i \in DOMAIN rows,
                      rows[i].verified = "verified"
               PROVE  \E h \in Hashes : /\ IdOf[h] = IdOf[rows[i].hash]
                                        /\ OnChain(h)
    BY DEF VerifiedIdsAreOnChain
  <2>1. PICK x \in Txs : /\ Carries(txs[x], IdOf[rows[i].hash])
                         /\ txs[x].logger
                         /\ txs[x].state = "mined"
    BY DEF Own, RowsAreOwn, OwnRow, Logged
  <2>2. txs[x] \in Transaction
    BY <2>1 DEF Sound, Typed, TypeOK, Carries
  <2>3. txs[x].hash \in Hashes /\ OnChain(txs[x].hash)
    BY <2>1, <2>2 DEF Transaction, OnChain, Carries
  <2>4. QED  BY <2>1, <2>3 DEF Carries
<1>4. QED  BY <1>1, <1>2, <1>3, AlwaysSound, PTL DEF Spec
=============================================================================
