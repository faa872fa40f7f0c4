----------------------------- MODULE CommitLedger -----------------------------
(***************************************************************************)
(* How MantleLens commits an assessment and verifies the commit: the       *)
(* in-memory ledger with its idempotency keys and its lock (ledger.py),    *)
(* the recorder that signs and sends a transaction while that lock is held *)
(* (onchain.py), the read-only verifier, and the scan history whose rows   *)
(* both of them patch (history_store.py).                                  *)
(*                                                                         *)
(* The node behind the RPC endpoint is external: it may refuse or lose any *)
(* call, mines in its own time, and keeps one pending transaction for each *)
(* nonce of the server's account.  Mined transactions stay mined.          *)
(***************************************************************************)
EXTENDS Naturals, Sequences

CONSTANTS
    Hashes,      \* assessment hashes
    Ids,         \* assessment ids
    IdOf,        \* the id of the assessment with a hash: that of its fixture,
                 \* or of its wallet if it is live, whatever the scan
    Complete,    \* hashes of the assessments that have every field the
                 \* ledger reads, besides those that the recorder encodes
    Live,        \* hashes of the assessments whose dataMode is live
    Keys,        \* idempotency keys
    Txs,         \* transaction hashes
    Committers,  \* commit calls that may be under way at once
    Verifiers,   \* verify calls that may be under way at once
    OwnOnly,     \* TRUE: a verify call names the assessment that its
                 \* transaction carries, as the app's page does
    RowCap,      \* max_records_per_wallet (100 in the code)
    None

ASSUME IdsAssumption == IdOf \in [Hashes -> Ids]

ASSUME SubsetsAssumption == Complete \subseteq Hashes /\ Live \subseteq Hashes

ASSUME BoundsAssumption == OwnOnly \in BOOLEAN /\ RowCap \in Nat \ {0}

ASSUME NoneAssumption == None \notin Hashes \cup Ids \cup Keys \cup Txs
                                  \cup Committers

VARIABLES
    configured,    \* whether contract, key and RPC endpoint are configured
    records,       \* the ledger's records, in the order of insertion
    lock,          \* the commit call that holds the ledger's lock
    committer,     \* the commit calls
    verifier,      \* the verify calls
    txs,           \* the transactions that the node has accepted
    accountNonce,  \* the next nonce of the server's account on chain
    rows,          \* the scan history of one wallet, oldest row first
    sent           \* history: the transaction that a key has sent, since the
                   \* process started

ledgerVars == <<configured, records, lock>>
chainVars == <<txs, accountNonce>>
vars == <<ledgerVars, committer, verifier, chainVars, rows, sent>>

Modes == {"local_only", "onchain"}

Statuses == {"recorded", "recorded_local", "pending_retry",
             "pending_unavailable"}

Verdicts == {"unknown", "pending", "failed", "mismatch", "verified"}

\* A commit's record; an outcome without a commit has no hash and no key.
Record == [id : Ids, hash : Hashes \cup {None}, key : Keys \cup {None},
           status : Statuses, tx : Txs \cup {None}, outcome : BOOLEAN]

Transaction == [server : BOOLEAN, nonce : Nat, hash : Hashes, logger : BOOLEAN,
                state : {"pending", "dropped", "mined", "reverted"}]

ASSUME TransactionAssumption == None \notin Transaction

ASSUME VerdictAssumption == None \notin Verdicts

Row == [hash : Hashes, tx : Txs \cup {None}, commit : Statuses \cup {None},
        verified : Verdicts \cup {None}]

Commit == [pc : {"idle", "lock", "nonce", "send", "store", "attach"},
           hash : Hashes \cup {None}, key : Keys \cup {None},
           mode : Modes, nonce : Nat, status : Statuses \cup {None},
           tx : Txs \cup {None}, record : Record \cup {None}]

\* expected: the hash to compare with.  id, local: what the answer calls the
\* local assessment.  seen: the hash that was read from the chain.
Verification == [pc : {"idle", "tx", "receipt", "attach"},
                 tx : Txs \cup {None}, expected : Hashes \cup {None},
                 id : Ids \cup {None}, local : Hashes \cup {None},
                 verdict : Verdicts \cup {None}, seen : Hashes \cup {None}]

NoCommit == [pc |-> "idle", hash |-> None, key |-> None, mode |-> "local_only",
             nonce |-> 0, status |-> None, tx |-> None, record |-> None]

NoVerification == [pc |-> "idle", tx |-> None, expected |-> None, id |-> None,
                   local |-> None, verdict |-> None, seen |-> None]

TypeOK ==
    /\ configured \in BOOLEAN
    /\ records \in Seq(Record)
    /\ lock \in Committers \cup {None}
    /\ committer \in [Committers -> Commit]
    /\ verifier \in [Verifiers -> Verification]
    /\ txs \in [Txs -> Transaction \cup {None}]
    /\ accountNonce \in Nat
    /\ rows \in Seq(Row)
    /\ sent \in [Keys -> Txs \cup {None}]

-----------------------------------------------------------------------------
(* The ledger and the history.                                             *)

First(S) == CHOOSE i \in S : \A j \in S : i <= j

RecordsOf(key) == {i \in DOMAIN records : records[i].key = key}

RecordsWithId(id) == {i \in DOMAIN records : records[i].id = id}

\* _find_assessment_record
Found(id, tx) ==
    {i \in DOMAIN records : records[i].id = id \/ records[i].tx = tx}

\* _matches_assessment_or_commit, for a source with this hash, id and tx.
Matches(row, hash, id, tx) ==
    \/ hash # None /\ row.hash = hash
    \/ id # None /\ IdOf[row.hash] = id
    \/ tx # None /\ row.tx = tx

Step(t, changes) == committer' = [committer EXCEPT ![t] = changes]

VStep(v, changes) == verifier' = [verifier EXCEPT ![v] = changes]

-----------------------------------------------------------------------------
Init ==
    /\ configured \in BOOLEAN
    /\ records = <<>>
    /\ lock = None
    /\ committer = [t \in Committers |-> NoCommit]
    /\ verifier = [v \in Verifiers |-> NoVerification]
    /\ txs = [x \in Txs |-> None]
    /\ accountNonce = 0
    /\ rows = <<>>
    /\ sent = [k \in Keys |-> None]

\* A scan adds a row, and drops the oldest row beyond the cap.
Scan(h) ==
    LET longer == Append(rows, [hash |-> h, tx |-> None, commit |-> None,
                                verified |-> None])
    IN  /\ rows' = IF Len(longer) > RowCap THEN Tail(longer) ELSE longer
        /\ UNCHANGED <<ledgerVars, committer, verifier, chainVars, sent>>

(* POST /api/assessment/commit                                             *)
CommitRefuse(h, mode, confirmed) ==
    /\ ~confirmed \/ (mode = "onchain" /\ h \notin Live)
    /\ UNCHANGED vars

CommitCall(t, h, key, mode) ==
    /\ committer[t].pc = "idle"
    /\ mode = "onchain" => h \in Live
    /\ Step(t, [NoCommit EXCEPT !.pc = "lock", !.hash = h, !.key = key,
                                !.mode = mode])
    /\ UNCHANGED <<ledgerVars, verifier, chainVars, rows, sent>>

\* Broken: answers with the record's id.
HitAnswersId(t) ==
    /\ committer[t].pc = "lock"
    /\ lock = None
    /\ RecordsOf(committer[t].key) # {}
    /\ Step(t, [committer[t] EXCEPT !.pc = "attach",
                   !.record = records[First(RecordsOf(committer[t].key))].id])
    /\ UNCHANGED <<ledgerVars, verifier, chainVars, rows, sent>>

\* The key has a record: answer with a copy of it.
Hit(t) ==
    /\ committer[t].pc = "lock"
    /\ lock = None
    /\ RecordsOf(committer[t].key) # {}
    /\ Step(t, [committer[t] EXCEPT !.pc = "attach",
                   !.record = records[First(RecordsOf(committer[t].key))]])
    /\ UNCHANGED <<ledgerVars, verifier, chainVars, rows, sent>>

\* Broken: looks the key up before it takes the lock.
MissUnlocked(t) ==
    /\ committer[t].pc = "lock"
    /\ RecordsOf(committer[t].key) = {}
    /\ lock' = t
    /\ Step(t, [committer[t] EXCEPT !.pc = "nonce"])
    /\ UNCHANGED <<configured, records, verifier, chainVars, rows, sent>>

\* The key is new: keep the lock and record, here or on chain.
Miss(t) ==
    /\ committer[t].pc = "lock"
    /\ lock = None
    /\ RecordsOf(committer[t].key) = {}
    /\ lock' = t
    /\ Step(t, IF committer[t].mode = "local_only"
               THEN [committer[t] EXCEPT !.pc = "store",
                                         !.status = "recorded_local"]
               ELSE IF ~configured
               THEN [committer[t] EXCEPT !.pc = "store",
                                         !.status = "pending_unavailable"]
               ELSE [committer[t] EXCEPT !.pc = "nonce"])
    /\ UNCHANGED <<configured, records, verifier, chainVars, rows, sent>>

\* eth_getTransactionCount(..., "latest"): pending ones do not count.
ReadNonce(t) ==
    /\ committer[t].pc = "nonce"
    /\ Step(t, [committer[t] EXCEPT !.pc = "send", !.nonce = accountNonce])
    /\ UNCHANGED <<ledgerVars, verifier, chainVars, rows, sent>>

\* The node accepts the transaction.  At a higher gas price it takes the place
\* of the pending one with its nonce; the answer may be lost on the way back.
SendAccepted(t, x, heard) ==
    /\ committer[t].pc = "send"
    /\ txs[x] = None
    /\ committer[t].nonce = accountNonce
    /\ txs' = [y \in Txs |->
                  IF y = x
                  THEN [server |-> TRUE, nonce |-> committer[t].nonce,
                        hash |-> committer[t].hash, logger |-> TRUE,
                        state |-> "pending"]
                  ELSE IF /\ txs[y] # None
                          /\ txs[y].server
                          /\ txs[y].state = "pending"
                          /\ txs[y].nonce = committer[t].nonce
                  THEN [txs[y] EXCEPT !.state = "dropped"]
                  ELSE txs[y]]
    /\ sent' = [sent EXCEPT ![committer[t].key] = x]
    /\ Step(t, [committer[t] EXCEPT !.pc = "store",
                   !.status = IF heard THEN "recorded" ELSE "pending_retry",
                   !.tx = IF heard THEN x ELSE None])
    /\ UNCHANGED <<ledgerVars, verifier, accountNonce, rows>>

\* Broken: takes the pending transaction with this nonce for its own.
TakesPending(t) ==
    \E x \in Txs :
        /\ committer[t].pc = "send"
        /\ txs[x] # None
        /\ txs[x].server /\ txs[x].state = "pending"
        /\ Step(t, [committer[t] EXCEPT !.pc = "store", !.status = "recorded",
                                        !.tx = x])
        /\ UNCHANGED <<ledgerVars, verifier, chainVars, rows, sent>>

\* An RPC call times out or answers with an error: nonce too low, replacement
\* underpriced, no such endpoint.
SendFails(t) ==
    /\ committer[t].pc \in {"nonce", "send"}
    /\ Step(t, [committer[t] EXCEPT !.pc = "store",
                                    !.status = "pending_retry"])
    /\ UNCHANGED <<ledgerVars, verifier, chainVars, rows, sent>>

\* Broken: leaves by the exception without the lock's release.
StoreKeepsLock(t) ==
    LET c == committer[t]
        record == [id |-> IdOf[c.hash], hash |-> c.hash, key |-> c.key,
                   status |-> c.status, tx |-> c.tx, outcome |-> FALSE]
    IN  /\ c.pc = "store"
        /\ IF c.hash \in Complete
           THEN /\ records' = Append(records, record)
                /\ Step(t, [c EXCEPT !.pc = "attach", !.record = record])
                /\ lock' = None
           ELSE /\ Step(t, NoCommit)
                /\ UNCHANGED <<records, lock>>
        /\ UNCHANGED <<configured, verifier, chainVars, rows, sent>>

\* The record is built after the send: a field that the assessment lacks
\* raises KeyError, and leaving the lock is all that happens.
Store(t) ==
    LET c == committer[t]
        record == [id |-> IdOf[c.hash], hash |-> c.hash, key |-> c.key,
                   status |-> c.status, tx |-> c.tx, outcome |-> FALSE]
    IN  /\ c.pc = "store"
        /\ lock' = None
        /\ IF c.hash \in Complete
           THEN /\ records' = Append(records, record)
                /\ Step(t, [c EXCEPT !.pc = "attach", !.record = record])
           ELSE /\ Step(t, NoCommit)
                /\ UNCHANGED records
        /\ UNCHANGED <<configured, verifier, chainVars, rows, sent>>

\* history_store.attach_commit
AttachCommit(t) ==
    LET record == committer[t].record
    IN  /\ committer[t].pc = "attach"
        /\ rows' = [i \in DOMAIN rows |->
                       IF Matches(rows[i], record.hash, record.id, record.tx)
                       THEN [rows[i] EXCEPT !.tx = record.tx,
                                            !.commit = record.status]
                       ELSE rows[i]]
        /\ Step(t, NoCommit)
        /\ UNCHANGED <<ledgerVars, verifier, chainVars, sent>>

(* POST /api/assessment/outcome: the first record with the id, or a stub.  *)
Outcome(id) ==
    LET stub == [id |-> id, hash |-> None, key |-> None,
                 status |-> "pending_unavailable", tx |-> None,
                 outcome |-> TRUE]
    IN  /\ lock = None
        /\ records' = IF RecordsWithId(id) = {} THEN Append(records, stub)
                      ELSE [records EXCEPT ![First(RecordsWithId(id))].outcome
                                               = TRUE]
        /\ UNCHANGED <<configured, lock, committer, verifier, chainVars, rows,
                       sent>>

-----------------------------------------------------------------------------
(* GET /api/assessment/commit/verify                                       *)

Names(x, id, h) ==
    OwnOnly => /\ txs[x] # None
               /\ h = txs[x].hash
               /\ id = IdOf[h]

VerifyCall(v, x, id, h) ==
    LET found == Found(id, x)
        local == records[First(found)]
        expected == IF h # None \/ found = {} THEN h ELSE local.hash
    IN  /\ verifier[v].pc = "idle"
        /\ lock = None
        /\ Names(x, id, h)
        /\ VStep(v, [NoVerification EXCEPT
                        !.pc = "tx", !.tx = x, !.expected = expected,
                        !.id = IF found = {} THEN id ELSE local.id,
                        !.local = IF found = {} THEN expected ELSE local.hash])
        /\ UNCHANGED <<ledgerVars, committer, chainVars, rows, sent>>

Conclude(v, verdict, seen) ==
    VStep(v, [verifier[v] EXCEPT !.pc = "attach", !.verdict = verdict,
                                 !.seen = seen])

\* eth_getTransactionByHash
ReadTransaction(v) ==
    LET tx == txs[verifier[v].tx]
    IN  /\ verifier[v].pc = "tx"
        /\ IF tx = None \/ (tx # None /\ tx.state = "dropped")
           THEN Conclude(v, "unknown", None)
           ELSE IF ~tx.logger
           THEN Conclude(v, "mismatch", None)
           ELSE VStep(v, [verifier[v] EXCEPT !.pc = "receipt"])
        /\ UNCHANGED <<ledgerVars, committer, chainVars, rows, sent>>

\* Broken: reports the hash and leaves the comparison to the caller.
ReceiptUncompared(v) ==
    LET tx == txs[verifier[v].tx]
    IN  /\ verifier[v].pc = "receipt"
        /\ CASE tx.state \in {"pending", "dropped"} -> Conclude(v, "pending", None)
             [] tx.state = "reverted" -> Conclude(v, "failed", None)
             [] OTHER -> Conclude(v, "verified", tx.hash)
        /\ UNCHANGED <<ledgerVars, committer, chainVars, rows, sent>>

\* eth_getTransactionReceipt, and the event in it.
ReadReceipt(v) ==
    LET tx == txs[verifier[v].tx]
    IN  /\ verifier[v].pc = "receipt"
        /\ CASE tx.state \in {"pending", "dropped"} -> Conclude(v, "pending", None)
             [] tx.state = "reverted" -> Conclude(v, "failed", None)
             [] OTHER ->
                  IF verifier[v].expected \notin {None, tx.hash}
                  THEN Conclude(v, "mismatch", tx.hash)
                  ELSE Conclude(v, "verified", tx.hash)
        /\ UNCHANGED <<ledgerVars, committer, chainVars, rows, sent>>

ReadFails(v) ==
    /\ verifier[v].pc \in {"tx", "receipt"}
    /\ Conclude(v, "unknown", None)
    /\ UNCHANGED <<ledgerVars, committer, chainVars, rows, sent>>

\* Broken: patches the newest row.
AttachToNewest(v) ==
    LET c == verifier[v]
    IN  /\ c.pc = "attach"
        /\ rows' = [i \in DOMAIN rows |->
                       IF i = Len(rows)
                       THEN [rows[i] EXCEPT !.tx = c.tx, !.verified = c.verdict]
                       ELSE rows[i]]
        /\ VStep(v, NoVerification)
        /\ UNCHANGED <<ledgerVars, committer, chainVars, sent>>

\* history_store.attach_commit_verification, whatever the verdict.
AttachVerification(v) ==
    LET c == verifier[v]
        hash == IF c.seen # None THEN c.seen ELSE c.local
    IN  /\ c.pc = "attach"
        /\ rows' = [i \in DOMAIN rows |->
                       IF Matches(rows[i], hash, c.id, c.tx)
                       THEN [rows[i] EXCEPT !.tx = c.tx, !.verified = c.verdict]
                       ELSE rows[i]]
        /\ VStep(v, NoVerification)
        /\ UNCHANGED <<ledgerVars, committer, chainVars, sent>>

-----------------------------------------------------------------------------
(* The chain, and the other accounts on it: a user's wallet that sends the *)
(* calldata of /api/assessment/commit/calldata, or anyone else.            *)
ForeignSend(x, h, logger) ==
    /\ txs[x] = None
    /\ txs' = [txs EXCEPT ![x] = [server |-> FALSE, nonce |-> 0, hash |-> h,
                                  logger |-> logger, state |-> "pending"]]
    /\ UNCHANGED <<ledgerVars, committer, verifier, accountNonce, rows, sent>>

Mine(x, state) ==
    /\ txs[x] # None
    /\ txs[x].state = "pending"
    /\ txs[x].server => txs[x].nonce = accountNonce
    /\ txs' = [txs EXCEPT ![x].state = state]
    /\ accountNonce' = IF txs[x].server THEN accountNonce + 1 ELSE accountNonce
    /\ UNCHANGED <<ledgerVars, committer, verifier, rows, sent>>

\* The process ends and starts again.  The ledger is gone; the history is kept
\* if it is in SQLite.
CrashRestart ==
    /\ configured' \in BOOLEAN
    /\ records' = <<>>
    /\ lock' = None
    /\ committer' = [t \in Committers |-> NoCommit]
    /\ verifier' = [v \in Verifiers |-> NoVerification]
    /\ rows' \in {rows, <<>>}
    /\ sent' = [k \in Keys |-> None]
    /\ UNCHANGED chainVars

Clients ==
    \/ \E h \in Hashes : Scan(h)
    \/ \E h \in Hashes, mode \in Modes, confirmed \in BOOLEAN :
           CommitRefuse(h, mode, confirmed)
    \/ \E t \in Committers, h \in Hashes, key \in Keys, mode \in Modes :
           CommitCall(t, h, key, mode)
    \/ \E id \in Ids : Outcome(id)
    \/ \E v \in Verifiers, x \in Txs, id \in Ids \cup {None},
          h \in Hashes \cup {None} : VerifyCall(v, x, id, h)

\* What a commit call does until it is answered.
Proceed(t) ==
    \/ Hit(t) \/ Miss(t) \/ ReadNonce(t) \/ SendFails(t)
    \/ \E x \in Txs, heard \in BOOLEAN : SendAccepted(t, x, heard)
    \/ Store(t) \/ AttachCommit(t)

ProceedVerify(v) ==
    ReadTransaction(v) \/ ReadReceipt(v) \/ ReadFails(v) \/ AttachVerification(v)

Chain ==
    \E x \in Txs :
        \/ \E h \in Hashes, logger \in BOOLEAN : ForeignSend(x, h, logger)
        \/ \E state \in {"mined", "reverted"} : Mine(x, state)

Next == \/ Clients
        \/ \E t \in Committers : Proceed(t)
        \/ \E v \in Verifiers : ProceedVerify(v)
        \/ Chain
        \/ CrashRestart

Spec == Init /\ [][Next]_vars

\* The threads run, and every RPC call ends: JsonRpcClient has a timeout.
LiveSpec == Spec /\ \A t \in Committers : WF_vars(Proceed(t))

-----------------------------------------------------------------------------
(* Properties.                                                             *)

\* No answer yet, and no other attempt.
Trying == [hash |-> None, status |-> "trying", tx |-> None]

\* What the clients of a key have been told, or are about to be.
Answer(record) == [hash |-> record.hash, status |-> record.status,
                   tx |-> record.tx]

Answered(k) ==
    IF RecordsOf(k) # {}
    THEN Answer(records[First(RecordsOf(k))])
    ELSE IF \E t \in Committers : lock = t /\ committer[t].key = k
    THEN Trying
    ELSE None

Book == INSTANCE CommitBook WITH
            answer <- [k \in Keys |-> Answered(k)],
            Answers <- [hash : Hashes, status : Statuses, tx : Txs \cup {None}],
            Trying <- Trying

\* A key is tried once, sends at most one transaction, and has one answer from
\* then on, however many calls race for the lock
\* ("test_commit_is_idempotent", tests/test_day7_day8_simulation_ledger.py).
Idempotent == Book!Spec

\* Whatever a call is about to attach and to answer is its key's one answer:
\* of two calls with a key, none is told what the other is not.
AnswersAgree ==
    \A t \in Committers :
        committer[t].pc = "attach" =>
            Answer(committer[t].record) = Answered(committer[t].key)

\* A record that says "recorded" has a transaction of its own, which the node
\* accepted from the server's account and which carries the record's hash; no
\* other record has a transaction.
RecordedIsBacked ==
    \A i \in DOMAIN records :
        IF records[i].status = "recorded"
        THEN /\ records[i].tx # None
             /\ LET tx == txs[records[i].tx]
                IN  /\ tx # None
                    /\ tx.server /\ tx.logger /\ tx.hash = records[i].hash
             /\ \A j \in DOMAIN records :
                    records[j].tx = records[i].tx => i = j
        ELSE records[i].tx = None

OnChain(h) == \E x \in Txs : /\ txs[x] # None
                             /\ txs[x].logger
                             /\ txs[x].hash = h
                             /\ txs[x].state = "mined"

\* A scan that the history shows as verified has its own hash on chain: "verify
\* that the on-chain assessment hash matches the local assessment hash"
\* (README).  Scans that share their id break it.
VerifiedRowsAreOnChain ==
    \A i \in DOMAIN rows : rows[i].verified = "verified" => OnChain(rows[i].hash)

\* What the ids leave of it: a scan that the history shows as verified has on
\* chain its own hash or that of a scan with its id, whichever records, commits
\* of other assessments and restarts lie in between.  A row is never verified
\* by what was put on chain for another fixture or another wallet.
VerifiedIdsAreOnChain ==
    \A i \in DOMAIN rows :
        rows[i].verified = "verified" =>
            \E h \in Hashes : IdOf[h] = IdOf[rows[i].hash] /\ OnChain(h)

\* A verify call answers "verified" only for a mined call of the logger, and
\* with the hash that the call carries, which is the expected one if any.
VerifiedIsMined ==
    \A v \in Verifiers :
        verifier[v].pc = "attach" /\ verifier[v].verdict = "verified" =>
            LET tx == txs[verifier[v].tx]
            IN  /\ tx # None
                /\ tx.state = "mined" /\ tx.logger
                /\ tx.hash = verifier[v].seen
                /\ verifier[v].expected \in {None, verifier[v].seen}

\* Every commit call is answered: no failure on the way keeps the lock.
EveryCallReturns ==
    \A t \in Committers : committer[t].pc # "idle" ~> committer[t].pc = "idle"
=============================================================================
