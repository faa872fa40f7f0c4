--------------------------- MODULE PreflightServer ---------------------------
(***************************************************************************)
(* The InjectiveLens API process (injectivelens/server.py, proof.py): a    *)
(* ThreadingHTTPServer whose handler threads share, without a lock,        *)
(*   - the global LATEST_ASSESSMENT, a reference to an assessment object,  *)
(*   - PROOF_STORE, the in-memory proof records keyed by hash,             *)
(*   - the state file, read and rewritten whole by every save.             *)
(* A handler is a sequence of steps, one for each access to that shared    *)
(* state; a crash may come between any two.  Reading the state file is one *)
(* step here and writing it another, and neither fails; module             *)
(* JsonStateStore opens them up, with their errors.                        *)
(***************************************************************************)
EXTENDS AssessmentState

CONSTANTS
    Threads,      \* handler threads that may be active at once
    Refs,         \* identities of assessment objects in the heap
    Environments  \* process environments: recorder mode and configured tx

ASSUME RefsAssumption == None \notin Refs

ASSUME EnvironmentsAssumption ==
    Environments \subseteq [recorder : BOOLEAN, tx : Txs \cup {None}]

VARIABLES
    env,        \* the environment of the running process
    latest,     \* LATEST_ASSESSMENT
    heap,       \* the assessment objects that something still refers to
    store,      \* PROOF_STORE.records
    disk,       \* the state file
    handler,    \* the local state of each handler thread
    confirmed,  \* history: hashes that a confirmed call recorded with a tx
    answered,   \* history: hashes that were answered verified_matched
    acked,      \* history: hashes whose last answered record call said
                \* "recorded"
    unsaved,    \* history: hashes whose record call was answered although
                \* the file did not get the record
    misfiled    \* history: hashes of assessments that were given the proof
                \* of another hash

serverVars == <<env, latest, heap, store, disk>>
historyVars == <<confirmed, answered, acked, unsaved, misfiled>>
vars == <<serverVars, handler, historyVars>>

Labels == {"idle", "record_put", "record_test", "record_attach",
           "verify_put", "verify_attach", "latest_load", "latest_write",
           "history_load", "history_write", "proof_load", "proof_write"}

\* A handler: its next step, the endpoint it serves, the assessmentHash and
\* txHash it works for, the object it is saving, its proof or verification,
\* and the state it has loaded.
Handler == [pc   : Labels,
            op   : {"none", "preflight", "record", "verify"},
            hash : Hashes \cup {None},
            tx   : Txs \cup {None},
            ref  : Refs \cup {None},
            ans  : Proof \cup {None},
            snap : State]

Idle == [pc |-> "idle", op |-> "none", hash |-> None, tx |-> None,
         ref |-> None, ans |-> None, snap |-> EmptyState]

TypeOK ==
    /\ env \in Environments
    /\ latest \in Refs \cup {None}
    /\ heap \in [Refs -> Assessment \cup {None}]
    /\ store \in [Hashes -> Proof \cup {None}]
    /\ disk \in State
    /\ handler \in [Threads -> Handler]
    /\ confirmed \subseteq Hashes
    /\ answered \subseteq Hashes
    /\ acked \subseteq Hashes
    /\ unsaved \subseteq Hashes
    /\ misfiled \subseteq Hashes

-----------------------------------------------------------------------------
(* Helpers.                                                                *)

\* Objects that nothing refers to any more are gone.
Collect(objects, root, handlers) ==
    [r \in Refs |-> IF r = root \/ \E t \in Threads : handlers[t].ref = r
                    THEN objects[r] ELSE None]

LatestHash == heap[latest].hash

\* Broken: a new assessment takes over the proof of the one before.
InheritedProof ==
    IF latest # None THEN heap[latest].proof
    ELSE [status   |-> IF env.recorder THEN "ready_to_record" ELSE "unavailable",
          tx       |-> None,
          recorded |-> None]

\* initial_proof_record
InitialProof ==
    [status   |-> IF env.recorder THEN "ready_to_record" ELSE "unavailable",
     tx       |-> None,
     recorded |-> None]

\* Broken: the two hashes change places.
SwappedProof(h) ==
    [status   |-> IF env.tx = None THEN "pending" ELSE "recorded",
     tx       |-> h,
     recorded |-> env.tx]

\* The proof that record_assessment_proof builds when it accepts.
RecordedProof(h) ==
    [status   |-> IF env.tx = None THEN "pending" ELSE "recorded",
     tx       |-> env.tx,
     recorded |-> h]

\* Broken: nobody asks for the confirmation.
AcceptsUnsure(h, sure) ==
    /\ latest # None => h = LatestHash
    /\ env.recorder

\* The early returns of record_assessment_proof: 400, 409, 503.
Accepts(h, sure) ==
    /\ sure
    /\ latest # None => h = LatestHash
    /\ env.recorder

\* What verify_assessment_proof looks at: the record kept for h, or else the
\* proof of the latest assessment if it records h.
RecordFor(h) ==
    IF store[h] # None THEN store[h]
    ELSE IF /\ latest # None
            /\ heap[latest].proof.status \in {"recorded", "verified_matched"}
            /\ heap[latest].proof.recorded = h
         THEN heap[latest].proof
         ELSE None

\* Broken: a pending record, which has no tx, is good enough.
MatchesPending(h) ==
    /\ RecordFor(h) # None
    /\ RecordFor(h).recorded = h

\* Neither not_found, nor pending, nor verified_mismatch.
Matches(h) ==
    /\ RecordFor(h) # None
    /\ RecordFor(h).tx # None
    /\ RecordFor(h).recorded = h

Step(t, changes) == handler' = [handler EXCEPT ![t] = changes]

-----------------------------------------------------------------------------
Init ==
    /\ env \in Environments
    /\ latest = None
    /\ heap = [r \in Refs |-> None]
    /\ store = EmptyState.proofs
    /\ disk = EmptyState
    /\ handler = [t \in Threads |-> Idle]
    /\ confirmed = {}
    /\ answered = {}
    /\ acked = {}
    /\ unsaved = {}
    /\ misfiled = {}

(* POST /api/injective/preflight: the assessment is a new object, even when *)
(* the same request has run before.                                         *)
Preflight(t, h) ==
    /\ handler[t].pc = "idle"
    /\ \E r \in Refs :
          /\ heap[r] = None
          /\ latest' = r
          /\ Step(t, [Idle EXCEPT !.pc = "latest_load", !.op = "preflight",
                                  !.ref = r])
          /\ heap' = Collect([heap EXCEPT ![r] = [hash |-> h,
                                                  proof |-> InitialProof]],
                             r, handler')
    /\ UNCHANGED <<env, store, disk, historyVars>>

(* POST /api/proof/record.                                                 *)
RecordRefuse(t, h, sure) ==
    /\ handler[t].pc = "idle"
    /\ ~Accepts(h, sure)
    /\ UNCHANGED vars

RecordAccept(t, h, sure) ==
    /\ handler[t].pc = "idle"
    /\ Accepts(h, sure)
    /\ Step(t, [Idle EXCEPT !.pc = "record_put", !.op = "record", !.hash = h,
                            !.ans = RecordedProof(h)])
    /\ confirmed' = IF sure /\ env.tx # None THEN confirmed \cup {h}
                                             ELSE confirmed
    /\ UNCHANGED <<serverVars, answered, acked, unsaved, misfiled>>

RecordPut(t) ==
    /\ handler[t].pc = "record_put"
    /\ store' = [store EXCEPT ![handler[t].hash] = handler[t].ans]
    /\ Step(t, [handler[t] EXCEPT !.pc = "record_test"])
    /\ UNCHANGED <<env, latest, heap, disk, historyVars>>

\* The acknowledgement that the client gets when its record call returns.
Acknowledge(h, proof) ==
    acked' = IF proof.status = "recorded" THEN acked \cup {h}
                                          ELSE acked \ {h}

\* server.py tests LATEST_ASSESSMENT and assigns its proof in two accesses
\* to the global.
RecordTest(t) ==
    /\ handler[t].pc = "record_test"
    /\ IF latest # None /\ handler[t].ans.recorded = LatestHash
       THEN /\ Step(t, [handler[t] EXCEPT !.pc = "record_attach"])
            /\ UNCHANGED <<acked, unsaved>>
       ELSE /\ Step(t, Idle)
            /\ Acknowledge(handler[t].hash, handler[t].ans)
            /\ unsaved' = unsaved \cup {handler[t].hash}
    /\ UNCHANGED <<serverVars, confirmed, answered, misfiled>>

RecordAttach(t) ==
    /\ handler[t].pc = "record_attach"
    /\ heap' = [heap EXCEPT ![latest].proof = handler[t].ans]
    /\ Step(t, [handler[t] EXCEPT !.pc = "latest_load"])
    /\ UNCHANGED <<env, latest, store, disk, historyVars>>

(* POST /api/proof/verify.                                                 *)
VerifyRefuse(t, h) ==
    /\ handler[t].pc = "idle"
    /\ ~Matches(h)
    /\ UNCHANGED vars

VerifyMatch(t, h, tx) ==
    /\ handler[t].pc = "idle"
    /\ Matches(h)
    /\ Step(t, [Idle EXCEPT !.pc = "verify_put", !.op = "verify", !.hash = h,
                            !.tx = tx, !.ans = RecordFor(h)])
    /\ UNCHANGED <<serverVars, historyVars>>

\* PROOF_STORE keeps the tx of the record; the answer names the caller's tx
\* if it sent one.  Without a latest assessment the answer goes out at once.
VerifyPut(t) ==
    LET record   == [handler[t].ans EXCEPT !.status = "verified_matched"]
        verified == IF handler[t].tx = None THEN record
                    ELSE [record EXCEPT !.tx = handler[t].tx]
    IN  /\ handler[t].pc = "verify_put"
        /\ store' = [store EXCEPT ![handler[t].hash] = record]
        /\ answered' = answered \cup {handler[t].hash}
        /\ IF latest = None
           THEN Step(t, Idle)
           ELSE Step(t, [handler[t] EXCEPT !.pc = "verify_attach",
                                           !.ans = verified])
        /\ UNCHANGED <<env, latest, heap, disk, confirmed, acked, unsaved,
                       misfiled>>

\* Whatever hash the verification was for, its record goes to the assessment
\* that is the latest by now.
VerifyAttach(t) ==
    /\ handler[t].pc = "verify_attach"
    /\ heap' = [heap EXCEPT ![latest].proof = handler[t].ans]
    /\ Step(t, [handler[t] EXCEPT !.pc = "latest_load"])
    /\ misfiled' = IF handler[t].ans.recorded = LatestHash THEN misfiled
                   ELSE misfiled \cup {LatestHash}
    /\ UNCHANGED <<env, latest, store, disk, confirmed, answered, acked,
                   unsaved>>

-----------------------------------------------------------------------------
(* The saves that end all three handlers.  Preflight saves the object that  *)
(* it built; the proof endpoints save whatever LATEST_ASSESSMENT is by then.*)

SavedRef(t) == IF handler[t].op = "preflight" THEN handler[t].ref ELSE latest

SaveLatestLoad(t) ==
    /\ handler[t].pc = "latest_load"
    /\ Step(t, [handler[t] EXCEPT !.pc = "latest_write", !.ref = SavedRef(t),
                                  !.snap = disk])
    /\ heap' = Collect(heap, latest, handler')
    /\ UNCHANGED <<env, latest, store, disk, historyVars>>

SaveLatestWrite(t) ==
    /\ handler[t].pc = "latest_write"
    /\ disk' = SetLatest(handler[t].snap, heap[handler[t].ref])
    /\ Step(t, [handler[t] EXCEPT !.pc = "history_load",
                                  !.snap = EmptyState])
    /\ UNCHANGED <<env, latest, heap, store, historyVars>>

SaveHistoryLoad(t) ==
    /\ handler[t].pc = "history_load"
    /\ Step(t, [handler[t] EXCEPT !.pc = "history_write", !.ref = SavedRef(t),
                                  !.snap = disk])
    /\ heap' = Collect(heap, latest, handler')
    /\ UNCHANGED <<env, latest, store, disk, historyVars>>

SaveHistoryWrite(t) ==
    /\ handler[t].pc = "history_write"
    /\ disk' = PushHistory(handler[t].snap, heap[handler[t].ref])
    /\ Step(t, IF handler[t].op = "preflight" THEN Idle
               ELSE [handler[t] EXCEPT !.pc = "proof_load", !.ref = None,
                                       !.snap = EmptyState])
    /\ heap' = Collect(heap, latest, handler')
    /\ UNCHANGED <<env, latest, store, historyVars>>

\* After a verification the record saved is the latest assessment's proof,
\* under the latest assessment's hash.
SaveProofLoad(t) ==
    /\ handler[t].pc = "proof_load"
    /\ Step(t, IF handler[t].op = "record"
               THEN [handler[t] EXCEPT !.pc = "proof_write", !.snap = disk]
               ELSE [handler[t] EXCEPT !.pc = "proof_write", !.snap = disk,
                                       !.hash = LatestHash,
                                       !.ans = heap[latest].proof])
    /\ UNCHANGED <<serverVars, historyVars>>

SaveProofWrite(t) ==
    /\ handler[t].pc = "proof_write"
    /\ disk' = SetProof(handler[t].snap, handler[t].hash, handler[t].ans)
    /\ Step(t, Idle)
    /\ IF handler[t].op = "record"
       THEN Acknowledge(handler[t].hash, handler[t].ans)
       ELSE UNCHANGED acked
    /\ IF handler[t].ans.recorded = handler[t].hash
       THEN /\ unsaved' = unsaved \ {handler[t].hash}
            /\ misfiled' = misfiled \ {handler[t].hash}
       ELSE UNCHANGED <<unsaved, misfiled>>
    /\ UNCHANGED <<env, latest, heap, store, confirmed, answered>>

-----------------------------------------------------------------------------
(* The process dies at any point and starts again: server.py loads the file *)
(* (import and reload_state), perhaps in another environment.               *)
CrashRestart ==
    /\ env' \in Environments
    /\ \E r \in Refs :
          /\ latest' = IF disk.latest = None THEN None ELSE r
          /\ heap' = [x \in Refs |-> IF x = r THEN disk.latest ELSE None]
    /\ store' = disk.proofs
    /\ handler' = [t \in Threads |-> Idle]
    /\ UNCHANGED <<disk, historyVars>>

Request(t) ==
    \E h \in Hashes :
        \/ Preflight(t, h)
        \/ \E sure \in BOOLEAN : RecordRefuse(t, h, sure)
        \/ \E sure \in BOOLEAN : RecordAccept(t, h, sure)
        \/ VerifyRefuse(t, h)
        \/ \E tx \in Txs \cup {None} : VerifyMatch(t, h, tx)

Continue(t) ==
    \/ RecordPut(t) \/ RecordTest(t) \/ RecordAttach(t)
    \/ VerifyPut(t) \/ VerifyAttach(t)
    \/ SaveLatestLoad(t) \/ SaveLatestWrite(t)
    \/ SaveHistoryLoad(t) \/ SaveHistoryWrite(t)
    \/ SaveProofLoad(t) \/ SaveProofWrite(t)

Next == \/ \E t \in Threads : Request(t) \/ Continue(t)
        \/ CrashRestart

Spec == Init /\ [][Next]_vars

-----------------------------------------------------------------------------
(* What a handler may rely on at each of its steps.  It strengthens TypeOK  *)
(* to an inductive invariant (PreflightServer_proofs).                      *)

Saving == {"latest_load", "latest_write", "history_load", "history_write",
           "proof_load", "proof_write"}

\* A handler has what its next step dereferences.
HandlerShape(t) ==
    /\ handler[t].ref # None => heap[handler[t].ref] # None
    /\ handler[t].pc \in {"record_put", "record_test", "record_attach"}
          => handler[t].op = "record"
    /\ handler[t].pc \in {"verify_put", "verify_attach", "proof_load"}
          => handler[t].op # "preflight"
    /\ handler[t].op = "record"
          => handler[t].hash # None /\ handler[t].ans # None
    /\ handler[t].pc \in {"verify_put", "verify_attach", "proof_write"}
          => handler[t].hash # None /\ handler[t].ans # None
    /\ handler[t].pc \in {"record_attach", "verify_attach"} => latest # None
    /\ handler[t].pc \in {"latest_write", "history_write"}
          => handler[t].ref # None
    /\ handler[t].pc \in Saving =>
          IF handler[t].op = "preflight" THEN handler[t].ref # None
                                         ELSE latest # None

\* No reference dangles.
Shape == /\ latest # None => heap[latest] # None
         /\ \A t \in Threads : HandlerShape(t)

\* A handler that is about to answer verified_matched holds a record of its
\* hash that has a transaction.
AnswersAreBacked ==
    \A t \in Threads : handler[t].pc = "verify_put" =>
        handler[t].ans.tx # None /\ handler[t].ans.recorded = handler[t].hash

\* What a handler has loaded is a sound history as well.
SnapshotsAreSound == \A t \in Threads : IsHistory(handler[t].snap.history)

-----------------------------------------------------------------------------
(* Properties.                                                             *)

\* What the proof endpoints promise (module ProofBook); the history variables
\* are its state.
Book == INSTANCE ProofBook

\* Every step of the server, with its threads, its crashes and its restarts,
\* confirms a hash, answers a confirmed one, or does neither: verified_matched
\* is answered only for a hash that a confirmed call recorded.
PromisesKept == Book!Spec

\* A transaction on a proof means that its hash is one of those given, and
\* "recorded" and "verified_matched" always carry one.
Backed(proof, hashes) ==
    /\ proof.tx # None => proof.recorded \in hashes
    /\ proof.status \in {"recorded", "verified_matched"} => proof.tx # None

StateIsBacked(state, hashes) ==
    /\ state.latest # None => Backed(state.latest.proof, hashes)
    /\ \A i \in DOMAIN state.history : Backed(state.history[i].proof, hashes)
    /\ \A h \in Hashes :
           state.proofs[h] # None => Backed(state.proofs[h], hashes)

HandlerIsBacked(record, hashes) ==
    /\ record.ans # None => Backed(record.ans, hashes)
    /\ StateIsBacked(record.snap, hashes)

\* Nothing claims an on-chain record that no confirmed call asked for, wherever
\* a proof is kept and with however many threads and crashes in between: not
\* an object in memory, not PROOF_STORE, not the file, not a handler's locals.
ProofsAreBacked ==
    /\ \A r \in Refs : heap[r] # None => Backed(heap[r].proof, confirmed)
    /\ \A h \in Hashes : store[h] # None => Backed(store[h], confirmed)
    /\ StateIsBacked(disk, confirmed)
    /\ \A t \in Threads : HandlerIsBacked(handler[t], confirmed)

\* The history in the file never lists an assessment twice and never
\* outgrows its cap, whatever the interleaving of the saves.
HistoryIsSound == IsHistory(disk.history)

Quiescent == \A t \in Threads : handler[t].pc = "idle"

LatestValue == IF latest = None THEN None ELSE heap[latest]

\* A verification of h finds this record and answers verified_matched.
Verifiable(record, h) ==
    record # None /\ record.tx # None /\ record.recorded = h

\* The hashes whose record in the file is not the one in memory.
Lost == unsaved \cup misfiled

\* Whatever the clients ask, one call after the other, and wherever the process
\* dies: once no call is under way, a restart loads the latest assessment and
\* the proof that memory holds (README: demo state survives API restart).  The
\* proof records answer every verification in the same way too, and there are
\* two ways to lose that and no third: a record call before the first
\* pre-flight (server.py:198), and a verification of a hash that is not the
\* latest (server.py:208-217).  Saving the hash's own record heals both.
\* All this while the file can be read and written (module JsonStateStore).
RestartIsFaithful ==
    Quiescent => /\ disk.latest = LatestValue
                 /\ \A h \in Hashes \ Lost :
                       Verifiable(disk.proofs[h], h)
                           <=> Verifiable(store[h], h)

\* A proof whose record call was answered "recorded" is in the file, with its
\* transaction and under its own hash, whenever the process may die; it is
\* missing only where the call came before the first pre-flight, or where a
\* later verification put another hash's record in its place, as long as the
\* file can be read and written.
AckedIsDurable ==
    \A h \in acked \ Lost : Verifiable(disk.proofs[h], h)

Owns(assessment) ==
    \/ assessment = None
    \/ assessment.proof.recorded \in {None, assessment.hash}
    \/ assessment.hash \in misfiled

\* A proof kept with an assessment records that assessment's hash, in memory
\* and in the file, through re-runs, pending records and crashes in the middle
\* of a save; the one way to another's proof is a verification of an older hash
\* ("the local assessment hash matches the recorded hash").
ProofsMatchTheirAssessment ==
    /\ \A r \in Refs : Owns(heap[r])
    /\ Owns(disk.latest)
    /\ \A i \in DOMAIN disk.history : Owns(disk.history[i])
    /\ \A h \in Hashes \ misfiled :
          disk.proofs[h] # None => disk.proofs[h].recorded = h
=============================================================================
