--------------------------- MODULE AssessmentState ---------------------------
(***************************************************************************)
(* The data that the InjectiveLens API keeps: assessments, their proofs,   *)
(* and the state file in which JsonStateStore (injectivelens/persistence)  *)
(* saves them, with the three pure updates that its save_* methods apply   *)
(* to a loaded state.                                                      *)
(*                                                                         *)
(* An assessment is named by its assessmentHash.  The hash covers the      *)
(* request, the parsed intent, the decision, the coverage and the evidence *)
(* ids, never the proof, and assessmentId is a prefix of it: both names    *)
(* are one model value here, so re-running a request yields the same one.  *)
(***************************************************************************)
EXTENDS Naturals, Sequences, SequencesExt

CONSTANTS
    Hashes,      \* assessment hashes
    Txs,         \* Injective transaction hashes
    None,        \* Python's None, and a missing key of a dict
    HistoryCap   \* records that assessmentHistory keeps (25 in the code)

Statuses == {"ready_to_record", "unavailable", "pending", "recorded",
             "verified_matched"}

Proof == [status : Statuses, tx : Txs \cup {None},
          recorded : Hashes \cup {None}]

Assessment == [hash : Hashes, proof : Proof]

ASSUME CapAssumption == HistoryCap \in Nat \ {0}

ASSUME NoneAssumption ==
    /\ None \notin Hashes \cup Txs
    /\ None \notin Proof
    /\ None \notin Assessment

\* What the file holds; proofs is the dict proofRecords, keyed by hash.
State == [latest  : Assessment \cup {None},
          history : Seq(Assessment),
          proofs  : [Hashes -> Proof \cup {None}]]

\* What load() returns when there is no file, or none that parses.
EmptyState == [latest  |-> None,
               history |-> <<>>,
               proofs  |-> [h \in Hashes |-> None]]

-----------------------------------------------------------------------------
(* The updates between load() and save().                                  *)

\* Broken: keeps the assessment that the file already has.
SetLatestOnce(state, assessment) ==
    IF state.latest = None THEN [state EXCEPT !.latest = assessment] ELSE state

SetLatest(state, assessment) == [state EXCEPT !.latest = assessment]

\* Drop the record with this id, put the new one first, keep HistoryCap.
\* Ids are unique in the file (IsHistory), so the list comprehension that
\* filters them out drops that one record and no other.
Without(history, hash) ==
    IF \E i \in DOMAIN history : history[i].hash = hash
    THEN RemoveAt(history, CHOOSE i \in DOMAIN history :
                               history[i].hash = hash)
    ELSE history

\* Broken: the earlier record with this id stays.
PushTwice(history, assessment) ==
    LET longer == <<assessment>> \o history
    IN  SubSeq(longer, 1, IF Len(longer) <= HistoryCap THEN Len(longer)
                                                       ELSE HistoryCap)

Push(history, assessment) ==
    LET longer == <<assessment>> \o Without(history, assessment.hash)
    IN  SubSeq(longer, 1, IF Len(longer) <= HistoryCap THEN Len(longer)
                                                       ELSE HistoryCap)

PushHistory(state, assessment) ==
    [state EXCEPT !.history = Push(@, assessment)]

\* Broken: dict.setdefault for the assignment.
SetProofOnce(state, hash, proof) ==
    IF state.proofs[hash] = None THEN [state EXCEPT !.proofs[hash] = proof]
    ELSE state

SetProof(state, hash, proof) == [state EXCEPT !.proofs[hash] = proof]

\* No id twice, and at most HistoryCap records.
IsHistory(history) ==
    /\ Len(history) <= HistoryCap
    /\ \A i, j \in DOMAIN history :
           history[i].hash = history[j].hash => i = j
=============================================================================
