---------------------------- MODULE PreflightPages ----------------------------
(***************************************************************************)
(* The clients of the InjectiveLens API: the app's pages (frontend/app     *)
(* App.tsx, injectivePreflightApi.ts) and an agent that uses the MCP       *)
(* endpoint (injectivelens/protocol.py), with the server and its state     *)
(* file between them.                                                      *)
(*                                                                         *)
(* A page is React state and the async functions that are under way.  Such *)
(* a function sends a request, waits, and goes on with the assessment that *)
(* it captured when the user clicked, whatever the page shows by then.     *)
(* Requests and answers travel in any order and may be lost.               *)
(*                                                                         *)
(* A handler of the server is one step here; what its threads can do to    *)
(* each other is the subject of PreflightServer.  What the page fetches    *)
(* for its History and Audit tabs is left out, but not that a function     *)
(* waits for it and may fail there.                                        *)
(***************************************************************************)
EXTENDS AssessmentState

CONSTANTS
    Pages,        \* browser tabs with the app
    Forms,        \* what the user may fill in: mode, account and prompt
    DefaultForm,  \* what a page starts with: DEFAULT_PROMPT, DEFAULT_ACCOUNT
    FormOf,       \* the form that an assessment was made for
    Environments  \* process environments of the server

ASSUME FormsAssumption == DefaultForm \in Forms /\ FormOf \in [Hashes -> Forms]

ASSUME EnvironmentsAssumption ==
    Environments \subseteq [recorder : BOOLEAN, tx : Txs \cup {None}]

\* Server names the one object of the heap so.
ASSUME LatestAssumption == None # "latest"

VARIABLES
    env,        \* the environment of the server
    latest,     \* LATEST_ASSESSMENT
    store,      \* PROOF_STORE.records
    disk,       \* the state file
    form,       \* for each page: the inputs
    shown,      \* the assessment on display
    failed,     \* whether an apiError is on display
    busy,       \* which of isRestoring, isRunning and isProofBusy are set
    calls,      \* the async functions under way
    told,       \* the assessment that the agent works with
    acked       \* history: hashes whose last record call was answered "recorded"
                \* and whose proof no verification of another hash has replaced

serverVars == <<env, latest, store, disk, acked>>
pageVars == <<form, shown, failed, busy, calls>>
vars == <<serverVars, pageVars, told>>

PageProof == [status   : Statuses \cup {"not_found", "verified_mismatch"},
              tx       : Txs \cup {None},
              recorded : Hashes \cup {None}]

\* restored is history: the assessment is as GET latest gave it.
Shown == [hash : Hashes, proof : PageProof, restored : BOOLEAN]

\* The functions of a page, each with the flag that it sets while it runs.
Kinds == {"restore", "run", "proof"}

\* An async function: the request it waits for, whether that has come back
\* and well, what the function captured at its start, and what came back.
Call == [step   : {"none", "latest", "preflight", "record", "verify", "refresh"},
         back   : BOOLEAN,
         ok     : BOOLEAN,
         mine   : Shown \cup Forms \cup {None},
         answer : Assessment \cup PageProof \cup {None}]

NoCall == [step |-> "none", back |-> FALSE, ok |-> TRUE, mine |-> None,
           answer |-> None]

TypeOK ==
    /\ env \in Environments
    /\ latest \in Assessment \cup {None}
    /\ store \in [Hashes -> Proof \cup {None}]
    /\ disk \in State
    /\ form \in [Pages -> Forms]
    /\ shown \in [Pages -> Shown \cup {None}]
    /\ failed \in [Pages -> BOOLEAN]
    /\ busy \in [Pages -> SUBSET Kinds]
    /\ calls \in [Pages -> [Kinds -> Call]]
    /\ told \in Hashes \cup {None}
    /\ acked \subseteq Hashes

\* The endpoints' functions, on one assessment object.
Server == INSTANCE PreflightServer WITH
    Threads <- {}, Refs <- {"latest"}, handler <- <<>>,
    heap <- [r \in {"latest"} |-> latest],
    latest <- IF latest = None THEN None ELSE "latest",
    confirmed <- {}, answered <- {}, unsaved <- {}, misfiled <- {}

-----------------------------------------------------------------------------
(* Helpers.                                                                *)

Sent(step, captured) == [NoCall EXCEPT !.step = step, !.mine = captured]

\* Function k of page p is now this call.
Become(p, k, call) == calls' = [calls EXCEPT ![p][k] = call]

\* The call of p's function k has been answered.
Reply(p, k, answer) ==
    Become(p, k, [calls[p][k] EXCEPT !.back = TRUE, !.answer = answer])

Refuse(p, k) ==
    Become(p, k, [calls[p][k] EXCEPT !.back = TRUE, !.ok = FALSE])

View(assessment, restored) ==
    [hash |-> assessment.hash, proof |-> assessment.proof,
     restored |-> restored]

\* canRecord, isProofVerified, canVerify of the page.
CanRecord(proof) == proof.status = "ready_to_record"

IsProofVerified(proof) ==
    /\ proof.status = "verified_matched"
    /\ proof.tx # None
    /\ proof.recorded # None

CanVerify(proof) == proof.tx # None /\ ~IsProofVerified(proof)

-----------------------------------------------------------------------------
(* A page that has just been opened.                                       *)

Opening == [k \in Kinds |-> IF k = "restore" THEN Sent("latest", None)
                                             ELSE NoCall]

Init ==
    /\ env \in Environments
    /\ latest = None
    /\ store = EmptyState.proofs
    /\ disk = EmptyState
    /\ form = [p \in Pages |-> DefaultForm]
    /\ shown = [p \in Pages |-> None]
    /\ failed = [p \in Pages |-> FALSE]
    /\ busy = [p \in Pages |-> {"restore"}]
    /\ calls = [p \in Pages |-> Opening]
    /\ told = None
    /\ acked = {}

\* Reload drops what the page waits for: a request was served or never will be.
Reload(p) ==
    /\ form' = [form EXCEPT ![p] = DefaultForm]
    /\ shown' = [shown EXCEPT ![p] = None]
    /\ failed' = [failed EXCEPT ![p] = FALSE]
    /\ busy' = [busy EXCEPT ![p] = {"restore"}]
    /\ calls' = [calls EXCEPT ![p] = Opening]
    /\ UNCHANGED <<serverVars, told>>

(* What the user does on a page.                                           *)

\* A changed input clears the result; functions under way go on.
EditForm(p, f) ==
    /\ f # form[p]
    /\ form' = [form EXCEPT ![p] = f]
    /\ shown' = [shown EXCEPT ![p] = None]
    /\ failed' = [failed EXCEPT ![p] = FALSE]
    /\ UNCHANGED <<serverVars, busy, calls, told>>

\* The start of runPreflight, recordProof and verifyProof.
Start(p, flag, step, captured) ==
    /\ flag \notin busy[p]
    /\ busy' = [busy EXCEPT ![p] = @ \cup {flag}]
    /\ failed' = [failed EXCEPT ![p] = FALSE]
    /\ Become(p, flag, Sent(step, captured))
    /\ UNCHANGED <<serverVars, form, shown, told>>

ClickRun(p) == Start(p, "run", "preflight", form[p])

ClickRecord(p) ==
    /\ shown[p] # None
    /\ CanRecord(shown[p].proof)
    /\ Start(p, "proof", "record", shown[p])

ClickVerify(p) ==
    /\ shown[p] # None
    /\ CanVerify(shown[p].proof)
    /\ Start(p, "proof", "verify", shown[p])

-----------------------------------------------------------------------------
(* The server.  A request that is out is served at some time, whatever has *)
(* happened to the page's state since it was sent.                         *)

Waits(p, k, step) == calls[p][k].step = step /\ ~calls[p][k].back

Asked(p, k) == calls[p][k].mine.hash

\* save_latest_assessment and save_assessment_history_record.
Save(state, assessment) == PushHistory(SetLatest(state, assessment), assessment)

ServeLatest(p, k) ==
    /\ Waits(p, k, "latest")
    /\ Reply(p, k, latest)
    /\ UNCHANGED <<serverVars, form, shown, failed, busy, told>>

ServePreflight(p, k) ==
    /\ Waits(p, k, "preflight")
    /\ \E h \in Hashes :
          /\ FormOf[h] = calls[p][k].mine
          /\ latest' = [hash |-> h, proof |-> Server!InitialProof]
    /\ disk' = Save(disk, latest')
    /\ Reply(p, k, latest')
    /\ UNCHANGED <<env, store, acked, form, shown, failed, busy, told>>

\* Broken: the record is kept in memory only.
RecordInMemory(h) ==
    LET proof == Server!RecordedProof(h)
    IN  /\ Server!Accepts(h, TRUE)
        /\ store' = [store EXCEPT ![h] = proof]
        /\ acked' = IF proof.status = "recorded" THEN acked \cup {h}
                                                 ELSE acked \ {h}
        /\ latest' = IF latest = None THEN None
                     ELSE [latest EXCEPT !.proof = proof]
        /\ disk' = IF latest = None THEN disk ELSE Save(disk, latest')
        /\ UNCHANGED env

\* POST /api/proof/record, accepted.
Record(h) ==
    LET proof == Server!RecordedProof(h)
    IN  /\ Server!Accepts(h, TRUE)
        /\ store' = [store EXCEPT ![h] = proof]
        /\ acked' = IF proof.status = "recorded" THEN acked \cup {h}
                                                 ELSE acked \ {h}
        /\ latest' = IF latest = None THEN None
                     ELSE [latest EXCEPT !.proof = proof]
        /\ disk' = IF latest = None THEN disk
                   ELSE SetProof(Save(disk, latest'), h, proof)
        /\ UNCHANGED env

ServeRecord(p, k) ==
    /\ Waits(p, k, "record")
    /\ Record(Asked(p, k))
    /\ Reply(p, k, Server!RecordedProof(Asked(p, k)))
    /\ UNCHANGED <<form, shown, failed, busy, told>>

\* 409 or 503: the page throws.
RefuseRecord(p, k) ==
    /\ Waits(p, k, "record")
    /\ ~Server!Accepts(Asked(p, k), TRUE)
    /\ Refuse(p, k)
    /\ UNCHANGED <<serverVars, form, shown, failed, busy, told>>

\* POST /api/proof/verify: the verification goes to the latest assessment,
\* whatever hash it is about.
ServeVerify(p, k) ==
    LET h        == Asked(p, k)
        found    == Server!RecordFor(h)
        verified == [status   |-> "verified_matched",
                     tx       |-> calls[p][k].mine.proof.tx,
                     recorded |-> h]
    IN  /\ Waits(p, k, "verify")
        /\ Server!Matches(h)
        /\ store' = [store EXCEPT ![h] = [found EXCEPT !.status = "verified_matched"]]
        /\ latest' = IF latest = None THEN None
                     ELSE [latest EXCEPT !.proof = verified]
        /\ disk' = IF latest = None THEN disk
                   ELSE SetProof(Save(disk, latest'), latest.hash, verified)
        /\ acked' = IF latest # None /\ latest.hash # h THEN acked \ {latest.hash}
                                                        ELSE acked
        /\ Reply(p, k, verified)
        /\ UNCHANGED <<env, form, shown, failed, busy, told>>

\* not_found without a record or without its tx, else verified_mismatch.
DenyVerify(p, k) ==
    LET h     == Asked(p, k)
        found == Server!RecordFor(h)
    IN  /\ Waits(p, k, "verify")
        /\ ~Server!Matches(h)
        /\ Reply(p, k,
                 [status   |-> IF found # None /\ found.tx # None
                               THEN "verified_mismatch" ELSE "not_found",
                  tx       |-> calls[p][k].mine.proof.tx,
                  recorded |-> IF found = None THEN None ELSE found.recorded])
        /\ UNCHANGED <<serverVars, form, shown, failed, busy, told>>

\* GET history and GET audit.
ServeRefresh(p, k) ==
    /\ Waits(p, k, "refresh")
    /\ Reply(p, k, None)
    /\ UNCHANGED <<serverVars, form, shown, failed, busy, told>>

Serve(p, k) ==
    \/ ServeLatest(p, k) \/ ServePreflight(p, k)
    \/ ServeRecord(p, k) \/ RefuseRecord(p, k)
    \/ ServeVerify(p, k) \/ DenyVerify(p, k)
    \/ ServeRefresh(p, k)

\* The request is lost on its way, or its answer is: the fetch throws.
Lose(p, k) ==
    /\ calls[p][k].step # "none"
    /\ calls[p][k].ok
    /\ Become(p, k, [calls[p][k] EXCEPT !.back = TRUE, !.ok = FALSE,
                                        !.answer = None])
    /\ UNCHANGED <<serverVars, form, shown, failed, busy, told>>

-----------------------------------------------------------------------------
(* A function of a page goes on with what came back.                       *)

Arrived(p, k, step) ==
    /\ calls[p][k].step = step
    /\ calls[p][k].back
    /\ calls[p][k].ok

Refresh(p, k) == Become(p, k, Sent("refresh", None))

End(p, k) ==
    /\ Become(p, k, NoCall)
    /\ busy' = [busy EXCEPT ![p] = @ \ {k}]

\* restoreLatestAssessment sets the inputs and the result.
Restored(p, k) ==
    LET answer == calls[p][k].answer
    IN  /\ Arrived(p, k, "latest")
        /\ answer # None
        /\ form' = [form EXCEPT ![p] = FormOf[answer.hash]]
        /\ shown' = [shown EXCEPT ![p] = View(answer, TRUE)]
        /\ Refresh(p, k)
        /\ UNCHANGED <<serverVars, failed, busy, told>>

NothingToRestore(p, k) ==
    /\ Arrived(p, k, "latest")
    /\ calls[p][k].answer = None
    /\ End(p, k)
    /\ UNCHANGED <<serverVars, form, shown, failed, told>>

ShowRun(p, k) ==
    /\ Arrived(p, k, "preflight")
    /\ shown' = [shown EXCEPT ![p] = View(calls[p][k].answer, FALSE)]
    /\ Refresh(p, k)
    /\ UNCHANGED <<serverVars, form, failed, busy, told>>

\* Broken: the answer is merged into the result that is on display by now.
ShowProofOnCurrent(p, k) ==
    /\ Arrived(p, k, "record") \/ Arrived(p, k, "verify")
    /\ shown' = [shown EXCEPT ![p] =
           IF @ = None THEN None
           ELSE [@ EXCEPT !.proof = calls[p][k].answer, !.restored = FALSE]]
    /\ Refresh(p, k)
    /\ UNCHANGED <<serverVars, form, failed, busy, told>>

\* recordProof and verifyProof show the result that they captured, with the
\* proof that was answered, in place of whatever is on display.
ShowProof(p, k) ==
    /\ Arrived(p, k, "record") \/ Arrived(p, k, "verify")
    /\ shown' = [shown EXCEPT ![p] =
           [calls[p][k].mine EXCEPT !.proof = calls[p][k].answer,
                                    !.restored = FALSE]]
    /\ Refresh(p, k)
    /\ UNCHANGED <<serverVars, form, failed, busy, told>>

Done(p, k) ==
    /\ Arrived(p, k, "refresh")
    /\ End(p, k)
    /\ UNCHANGED <<serverVars, form, shown, failed, told>>

\* Broken: the flag is cleared by the functions that succeed only.
FailBusy(p, k) ==
    /\ calls[p][k].back
    /\ ~calls[p][k].ok
    /\ failed' = [failed EXCEPT ![p] = TRUE]
    /\ Become(p, k, NoCall)
    /\ UNCHANGED <<serverVars, form, shown, busy, told>>

\* catch and finally.
Fail(p, k) ==
    /\ calls[p][k].back
    /\ ~calls[p][k].ok
    /\ failed' = [failed EXCEPT ![p] = TRUE]
    /\ End(p, k)
    /\ UNCHANGED <<serverVars, form, shown, told>>

Settle(p, k) ==
    \/ Restored(p, k) \/ NothingToRestore(p, k)
    \/ ShowRun(p, k) \/ ShowProof(p, k)
    \/ Done(p, k) \/ Fail(p, k)

-----------------------------------------------------------------------------
(* The agent and the server's process.                                     *)

\* MCP preflight_trade_action: an assessment that the server does not keep.
AgentAsks(h) ==
    /\ told' = h
    /\ UNCHANGED <<serverVars, pageVars>>

\* MCP get_latest_assessment.
AgentReads ==
    /\ latest # None
    /\ told' = latest.hash
    /\ UNCHANGED <<serverVars, pageVars>>

\* POST /api/proof/record with the user's confirmation, where the MCP tool
\* record_assessment_projection sends the agent.
AgentRecords ==
    /\ told # None
    /\ Record(told)
    /\ UNCHANGED <<pageVars, told>>

Restart ==
    /\ env' \in Environments
    /\ latest' = disk.latest
    /\ store' = disk.proofs
    /\ UNCHANGED <<disk, acked, pageVars, told>>

User(p) ==
    \/ Reload(p)
    \/ \E f \in Forms : EditForm(p, f)
    \/ ClickRun(p) \/ ClickRecord(p) \/ ClickVerify(p)

Agent == (\E h \in Hashes : AgentAsks(h)) \/ AgentReads \/ AgentRecords

\* A fetch ends, well or not, and its function goes on.
Advance(p, k) == Serve(p, k) \/ Lose(p, k) \/ Settle(p, k)

Next ==
    \/ \E p \in Pages : User(p)
    \/ \E p \in Pages, k \in Kinds : Advance(p, k)
    \/ Agent
    \/ Restart

Fairness == \A p \in Pages, k \in Kinds : WF_vars(Advance(p, k))

Spec == Init /\ [][Next]_vars /\ Fairness

-----------------------------------------------------------------------------
(* Properties.                                                             *)

\* A proof that came by a click of the user's is the proof of the result that
\* it is shown with, whatever was clicked, edited or answered in between, unless
\* the page says that the two do not match.
ShownProofIsOwn ==
    \A p \in Pages :
        /\ shown[p] # None
        /\ ~shown[p].restored
        /\ shown[p].proof.status # "verified_mismatch"
        => shown[p].proof.recorded \in {None, shown[p].hash}

\* A proof that the page shows as recorded or verified because its user made it
\* so is in the file, with a transaction and under its own hash, as long as the
\* last record call for that hash said "recorded" and no verification of another
\* hash has replaced it.
ShownIsDurable ==
    \A p \in Pages :
        /\ shown[p] # None
        /\ ~shown[p].restored
        /\ shown[p].proof.status \in {"recorded", "verified_matched"}
        /\ shown[p].hash \in acked
        => LET kept == disk.proofs[shown[p].hash]
           IN  kept # None /\ kept.tx # None /\ kept.recorded = shown[p].hash

\* Every function of a page comes to its end and clears its flag, so that the
\* buttons that the flag disables work again.
EveryClickEnds ==
    \A p \in Pages, k \in Kinds : k \in busy[p] ~> k \notin busy[p]

\* "The restored proof still means only: the local assessment hash matches the
\* recorded assessment hash" (docs/day8_frontend_restore.md).
RestoredProofIsOwn ==
    \A p \in Pages :
        shown[p] # None /\ shown[p].proof.status = "verified_matched"
            => shown[p].proof.recorded = shown[p].hash
=============================================================================
