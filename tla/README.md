# InjectiveLens and MantleLens in TLA+

The repository is a safety layer for AI agents that trade. An agent asks before
it acts; the server reads what it can about the account or the wallet, scores
it, says allow, warn or block, and lets the user record the *hash of that
assessment* on a chain and verify the record later. Two Python back ends share
the idea: `backend/injectivelens` (trades on Injective, state in a JSON file) and
`backend/mantlelens` (wallets on Mantle, an event-logger contract, history in
memory or SQLite). One React app calls the first, and so do agents, by an MCP
endpoint.

Every definition here is translated from the source. `PROJECT.json` gives the
lines that each definition stands for (`map`), the runs, the hazards and the
properties that watch them, the findings and the theorems. An operator whose
comment starts with *Broken:* is not part of a specification: it is the mutated
form of the definition below it, and shows that a property can fail.

To check a run: `tlc -config <run>.cfg <module>`. To check the proofs:
`tlapm <module>_proofs.tla`.

## 1. The system

### Components

| Component | State | Operations | Interacts with |
|---|---|---|---|
| Injective API server (`injectivelens/server.py`) | the global `LATEST_ASSESSMENT` | preflight, proof/record, proof/verify, reload at start | handler threads of a `ThreadingHTTPServer`, no lock |
| Proof store (`proof.py`) | `PROOF_STORE.records`, by hash | put, record, verify, hydrate | called by the handlers; falls back on the latest assessment's proof |
| State file (`persistence.py`) | one JSON file, `<path>.tmp` | load, save latest / history record / proof | every save loads and rewrites the whole file |
| Trade guard (`fixtures.py`, `parser.py`, `adapters.py`) | none | parse, read three sources, combine coverage, score, decide, propose | called by preflight and by the protocol tools |
| Agent protocol (`injectivelens/protocol.py`) | none; the agent keeps what it was told | agent card, MCP tools: pre-flight, read the latest, point to the record call | calls the guard; reads the latest assessment and does not set it |
| Commit ledger (`mantlelens/ledger.py`) | records by idempotency key, one lock | commit, outcome | holds its lock across the recorder's RPC calls |
| On-chain recorder (`onchain.py`) | none (environment) | commit (nonce, sign, send), verify (transaction, receipt) | JSON-RPC to the node, 20 s timeout per call |
| Logger contract (`AssessmentLogger.sol`) | events only | log an assessment hash | called by the recorder or by a user's wallet |
| Scan history (`history_store.py`) | rows by wallet, at most 100 each | record scan, attach commit, attach verification, attach outcome | patched by commit and verify handlers |
| Mantle API server (`mantlelens/server.py`) | none of its own | scan, commit, verify, outcome, alerts | composes all of the Mantle parts |
| Guarded workflow (`workflows.py`, `policy.py`, `trace.py`) | the tool trace of one scan | tool calls under a transition table, step budget, deadline | adapters, risk engine |
| Alerts and trend (`alerts.py`, `trend.py`) | alerts by dedupe key, trend points by wallet | record point, evaluate, resolve | reads the history after a scan has written its row |
| Wallet risk (`risk.py`, `inventory.py`, `evidence.py`) | none | score, level, coverage | called by the workflow |
| Live adapters (`live_adapters.py`, `adapters.py`, `chain_targets.py`, `config.py`) | none | read with fallback | HTTP and RPC providers |
| Explanation, claim guard, simulation (`explain.py`, `llm_guard.py`, `simulation.py`) | none | explain by rules, accept or replace a model's text, simulate a change | called by the workflow, and by clients with what they send |
| Enhancement endpoints (`enhancements.py`) | none | NFT approvals, DeFi positions, token security, transaction simulation, feedback and the like | one provider call each |
| Front end (`App.tsx`, `injectivePreflightApi.ts`) | React state: the inputs, the result on display, an error, three busy flags, the async functions under way | restore on load, edit, run, record, verify | the Injective endpoints; answers may be late or lost |

### What is hard here

- **Threads without locks.** The Injective handlers read and write a global, a
  dict and a file in several steps each. A handler tests `LATEST_ASSESSMENT` and
  assigns to it in two accesses; each save is a load, a change and a rewrite.
- **Crashes.** A handler makes up to three saves one after the other; a save is
  an open, a write and a rename. The Mantle ledger is in memory only.
- **Lost answers and retries.** The recorder sends a transaction while it holds
  the ledger's lock; the node may accept it and the answer be lost; a client may
  call again with its idempotency key. Fields are read *after* the send.
- **Answers that come late.** A function of the page captures the result that it
  is about, waits for one answer and then for the tabs' data, and goes on whatever
  the page shows by then. The inputs are not locked meanwhile.
- **The chain moves on its own.** The verifier reads a transaction and then its
  receipt; nonces are those of the latest block, so a pending transaction can be
  replaced.
- **Several stores for one scan.** A scan writes a trend point, a history row and
  its alerts, each in a transaction of its own and under a lock of its own; other
  scans, resolutions, database errors and crashes come between them.
- **Reads with fallbacks.** A scan reads seven things under one deadline, most of
  them from one of several providers. A provider may fail after some of its rows
  were kept; coverage, sources and evidence must be those of the one that answered.
- **Gaps beside findings.** What was not read is a risk in the same list as what
  was found, and the first of the list decides.
- **Identity.** A hash, an assessment id and a transaction name the same thing
  most of the time, and not always: an older hash may be verified while another
  assessment is the latest; scans of one fixture share an id, and so do the live
  scans of one wallet; an agent may be told of an assessment that the server does
  not keep.
- **Wordings and pages.** The guard's parser takes the first figure of the forms it
  knows. A history is read up to a page limit and reported as available either way.
- **Thresholds.** The guard cuts one score at 70/35 for the decision and 80/50/25
  for the level, with inclusive hard limits and a penalty for missing coverage.

### What makes each part correct

- *Proofs*: nothing claims a record that no confirmed call made; `verified_matched`
  only after such a record; when calls come one after another, a proof stays with its
  own assessment, what was acknowledged survives a restart, and a restart loads what
  memory held, but for two ways to lose that, which the properties name.
- *Pages*: a proof that a click brought belongs to the result it is shown with and
  is in the file; every function of a page ends, and its button works again.
- *State file*: a save is atomic and durable, and takes nothing from other slots
  unless its own read of the file failed; the file always parses.
- *Guard*: what could not be read is not safe; no figure that the parser reads gets
  around the hard limits, and where it reads none the intent says so; asking for less is never judged more strictly; decision, level and
  proposal agree.
- *Commits*: one key, one try, one send, one answer; "recorded" means an accepted
  transaction with this hash; "verified" means mined, by the logger, with the
  expected hash; a verified history row has a hash of its id on chain; every call
  returns.
- *Monitoring*: one open alert per cause, that counts every sighting until it is
  resolved; what an answer lists as open was not resolved before; an increase of
  the risk over the scan before has its alert.
- *Workflow and risk*: the table and the budget never refuse a scan; what is
  reported available was read, or the page coverage beside it tells of more; a gap is not
  safe; a bad finding decides, however
  poor its evidence and whatever else there is; one finding more never helps, and
  no simulated improvement raises the score; evidence has the row that it was read
  from, or the coverage says why not; the claims that an explanation
  lists are about what the assessment found, with its evidence, and the rules' own
  leaves out none of it.

## 2. The modules

| Module | Models | Kind |
|---|---|---|
| `AssessmentState` | assessments, proofs, the contents of the state file and the three updates of it | data and pure operators |
| `PreflightServer` | `server.py` + `proof.py`: handler threads, memory, file, crash and restart | state machine |
| `PreflightPages` | `App.tsx`, `injectivePreflightApi.ts`, the MCP tools: pages and an agent, with the server between them | state machine over `PreflightServer`'s operators |
| `ProofBook` | what the proof endpoints promise | abstract specification |
| `JsonStateStore` | `persistence.py`: a save as load, open, write, rename, with errors and crashes | state machine |
| `AtomicStore` | what a state file is for | abstract specification |
| `TradeGuard` | `fixtures.py`, `parser.py`, `adapters.py`: one pre-flight check | state machine over pure operators |
| `CommitLedger` | `ledger.py`, `onchain.py`, the commit and verify handlers, history rows, the node | state machine |
| `CommitBook` | what an idempotency key is for | abstract specification |
| `Monitoring` | the end of `workflows.py:scan_wallet` with `trend.py`, `history_store.py`, `alerts.py`; the resolve handler | state machine |
| `ScanOrder` | `Monitoring`, where scans may overlap and where none starts while another is under way | restriction of a state machine |
| `AlertBook` | what an alert store is for | abstract specification |
| `WalletRisk` | `risk.py`, `evidence.py`: scores, order of risks, level, decision | pure operators |
| `WalletAdvice` | `explain.py`, `llm_guard.py`, `simulation.py`: claims, the guard of a model's claims, simulated scores | pure operators over `WalletRisk` |
| `WalletScan` | `workflows.py`, `policy.py`, `live_adapters.py`: one scan up to its explanation | state machine over `WalletRisk` and `WalletAdvice` |
| `MC*` | instances for TLC: bounds on inputs, symmetry | |
| `*_proofs` | the theorems about a state machine | |

### PreflightServer

Each handler step is one access to shared state. `Preflight` makes the object and
assigns the global; then the saves run (`SaveLatestLoad`, `SaveLatestWrite`,
`SaveHistoryLoad`, `SaveHistoryWrite`). A record call is `RecordAccept` (the tests
of `record_assessment_proof`), `RecordPut`, `RecordTest` and `RecordAttach` (the
two accesses to the global), and the three saves; a verify call likewise.
Refusals change nothing and are the actions `RecordRefuse` and `VerifyRefuse`.
`latest` is a *reference*: `RecordAttach` writes into whatever object the global
names by then, and an object lives in `heap` as long as something refers to it
(`Collect`). `CrashRestart` may happen anywhere; it loads the file in any
environment. Clients are arbitrary: a call may name any hash at any time.

Two history variables follow what the code itself does not keep: `unsaved` are hashes
whose record call was answered although nothing was saved (`server.py:198`), and
`misfiled` are hashes of assessments that a verification of another hash was put on
(`server.py:208`). Saving the hash's own record takes it out of both.

An assessment is its hash and its proof. The hash covers everything but the proof,
and the assessment's id is a prefix of it, so one model value stands for both.
Reading the state file is one step here, writing it another, and neither fails.
`JsonStateStore` opens these steps, with their errors, and shows that a save is atomic
for one writer; with several writers the server's own load-modify-write race is already
visible at this grain.

### PreflightPages

A page is what React keeps of it: the inputs (`form`), the result on display
(`shown`), an error (`failed`), the flags that disable buttons (`busy`) and, for each
of the three functions that may be under way, the request it waits for, what it
captured when it started and what came back (`calls`). A user reloads, edits an
input (which clears the result but stops nothing), or clicks run, record or verify,
each with the guard of its button. `Serve` is the server's answer to a request,
`Lose` a fetch that throws, and `Settle` the function going on: it shows what came
back, waits for the history and audit that it fetches last, and clears its flag in
`finally`. `ShowProof` puts the captured result back on display with its new proof.

The server's handlers are one step here; what its threads do to each other is
`PreflightServer`, whose operators on proofs are used through an `INSTANCE` with one
assessment object. `Restart` loads the file. The agent asks the MCP tool for a
pre-flight (`AgentAsks`), reads the latest assessment (`AgentReads`), and records
what it was told of at the HTTP endpoint that the tool
`record_assessment_projection` names (`AgentRecords`). It does not verify: verifying
a hash that is not the latest is the defect of `PageForeignProof`. A reload abandons
the requests that are out, as if each had been served before it or never will be.

### JsonStateStore

The file system is inodes with a text and two names, `<path>` and `<path>.tmp`.
`OpenTmp` creates or truncates, `WriteTmp` writes through the descriptor (a shorter
text leaves the tail of a longer one that another thread wrote), `Replace` renames
whatever the temporary name names by then. `LoadFails` is a read of the file that
raises: `load` answers with an empty state, and the save goes on from there and replaces
the file (`blind` until it has). `SaveFails` and `WriteFails` are the other errors; a
write may leave any part of its text, which is also what a crash in the
middle of a write leaves. A text is as long as its state has entries, and each
place of it remembers the state it came from: that is enough to tell a whole text
from a cut or mixed one.

### TradeGuard

A prompt is the sequence of its figures, with whether BTC or coverage is mentioned. A
figure has what its user means by it (a leverage, a margin, an amount, something else)
and the form in which it is written: `10x`, `60% of margin`, `60%`, a number by itself
(`10 times`, `60 percent`, `500 USD`) or glued to a letter (`x10`). The parser sees only
the forms: each of its patterns takes the first figure of a form that it knows
(`LeveragePlaces`, `MarginPlaces`, `AmountPlaces`, `Match`), and its quirks are kept (a
margin of two digits may be taken for the amount). What it passes over is `Overlooked`
in the property. Each of the three reads ends in
one of the adapter's ways. The score is computed in hundredths; Python's floats
agree with it for every whole leverage and margin in the range.

### CommitLedger

A commit call waits for the lock, looks its key up (`Hit`, `Miss`), reads the
nonce, sends, stores the record and releases the lock, and patches the rows.
`SendAccepted(.., heard)` is a transaction that the node accepts, with or without
the answer reaching the server; `SendFails` is every other end of an RPC call. A
verify call reads the ledger once under the lock, then the transaction, then the
receipt. The node keeps one pending transaction for each nonce of the server's
account; others (`ForeignSend`) send theirs, to the logger or elsewhere. Mined
transactions stay mined. A restart forgets the ledger and, unless the history is
in SQLite, the rows. Calldata that does not decode is one of the cases of a call
that is not the logger's (`mismatch`); a verifier without a configured endpoint or
contract answers `unknown`, as `ReadFails` does. One wallet's rows are modelled,
with a small cap. A scan is one step. Its id (`IdOf`) is that of its fixture or, for a
live scan, of its wallet, so that all live scans of the wallet share one (`WalletIds` in
the instances).

### Monitoring

All is about one wallet. `Assess` stands for the scan up to its assessment; then
the handler works through the stores, one step for each: `RecordPoint` (trend
store), `RecordRow` (history), `ReadTrend` (the history's trend, and from it the
candidates), `Evaluate` (takes the alert store's lock), and for each cause
`LookUp` and `OpenOrUpdate`, the SELECT and the UPDATE or INSERT of
`_open_or_update`; `Answer` releases the lock. A resolution is `Resolve` and
`MarkResolved`, under the same lock. `DatabaseFails` is a statement of SQLite that
raises: the transaction is undone, the lock is free and the caller has an error,
while what earlier transactions wrote stays. `CrashRestart` keeps the stores if
they are `durable` and empties them if they are in memory.

A scope is a chain id with a data mode; the history's trend keeps to one scope and
an alert's dedupe key does not name it. A cause is a dedupe key: a trend from one
assessment's hash to another's, a source that is unavailable or worse than before,
or a *signal*, which stands for the candidates that depend on the assessment alone
(active approvals, suspicious transfers, risky tokens, gaps in the data). The
order in which a scan's causes are stored is left open. The two stores differ in
what they drop beyond the cap (`Kept`) and in which alerts a write replaces
(`Touched`); everything else is written once for both.

### WalletScan and WalletRisk

A scan makes its transitions (`Begin`, `Weigh`, `Resume`, `Evaluate`,
`BindEvidence`, `Explain`) through `Transition`, which is `allow_transition` with
`ALLOWED_TRANSITIONS` and the step budget. Between the first two it calls seven
tools in a fixed order. Each way a tool may end is an action: from Moralis, from
the transfer history with the RPC node, from the configured tokens, or not at all.
`AfterMoralis`, `AfterIndexer` and `AfterHistory` are what a provider leaves behind
that raised: its source is partial, and evidence of the rows it read stays.
`Expire` is the deadline. It is looked at before each tool (`Skip` is
`deadline_unavailable`) and in three of the loops, which it ends early.

A wallet is what there is to read: tokens, logs of approvals and transfers. The
subject is what the adapter has gathered: `native` and `listed` are the balances
that the risk engine is given, `held` the merged `_balances`. A row is a record
with what the scores look at. Values are whole dollars, scores hundredths.
Configurations differ in which providers there are. A piece of evidence is named by
the row that it was made of, and `Unresolved` is the evidence of the bundle that the
lists of an answer have no row for (`_detail_resolution`). The suggested actions
follow from the risks, cite their evidence and are left out.

An indexer is read page by page (`Paginated`): until a page is not full, or up to
`MaxPages` pages. A page that is cut at the limit leaves any part of the rows unread,
and an answer that is no list is taken for an empty page (`live_adapters.py:262`);
the rows come from the pages that were read and `PageInfo` says whether the limit was
met by a full page, as `page_info` does. Moralis is asked for one page of each. That a
wallet has one log for each token and spender is an abstraction; the retries of HTTP are
part of one answer.

`WalletRisk` is `evaluate_wallet_risk` on such a scan: each `_score_*` is a score
and a risk with its evidence, confidence and capped impact; then the order, the
weighted sum, the floors and the decision. Fixtures are scans that a file gives;
the files are not in the repository, so the instances make up their own.

`Explain` is the workflow's own explanation, by rules. `ExplainCandidate` is
`POST /api/explain` with the scan's assessment and evidence and any text of a model
(`Candidates`), which may come any number of times: `WalletAdvice` says which claims
pass, and what is given out instead of those that do not. A claim's text is the type
of the risk that it repeats. The simulations are operators on the scores of an
assessment's parts and are checked in `FindingsNeverHelp`.

## 3. What TLC checks

| Run | Instance | Shows |
|---|---|---|
| `ServerOpen` | 2 threads, 2 hashes, 5 calls, arbitrary clients, crashes | `TypeOK`, `ProofsAreBacked`, `HistoryIsSound`, and the refinement `PromisesKept` (of `ProofBook`) |
| `ServerSerial` | 1 thread, 3 hashes, 2 transactions, 6 calls with any hash, every environment, crashes | `RestartIsFaithful`, `AckedIsDurable`, `ProofsMatchTheirAssessment` |
| `PagesOne` | 1 page, 2 hashes with an input each, 1 transaction, 3 environments, 5 inputs of the user and the agent, 1 restart or lost message | `TypeOK`, `ShownProofIsOwn`, `ShownIsDurable`, and the liveness property `EveryClickEnds` |
| `GuardAll` | prompts of up to 2 figures in 5 forms, values at and around the thresholds, all modes and read outcomes | `TypeOK`, `UnknownIsNotSafe`, `HardLimitsHold`, `NeverStricterForLess`, `ProposalHelps` |
| `StoreOneWriter` | 1 thread, 3 slots, 2 values, unbounded saves, errors of reading and writing, crashes | `TypeOK`, `ReturnedIsKept`, and the refinement `AtomicSaves` (of `AtomicStore`) |
| `CommitRace` | 2 commit calls, 1 verify call, 2 keys, 3 hashes of which 2 share an id, 2 transactions, 4 inputs, crashes | `TypeOK`, `RecordedIsBacked`, `VerifiedIdsAreOnChain`, and the refinement `Idempotent` (of `CommitBook`) |
| `CommitLive` | 2 commit calls, 1 verify call with any arguments, 3 inputs, an assessment with missing fields | `VerifiedIsMined`, and the liveness property `EveryCallReturns` |
| `MonitorScans` | 2 threads, 2 scopes, 3 results, SQLite and memory, 3 scans one after the other or 2 that overlap, errors and crashes | `TypeOK`, `TableIsSound`, `StoredStaysOpen`, `EverySightingCounts`, `IncreaseIsAlerted`, and the refinement `BookIsKept` (of `AlertBook`) |
| `ScanAll` | 5 wallets live under 24 configurations, every answer and failure, up to 2 pages of a history, the deadline anywhere; fixtures of up to 2 approvals and 2 transfers, with 4 portfolios, 4 coverages and 2 qualities of evidence; 6 texts of a model | `TypeOK`, `GapIsNotSafe`, `CoverageIsHonest`, `MaliciousPauses`, `HighIsActedOn`, `FindingsNeverHelp`, `NothingIsRefused`, `EvidenceHasItsRow`, `ExplanationIsGrounded` |
| `PageForeignProof` | violation | a user who verifies one assessment while the next is made sees the next one verified, with the first one's hash, after a reload |
| `StoreTwoWriters` | violation | two threads that share the temporary file publish a broken one |
| `CommitSharedId` | violation | verifying one scan's transaction marks another scan with its id, as any two live scans of a wallet have it |

**Bounds.** The servers are finite-state but for their inputs, so the instances
stop after `MaxCalls` accepted calls (`MCPreflightServer`) or `MaxInputs` inputs
from clients, other accounts and crashes (`MCCommitLedger`); everything that
follows an input runs to its end. In `MCPreflightServer` crashes are not counted.
Five calls with two threads are enough for pre-flight, record, another pre-flight,
verify, and one more call beside any of them; six with one thread add a re-run of
an assessment after its history entry was pushed out. In `ServerSerial` a call starts
when the one before has ended, and may name any hash: `misfiled` and `unsaved` both
become non-empty and are healed again within six calls. `HistoryCap` and `RowCap` are
2 (25 and 100 in the code), so that an entry is dropped within the bound. Four
inputs of `CommitRace` are two calls with one key and two with another, or a
commit, a scan, a verification and a crash. `StoreOneWriter` has no bound but
its constants. `GuardAll` takes leverages and margins at the hard limits and just below
(9, 10; 59, 60), beyond the clamps (0, 150) and in between, which
spread the score over all levels. Two figures are enough for one of them to be
overlooked for the other, and for a leverage with a margin.

`PagesOne` stops after 5 inputs and 1 fault (`MCPreflightPages`): run, record, a
changed input and another run fit, with the answers in any order and a restart or a
lost answer anywhere, and so do an agent's two steps beside them. With two inputs a
late answer finds the page on the other one. Two safety properties are proved for
any number of pages and inputs, and the proofs found two behaviours that need more
than 5 inputs (section 5): the properties name both as exceptions. `PageForeignProof` has 6 inputs (run, record, verify, another input, run,
reload) and no faults.

`MonitorScans` stops after 3 scans that do not overlap, or 2 that may
(`MCMonitoring`); resolutions, errors and crashes are not counted. Whether scans may
overlap is chosen in the initial state (`overlap` in `ScanOrder`). Three scans are a
first one, a worse one, and a third that sees the same again or differs once
more, with a resolution anywhere between; both caps are 2, so the third drops the
first. Two overlapping scans meet at every step of the stores, and the lock has
two threads to keep apart. The three results differ by score and level, by score
alone, and by a source that is down. `IncreaseIsAlerted` is about scans that do not
overlap, any of which may have failed or lost its answer: see section 5 for the
others.

`ScanAll` has no bound but its inputs. The wallets are one that is quiet, one with
an old unlimited approval that may have been revoked and a risky token, one with dust,
a token that is only in its history and a native balance that the indexer lists too, an
empty one, and one with an NFT's approval; each meets every configuration and every
subset of answers, in one page or two. The fixtures
put the scores on both sides of every floor (10, 50, 80 and 100 for approvals, 75
and 25 for transfers, 60 for yield), with evidence that caps an impact and without.
A live scan has no malicious spender, as the code asks nobody about spenders:
`MaliciousPauses` is about fixtures. The six texts are one without claims, with and
without a forbidden phrase; one that repeats the risk of the coverage, alone or with
the approval's; and two about the approval, with evidence that may be foreign and
with none.

**Deadlock** is checked where the server must always be able to go on (the
pre-flight server, the state file and, where it shows little because a crash is
always possible, the monitoring). It is off in `TradeGuard` and `WalletScan`, whose check
and scan end, and in the commit and page instances, which stop when their inputs are
used up.

**Symmetry** is declared in runs with invariants and step properties only;
`CommitLive` and `PagesOne`, with liveness properties, have none.

**Fairness.** `CommitLive` and `PagesOne` assume some. `CommitLive` has weak
fairness of `Proceed(t)` for each commit call. It says that a thread which can go on
does so. The code justifies it: handler threads are scheduled by the operating
system, the lock's holder only computes and makes RPC calls, and each RPC call ends,
by its answer or by `JsonRpcClient`'s timeout (`SendFails`). Weak fairness is enough
for a thread that waits for the lock because the inputs are bounded, so the lock is
free from some point on; with unboundedly many callers `threading.Lock` promises no
order, and nothing is claimed. `PagesOne` has weak fairness of `Advance(p, k)` for
each function of a page: its fetch ends, by an answer or by an error, and the
function goes on when it has. `fetch` is given no timeout, so this leans on the
browser and the network to end a connection one way or the other; nothing says that
it ends well. Nothing is assumed of the node, of users, of the agent or of crashes.

## 4. What is proved

TLAPS checks the following for every value of the constants: any number of
threads, calls, keys, hashes and transactions, unbounded inputs, any caps.

| Module | Theorems | Argument |
|---|---|---|
| `PreflightServer_proofs` | `TypeCorrect`, `HistorySound`, `AlwaysBacked`, `Refinement` | `TypeOK /\ Shape`: a handler holds the references that its next step dereferences. It is needed because `TypeOK` alone allows a step to use `None`. On top of it `SnapshotsAreSound` (a loaded state is a sound one, so is what is written back), and `ProofsAreBacked /\ AnswersAreBacked` with `confirmed` growing only |
| `PreflightServer_proofs` | with one call at a time `RestartFaithful`, `AckedStaysDurable`, `ProofsStayOwn` | `SerialInv`: a proof kept anywhere is that of its assessment unless the assessment is `misfiled` (`Owned`); a record call is about the latest assessment, or there is none, while a verification may be about any hash (`RecordsOwn`, `VerifiesKnown`); the file follows memory by how far the save has come (`FileFollows`), and every proof record in the file answers as the one in memory does, except those of `Lost` and the one that is on its way (`RecordsFollow`). With two handlers none of it holds: each could save over the other's half-made change |
| `PreflightPages_proofs` | `PagesTypeCorrect`, `ShownOwn`, `ShownDurable` | `Inv`: whatever a page shows, a function has captured or a request has brought back is *filed* (`Filed`: the file has a latest assessment, and a record wherever the page holds a transaction), which stays so because the file only gains records (`Keeps`); an answer is about the hash that its function captured at its start, not about what the page shows by now (`CallOK`, `ProofOf`); a record without a transaction is of the hash it is kept under (`PendingIsOwn`), and a hash whose last record call said recorded keeps its own transaction unless a verification of another hash replaces it (`Kept`) |
| `TradeGuard_proofs` | `TypeCorrect`, `UnknownBlocks`, `HardLimits`, `GuardMonotone`, `LevelsAgree`, `ProposalsHelp` | `Trace`: each intermediate result is the function of the request and the outcomes that computed it; the rest is arithmetic on the score, for all natural numbers and prompts of any number of figures. For `HardLimits`: a figure that is not overlooked is the one that its pattern matches, so it is the intent's |
| `JsonStateStore_proofs` | `TypeCorrect`, `NeverTruncated`; with one writer `OneWriterFileParses`, `OneWriterKeeps`, `OneWriterIsAtomic` | for any number of writers `NamesDiffer` (the two names are never one file); for one writer `Undisturbed`, how far a save has come, which ties the temporary file to the state being saved: that of the file with one slot changed, or of an empty one if the read failed (`Basis`) |
| `CommitLedger_proofs` | `TypeCorrect`, `AlwaysBacked`, `AlwaysMined`, `AlwaysAgree`, `VerifiedRowsStay`, `KeysAreIdempotent` | `Typed` (types and shapes of calls), then `Sound`: the lock's holder is the only call between lookup and store, its key is fresh, and the transaction it has sent is nobody else's. `Verifying` is stable because transactions only change their state and mined stays mined (`Grown`). `AnswersAreTold` and `SentIsTried` carry the refinement. `Own` carries `VerifiedRowsStay`: records, answers, verify calls and rows that name a transaction name the hash that it carries, and transactions only grow |
| `Monitoring_proofs` | `TypeCorrect`, `TableAlwaysSound`, `StoredAlwaysOpen`, `SightingsCount`, `Refinement`, `IncreasesAreAlerted` | `TypeOK /\ Shape` (what a call holds at each of its steps), then `Sound`: the lock has the one holder whose step says so (`Held`), and what a holder has found open by its SELECT is still open (`FoundIsOpen`). With these a write meets the table that the lookup saw, which gives `TableIsSound`, `StoredStaysOpen`, the step property and the refinement. For scans in order, `Order`: at most one call is scanning, the rows of the history are not later than its assessment, and from the reading of the trend on its causes contain those over the row before. `StoredStaysOpen` then gives `IncreaseIsAlerted` at the answer |
| `WalletScan_proofs` | `NoGapIsSafe`, `AlwaysPauses`, `AlwaysHonest`, `LessNeverScoresMore` | `IsOfSubject`: once there is an answer, it is the assessment of what was gathered, and gathering is over; so the first two and the last are facts about `Assess` for every scan. They rest on lemmas about the ten pieces of the list of risks: each is at most one risk, and all but the approvals' are *mild* (not critical, impact within 0 and 100), so that a critical approval comes first whatever else there is; and on the largest of a finite set of scores growing with the set. `AlwaysHonest` goes by the tools: each one that ends has read what it marks available, or has left page coverage that tells of more or an empty last page (`AllRead`), and leaves the earlier marks as they are |
| `WalletAdvice_proofs` | `HighIsActed`, `AlwaysGrounded` | `HighIsTold`: a level of High or Critical has a finding behind it that ranks above 2025 (severity first, then impact), and no gap ranks higher than that, so a gap is never the first risk (`HighDecides`). For the levels without a floor this is arithmetic: without a finding of 50 or more the weighted score stays below 45. The three top risks exist because the order of risks is total and a finite set has a minimal initial segment (`SomeIsFirst`, `PlacesAreTaken`). `IsBound` carries the evidence of every risk to the claims |
| `WalletAdvice_proofs` | `NeverRefused`, `RowsForEvidence`, `ScanTypeCorrect` | `IsGathered(subject, n, cut)`, what the data are like when tool `n` is the next: each row cites evidence that is there (`IsCited`), no identifier names two items (`IsWhole`), and evidence of a balance, an approval or a transfer has its row as far as the coverage claims (`BalancesHaveRows`, `ApprovalsHaveRows`, `TransfersHaveRows`; before its tool a field is not available and has no evidence). There is one lemma per tool, and they share what they are made of: `Adds` (an item is not replaced), `Leaves` (what a provider that failed leaves behind) and `Reads` or `Finds` (the rows take their place). From `IsCited` every one of the ten risks has evidence (`BackedIsBound`), which for the largest balance needs that a finite set of numbers has a greatest. `IsInSteps` counts the transitions that lead to each state |

The assumptions are those that the modules state: `None` differs from every value,
caps are positive, `Slots` is finite, `IdOf` is a function. `AlwaysHonest` also
assumes `NoneIsNoExposure`, that `None` is not one of the records of an exposure.
`WalletsAssumption` says that a wallet's tokens are finitely many, of whole values, and
that each token, approval and transfer is there once; `FixturesAssumption` says of a
fixture what `TypeOK` says of a live scan. `NeverRefused` assumes `StepsOfScan`, a
budget of six transitions or more (it is 10), and `FixturesAreBound`, that no claim about
a fixture is without evidence: of a live scan that is proved, of a data file it can only
be looked up. `KeysAreIdempotent` also assumes `Complete = Hashes`, that every assessment has the fields that are
read after the send, as those of the scan do. `VerifiedRowsStay` assumes `OwnOnly`, that
a verify call names the assessment that its transaction carries; ids may be shared in any
way, and what it says is about ids (`CommitSharedId` shows what is lost by that).
`VerdictAssumption` says that `None` is not a verdict. The `OneWriter*` theorems assume at
most one thread that saves, and `RestartFaithful`, `AckedStaysDurable` and
`ProofsStayOwn` assume `OneAtATime`, one thread: the next call starts when the one before
has ended. Which hashes the calls name is left open. `LatestAssumption` says that `None` is not the name of
the one assessment object that `PreflightPages` has. `LEMMA FirstIsIn`, that a
non-empty set of indices has a smallest, is proved from the finiteness of its
initial segments.

Four theorems state what no passing run lists, because the run's other properties say
more: `LevelsAgree` (the level shown agrees with the decision), `NeverTruncated` (the
file under its name is never emptied), `OneWriterFileParses`, and `AlwaysAgree`
(answers to one key agree).

Only model-checked:

- the liveness properties `EveryCallReturns` and `EveryClickEnds`, which are out of
  the prover's reach;
- what the violation runs refute: a counterexample needs no proof.

## 5. Where code and documents part

The three violation runs are in `PROJECT.json` under `findings`. Seen while
modelling, without a run of its own:

- A record call made while there is no latest assessment is answered `recorded`
  and never saved (`server.py:198`; `docs/day7_persistent_state.md:24`).
  `AckedIsDurable` and `RestartIsFaithful` name such hashes (`unsaved`) as an
  exception. An agent can make that call: the MCP pre-flight makes an assessment that the server does not keep (`server.py:162`), and
  a record call for it is refused, unless there is no latest assessment at all.
- The agent card's policy is "max autonomous leverage 3x, max margin usage 20%"
  (`fixtures.py:523`), and the decision looks only at the score: 4x with 5% margin,
  or 1x with 50%, is allowed.
- The proposal's `riskAfter` is 24 or 38, so it may exceed the score of a trade
  that is allowed anyway (`fixtures.py:269`). `ProposalHelps` is about the others.
- A mode that the adapters do not know reads fixtures and is labelled live
  (`fixtures.py:342`), as the label follows from mode and coverage alone.
- An explicit `assessment_hash` takes the place of the local record's hash, and the
  answer still names the local record (`mantlelens/server.py:685`).
- An assessment without a field that `ledger.py:54` reads loses the record of a
  transaction that is out, and the retry sends another. `CommitLive` has such an
  assessment; `Idempotent` is checked for complete ones.
- A key that was used for one assessment answers with it for any other.
- A commit made while the server's earlier transaction is pending uses the same
  nonce (`onchain.py:570` asks for the latest count) and may replace it; the first
  record stays `recorded` and its transaction is never mined.
- Two calls at once, from two pages or from one whose run overlaps a verification:
  each save rewrites the whole state file from what it loaded, so one may undo the
  other's (`persistence.py:54`), and one may attach its proof to the other's
  assessment (`server.py:199`). `ServerSerial` has one call at a time.
- A state file that is there and cannot be read is taken for an empty one, and the save
  that asked writes that over it (`persistence.py:26`): every other slot is lost. Saves
  that returned survive everything but this; `ReturnedIsKept` and `AtomicSaves` name it
  as their one exception.
- The guard's parser reads the first figure of the forms that it knows
  (`parser.py:76`, `87`). "2x, at most 10x", "x10", "10 times" and "60 percent" are
  assessed as 2x or as the default of 1x or 10%, with a warning of the default in the
  intent and none where another figure was read. `HardLimitsHold` is about the figures
  that are not overlooked.
- Two scans of a wallet that overlap may each compare itself with a row that is not
  its predecessor when they are answered, so an increase may have no alert
  (`workflows.py:125`).
- An alert's dedupe key leaves out the chain and the data mode (`alerts.py:546`), so
  a cause seen on one chain counts on an alert that names another.
- The history of alerts is cut to its limit before it is filtered
  (`alerts.py:192`), so a filter may return fewer than there are.
- The approval of a non-fungible token has the topic of an ERC-20 one and no data:
  `_hex_to_int("0x")` raises outside of the handlers for a provider's errors, and
  the scan of such a wallet fails (`live_adapters.py:736`, the action
  `ApprovalsCrash`).
- Transfers that the deadline cut short are still reported available
  (`live_adapters.py:912`, `965`). `CoverageIsHonest` names this as an exception.
- A history that is cut at its page limit is reported available as well
  (`live_adapters.py:804`, `866`, `965`); the page coverage beside it has `hasMore`. Two
  more cases are told nowhere: an inventory of Moralis has no page coverage, though it
  is cut at 100 tokens (`live_adapters.py:194`, `604`), and an indexer's answer that is
  no list is taken for an empty page (`live_adapters.py:262`). `CoverageIsHonest` says
  so in its alternatives.
- `activeAllowanceConfirmation` is that of the last approval that was asked for
  (`live_adapters.py:745`), and a read of a configured token that fails leaves no
  mark (`live_adapters.py:1146`), as the coverage is partial anyway.
- An approval found live has no value in dollars (`live_adapters.py:763`), so an
  unlimited one to an unknown spender scores 10 and never the 80 of `risk.py:266`,
  and one whose allowance could not be confirmed counts as active.
- `riskLevelV2` is the level of the score alone, without the floors
  (`risk.py:156`).
- A level that is Critical by its score alone does not pause: `decisionType` looks
  at the first risk only. `HighIsActedOn` says that it is acted on all the same.
- Every live scan is partial (`defiPositions` is never read) and has undated
  evidence.
- The answer to a verification names the caller's
  transaction (`proof.py:171`); an outcome without a commit stores a record without
  a hash (`ledger.py:128`); a later local commit clears a row's transaction and
  keeps its verification (`history_store.py:522`).

The page (`PreflightPages`):

- The inputs stay open while a function waits, and run is not disabled while the
  page restores, so a late answer brings a cleared or an older result back on
  display (`App.tsx:684`). The page warns only when the *mode* differs.
- After a record call that was answered `pending`, the page offers neither record
  nor verify.
- A record call is not idempotent: its `idempotencyKey` is stored and never looked
  at, and a repetition without a configured transaction turns `recorded` into
  `pending` (`proof.py:88`). `ShownIsDurable` is about hashes whose last record call
  said `recorded`.
- The history and audit that a function fetches last may be older than those on
  display, and the audit endpoint ignores the assessment that the page names.
- A verification of one hash that is served while another assessment is the latest
  rewrites the file's proof of the latest hash (`server.py:208`). One page can bring
  it about: verify, change the input before the answer is shown, run, record. The
  page may go on showing the second result as recorded while the file names the
  first one's hash under it, and after a restart verifying the second is a mismatch.
  It takes more inputs than `PagesOne` has; the proofs of `ShownOwn` and
  `ShownDurable` could not be completed without naming it. `ShownIsDurable` is about
  hashes that no such verification has replaced, and `ShownProofIsOwn` about proofs
  that the page does not call mismatched.

Alerts (`Monitoring`):

- An alert's id is the hash of its dedupe key, so when the cause of a resolved alert
  is seen again, `INSERT OR REPLACE` overwrites the resolved row (`alerts.py:286`).
  The in-memory store keeps both.

Scan, explanation and simulation (`WalletScan`, `WalletAdvice`):

- The guard lets a model's text pass that makes no claim at all, and takes any
  evidence of the bundle for any risk (`llm_guard.py`); the rules' fallback reports
  its own claim guard as passed in every case. `ExplanationIsGrounded` therefore says
  only of the fallback that it leaves out no risk, and of a model's answer only what the claims
  that it lists say: its prose is screened for eight phrases (`llm_guard.py:35`).
- `POST /api/explain` explains the assessment and evidence that the client sends,
  and does not compare them with a scan.
- When an indexer lists the native token, the native balance's evidence has no row
  of its own, and the answer counts it as not resolved although everything was read.
  `EvidenceHasItsRow` lets a row of the same token stand for it. Evidence of
  transfers that Moralis gave before it failed stays, too, when the deadline cuts
  the next provider short.
- A simulation has no floors: a wallet that is at 85 by the floor of a critical
  approval may be simulated far below, though the approval is still there.

## 6. What is left

The order was: first what concurrent handlers and crashes can do to a proof
(`PreflightServer`, `JsonStateStore`), then the decision that all is about
(`TradeGuard`), the on-chain commit (`CommitLedger`), the stores of a scan
(`Monitoring`), the scan itself (`WalletRisk`, `WalletScan`, `WalletAdvice`), and the
clients of the first server (`PreflightPages`). What could follow:

1. `ScanHistory`: pagination, outcome patches, and the SQLite store against the
   in-memory one; then `CommitLedger`, `Monitoring` and `WalletScan` composed with
   it, so that the results of a scan are those of `WalletRisk`. The two stores differ
   already in what they prune by (insertion or timestamp), and a listing applies its
   limit before its filter.
2. The rest of the workflow: readiness to commit, the benchmark, and the repeat
   limit, which only other callers can meet.
3. Proofs: that `PreflightServer` with one call at a time implements an atomic proof register.

## 7. What is not modelled

Parsing of providers' payloads, ABI and RLP encoding, wording, layout and explorer
links (data without control); the agent card, and the MCP tools that only read a
source; the enhancement endpoints, each of which answers one request from its payload
and one provider call and keeps nothing; Mantle's protocol dispatch and analytics
(no state); what the page fetches for its History and Audit tabs, and the Mantle
client's presentation, which `App.tsx` does not import; the demo token and the
deployment scripts (not called by the program); a chain reorganisation (`onchain.py`
asks for no confirmations, and the model lets mined transactions stay mined); clocks
and timestamps; the truth of an Injective transaction, which the code never looks at.
