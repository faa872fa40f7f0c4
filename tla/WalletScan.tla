----------------------------- MODULE WalletScan -----------------------------
(***************************************************************************)
(* One guarded wallet scan of MantleLens, up to its assessment: the        *)
(* workflow under its transition table (workflows.py, policy.py) and the   *)
(* live adapter's reads, each with its fallbacks (live_adapters.py).       *)
(*                                                                         *)
(* A read of a provider answers or raises, and the scan's deadline may     *)
(* pass at any time.  What is there to read is a wallet; an answer gives   *)
(* the pages of it that the limits allow, and an answer that is no list is *)
(* taken for an empty page.  A wallet holds one token of each symbol at    *)
(* most, the native one has no address, and each provider has evidence of  *)
(* its own for a balance.  Fixtures are data files, read in one step.      *)
(* The inventory and the history of a live scan show the rows that the     *)
(* subject keeps; page views and the trace are left out.  A tool is called *)
(* once in a scan, so the limit on repeated calls is never met.            *)
(***************************************************************************)
EXTENDS WalletAdvice

CONSTANTS
    Wallets,     \* wallets to be scanned live
    Configs,     \* which providers are configured
    Fixtures,    \* scans that a fixture file gives
    Candidates,  \* explanations that a client has from a language model
    MaxPages,    \* pages that are asked of the indexer (HistoryPageOptions.max_pages)
    MaxSteps     \* PolicyEngine.max_steps (10)

Config == [rpc : BOOLEAN, etherscan : BOOLEAN, moralisBalances : BOOLEAN,
           moralisHistory : BOOLEAN, knownTokens : BOOLEAN]

ASSUME ConfigsAssumption ==
    Configs \subseteq Config /\ MaxPages \in Nat \ {0} /\ MaxSteps \in Nat

\* What there is to read of a wallet is finite, and each token, pair of a token
\* and a spender, and transfer is there once.
ASSUME WalletsAssumption ==
    \A w \in Wallets :
        /\ IsFiniteSet(w.tokens)
        /\ \A t \in w.tokens : t.value \in Nat
        /\ \A t, u \in w.tokens : t.token = u.token => t = u
        /\ \A a, b \in w.logs : a.pair = b.pair => a = b
        /\ \A a, b \in w.transfers : a.id = b.id => a = b

ASSUME FixturesAssumption ==
    \A s \in Fixtures :
        /\ s.completeness \in [Fields -> Coverages]
        /\ \A a, b \in s.evidence : a.id = b.id => a = b
        /\ \A a, b \in s.held : a.token = b.token => a = b

Tools == <<"getNativeBalance", "getKnownTokenBalances", "getTokenApprovals",
           "getTransferLogs", "getTokenPrices", "getTokenSecurity",
           "getRwaYieldExposure">>

SourceNames == {"mantleRpc", "goPlus", "moralis", "etherscanV2"}

\* ALLOWED_TRANSITIONS of the states that a scan may be in
Moves == [from \in {"INIT", "DATA_GATHERING", "PARTIAL_OR_UNKNOWN",
                    "RISK_EVALUATING", "EVIDENCE_BINDING", "EXPLAINING",
                    "SIMULATION_READY"} |->
    CASE from = "INIT" -> {"DATA_GATHERING", "FAILED_RETRYABLE"}
      [] from = "DATA_GATHERING" ->
            {"RISK_EVALUATING", "PARTIAL_OR_UNKNOWN", "FAILED_RETRYABLE"}
      [] from = "PARTIAL_OR_UNKNOWN" -> {"RISK_EVALUATING", "EXPLAINING"}
      [] from = "RISK_EVALUATING" -> {"EVIDENCE_BINDING", "FAILED_RETRYABLE"}
      [] from = "EVIDENCE_BINDING" -> {"EXPLAINING", "PARTIAL_OR_UNKNOWN"}
      [] from = "EXPLAINING" -> {"SIMULATION_READY", "FAILED_RETRYABLE"}
      [] from = "SIMULATION_READY" -> {"SIMULATING", "READY_TO_COMMIT"}]

VARIABLES
    config,   \* which providers are configured
    wallet,   \* the wallet, or None for a fixture
    state,    \* the runner's state; or how it failed: "refused" by the policy,
              \* "unbound" claims, "crashed" by an exception that nobody expects
    steps,    \* transitions made
    at,       \* the next tool
    expired,  \* the scan's deadline has passed
    subject,  \* what the adapter has gathered
    answer,   \* the assessment
    told      \* the explanation that was given out last

vars == <<config, wallet, state, steps, at, expired, subject, answer, told>>

Failures == {"refused", "unbound", "crashed"}

TypeOK ==
    /\ config \in Configs
    /\ wallet \in Wallets \cup {None}
    /\ state \in DOMAIN Moves \cup Failures
    /\ steps \in 0 .. MaxSteps
    /\ at \in 1 .. Len(Tools) + 1
    /\ expired \in BOOLEAN
    /\ subject # None =>
          /\ subject.completeness \in [Fields -> Coverages]
          /\ \A a, b \in subject.evidence : a.id = b.id => a = b
          /\ \A a, b \in subject.held : a.token = b.token => a = b
    /\ answer # None =>
          answer.score \in 0 .. 10000 /\ answer.level \in Range(Severities)
    /\ told # None =>
          /\ told.mode \in {"rule_fallback", "llm_guarded"}
          /\ \A c \in told.claims : c.type \in RiskTypes

-----------------------------------------------------------------------------
(* The subject of a scan.                                                  *)

\* source_snapshot
Configured(c) ==
    [s \in SourceNames |->
        IF \/ s = "mantleRpc" /\ c.rpc
           \/ s = "goPlus"
           \/ s = "moralis" /\ (c.moralisBalances \/ c.moralisHistory)
           \/ s = "etherscanV2" /\ c.etherscan
        THEN "available" ELSE "unavailable"]

Evidence(kind, of, quality, age) ==
    [id |-> <<kind, of>>, quality |-> quality, age |-> age]

\* What is read by pages.
Paged == {"tokens", "approvals", "transfers"}

LiveSubject ==
    [mode |-> "live",
     completeness |-> [f \in Fields |->
         IF f \in {"spenderLabels", "tokenSecurity", "rwaYieldExposure"}
         THEN "partial" ELSE "unavailable"],
     sources |-> Configured(config),
     evidence |-> {Evidence("rule", None, "fresh", "recent")},
     native |-> {}, held |-> {}, listed |-> {}, approvals |-> {},
     transfers |-> {}, tokens |-> {}, exposure |-> None,
     pages |-> [kind \in Paged |-> None]]

\* What the risk engine sees of it.
Scan(s) == [mode |-> s.mode, completeness |-> s.completeness,
            sources |-> s.sources, evidence |-> s.evidence,
            balances |-> s.native \cup s.listed, approvals |-> s.approvals,
            transfers |-> s.transfers, tokens |-> s.tokens, exposure |-> s.exposure]

Covered(s, fields, coverage) ==
    [s EXCEPT !.completeness = [f \in Fields |-> IF f \in fields THEN coverage
                                                                 ELSE @[f]]]

Source(s, name, status) == [s EXCEPT !.sources[name] = status]

\* An item of evidence that is there already is not replaced.
AddEvidence(s, items) ==
    [s EXCEPT !.evidence =
        @ \cup {e \in items : \A old \in @ : old.id # e.id}]

Balance(by, token, symbol, value) ==
    [token |-> token, symbol |-> symbol, value |-> value,
     id |-> <<"balance", <<by, token>>>>, status |-> "available"]

\* The rows of some tokens as a provider tells them.
Rows(by, tokens) == {Balance(by, t.token, t.symbol, t.value) : t \in tokens}

BalanceEvidence(rows) == {Evidence("balance", r.id[2], "fresh", "recent") : r \in rows}

\* Broken: the rows of a provider take the place of all that was read before.
HoldLast(s, items) == [s EXCEPT !.listed = items, !.held = items]

\* Broken: a row that is held already is not replaced.
HoldBoth(s, items) == [s EXCEPT !.listed = items, !.held = @ \cup items]

\* _merge_balances
Hold(s, items) ==
    [s EXCEPT !.listed = items,
              !.held = {b \in @ : \A i \in items : i.token # b.token} \cup items]

HeldTokens(s) == {b \in s.held : b.token # None}

\* A history is read page by page, until a page is not full or the limit is met:
\* some of its rows, how many pages were asked for, and how the last one came.  A
\* page that is not full and not empty is the last there is.
Paginated(all, limit) ==
    {page \in [rows : SUBSET all, fetched : 1 .. limit, last : {"full", "short", "empty"}] :
        /\ page.last = "full" => page.fetched = limit
        /\ page.last = "short" => page.rows = all
        /\ page.last = "empty" /\ page.fetched = 1 => page.rows = {}}

\* Broken: one page too many is waited for.
PageInfoOffByOne(page, limit) ==
    [hasMore |-> page.fetched > limit /\ page.last = "full", last |-> page.last]

\* page_info: the reader is told of more.
PageInfo(page, limit) ==
    [hasMore |-> page.fetched = limit /\ page.last = "full", last |-> page.last]

\* _pageCoverage; of the tokens only the length of the inventory is there to see.
Paging(s, kind, info) == [s EXCEPT !.pages[kind] = info]

\* _row_evidence_ids of the inventory, the approvals and the transfers
RowIds(s) ==
    {b.id : b \in s.held} \cup {<<"approval", a.log.pair>> : a \in s.approvals}
        \cup {t.id : t \in s.transfers}

\* _detail_resolution: evidence that no row of its panel shows.
Unresolved(s) ==
    {e \in s.evidence :
        /\ e.id[1] \in {"balance", "approval", "transfer"}
        /\ e.id \notin RowIds(s)}

-----------------------------------------------------------------------------
Init ==
    /\ config \in Configs
    /\ wallet \in Wallets \cup {None}
    /\ state = "INIT"
    /\ steps = 0
    /\ at = 1
    /\ expired = FALSE
    /\ subject = None
    /\ answer = None
    /\ told = None

\* allow_transition, and the runner's _transition
Transition(to) ==
    IF to \in Moves[state] /\ steps < MaxSteps
    THEN state' = to /\ steps' = steps + 1
    ELSE state' = "refused" /\ UNCHANGED steps

\* A scan begins; a fixture is read at once.
Begin ==
    /\ state = "INIT"
    /\ Transition("DATA_GATHERING")
    /\ IF wallet = None
       THEN \E s \in Fixtures : subject' = s /\ at' = Len(Tools) + 1
       ELSE subject' = LiveSubject /\ UNCHANGED at
    /\ UNCHANGED <<config, wallet, expired, answer, told>>

\* The scan's deadline passes.
Expire ==
    /\ state = "DATA_GATHERING"
    /\ wallet # None
    /\ ~expired
    /\ expired' = TRUE
    /\ UNCHANGED <<config, wallet, state, steps, at, subject, answer, told>>

Gathering(tool) ==
    /\ state = "DATA_GATHERING"
    /\ at <= Len(Tools)
    /\ Tools[at] = tool

\* The tool ends with this subject; it may have stopped at the deadline.
ToolEnds(s, cut) ==
    /\ subject' = s
    /\ expired' = cut
    /\ at' = at + 1
    /\ UNCHANGED <<config, wallet, state, steps, answer, told>>

\* The tool is called in time.
InTime(tool) == Gathering(tool) /\ ~expired

ToolFields == [tool \in Range(Tools) |->
    CASE tool = "getNativeBalance"      -> {"nativeBalance"}
      [] tool = "getKnownTokenBalances" -> {"knownTokenBalances", "fullTokenInventory"}
      [] tool = "getTokenApprovals"     -> {"approvalEvents", "activeAllowanceConfirmation"}
      [] tool = "getTransferLogs"       -> {"transferLogs", "transactionHistory"}
      [] tool = "getTokenSecurity"      -> {"tokenSecurity"}
      [] tool = "getRwaYieldExposure"   -> {"rwaYieldExposure"}
      [] OTHER                          -> {}]

ToolSources == [tool \in Range(Tools) |->
    CASE tool = "getNativeBalance"      -> {"mantleRpc"}
      [] tool = "getKnownTokenBalances" -> {"mantleRpc", "moralis", "etherscanV2"}
      [] tool = "getTokenApprovals"     -> {"mantleRpc", "etherscanV2"}
      [] tool = "getTransferLogs"       -> {"moralis", "etherscanV2"}
      [] tool = "getTokenSecurity"      -> {"goPlus"}
      [] OTHER                          -> {}]

\* After the deadline a tool is not called; deadline_unavailable
Skip ==
    \E tool \in Range(Tools) :
        /\ Gathering(tool)
        /\ expired
        /\ ToolEnds([subject EXCEPT
              !.completeness = [f \in Fields |->
                  IF f \in ToolFields[tool] /\ @[f] # "unavailable"
                  THEN "partial" ELSE @[f]],
              !.sources = [s \in SourceNames |->
                  IF s \in ToolSources[tool] /\ @[s] # "unavailable"
                  THEN "partial" ELSE @[s]]], TRUE)

-----------------------------------------------------------------------------
(* The tools.                                                              *)

GetNativeBalance ==
    LET item == Balance("rpc", None, "MNT", 0)
    IN  /\ InTime("getNativeBalance")
        /\ \/ ~config.rpc /\ ToolEnds(subject, FALSE)
           \/ config.rpc /\ ToolEnds(Source(subject, "mantleRpc", "partial"), FALSE)
           \/ /\ config.rpc
              /\ ToolEnds(AddEvidence(
                     Source(Covered([subject EXCEPT !.native = {item}, !.held = {item}],
                                    {"nativeBalance"}, "available"),
                            "mantleRpc", "available"),
                     BalanceEvidence({item})), FALSE)

BalanceFields == {"knownTokenBalances", "fullTokenInventory"}

\* One page; that there are more tokens than its limit of 100 is not told.
BalancesFromMoralis ==
    /\ InTime("getKnownTokenBalances")
    /\ config.moralisBalances
    /\ \E page \in Paginated(wallet.tokens, 1) :
          LET items == Rows("moralis", page.rows)
              s == Paging(subject, "tokens", [hasMore |-> FALSE, last |-> page.last])
          IN ToolEnds(AddEvidence(
                 Source(Covered(Hold(s, items), BalanceFields, "available"),
                        "moralis", "available"),
                 BalanceEvidence(items)), FALSE)

\* The subject when Moralis is not asked, or has raised: evidence of the rows
\* before the one that was not understood stays.
AfterMoralis ==
    IF config.moralisBalances
    THEN {Source(AddEvidence(subject, BalanceEvidence(read)), "moralis", "partial") :
             read \in SUBSET Rows("moralis", wallet.tokens)}
    ELSE {subject}

AsksIndexer == config.rpc /\ config.etherscan

\* ... and when the indexer is not asked either, or has raised.
AfterIndexer ==
    IF AsksIndexer THEN {Source(s, "etherscanV2", "partial") : s \in AfterMoralis}
                   ELSE AfterMoralis

\* Each token of the first pages of the transfer history, 250 at most, is asked
\* for its balance, until the deadline; a balance that is not read leaves its
\* mark.  Nothing has a price.
BalancesFromTransfers ==
    /\ InTime("getKnownTokenBalances")
    /\ AsksIndexer
    /\ \E s \in AfterMoralis, candidates \in SUBSET {t.token : t \in wallet.transfers} :
          \E asked \in SUBSET candidates :
              \E answered \in SUBSET asked :
                 LET items == {Balance("transfers", t.token, t.symbol, 0) :
                                  t \in {t \in wallet.tokens : t.token \in answered}}
                     missing == {Evidence("balance", <<"error", t>>, "missing", "recent") :
                                    t \in asked \ answered}
                     cut == asked # candidates
                     read == IF cut THEN Source(s, "mantleRpc", "partial") ELSE s
                 IN ToolEnds(AddEvidence(
                        Source(Covered(Hold(read, items), BalanceFields, "partial"),
                               "etherscanV2", "available"),
                        BalanceEvidence(items) \cup missing), cut)

\* The configured tokens, until the deadline; one that is not read is skipped.
BalancesFromAllowlist ==
    LET known == {t \in wallet.tokens : t.known}
    IN  /\ InTime("getKnownTokenBalances")
        /\ config.rpc /\ config.knownTokens
        /\ \E s \in AfterIndexer, answered \in SUBSET known, cut \in BOOLEAN :
              LET items == Rows("allowlist", answered)
                  read == IF cut THEN Source(s, "mantleRpc", "partial") ELSE s
              IN ToolEnds(AddEvidence(
                     Covered(Hold(read, items), BalanceFields, "partial"),
                     BalanceEvidence(items)), cut)

BalancesUnavailable ==
    /\ InTime("getKnownTokenBalances")
    /\ ~(config.rpc /\ config.knownTokens)
    /\ \E s \in AfterIndexer : ToolEnds(s, FALSE)

\* A log is of a pair of a token and a spender, and tells the first allowance
\* that the spender was given; the RPC node tells what is left of it.  Nobody
\* knows spenders or prices.
ApprovalOf(log, confirmed) ==
    LET allowance == IF confirmed THEN log.now ELSE log.first
    IN  [active |-> allowance # "none", unlimited |-> allowance = "unlimited",
         labelled |-> FALSE, malicious |-> FALSE, usd |-> 0, status |-> "available",
         log |-> log,
         cites |-> {<<"approval", log.pair>>} \cup
                   {b.id : b \in {b \in subject.held : b.token = log.token}}]

ApprovalEvidence(log, confirmed) ==
    Evidence("approval", log.pair, IF confirmed THEN "fresh" ELSE "stale", log.age)

GetTokenApprovals ==
    /\ InTime("getTokenApprovals")
    /\ config.etherscan
    /\ \E page \in Paginated(wallet.logs, MaxPages) :
        LET logs == page.rows
        IN  /\ \A log \in logs : ~log.nft
            /\ \E confirmed \in IF config.rpc THEN SUBSET logs ELSE {{}} :
              \E active \in
                    CASE logs = {} -> {"partial"}
                      [] logs # {} /\ ~config.rpc -> {"unavailable"}
                      [] OTHER -> {IF log \in confirmed THEN "available" ELSE "partial" :
                                      log \in logs} :
                 ToolEnds(AddEvidence(
                     Source(Covered(Covered(
                         [Paging(subject, "approvals", PageInfo(page, MaxPages)) EXCEPT !.approvals =
                             {ApprovalOf(log, log \in confirmed) : log \in logs}],
                         {"approvalEvents"}, "available"),
                         {"activeAllowanceConfirmation"}, active),
                         "etherscanV2", "available"),
                     {ApprovalEvidence(log, log \in confirmed) : log \in logs}), FALSE)

ApprovalsUnavailable ==
    /\ InTime("getTokenApprovals")
    /\ ToolEnds(IF config.etherscan THEN Source(subject, "etherscanV2", "partial")
                                    ELSE subject, FALSE)

\* The approval of a non-fungible token has the same topic and no data, which
\* _hex_to_int does not understand when it is on a page.
ApprovalsCrash ==
    /\ InTime("getTokenApprovals")
    /\ config.etherscan
    /\ \E log \in wallet.logs : log.nft
    /\ state' = "crashed"
    /\ UNCHANGED <<config, wallet, steps, at, expired, subject, answer, told>>

TransferEvidence(transfers) ==
    {Evidence("transfer", t.id, "fresh", t.age) : t \in transfers}

\* Transfers as a provider tells them; only Etherscan's are looked at for dust.
TransferRows(transfers, judged) ==
    {[id |-> <<"transfer", t.id>>, status |-> "available",
      kind |-> IF judged THEN t.kind ELSE "token_transfer"] : t \in transfers}

\* One page of the history.
TransfersFromMoralis ==
    /\ InTime("getTransferLogs")
    /\ config.moralisHistory
    /\ \E page \in Paginated(wallet.transfers, 1) :
          LET rows == page.rows
              s == Paging(subject, "transfers", PageInfo(page, 1))
          IN ToolEnds(AddEvidence(
                 Source(Covered(Covered(
                     [s EXCEPT !.transfers = TransferRows(rows, FALSE)],
                     {"transferLogs"}, IF rows = {} THEN "partial" ELSE "available"),
                     {"transactionHistory"}, "partial"), "moralis", "available"),
                 TransferEvidence(rows)), FALSE)

AfterHistory ==
    IF config.moralisHistory
    THEN {Source(AddEvidence(subject, TransferEvidence(read)), "moralis", "partial") :
             read \in SUBSET wallet.transfers}
    ELSE {subject}

\* Broken: a transfer's evidence is not kept.
TransfersWithoutEvidence ==
    /\ InTime("getTransferLogs")
    /\ config.etherscan
    /\ \E s \in AfterHistory :
          ToolEnds(Source(Covered(Covered(
              [s EXCEPT !.transfers = TransferRows(wallet.transfers, TRUE)],
              {"transferLogs"}, "available"),
              {"transactionHistory"}, "partial"), "etherscanV2", "available"), FALSE)

\* Until the deadline; what was left out by then is not told of.
TransfersFromEtherscan ==
    /\ InTime("getTransferLogs")
    /\ config.etherscan
    /\ \E s \in AfterHistory, page \in Paginated(wallet.transfers, MaxPages) :
          \E read \in SUBSET page.rows :
              ToolEnds(AddEvidence(
                  Source(Covered(Covered(
                      [Paging(s, "transfers", PageInfo(page, MaxPages)) EXCEPT
                          !.transfers = TransferRows(read, TRUE)],
                      {"transferLogs"}, "available"),
                      {"transactionHistory"}, "partial"), "etherscanV2", "available"),
                  TransferEvidence(read)), read # page.rows)

TransfersUnavailable ==
    /\ InTime("getTransferLogs")
    /\ \E s \in AfterHistory :
          ToolEnds(IF config.etherscan THEN Source(s, "etherscanV2", "partial") ELSE s,
                   FALSE)

\* Prices are those that came with the balances.
GetTokenPrices == InTime("getTokenPrices") /\ ToolEnds(subject, FALSE)

\* GoPlus knows some of the tokens.
GetTokenSecurity ==
    LET held == {t \in wallet.tokens : \E b \in HeldTokens(subject) : b.token = t.token}
    IN  /\ InTime("getTokenSecurity")
        /\ \/ held = {} /\ ToolEnds(subject, FALSE)
           \/ held # {} /\ ToolEnds(Source(subject, "goPlus", "partial"), FALSE)
           \/ /\ held # {}
              /\ \E known \in SUBSET held :
                    ToolEnds(AddEvidence(
                        Source(Covered(
                            [subject EXCEPT !.tokens =
                                {[id |-> <<"security", t.token>>,
                                  security |-> CASE t \notin known -> "unknown"
                                                 [] t \in known /\ t.risky -> "risky"
                                                 [] OTHER -> "known"] : t \in held}],
                            {"tokenSecurity"},
                            IF known = {} THEN "partial" ELSE "available"),
                            "goPlus", "available"),
                        {Evidence("security", t.token,
                                  IF t \in known THEN "fresh" ELSE "missing", "recent") :
                            t \in held}), FALSE)

YieldTokens == {"mETH", "cmETH", "mUSD", "USDY"}

\* A share of a total in hundredths of a percent, rounded.
Share(part, total) == (20000 * part + total) \div (2 * total)

GetRwaYieldExposure ==
    LET valued == {b \in subject.held : b.value > 0}
        total == Total(valued)
        of(symbol) == Total({b \in valued : b.symbol = symbol})
        cites == {b.id : b \in {b \in valued : b.symbol \in YieldTokens}}
    IN  /\ InTime("getRwaYieldExposure")
        /\ ToolEnds(IF cites = {} THEN subject
                    ELSE Covered([subject EXCEPT !.exposure =
                            [percent |-> Share(of("mETH"), total) + Share(of("cmETH"), total),
                             warning |-> 2 * (of("mETH") + of("cmETH")) >= total,
                             cites |-> cites]],
                            {"rwaYieldExposure"}, "available"), FALSE)

-----------------------------------------------------------------------------
(* The assessment.                                                         *)

Gathered == state = "DATA_GATHERING" /\ at = Len(Tools) + 1

\* The gathered data are partial, or not.
Weigh ==
    /\ Gathered
    /\ Transition(IF IsPartial(subject) THEN "PARTIAL_OR_UNKNOWN" ELSE "RISK_EVALUATING")
    /\ UNCHANGED <<config, wallet, at, expired, subject, answer, told>>

Resume ==
    /\ state = "PARTIAL_OR_UNKNOWN"
    /\ Transition("RISK_EVALUATING")
    /\ UNCHANGED <<config, wallet, at, expired, subject, answer, told>>

\* The risk engine; claims without evidence raise EvidenceBindingError.
Evaluate ==
    /\ state = "RISK_EVALUATING"
    /\ IF OrphanClaims(Scan(subject)) = {}
       THEN Transition("EVIDENCE_BINDING") /\ answer' = Assess(Scan(subject))
       ELSE state' = "unbound" /\ UNCHANGED <<steps, answer>>
    /\ UNCHANGED <<config, wallet, at, expired, subject, told>>

BindEvidence ==
    /\ state = "EVIDENCE_BINDING"
    /\ Transition("EXPLAINING")
    /\ UNCHANGED <<config, wallet, at, expired, subject, answer, told>>

BundleIds == {e.id : e \in Bundle(Scan(subject))}

\* The rules' explanation, whatever a client may ask for later.
Explain ==
    /\ state = "EXPLAINING"
    /\ Transition("SIMULATION_READY")
    /\ told' = [mode |-> "rule_fallback", claims |-> RuleClaims(answer, BundleIds)]
    /\ UNCHANGED <<config, wallet, at, expired, subject, answer>>

\* POST /api/explain with the scan's assessment and evidence.
ExplainCandidate ==
    /\ state = "SIMULATION_READY"
    /\ \E candidate \in Candidates :
          told' = [mode   |-> IF Passes(candidate, answer, BundleIds)
                              THEN "llm_guarded" ELSE "rule_fallback",
                   claims |-> Explanation(candidate, answer, BundleIds)]
    /\ UNCHANGED <<config, wallet, state, steps, at, expired, subject, answer>>

Next ==
    \/ Begin \/ Expire \/ Skip
    \/ GetNativeBalance
    \/ BalancesFromMoralis \/ BalancesFromTransfers \/ BalancesFromAllowlist
    \/ BalancesUnavailable
    \/ GetTokenApprovals \/ ApprovalsUnavailable \/ ApprovalsCrash
    \/ TransfersFromMoralis \/ TransfersFromEtherscan \/ TransfersUnavailable
    \/ GetTokenPrices \/ GetTokenSecurity \/ GetRwaYieldExposure
    \/ Weigh \/ Resume \/ Evaluate \/ BindEvidence \/ Explain
    \/ ExplainCandidate

Spec == Init /\ [][Next]_vars

-----------------------------------------------------------------------------
(* Properties.                                                             *)

\* What could not be read is never reported as safe: an assessment with a gap
\* in its data is not Low, does not say SAFE and names the gap among its risks
\* (risk.py:evaluate_wallet_risk, _score_data_quality, _decision_type).
GapIsNotSafe ==
    answer # None /\ IsPartial(subject) =>
        /\ answer.level # "Low"
        /\ answer.decision # "SAFE"
        /\ \E i \in DOMAIN answer.risks : answer.risks[i].type = "source_coverage"

\* The assessment tells that there is more, or its last page was an empty one,
\* which is how an answer that is no list is read.
MoreIsTold(kind) == subject.pages[kind].hasMore \/ subject.pages[kind].last = "empty"

\* A field that is reported as available was read in full, whichever provider
\* has answered after others have failed, or the page coverage beside it tells of
\* more, or its last page came empty.  Two exceptions are told nowhere: transfers
\* after the deadline, and an inventory whose one page is full or empty
\* (live_adapters.py: the fallbacks of each tool; inventory.py:page_info).
CoverageIsHonest ==
    answer # None /\ wallet # None =>
        LET available == Fields \ Gaps(subject)
        IN  /\ available \cap BalanceFields # {} =>
                  \/ subject.pages["tokens"].last # "short"
                  \/ \A t \in wallet.tokens : \E b \in subject.listed :
                         b.token = t.token /\ b.value = t.value
            /\ "approvalEvents" \in available =>
                  \/ MoreIsTold("approvals")
                  \/ \A log \in wallet.logs : \E a \in subject.approvals : a.log = log
            /\ "transferLogs" \in available =>
                  \/ expired
                  \/ MoreIsTold("transfers")
                  \/ \A t \in wallet.transfers : \E row \in subject.transfers :
                         row.id[2] = t.id
            /\ "rwaYieldExposure" \in available => subject.exposure # None

\* An active approval to a spender that is known to be malicious stops the
\* agent, whatever else there is in the wallet and however well it is known
\* (risk.py: the floor of the level, and the order of risks that the decision
\* goes by).
MaliciousPauses ==
    answer # None /\ (\E a \in subject.approvals : a.active /\ a.malicious) =>
        answer.level = "Critical" /\ answer.score >= 8500 /\ answer.decision = "PAUSE"

\* A wallet of high risk is never waved through because its data are partial:
\* the level is made from scores, the decision from the first of the risks, in
\* which gaps take part (risk.py:_decision_type).
HighIsActedOn ==
    answer # None /\ answer.level \in {"High", "Critical"} =>
        answer.decision \notin {"SAFE", "SIMULATE_ONLY"}

\* Less risk never scores more: one approval or transfer less in the wallet does
\* not raise its score or its level, and neither simulation ends above the score
\* that it starts from, though it has weights of its own and lays no floors
\* (risk.py:_score_approvals, _score_transfers and the floors; simulation.py).
FindingsNeverHelp ==
    answer # None =>
        LET scan == Scan(subject)
            without == {[scan EXCEPT !.approvals = @ \ {a}] : a \in scan.approvals}
                          \cup {[scan EXCEPT !.transfers = @ \ {t}] : t \in scan.transfers}
        IN  /\ \A less \in without :
                /\ Score(less) <= answer.score
                /\ SeverityRank(Level(less)) <= SeverityRank(answer.level)
            /\ SimulateApprovalRevoke(Parts(scan)) <= answer.score
            /\ SimulatePortfolioAdjustment(Parts(scan)) <= answer.score

\* Evidence that was kept from a provider that failed has no row to show, and
\* then the coverage says so: each approval has its row, each transfer unless the
\* transfers are not all there or the pages not all, and each balance, or its
\* token, unless the inventory is not all there (workflows.py:_detail_resolution).
EvidenceHasItsRow ==
    answer # None /\ wallet # None =>
        \A e \in Unresolved(subject) :
            /\ e.id[1] # "approval"
            /\ e.id[1] = "transfer" =>
                  \/ expired
                  \/ subject.completeness["transferLogs"] # "available"
                  \/ MoreIsTold("transfers")
            /\ e.id[1] = "balance" =>
                  \/ subject.completeness["fullTokenInventory"] # "available"
                  \/ \E b \in subject.held : b.token = e.id[2][2]

\* An explanation by the rules passes over no top risk, and none of the claims
\* that a language model's answer lists, if it is let through, is about a risk that
\* is not among them; its prose may say more (explain.py:rule_based_explanation,
\* llm_guard.py:guarded_explanation).
ExplanationIsGrounded ==
    told # None =>
        LET risks == {r.type : r \in Range(answer.top)}
            claimed == {c.type : c \in told.claims}
        IN  /\ claimed \subseteq risks
            /\ told.mode = "rule_fallback" => claimed = risks
            /\ \A c \in told.claims : c.evidence # {} /\ c.evidence \subseteq BundleIds

\* The workflow never stands in its own way: whatever the providers answer, no
\* transition of a scan is refused by the table or the step budget, and every
\* claim has its evidence (policy.py:allow_transition,
\* evidence.py:validate_evidence_binding).
NothingIsRefused == state \notin {"refused", "unbound"}
=============================================================================
