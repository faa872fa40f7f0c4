----------------------------- MODULE WalletRisk -----------------------------
(***************************************************************************)
(* What MantleLens makes of the raw data of one wallet scan: the risks,    *)
(* the score, the level and the decision (risk.py:evaluate_wallet_risk).   *)
(*                                                                         *)
(* A scan is a record.  Of a value that the scores only compare with       *)
(* thresholds, the value is kept; names, texts and hashes are left out.    *)
(* Scores are in hundredths, confidences in percent.  An item of evidence  *)
(* has an identifier, a quality and an age.                                *)
(***************************************************************************)
EXTENDS Integers, Sequences, FiniteSetsExt

CONSTANT None

\* dataCompleteness
Fields == {"nativeBalance", "knownTokenBalances", "fullTokenInventory",
           "approvalEvents", "activeAllowanceConfirmation",
           "transactionHistory", "transferLogs", "spenderLabels",
           "tokenSecurity", "defiPositions", "rwaYieldExposure"}

Coverages == {"available", "partial", "unavailable", "not_supported_p0"}

Stablecoins == {"USDC", "USDT", "USDY", "mUSD"}

LpTokens == {"LP"}

Severities == <<"Low", "Moderate", "High", "Critical">>

SeverityRank(s) == CHOOSE n \in 1 .. 4 : Severities[n] = s

Worse(s, bound) == IF SeverityRank(s) >= SeverityRank(bound) THEN s ELSE bound

AtLeast(bound, n) == IF n < bound THEN bound ELSE n
AtMost(bound, n) == IF n > bound THEN bound ELSE n

\* The highest of some scores, 0 if there is none.
Highest(scores) == Max(scores \cup {0})

-----------------------------------------------------------------------------
(* Evidence and confidence.                                                *)

Gaps(scan) == {f \in Fields : scan.completeness[f] # "available"}

LimitedSources(scan) == {s \in DOMAIN scan.sources : scan.sources[s] # "available"}

\* Every gap is an item of evidence itself, without a date.
Bundle(scan) ==
    scan.evidence \cup
        {e \in {[id |-> <<"coverage", None>>, quality |-> "coverage", age |-> "undated"]} :
            Gaps(scan) # {} \/ LimitedSources(scan) # {}}

Cited(scan, ids) == {e \in Bundle(scan) : e.id \in ids}

CoverageEvidence(scan) ==
    LET coverage == {e \in Bundle(scan) : e.quality = "coverage"}
    IN  IF coverage # {} \/ Bundle(scan) = {} THEN coverage
        ELSE {CHOOSE e \in Bundle(scan) : TRUE}

Confidence(cited, status) ==
    LET base == CASE status = "available" -> 95
                  [] status = "partial"   -> 78
                  [] OTHER                -> 58
    IN  CASE cited = {} -> 0
          [] \E e \in cited : e.quality \in {"missing", "coverage"} -> AtMost(68, base)
          [] OTHER -> base

Capped(score, confidence) ==
    CASE confidence <= 0 -> AtMost(25, score)
      [] confidence \in 1 .. 54 -> AtMost(35, score)
      [] confidence \in 55 .. 69 -> AtMost(50, score)
      [] OTHER -> score

\* The risk of a type, as a sequence: none if its score is 0.
Risk(type, severity, score, confidence, cited) ==
    IF score = 0 THEN <<>>
    ELSE <<[type |-> type, severity |-> severity,
            impact |-> Capped(score, confidence),
            evidence |-> {e.id : e \in cited}]>>

RowRisk(scan, type, severity, score, ids, status) ==
    Risk(type, severity, score, Confidence(Cited(scan, ids), status),
         Cited(scan, ids))

\* _coverage_status
CoverageOf(scan, fields) ==
    CASE \E f \in fields : scan.completeness[f] = "unavailable" -> "source_failed"
      [] \E f \in fields : scan.completeness[f] # "available"   -> "partial"
      [] OTHER -> "available"

-----------------------------------------------------------------------------
(* The scores of the parts.                                                *)

Active(scan) == {a \in scan.approvals : a.active}

ApprovalScore(a) ==
    CASE a.malicious -> 100
      [] ~a.malicious /\ a.labelled -> 0
      [] ~a.malicious /\ ~a.labelled /\ a.unlimited /\ a.usd > 500 -> 80
      [] OTHER -> CASE a.usd > 20000 -> 70
                    [] a.usd \in 5001 .. 20000 -> 50
                    [] a.usd \in 1001 .. 5000  -> 30
                    [] OTHER -> 10

\* Broken: the mildest of the active approvals decides.
ApprovalsScoreMildest(scan) ==
    IF Active(scan) = {} THEN 0 ELSE Min({ApprovalScore(a) : a \in Active(scan)})

ApprovalsScore(scan) == Highest({ApprovalScore(a) : a \in Active(scan)})

ApprovalRisk(scan) ==
    LET score == ApprovalsScore(scan)
        worst == CHOOSE a \in Active(scan) : ApprovalScore(a) = score
    IN  IF score = 0 THEN <<>>
        ELSE RowRisk(scan, "approval",
                     IF score >= 85 THEN "Critical"
                     ELSE IF score >= 60 THEN "High" ELSE "Moderate",
                     score, worst.cites, worst.status)

TransferScore(t) == CASE t.kind \in {"dust", "lookalike"} -> 75
                      [] t.kind = "fake_token"    -> 50
                      [] t.kind = "new_recipient" -> 25
                      [] OTHER                    -> 0

TransfersScore(scan) == Highest({TransferScore(t) : t \in scan.transfers})

TransferRisk(scan) ==
    LET score == TransfersScore(scan)
        worst == CHOOSE t \in scan.transfers : TransferScore(t) = score
    IN  IF score = 0 THEN <<>>
        ELSE RowRisk(scan, "transfer", IF score >= 75 THEN "High" ELSE "Moderate",
                     score, {worst.id}, worst.status)

Valued(scan) == {b \in scan.balances : b.value > 0}

Total(balances) == MapThenSumSet(LAMBDA b : b.value, balances)

Largest(balances) ==
    CHOOSE b \in balances : \A other \in balances : b.value >= other.value

TopThree(balances) ==
    Max({Total(S) : S \in {T \in SUBSET balances : Cardinality(T) <= 3}})

Concentration(balances) ==
    LET total == Total(balances)
        top == Largest(balances)
        share == 100 * top.value
        base == CASE share >= 95 * total -> 80
                  [] share >= 85 * total /\ share < 95 * total -> 65
                  [] share >= 70 * total /\ share < 85 * total -> 45
                  [] share >= 50 * total /\ share < 70 * total -> 20
                  [] OTHER -> 0
        spread == IF 100 * TopThree(balances) > 90 * total
                  THEN AtMost(100, base + 20) ELSE base
    IN  IF share > 85 * total /\ top.symbol \notin Stablecoins
        THEN AtLeast(60, spread) ELSE spread

ConcentrationScore(scan) ==
    IF Valued(scan) = {} THEN 0 ELSE Concentration(Valued(scan))

ConcentrationRisk(scan) ==
    LET score == ConcentrationScore(scan)
        top == Largest(Valued(scan))
    IN  IF score < 45 THEN <<>>
        ELSE RowRisk(scan, "concentration", IF score >= 60 THEN "High" ELSE "Moderate",
                     score, {top.id}, top.status)

HighValueRisk(scan) ==
    LET top == Largest(Valued(scan))
        score == CASE top.value >= 50000 -> 70
                   [] top.value \in 10000 .. 49999 -> 55
                   [] top.value \in 5000 .. 9999   -> 45
                   [] OTHER -> 0
    IN  IF Valued(scan) = {} THEN <<>>
        ELSE RowRisk(scan, "high_value_exposure",
                     IF score >= 60 THEN "High" ELSE "Moderate", score, {top.id},
                     CoverageOf(scan, {"knownTokenBalances", "fullTokenInventory"}))

TokenSecurityRisk(scan) ==
    LET risky == {t \in scan.tokens : t.security = "risky"}
        unknown == {t \in scan.tokens : t.security = "unknown"}
        selected == CHOOSE t \in IF risky # {} THEN risky ELSE unknown : TRUE
        status == CoverageOf(scan, {"tokenSecurity"})
    IN  CASE risky # {} ->
                RowRisk(scan, "token_security", "High", 70, {selected.id}, status)
          [] risky = {} /\ unknown # {} ->
                RowRisk(scan, "token_security", "Moderate", 25, {selected.id}, status)
          [] OTHER -> <<>>

\* exposure.percent is that of mETH and cmETH together, in hundredths.
YieldScore(scan) ==
    LET percent == scan.exposure.percent
        base == CASE percent >= 7000 -> 60
                  [] percent \in 5000 .. 6999 -> 40
                  [] percent \in 3000 .. 4999 -> 20
                  [] OTHER -> 0
    IN  IF scan.exposure = None THEN 0
        ELSE IF \/ scan.exposure.warning
                \/ \E b \in scan.balances : b.symbol = "cmETH" /\ b.value > 500
        THEN AtLeast(60, base) ELSE base

YieldRisk(scan) ==
    LET score == YieldScore(scan)
    IN  IF score = 0 THEN <<>>
        ELSE RowRisk(scan, "rwa_yield", IF score >= 60 THEN "High" ELSE "Moderate",
                     score, scan.exposure.cites,
                     IF scan.exposure.warning THEN "partial" ELSE "available")

LpValue(scan) == {b \in scan.balances : b.symbol \in LpTokens}

DefiScore(scan) ==
    LET highest == Highest({b.value : b \in LpValue(scan)})
    IN  CASE highest > 5000 -> 50
          [] highest \in 501 .. 5000 -> 25
          [] OTHER -> 0

DefiRisk(scan) ==
    LET top == Largest(LpValue(scan))
    IN  IF DefiScore(scan) = 0 THEN <<>>
        ELSE RowRisk(scan, "defi", "Moderate", DefiScore(scan), {top.id}, top.status)

CriticalFields == {"nativeBalance", "knownTokenBalances", "approvalEvents",
                   "transferLogs"}

\* dataStatus = "PARTIAL_OR_UNKNOWN"
IsPartial(scan) == Gaps(scan) # {}

DataRisk(scan) ==
    CASE \A f \in CriticalFields : scan.completeness[f] = "unavailable" ->
            Risk("source_coverage", "Moderate", 25, 55, CoverageEvidence(scan))
      [] (\E f \in CriticalFields : scan.completeness[f] # "unavailable")
             /\ IsPartial(scan) ->
            Risk("source_coverage", "Moderate", 15, 65, CoverageEvidence(scan))
      [] OTHER -> <<>>

StaleRisk(scan) ==
    LET live == scan.mode = "live"
        stale == {e \in Bundle(scan) : e.quality = "stale" \/ (live /\ e.age = "old")}
        undated == {e \in Bundle(scan) : live /\ e.age = "undated"}
    IN  CASE stale # {} -> Risk("stale_data", "Moderate", 20, 60, stale)
          [] stale = {} /\ undated # {} -> Risk("stale_data", "Moderate", 10, 60, undated)
          [] OTHER -> <<>>

ActivityRisk(scan) ==
    LET status == CoverageOf(scan, {"transferLogs", "transactionHistory"})
    IN  CASE status = "source_failed" ->
                Risk("wallet_activity", "Moderate", 20, 60, CoverageEvidence(scan))
          [] status = "partial" ->
                Risk("wallet_activity", "Moderate", 12, 70, CoverageEvidence(scan))
          [] OTHER -> <<>>

AllRisks(scan) ==
    ApprovalRisk(scan) \o TransferRisk(scan) \o ConcentrationRisk(scan)
        \o HighValueRisk(scan) \o TokenSecurityRisk(scan) \o YieldRisk(scan)
        \o DefiRisk(scan) \o DataRisk(scan) \o StaleRisk(scan) \o ActivityRisk(scan)

-----------------------------------------------------------------------------
(* The assessment.                                                         *)

\* Broken: by score impact only.
GoesBeforeByImpact(risks, i, j) ==
    \/ risks[i].impact > risks[j].impact
    \/ risks[i].impact = risks[j].impact /\ i < j

\* The order of risks: by severity, then by impact, then as they were found.
GoesBefore(risks, i, j) ==
    LET rank(n) == 1000 * SeverityRank(risks[n].severity) + risks[n].impact
    IN  rank(i) > rank(j) \/ (rank(i) = rank(j) /\ i < j)

TopRisks(risks) ==
    [n \in 1 .. AtMost(3, Len(risks)) |->
        risks[CHOOSE i \in DOMAIN risks :
                 Cardinality({j \in DOMAIN risks : GoesBefore(risks, j, i)}) = n - 1]]

WeightedScore(scan) ==
    35 * ApprovalsScore(scan) + 25 * TransfersScore(scan)
        + 20 * ConcentrationScore(scan) + 15 * YieldScore(scan) + 5 * DefiScore(scan)

Score(scan) == IF ApprovalsScore(scan) >= 85 THEN AtLeast(8500, WeightedScore(scan))
                                             ELSE WeightedScore(scan)

LevelOf(score) == CASE score <= 2000 -> "Low"
                    [] score \in 2001 .. 4500 -> "Moderate"
                    [] score \in 4501 .. 7000 -> "High"
                    [] OTHER -> "Critical"

\* Broken: a gap in the data does not raise the level.
LevelWithoutGaps(scan) ==
    CASE ApprovalsScore(scan) >= 85 -> "Critical"
      [] ApprovalsScore(scan) < 85 /\ (\/ ApprovalsScore(scan) >= 80
                                       \/ TransfersScore(scan) >= 75
                                       \/ YieldScore(scan) >= 60) ->
            Worse(LevelOf(WeightedScore(scan)), "High")
      [] OTHER -> LevelOf(WeightedScore(scan))

Level(scan) ==
    LET floored ==
            CASE ApprovalsScore(scan) >= 85 -> "Critical"
              [] ApprovalsScore(scan) < 85 /\ (\/ ApprovalsScore(scan) >= 80
                                               \/ TransfersScore(scan) >= 75
                                               \/ YieldScore(scan) >= 60) ->
                    Worse(LevelOf(WeightedScore(scan)), "High")
              [] OTHER -> LevelOf(WeightedScore(scan))
    IN  IF IsPartial(scan) THEN Worse(floored, "Moderate") ELSE floored

\* Broken: gaps in the data come before the risks.
DecisionGapsFirst(top, partial) ==
    CASE partial -> "SIMULATE_ONLY"
      [] ~partial /\ top = <<>> -> "SAFE"
      [] OTHER -> IF top[1].severity = "Critical" THEN "PAUSE" ELSE "WATCH"

Decision(top, partial) ==
    IF top = <<>> THEN IF partial THEN "SIMULATE_ONLY" ELSE "SAFE"
    ELSE CASE top[1].severity = "Critical" -> "PAUSE"
           [] top[1].severity # "Critical" ->
              CASE top[1].type \in {"source_coverage", "stale_data", "wallet_activity"} ->
                       "SIMULATE_ONLY"
                [] top[1].type = "approval" -> "REVIEW_APPROVAL"
                [] top[1].type = "transfer" -> "FLAG_SUSPICIOUS_TRANSFER"
                [] top[1].type \in {"rwa_yield", "concentration"} ->
                       "SIMULATE_PORTFOLIO_CHANGE"
                [] OTHER -> "WATCH"

Assess(scan) ==
    LET risks == AllRisks(scan)
        top == TopRisks(risks)
    IN  [score |-> Score(scan), level |-> Level(scan), risks |-> risks, top |-> top,
         decision |-> Decision(top, IsPartial(scan))]

\* The claims of an assessment that no evidence of its bundle is behind;
\* such an assessment is not given out.
OrphanClaims(scan) ==
    LET risks == AllRisks(scan)
    IN  {i \in DOMAIN risks : risks[i].evidence = {}}
=============================================================================
