-------------------------- MODULE WalletScan_proofs --------------------------
(***************************************************************************)
(* What holds of WalletScan for every wallet, every fixture, any answers   *)
(* of the providers and any configuration of them.                         *)
(***************************************************************************)
EXTENDS WalletScan, SequenceTheorems, FiniteSetTheorems, TLAPS

-----------------------------------------------------------------------------
(* Sequences of at most one risk, and what they make together.             *)

IsPiece(s) == s = <<>> \/ \E r : s = <<r>>

LEMMA PieceIsSeq ==
    ASSUME NEW s, IsPiece(s), NEW S, Range(s) \subseteq S
    PROVE  s \in Seq(S)
<1>1. CASE s = <<>>
  BY <1>1
<1>2. CASE \E r : s = <<r>>
  <2>1. PICK r : s = <<r>>
    BY <1>2
  <2>2. r \in Range(s)
    BY <2>1 DEF Range
  <2>3. r \in S
    BY <2>2
  <2>4. QED  BY <2>1, <2>3
<1>3. QED  BY <1>1, <1>2 DEF IsPiece

LEMMA RangeOfConcat ==
    ASSUME NEW S, NEW s \in Seq(S), NEW t \in Seq(S)
    PROVE  s \o t \in Seq(S) /\ Range(s \o t) = Range(s) \cup Range(t)
<1>1. /\ s \o t \in Seq(S)
      /\ Len(s \o t) = Len(s) + Len(t)
      /\ \A i \in 1 .. Len(s) + Len(t) :
            (s \o t)[i] = IF i <= Len(s) THEN s[i] ELSE t[i - Len(s)]
  BY ConcatProperties
<1>2. /\ DOMAIN s = 1 .. Len(s) /\ Len(s) \in Nat
      /\ DOMAIN t = 1 .. Len(t) /\ Len(t) \in Nat
      /\ DOMAIN (s \o t) = 1 .. Len(s) + Len(t)
  BY <1>1, LenProperties
<1>3. ASSUME NEW i \in DOMAIN s
      PROVE  s[i] \in Range(s \o t)
  <2>1. i \in 1 .. Len(s) + Len(t) /\ i <= Len(s)
    BY <1>2
  <2>2. i \in DOMAIN (s \o t) /\ (s \o t)[i] = s[i]
    BY <1>1, <1>2, <2>1
  <2>3. QED  BY <2>2 DEF Range
<1>4. ASSUME NEW i \in DOMAIN t
      PROVE  t[i] \in Range(s \o t)
  <2>1. Len(s) + i \in 1 .. Len(s) + Len(t) /\ ~(Len(s) + i <= Len(s))
        /\ (Len(s) + i) - Len(s) = i
    BY <1>2
  <2>2. Len(s) + i \in DOMAIN (s \o t) /\ (s \o t)[Len(s) + i] = t[i]
    BY <1>1, <1>2, <2>1
  <2>3. QED  BY <2>2 DEF Range
<1>5. ASSUME NEW i \in DOMAIN (s \o t)
      PROVE  (s \o t)[i] \in Range(s) \cup Range(t)
  <2>1. i \in 1 .. Len(s) + Len(t)
    BY <1>2
  <2>2. CASE i <= Len(s)
    BY <1>1, <1>2, <2>1, <2>2 DEF Range
  <2>3. CASE ~(i <= Len(s))
    <3>1. i - Len(s) \in DOMAIN t
      BY <1>2, <2>1, <2>3
    <3>2. QED  BY <1>1, <2>1, <2>3, <3>1 DEF Range
  <2>4. QED  BY <2>2, <2>3
<1>6. Range(s \o t) \subseteq Range(s) \cup Range(t)
  BY <1>5 DEF Range
<1>7. Range(s) \subseteq Range(s \o t) /\ Range(t) \subseteq Range(s \o t)
  BY <1>3, <1>4 DEF Range
<1>8. QED  BY <1>1, <1>6, <1>7

\* A risk whose score is not 0 is there.
LEMMA RiskIsPiece ==
    ASSUME NEW type, NEW severity, NEW score, NEW confidence, NEW cited
    PROVE  /\ IsPiece(Risk(type, severity, score, confidence, cited))
           /\ \A r \in Range(Risk(type, severity, score, confidence, cited)) :
                 /\ r.type = type /\ r.severity = severity
                 /\ r.impact = Capped(score, confidence)
                 /\ r.evidence = {e.id : e \in cited}
           /\ score # 0 =>
                 \E r : Risk(type, severity, score, confidence, cited) = <<r>>
<1> DEFINE r == [type |-> type, severity |-> severity,
                 impact |-> Capped(score, confidence),
                 evidence |-> {e.id : e \in cited}]
<1>1. /\ r.type = type /\ r.severity = severity
      /\ r.impact = Capped(score, confidence)
      /\ r.evidence = {e.id : e \in cited}
  OBVIOUS
<1>2. Risk(type, severity, score, confidence, cited)
         = IF score = 0 THEN <<>> ELSE <<r>>
  BY DEF Risk
<1> HIDE DEF r
<1>3. Range(<<>>) = {} /\ Range(<<r>>) = {r}
  BY DEF Range
<1>4. QED  BY <1>1, <1>2, <1>3 DEF IsPiece

LEMMA RowRiskIsPiece ==
    ASSUME NEW scan, NEW type, NEW severity, NEW score, NEW ids, NEW status
    PROVE  /\ IsPiece(RowRisk(scan, type, severity, score, ids, status))
           /\ \A r \in Range(RowRisk(scan, type, severity, score, ids, status)) :
                 /\ r.type = type /\ r.severity = severity
                 /\ \E confidence : r.impact = Capped(score, confidence)
           /\ score # 0 =>
                 \E r : RowRisk(scan, type, severity, score, ids, status) = <<r>>
BY RiskIsPiece DEF RowRisk

LEMMA EmptyIsPiece == IsPiece(<<>>) /\ Range(<<>>) = {}
BY DEF IsPiece, Range

-----------------------------------------------------------------------------
(* The scores.                                                             *)

LEMMA ApprovalScoreValues ==
    ASSUME NEW a
    PROVE  ApprovalScore(a) \in {0, 10, 30, 50, 70, 80, 100}
<1> DEFINE p == a.usd > 20000
           q == a.usd \in 5001 .. 20000
           r == a.usd \in 1001 .. 5000
           byValue == CASE p -> 70 [] q -> 50 [] r -> 30 [] OTHER -> 10
<1>1. byValue \in {10, 30, 50, 70}
  <2> HIDE DEF p, q, r
  <2>1. QED  OBVIOUS
<1>2. ApprovalScore(a) =
         CASE a.malicious -> 100
           [] ~a.malicious /\ a.labelled -> 0
           [] ~a.malicious /\ ~a.labelled /\ a.unlimited /\ a.usd > 500 -> 80
           [] OTHER -> byValue
  BY DEF ApprovalScore
<1> HIDE DEF byValue
<1>3. QED  BY <1>1, <1>2

LEMMA TransferScoreValues ==
    ASSUME NEW t
    PROVE  TransferScore(t) \in {0, 25, 50, 75}
BY DEF TransferScore

\* The highest of some of these scores is one of them.
LEMMA HighestOf ==
    ASSUME NEW S \in SUBSET {0, 10, 25, 30, 50, 70, 75, 80, 100}
    PROVE  /\ Highest(S) \in S \cup {0}
           /\ \A x \in S : x <= Highest(S)
<1> DEFINE T == S \cup {0}
<1>1. 0 \in T /\ T \subseteq {0, 10, 25, 30, 50, 70, 75, 80, 100}
  OBVIOUS
<1> HIDE DEF T
<1>2. \E x \in T : \A y \in T : x >= y
  BY <1>1
<1>3. Max(T) \in T /\ \A y \in T : Max(T) >= y
  BY <1>2 DEF Max
<1>4. \A y \in T : y <= Max(T)
  BY <1>1, <1>3
<1>5. QED  BY <1>3, <1>4 DEF Highest, T

LEMMA HighestGrows ==
    ASSUME NEW T \in SUBSET {0, 10, 25, 30, 50, 70, 75, 80, 100},
           NEW S \in SUBSET T
    PROVE  Highest(S) <= Highest(T)
<1>1. /\ Highest(S) \in S \cup {0}
      /\ Highest(T) \in T \cup {0}
      /\ \A x \in T : x <= Highest(T)
  BY HighestOf
<1>2. Highest(T) \in {0, 10, 25, 30, 50, 70, 75, 80, 100}
  BY <1>1
<1>3. CASE Highest(S) \in T
  BY <1>1, <1>3
<1>4. CASE Highest(S) = 0
  BY <1>2, <1>4
<1>5. QED  BY <1>1, <1>3, <1>4

LEMMA ApprovalsScoreValues ==
    ASSUME NEW scan
    PROVE  /\ ApprovalsScore(scan) \in {0, 10, 30, 50, 70, 80, 100}
           /\ \A a \in Active(scan) : ApprovalScore(a) <= ApprovalsScore(scan)
<1> DEFINE S == {ApprovalScore(a) : a \in Active(scan)}
<1>1. S \subseteq {0, 10, 30, 50, 70, 80, 100}
  BY ApprovalScoreValues
<1>2. \A a \in Active(scan) : ApprovalScore(a) \in S
  OBVIOUS
<1>3. ApprovalsScore(scan) = Highest(S)
  BY DEF ApprovalsScore
<1> HIDE DEF S
<1>4. S \in SUBSET {0, 10, 25, 30, 50, 70, 75, 80, 100}
  BY <1>1
<1>5. QED  BY <1>1, <1>2, <1>3, <1>4, HighestOf

LEMMA TransfersScoreValues ==
    ASSUME NEW scan
    PROVE  TransfersScore(scan) \in {0, 25, 50, 75}
<1> DEFINE S == {TransferScore(t) : t \in scan.transfers}
<1>1. S \subseteq {0, 25, 50, 75}
  BY TransferScoreValues
<1>2. TransfersScore(scan) = Highest(S)
  BY DEF TransfersScore
<1> HIDE DEF S
<1>3. S \in SUBSET {0, 10, 25, 30, 50, 70, 75, 80, 100}
  BY <1>1
<1>4. QED  BY <1>1, <1>2, <1>3, HighestOf

LEMMA ConcentrationScoreValues ==
    ASSUME NEW scan
    PROVE  ConcentrationScore(scan) \in 0 .. 100
<1>1. \A balances : Concentration(balances) \in 0 .. 100
  BY DEF Concentration, AtLeast, AtMost
<1>2. QED  BY <1>1 DEF ConcentrationScore

LEMMA YieldScoreValues ==
    ASSUME NEW scan
    PROVE  YieldScore(scan) \in 0 .. 60
<1> DEFINE percent == scan.exposure.percent
           p == percent >= 7000
           q == percent \in 5000 .. 6999
           r == percent \in 3000 .. 4999
           base == CASE p -> 60 [] q -> 40 [] r -> 20 [] OTHER -> 0
<1>1. base \in {0, 20, 40, 60}
  <2> HIDE DEF p, q, r
  <2>1. QED  OBVIOUS
<1>2. YieldScore(scan) =
         IF scan.exposure = None THEN 0
         ELSE IF \/ scan.exposure.warning
                 \/ \E b \in scan.balances : b.symbol = "cmETH" /\ b.value > 500
         THEN AtLeast(60, base) ELSE base
  BY DEF YieldScore
<1> HIDE DEF base
<1>3. QED  BY <1>1, <1>2 DEF AtLeast

LEMMA DefiScoreValues ==
    ASSUME NEW scan
    PROVE  DefiScore(scan) \in {0, 25, 50}
<1> DEFINE highest == Highest({b.value : b \in LpValue(scan)})
           score == CASE highest > 5000 -> 50
                      [] highest \in 501 .. 5000 -> 25
                      [] OTHER -> 0
<1>1. DefiScore(scan) = score
  BY DEF DefiScore
<1> HIDE DEF highest
<1>2. QED  BY <1>1

LEMMA CappedRange ==
    ASSUME NEW score \in 0 .. 100, NEW confidence
    PROVE  Capped(score, confidence) \in 0 .. 100
BY DEF Capped, AtMost

-----------------------------------------------------------------------------
(* The risks of an assessment.                                             *)

IsMild(r) == r.severity \in {"Moderate", "High"} /\ r.impact \in 0 .. 100

AreMild(s) == IsPiece(s) /\ \A r \in Range(s) : IsMild(r)

LEMMA EmptyIsMild == AreMild(<<>>)
BY EmptyIsPiece DEF AreMild

LEMMA RiskIsMild ==
    ASSUME NEW type, NEW severity \in {"Moderate", "High"},
           NEW score \in 0 .. 100, NEW confidence, NEW cited
    PROVE  AreMild(Risk(type, severity, score, confidence, cited))
BY RiskIsPiece, CappedRange DEF AreMild, IsMild

LEMMA RowRiskIsMild ==
    ASSUME NEW scan, NEW type, NEW severity \in {"Moderate", "High"},
           NEW score \in 0 .. 100, NEW ids, NEW status
    PROVE  AreMild(RowRisk(scan, type, severity, score, ids, status))
BY RowRiskIsPiece, CappedRange DEF AreMild, IsMild

LEMMA TransferRiskIsMild ==
    ASSUME NEW scan
    PROVE  AreMild(TransferRisk(scan))
<1> DEFINE score == TransfersScore(scan)
           worst == CHOOSE t \in scan.transfers : TransferScore(t) = score
           severity == IF score >= 75 THEN "High" ELSE "Moderate"
<1>1. score \in 0 .. 100 /\ severity \in {"Moderate", "High"}
  BY TransfersScoreValues
<1>2. TransferRisk(scan) =
         IF score = 0 THEN <<>>
         ELSE RowRisk(scan, "transfer", severity, score, {worst.id}, worst.status)
  BY DEF TransferRisk
<1> HIDE DEF score, worst, severity
<1>3. QED  BY <1>1, <1>2, EmptyIsMild, RowRiskIsMild

LEMMA ConcentrationRiskIsMild ==
    ASSUME NEW scan
    PROVE  AreMild(ConcentrationRisk(scan))
<1> DEFINE score == ConcentrationScore(scan)
           top == Largest(Valued(scan))
           severity == IF score >= 60 THEN "High" ELSE "Moderate"
<1>1. score \in 0 .. 100 /\ severity \in {"Moderate", "High"}
  BY ConcentrationScoreValues
<1>2. ConcentrationRisk(scan) =
         IF score < 45 THEN <<>>
         ELSE RowRisk(scan, "concentration", severity, score, {top.id}, top.status)
  BY DEF ConcentrationRisk
<1> HIDE DEF score, top, severity
<1>3. QED  BY <1>1, <1>2, EmptyIsMild, RowRiskIsMild

LEMMA HighValueRiskIsMild ==
    ASSUME NEW scan
    PROVE  AreMild(HighValueRisk(scan))
<1> DEFINE top == Largest(Valued(scan))
           p == top.value >= 50000
           q == top.value \in 10000 .. 49999
           r == top.value \in 5000 .. 9999
           score == CASE p -> 70 [] q -> 55 [] r -> 45 [] OTHER -> 0
           severity == IF score >= 60 THEN "High" ELSE "Moderate"
           status == CoverageOf(scan, {"knownTokenBalances", "fullTokenInventory"})
<1>1. score \in 0 .. 100 /\ severity \in {"Moderate", "High"}
  <2> HIDE DEF p, q, r
  <2>1. score \in {0, 45, 55, 70}
    OBVIOUS
  <2> HIDE DEF score
  <2>2. QED  BY <2>1
<1>2. HighValueRisk(scan) =
         IF Valued(scan) = {} THEN <<>>
         ELSE RowRisk(scan, "high_value_exposure", severity, score, {top.id}, status)
  BY DEF HighValueRisk
<1> HIDE DEF score, top, severity, status
<1>3. QED  BY <1>1, <1>2, EmptyIsMild, RowRiskIsMild

LEMMA TokenSecurityRiskIsMild ==
    ASSUME NEW scan
    PROVE  AreMild(TokenSecurityRisk(scan))
<1> DEFINE risky == {t \in scan.tokens : t.security = "risky"}
           unknown == {t \in scan.tokens : t.security = "unknown"}
           selected == CHOOSE t \in IF risky # {} THEN risky ELSE unknown : TRUE
           status == CoverageOf(scan, {"tokenSecurity"})
           risk(severity, score) ==
              RowRisk(scan, "token_security", severity, score, {selected.id}, status)
<1>1. TokenSecurityRisk(scan) =
         CASE risky # {} -> risk("High", 70)
           [] risky = {} /\ unknown # {} -> risk("Moderate", 25)
           [] OTHER -> <<>>
  BY DEF TokenSecurityRisk
<1>2. 70 \in 0 .. 100 /\ 25 \in 0 .. 100
  OBVIOUS
<1>3. "Moderate" \in {"Moderate", "High"} /\ "High" \in {"Moderate", "High"}
  OBVIOUS
<1>4. AreMild(risk("High", 70))
  BY ONLY <1>2, <1>3, RowRiskIsMild
<1>5. AreMild(risk("Moderate", 25))
  BY ONLY <1>2, <1>3, RowRiskIsMild
<1> HIDE DEF risk, risky, unknown
<1>6. QED  BY <1>1, <1>4, <1>5, EmptyIsMild

LEMMA YieldRiskIsMild ==
    ASSUME NEW scan
    PROVE  AreMild(YieldRisk(scan))
<1> DEFINE score == YieldScore(scan)
           severity == IF score >= 60 THEN "High" ELSE "Moderate"
           status == IF scan.exposure.warning THEN "partial" ELSE "available"
<1>1. score \in 0 .. 100 /\ severity \in {"Moderate", "High"}
  BY YieldScoreValues
<1>2. YieldRisk(scan) =
         IF score = 0 THEN <<>>
         ELSE RowRisk(scan, "rwa_yield", severity, score, scan.exposure.cites, status)
  BY DEF YieldRisk
<1> HIDE DEF score, severity, status
<1>3. QED  BY <1>1, <1>2, EmptyIsMild, RowRiskIsMild

LEMMA DefiRiskIsMild ==
    ASSUME NEW scan
    PROVE  AreMild(DefiRisk(scan))
<1> DEFINE score == DefiScore(scan)
           top == Largest(LpValue(scan))
<1>1. score \in 0 .. 100
  BY DefiScoreValues
<1>2. DefiRisk(scan) =
         IF score = 0 THEN <<>>
         ELSE RowRisk(scan, "defi", "Moderate", score, {top.id}, top.status)
  BY DEF DefiRisk
<1> HIDE DEF score, top
<1>3. QED  BY <1>1, <1>2, EmptyIsMild, RowRiskIsMild

\* Each of the risks of missing, old or undated data is a Risk of its own.
LEMMA DataRisksAreMild ==
    ASSUME NEW scan
    PROVE  AreMild(DataRisk(scan)) /\ AreMild(StaleRisk(scan))
           /\ AreMild(ActivityRisk(scan))
<1>1. AreMild(DataRisk(scan))
  <2> DEFINE all == Risk("source_coverage", "Moderate", 25, 55, CoverageEvidence(scan))
             some == Risk("source_coverage", "Moderate", 15, 65, CoverageEvidence(scan))
  <2>1. DataRisk(scan) \in {<<>>, all, some}
    BY DEF DataRisk
  <2>2. 25 \in 0 .. 100 /\ 15 \in 0 .. 100
    OBVIOUS
  <2>3. "Moderate" \in {"Moderate", "High"} /\ "High" \in {"Moderate", "High"}
    OBVIOUS
  <2>4. AreMild(all)
    BY ONLY <2>2, <2>3, RiskIsMild
  <2>5. AreMild(some)
    BY ONLY <2>2, <2>3, RiskIsMild
  <2> HIDE DEF all, some
  <2>6. QED  BY <2>1, <2>4, <2>5, EmptyIsMild
<1>2. AreMild(StaleRisk(scan))
  <2> DEFINE stale == {e \in Bundle(scan) :
                          e.quality = "stale" \/ (scan.mode = "live" /\ e.age = "old")}
             undated == {e \in Bundle(scan) : scan.mode = "live" /\ e.age = "undated"}
             old == Risk("stale_data", "Moderate", 20, 60, stale)
             ageless == Risk("stale_data", "Moderate", 10, 60, undated)
  <2>1. StaleRisk(scan) \in {<<>>, old, ageless}
    BY DEF StaleRisk
  <2>2. 20 \in 0 .. 100 /\ 10 \in 0 .. 100 /\ "Moderate" \in {"Moderate", "High"}
    OBVIOUS
  <2>3. AreMild(old)
    BY ONLY <2>2, RiskIsMild
  <2>4. AreMild(ageless)
    BY ONLY <2>2, RiskIsMild
  <2> HIDE DEF old, ageless
  <2>5. QED  BY <2>1, <2>3, <2>4, EmptyIsMild
<1>3. AreMild(ActivityRisk(scan))
  <2> DEFINE failed == Risk("wallet_activity", "Moderate", 20, 60, CoverageEvidence(scan))
             partly == Risk("wallet_activity", "Moderate", 12, 70, CoverageEvidence(scan))
  <2>1. ActivityRisk(scan) \in {<<>>, failed, partly}
    BY DEF ActivityRisk
  <2>2. 20 \in 0 .. 100 /\ 12 \in 0 .. 100
    OBVIOUS
  <2>3. "Moderate" \in {"Moderate", "High"} /\ "High" \in {"Moderate", "High"}
    OBVIOUS
  <2>4. AreMild(failed)
    BY ONLY <2>2, <2>3, RiskIsMild
  <2>5. AreMild(partly)
    BY ONLY <2>2, <2>3, RiskIsMild
  <2> HIDE DEF failed, partly
  <2>6. QED  BY <2>1, <2>4, <2>5, EmptyIsMild
<1>4. QED  BY <1>1, <1>2, <1>3

\* An active approval that scores 85 or more is a critical risk.
LEMMA ApprovalRiskIsCritical ==
    ASSUME NEW scan
    PROVE  /\ IsPiece(ApprovalRisk(scan))
           /\ \A r \in Range(ApprovalRisk(scan)) :
                 /\ r.severity \in {"Moderate", "High", "Critical"}
                 /\ r.impact \in 0 .. 100
           /\ ApprovalsScore(scan) >= 85 =>
                 \E r : ApprovalRisk(scan) = <<r>> /\ r.severity = "Critical"
                                                   /\ r.impact \in 0 .. 100
<1> DEFINE score == ApprovalsScore(scan)
           worst == CHOOSE a \in Active(scan) : ApprovalScore(a) = score
           severity == IF score >= 85 THEN "Critical"
                       ELSE IF score >= 60 THEN "High" ELSE "Moderate"
           risk == RowRisk(scan, "approval", severity, score, worst.cites,
                           worst.status)
<1>1. /\ score \in 0 .. 100
      /\ severity \in {"Moderate", "High", "Critical"}
      /\ score >= 85 => severity = "Critical"
  BY ApprovalsScoreValues
<1>2. ApprovalRisk(scan) = IF score = 0 THEN <<>> ELSE risk
  BY DEF ApprovalRisk
<1> HIDE DEF score, severity, worst
<1>3. /\ IsPiece(risk)
      /\ \A r \in Range(risk) : r.severity = severity /\ r.impact \in 0 .. 100
      /\ score # 0 => \E r : risk = <<r>>
  BY <1>1, RowRiskIsPiece, CappedRange
<1> HIDE DEF risk
<1>4. \A r : risk = <<r>> => r \in Range(risk)
  BY DEF Range
<1>5. score >= 85 => score # 0
  BY <1>1
<1>6. QED  BY <1>1, <1>2, <1>3, <1>4, <1>5, EmptyIsPiece DEF score

\* A sequence of risks whose first is r, and the others are mild.
Leads(S, s, r) ==
    /\ s \in Seq(S)
    /\ Len(s) >= 1
    /\ s[1] = r
    /\ \A j \in 2 .. Len(s) : IsMild(s[j])

LEMMA LeadsOn ==
    ASSUME NEW S, NEW s, NEW r, NEW t \in Seq(S), Leads(S, s, r),
           \A x \in Range(t) : IsMild(x)
    PROVE  Leads(S, s \o t, r)
<1>1. /\ s \o t \in Seq(S)
      /\ Len(s \o t) = Len(s) + Len(t)
      /\ \A i \in 1 .. Len(s) + Len(t) :
            (s \o t)[i] = IF i <= Len(s) THEN s[i] ELSE t[i - Len(s)]
  BY ConcatProperties DEF Leads
<1>2. Len(s) \in Nat /\ Len(t) \in Nat /\ DOMAIN t = 1 .. Len(t) /\ Len(s) >= 1
  BY LenProperties DEF Leads
<1>3. (s \o t)[1] = r
  BY <1>1, <1>2 DEF Leads
<1>4. ASSUME NEW j \in 2 .. Len(s) + Len(t)
      PROVE  IsMild((s \o t)[j])
  <2>1. CASE j <= Len(s)
    BY <1>1, <1>2, <2>1 DEF Leads
  <2>2. CASE ~(j <= Len(s))
    <3>1. j - Len(s) \in DOMAIN t
      BY <1>2, <2>2
    <3>2. t[j - Len(s)] \in Range(t)
      BY <3>1 DEF Range
    <3>3. (s \o t)[j] = t[j - Len(s)]
      BY <1>1, <1>2, <2>2
    <3>4. QED  BY <3>2, <3>3
  <2>3. QED  BY <2>1, <2>2
<1>5. Len(s \o t) >= 1
  BY <1>1, <1>2
<1>6. QED  BY <1>1, <1>3, <1>4, <1>5 DEF Leads

\* All the risks are those of the parts, in their order.
LEMMA AllRisksAre ==
    ASSUME NEW scan
    PROVE  /\ \E S : AllRisks(scan) \in Seq(S)
           /\ Range(DataRisk(scan)) \subseteq Range(AllRisks(scan))
           /\ \A r : ApprovalRisk(scan) = <<r>> =>
                 \E S : Leads(S, AllRisks(scan), r)
<1> DEFINE p1 == ApprovalRisk(scan)       p2 == TransferRisk(scan)
           p3 == ConcentrationRisk(scan)  p4 == HighValueRisk(scan)
           p5 == TokenSecurityRisk(scan)  p6 == YieldRisk(scan)
           p7 == DefiRisk(scan)           p8 == DataRisk(scan)
           p9 == StaleRisk(scan)          p10 == ActivityRisk(scan)
           S == Range(p1) \cup Range(p2) \cup Range(p3) \cup Range(p4)
                  \cup Range(p5) \cup Range(p6) \cup Range(p7) \cup Range(p8)
                  \cup Range(p9) \cup Range(p10)
<1>1. /\ IsPiece(p1) /\ AreMild(p2) /\ AreMild(p3) /\ AreMild(p4)
      /\ AreMild(p5) /\ AreMild(p6) /\ AreMild(p7) /\ AreMild(p8)
      /\ AreMild(p9) /\ AreMild(p10)
  BY ApprovalRiskIsCritical, TransferRiskIsMild, ConcentrationRiskIsMild,
     HighValueRiskIsMild, TokenSecurityRiskIsMild, YieldRiskIsMild,
     DefiRiskIsMild, DataRisksAreMild
<1>2. AllRisks(scan) = p1 \o p2 \o p3 \o p4 \o p5 \o p6 \o p7 \o p8 \o p9 \o p10
  BY DEF AllRisks
<1> HIDE DEF p1, p2, p3, p4, p5, p6, p7, p8, p9, p10
<1>3. /\ p1 \in Seq(S) /\ p2 \in Seq(S) /\ p3 \in Seq(S) /\ p4 \in Seq(S)
      /\ p5 \in Seq(S) /\ p6 \in Seq(S) /\ p7 \in Seq(S) /\ p8 \in Seq(S)
      /\ p9 \in Seq(S) /\ p10 \in Seq(S)
  BY <1>1, PieceIsSeq DEF AreMild
<1> HIDE DEF S
<1> DEFINE q2 == p1 \o p2
<1>4. q2 \in Seq(S)
  BY <1>3, RangeOfConcat
<1> DEFINE q3 == q2 \o p3
<1> HIDE DEF q2
<1>5. q3 \in Seq(S)
  BY <1>3, <1>4, RangeOfConcat
<1> DEFINE q4 == q3 \o p4
<1> HIDE DEF q3
<1>6. q4 \in Seq(S)
  BY <1>3, <1>5, RangeOfConcat
<1> DEFINE q5 == q4 \o p5
<1> HIDE DEF q4
<1>7. q5 \in Seq(S)
  BY <1>3, <1>6, RangeOfConcat
<1> DEFINE q6 == q5 \o p6
<1> HIDE DEF q5
<1>8. q6 \in Seq(S)
  BY <1>3, <1>7, RangeOfConcat
<1> DEFINE q7 == q6 \o p7
<1> HIDE DEF q6
<1>9. q7 \in Seq(S)
  BY <1>3, <1>8, RangeOfConcat
<1> DEFINE q8 == q7 \o p8
<1> HIDE DEF q7
<1>10. q8 \in Seq(S) /\ Range(p8) \subseteq Range(q8)
  BY <1>3, <1>9, RangeOfConcat
<1> DEFINE q9 == q8 \o p9
<1> HIDE DEF q8
<1>11. q9 \in Seq(S) /\ Range(p8) \subseteq Range(q9)
  BY <1>3, <1>10, RangeOfConcat
<1> DEFINE q10 == q9 \o p10
<1> HIDE DEF q9
<1>12. q10 \in Seq(S) /\ Range(p8) \subseteq Range(q10)
  BY <1>3, <1>11, RangeOfConcat
<1> HIDE DEF q10
<1>13. ASSUME NEW r, p1 = <<r>>
       PROVE  Leads(S, q10, r)
  <2>1. Leads(S, p1, r)
    BY <1>3, <1>13 DEF Leads
  <2>2. Leads(S, q2, r)
    BY <1>1, <1>3, <2>1, LeadsOn DEF AreMild, q2
  <2>3. Leads(S, q3, r)
    BY <1>1, <1>3, <2>2, LeadsOn DEF AreMild, q3
  <2>4. Leads(S, q4, r)
    BY <1>1, <1>3, <2>3, LeadsOn DEF AreMild, q4
  <2>5. Leads(S, q5, r)
    BY <1>1, <1>3, <2>4, LeadsOn DEF AreMild, q5
  <2>6. Leads(S, q6, r)
    BY <1>1, <1>3, <2>5, LeadsOn DEF AreMild, q6
  <2>7. Leads(S, q7, r)
    BY <1>1, <1>3, <2>6, LeadsOn DEF AreMild, q7
  <2>8. Leads(S, q8, r)
    BY <1>1, <1>3, <2>7, LeadsOn DEF AreMild, q8
  <2>9. Leads(S, q9, r)
    BY <1>1, <1>3, <2>8, LeadsOn DEF AreMild, q9
  <2>10. QED  BY <1>1, <1>3, <2>9, LeadsOn DEF AreMild, q10
<1>14. AllRisks(scan) = q10
  BY <1>2 DEF q2, q3, q4, q5, q6, q7, q8, q9, q10
<1>15. QED  BY <1>12, <1>13, <1>14 DEF p1, p8
-----------------------------------------------------------------------------
(* The level and the decision.                                             *)

LEMMA Ranks ==
    /\ SeverityRank("Low") = 1 /\ SeverityRank("Moderate") = 2
    /\ SeverityRank("High") = 3 /\ SeverityRank("Critical") = 4
<1>1. \A n \in 1 .. 4 : Severities[n] = "Low" <=> n = 1
  BY DEF Severities
<1>2. \A n \in 1 .. 4 : Severities[n] = "Moderate" <=> n = 2
  BY DEF Severities
<1>3. \A n \in 1 .. 4 : Severities[n] = "High" <=> n = 3
  BY DEF Severities
<1>4. \A n \in 1 .. 4 : Severities[n] = "Critical" <=> n = 4
  BY DEF Severities
<1>5. QED  BY <1>1, <1>2, <1>3, <1>4 DEF SeverityRank

LEMMA NeverLow ==
    ASSUME NEW s
    PROVE  Worse(s, "Moderate") # "Low"
<1>1. s = "Low" => ~(SeverityRank(s) >= SeverityRank("Moderate"))
  BY Ranks
<1>2. Worse(s, "Moderate") \in {s, "Moderate"}
  BY DEF Worse
<1>3. s = "Low" => Worse(s, "Moderate") = "Moderate"
  BY <1>1 DEF Worse
<1>4. QED  BY <1>2, <1>3

LEMMA PartialIsNotLow ==
    ASSUME NEW scan, IsPartial(scan)
    PROVE  Level(scan) # "Low"
BY NeverLow DEF Level

LEMMA PartialIsNotSafe ==
    ASSUME NEW top
    PROVE  Decision(top, TRUE) # "SAFE"
BY DEF Decision

LEMMA PartialIsNamed ==
    ASSUME NEW scan, IsPartial(scan)
    PROVE  \E i \in DOMAIN AllRisks(scan) :
              AllRisks(scan)[i].type = "source_coverage"
<1> DEFINE all == Risk("source_coverage", "Moderate", 25, 55, CoverageEvidence(scan))
           some == Risk("source_coverage", "Moderate", 15, 65, CoverageEvidence(scan))
<1>1. DataRisk(scan) \in {all, some}
  BY DEF DataRisk
<1>2. (\E r : all = <<r>>) /\ \A r \in Range(all) : r.type = "source_coverage"
  BY RiskIsPiece
<1>3. (\E r : some = <<r>>) /\ \A r \in Range(some) : r.type = "source_coverage"
  BY RiskIsPiece
<1> HIDE DEF all, some
<1>4. PICK r : DataRisk(scan) = <<r>>
  BY <1>1, <1>2, <1>3
<1>5. r \in Range(DataRisk(scan))
  BY <1>4 DEF Range
<1>6. r.type = "source_coverage"
  BY <1>1, <1>2, <1>3, <1>5
<1>7. r \in Range(AllRisks(scan))
  BY <1>5, AllRisksAre
<1>8. QED  BY <1>6, <1>7 DEF Range

\* The risk that leads a sequence is critical: it is the top risk.
LEMMA CriticalIsFirst ==
    ASSUME NEW S, NEW risks, NEW r, Leads(S, risks, r),
           r.severity = "Critical", r.impact \in 0 .. 100
    PROVE  TopRisks(risks) # <<>> /\ TopRisks(risks)[1] = r
<1> DEFINE rank(n) == 1000 * SeverityRank(risks[n].severity) + risks[n].impact
           before(i) == {j \in DOMAIN risks : GoesBefore(risks, j, i)}
           first == CHOOSE i \in DOMAIN risks : Cardinality(before(i)) = 0
<1>1. Len(risks) \in Nat /\ Len(risks) >= 1 /\ DOMAIN risks = 1 .. Len(risks)
  BY LenProperties DEF Leads
<1>2. rank(1) \in Int /\ rank(1) >= 4000
  <2>1. risks[1] = r /\ SeverityRank(r.severity) = 4
    BY Ranks DEF Leads
  <2>2. rank(1) = 1000 * 4 + r.impact
    BY <2>1
  <2>3. \A impact \in 0 .. 100 : 1000 * 4 + impact \in Int /\ 1000 * 4 + impact >= 4000
    OBVIOUS
  <2> HIDE DEF rank
  <2>4. QED  BY <2>2, <2>3
<1>3. \A j \in 2 .. Len(risks) : rank(j) \in Int /\ rank(j) <= 3100
  <2>1. ASSUME NEW j \in 2 .. Len(risks)
        PROVE  rank(j) \in Int /\ rank(j) <= 3100
    <3>1. IsMild(risks[j])
      BY DEF Leads
    <3>2. SeverityRank(risks[j].severity) \in {2, 3} /\ risks[j].impact \in 0 .. 100
      BY <3>1, Ranks DEF IsMild
    <3>3. \A severity \in {2, 3}, impact \in 0 .. 100 :
             1000 * severity + impact \in Int /\ 1000 * severity + impact <= 3100
      OBVIOUS
    <3> DEFINE severity == SeverityRank(risks[j].severity)
               impact == risks[j].impact
    <3>4. severity \in {2, 3} /\ impact \in 0 .. 100
          /\ rank(j) = 1000 * severity + impact
      BY <3>2
    <3> HIDE DEF severity, impact, rank
    <3>5. QED  BY <3>3, <3>4
  <2>2. QED  BY <2>1
<1>4. \A i, j : GoesBefore(risks, i, j)
                   <=> rank(i) > rank(j) \/ (rank(i) = rank(j) /\ i < j)
  BY DEF GoesBefore
<1> HIDE DEF rank
<1>5. before(1) = {}
  <2>1. ASSUME NEW j \in DOMAIN risks, GoesBefore(risks, j, 1)
        PROVE  FALSE
    <3>1. CASE j = 1
      BY <1>2, <1>4, <2>1, <3>1
    <3>2. CASE j # 1
      <4>1. j \in 2 .. Len(risks)
        BY <1>1, <3>2
      <4>2. QED  BY <1>2, <1>3, <1>4, <2>1, <4>1
    <3>3. QED  BY <3>1, <3>2
  <2>2. QED  BY <2>1
<1>6. \A i \in 2 .. Len(risks) : 1 \in before(i)
  BY <1>1, <1>2, <1>3, <1>4
<1> HIDE DEF before
<1>7. \A i : IsFiniteSet(before(i))
  <2>1. IsFiniteSet(1 .. Len(risks))
    BY <1>1, FS_Interval
  <2>2. \A i : before(i) \subseteq 1 .. Len(risks)
    BY <1>1 DEF before
  <2>3. QED  BY <2>1, <2>2, FS_Subset
<1>8. \A i : Cardinality(before(i)) = 0 <=> before(i) = {}
  BY <1>7, FS_EmptySet
<1>9. 1 \in DOMAIN risks /\ Cardinality(before(1)) = 0
  BY <1>1, <1>5, <1>8
<1>10. first \in DOMAIN risks /\ Cardinality(before(first)) = 0
  BY <1>9
<1> HIDE DEF first
<1>11. first = 1
  <2>1. first \notin 2 .. Len(risks)
    BY <1>6, <1>8, <1>10
  <2>2. QED  BY <1>1, <1>10, <2>1
<1>12. /\ DOMAIN TopRisks(risks) = 1 .. AtMost(3, Len(risks))
       /\ 1 \in DOMAIN TopRisks(risks) => TopRisks(risks)[1] = risks[first]
  BY DEF TopRisks, first, before
<1>13. 1 \in DOMAIN TopRisks(risks)
  BY <1>1, <1>12 DEF AtMost
<1>14. DOMAIN <<>> = {}
  OBVIOUS
<1>15. TopRisks(risks) # <<>>
  BY <1>13, <1>14
<1>16. risks[1] = r
  BY DEF Leads
<1>17. QED  BY <1>11, <1>12, <1>13, <1>15, <1>16

LEMMA WeightedIsInt ==
    ASSUME NEW scan
    PROVE  WeightedScore(scan) \in Int
<1>1. /\ ApprovalsScore(scan) \in Int /\ TransfersScore(scan) \in Int
      /\ ConcentrationScore(scan) \in Int /\ YieldScore(scan) \in Int
      /\ DefiScore(scan) \in Int
  BY ApprovalsScoreValues, TransfersScoreValues, ConcentrationScoreValues,
     YieldScoreValues, DefiScoreValues
<1>2. QED  BY <1>1 DEF WeightedScore

\* An active approval to a malicious spender decides of everything.
LEMMA MaliciousDecides ==
    ASSUME NEW scan, NEW a \in scan.approvals, a.active, a.malicious
    PROVE  /\ Level(scan) = "Critical" /\ Score(scan) >= 8500
           /\ \A partial :
                 Decision(TopRisks(AllRisks(scan)), partial) = "PAUSE"
<1>1. ApprovalScore(a) = 100 /\ a \in Active(scan)
  BY DEF ApprovalScore, Active
<1>2. ApprovalsScore(scan) \in Int /\ ApprovalsScore(scan) >= 85
  BY <1>1, ApprovalsScoreValues
<1>3. Worse("Critical", "Moderate") = "Critical"
  BY Ranks DEF Worse
<1>4. Level(scan) = "Critical"
  BY <1>2, <1>3 DEF Level
<1>5. Score(scan) >= 8500
  BY <1>2, WeightedIsInt DEF Score, AtLeast
<1>6. PICK r : ApprovalRisk(scan) = <<r>> /\ r.severity = "Critical"
                  /\ r.impact \in 0 .. 100
  BY <1>2, ApprovalRiskIsCritical
<1>7. PICK S : Leads(S, AllRisks(scan), r)
  BY <1>6, AllRisksAre
<1>8. TopRisks(AllRisks(scan)) # <<>> /\ TopRisks(AllRisks(scan))[1] = r
  BY <1>6, <1>7, CriticalIsFirst
<1>9. QED  BY <1>4, <1>5, <1>6, <1>8 DEF Decision

-----------------------------------------------------------------------------
(* The assessment is of what was gathered, and stays so.                   *)

IsOfSubject ==
    answer # None => /\ answer = Assess(Scan(subject))
                     /\ state \notin {"INIT", "DATA_GATHERING"}

LEMMA TransitionMoves ==
    ASSUME NEW to, Transition(to)
    PROVE  state' \in {to, "refused"}
BY DEF Transition

\* The tools, and the deadline.
Gathers ==
    \/ Expire \/ Skip
    \/ GetNativeBalance
    \/ BalancesFromMoralis \/ BalancesFromTransfers \/ BalancesFromAllowlist
    \/ BalancesUnavailable
    \/ GetTokenApprovals \/ ApprovalsUnavailable \/ ApprovalsCrash
    \/ TransfersFromMoralis \/ TransfersFromEtherscan \/ TransfersUnavailable
    \/ GetTokenPrices \/ GetTokenSecurity \/ GetRwaYieldExposure

LEMMA GathersInTime ==
    ASSUME Gathers
    PROVE  /\ state = "DATA_GATHERING"
           /\ answer' = answer /\ wallet' = wallet /\ told' = told
           /\ state' \in {state, "crashed"}
<1> USE DEF InTime, Gathering, ToolEnds
<1>1. CASE Expire
  BY <1>1 DEF Expire
<1>2. CASE Skip
  BY <1>2 DEF Skip
<1>3. CASE GetNativeBalance
  BY <1>3 DEF GetNativeBalance
<1>4. CASE BalancesFromMoralis
  BY <1>4 DEF BalancesFromMoralis
<1>5. CASE BalancesFromTransfers
  BY <1>5 DEF BalancesFromTransfers
<1>6. CASE BalancesFromAllowlist
  BY <1>6 DEF BalancesFromAllowlist
<1>7. CASE BalancesUnavailable
  BY <1>7 DEF BalancesUnavailable
<1>8. CASE GetTokenApprovals
  BY <1>8 DEF GetTokenApprovals
<1>9. CASE ApprovalsUnavailable
  BY <1>9 DEF ApprovalsUnavailable
<1>10. CASE ApprovalsCrash
  BY <1>10 DEF ApprovalsCrash
<1>11. CASE TransfersFromMoralis
  BY <1>11 DEF TransfersFromMoralis
<1>12. CASE TransfersFromEtherscan
  BY <1>12 DEF TransfersFromEtherscan
<1>13. CASE TransfersUnavailable
  BY <1>13 DEF TransfersUnavailable
<1>14. CASE GetTokenPrices
  BY <1>14 DEF GetTokenPrices
<1>15. CASE GetTokenSecurity
  BY <1>15 DEF GetTokenSecurity
<1>16. CASE GetRwaYieldExposure
  BY <1>16 DEF GetRwaYieldExposure
<1>17. QED
  BY <1>1, <1>2, <1>3, <1>4, <1>5, <1>6, <1>7, <1>8, <1>9, <1>10, <1>11,
     <1>12, <1>13, <1>14, <1>15, <1>16 DEF Gathers

\* A scan's answer is the assessment of its subject, once it has both.
LEMMA OfSubject == Spec => []IsOfSubject
<1>1. Init => IsOfSubject
  BY DEF Init, IsOfSubject
<1>2. ASSUME IsOfSubject, [Next]_vars
      PROVE  IsOfSubject'
  <2> USE <1>2 DEF IsOfSubject
  <2>1. CASE Gathers
    BY <2>1, GathersInTime
  <2>2. CASE Begin
    BY <2>2 DEF Begin
  <2>3. CASE Weigh
    BY <2>3 DEF Weigh, Gathered
  <2>4. CASE Resume
    BY <2>4, TransitionMoves DEF Resume
  <2>5. CASE Evaluate
    <3>1. CASE OrphanClaims(Scan(subject)) = {}
      <4>1. state' \in {"EVIDENCE_BINDING", "refused"}
        BY <2>5, <3>1, TransitionMoves DEF Evaluate
      <4>2. answer' = Assess(Scan(subject)) /\ subject' = subject
        BY <2>5, <3>1 DEF Evaluate
      <4>3. QED  BY <4>1, <4>2
    <3>2. CASE OrphanClaims(Scan(subject)) # {}
      BY <2>5, <3>2 DEF Evaluate
    <3>3. QED  BY <3>1, <3>2
  <2>6. CASE BindEvidence
    BY <2>6, TransitionMoves DEF BindEvidence
  <2>7. CASE Explain
    BY <2>7, TransitionMoves DEF Explain
  <2>8. CASE ExplainCandidate
    BY <2>8 DEF ExplainCandidate
  <2>9. CASE UNCHANGED vars
    BY <2>9 DEF vars
  <2>10. QED
    BY <1>2, <2>1, <2>2, <2>3, <2>4, <2>5, <2>6, <2>7, <2>8, <2>9
    DEF Next, Gathers
<1>3. QED  BY <1>1, <1>2, PTL DEF Spec

\* For any wallet and any way that its providers answer: what could not be
\* read is not Low, not SAFE, and named (risk.py:evaluate_wallet_risk).
THEOREM NoGapIsSafe == Spec => []GapIsNotSafe
<1>1. IsOfSubject => GapIsNotSafe
  <2> SUFFICES ASSUME IsOfSubject, answer # None, IsPartial(subject)
               PROVE  /\ answer.level # "Low"
                      /\ answer.decision # "SAFE"
                      /\ \E i \in DOMAIN answer.risks :
                            answer.risks[i].type = "source_coverage"
    BY DEF GapIsNotSafe
  <2> DEFINE scan == Scan(subject)
  <2>1. IsPartial(scan)
    BY DEF Scan, IsPartial, Gaps
  <2>2. /\ answer.level = Level(scan) /\ answer.risks = AllRisks(scan)
        /\ answer.decision = Decision(TopRisks(AllRisks(scan)), IsPartial(scan))
    BY DEF IsOfSubject, Assess
  <2> HIDE DEF scan
  <2>3. answer.decision = Decision(TopRisks(AllRisks(scan)), TRUE)
    BY <2>1, <2>2 DEF IsPartial
  <2>4. QED  BY <2>1, <2>2, <2>3, PartialIsNotLow, PartialIsNotSafe, PartialIsNamed
<1>2. QED  BY <1>1, OfSubject, PTL

\* For any wallet: an active approval to a malicious spender pauses the agent
\* (risk.py: the floor, and the order of the risks).
THEOREM AlwaysPauses == Spec => []MaliciousPauses
<1>1. IsOfSubject => MaliciousPauses
  <2> SUFFICES ASSUME IsOfSubject, answer # None,
                      NEW a \in subject.approvals, a.active, a.malicious
               PROVE  /\ answer.level = "Critical" /\ answer.score >= 8500
                      /\ answer.decision = "PAUSE"
    BY DEF MaliciousPauses
  <2> DEFINE scan == Scan(subject)
  <2>1. a \in scan.approvals
    BY DEF Scan
  <2>2. /\ answer.level = Level(scan) /\ answer.score = Score(scan)
        /\ answer.decision = Decision(TopRisks(AllRisks(scan)), IsPartial(scan))
    BY DEF IsOfSubject, Assess
  <2> HIDE DEF scan
  <2>3. QED  BY <2>1, <2>2, MaliciousDecides
<1>2. QED  BY <1>1, OfSubject, PTL

-----------------------------------------------------------------------------
(* What is reported as read was read.                                      *)

SubjectFields == {"mode", "completeness", "sources", "evidence", "native",
                  "held", "listed", "approvals", "transfers", "tokens",
                  "exposure", "pages"}

Shaped(s) ==
    /\ DOMAIN s = SubjectFields
    /\ DOMAIN s.completeness = Fields
    /\ DOMAIN s.pages = Paged

\* The subject t tells the same of coverage, and of what is covered.
Same(s, t) ==
    /\ Shaped(t)
    /\ t.completeness = s.completeness
    /\ t.listed = s.listed
    /\ t.approvals = s.approvals
    /\ t.transfers = s.transfers
    /\ t.exposure = s.exposure
    /\ t.pages = s.pages

LEMMA SourceIsSame ==
    ASSUME NEW s, Shaped(s), NEW name, NEW status
    PROVE  Same(s, Source(s, name, status))
BY DEF Same, Source, Shaped, SubjectFields

LEMMA AddEvidenceIsSame ==
    ASSUME NEW s, Shaped(s), NEW items
    PROVE  Same(s, AddEvidence(s, items))
BY DEF Same, AddEvidence, Shaped, SubjectFields

LEMMA SameIsTransitive ==
    ASSUME NEW s, NEW t, NEW u, Same(s, t), Same(t, u)
    PROVE  Same(s, u)
BY DEF Same

LEMMA CoveredIs ==
    ASSUME NEW s, Shaped(s), NEW fields, NEW coverage
    PROVE  LET t == Covered(s, fields, coverage)
           IN  /\ Shaped(t)
               /\ \A f \in Fields : t.completeness[f] =
                     IF f \in fields THEN coverage ELSE s.completeness[f]
               /\ t.listed = s.listed /\ t.approvals = s.approvals
               /\ t.transfers = s.transfers /\ t.exposure = s.exposure
               /\ t.pages = s.pages
BY DEF Covered, Shaped, SubjectFields

LEMMA HoldIs ==
    ASSUME NEW s, Shaped(s), NEW items
    PROVE  LET t == Hold(s, items)
           IN  /\ Shaped(t) /\ t.completeness = s.completeness
               /\ t.listed = items /\ t.approvals = s.approvals
               /\ t.transfers = s.transfers /\ t.exposure = s.exposure
               /\ t.pages = s.pages
BY DEF Hold, Shaped, SubjectFields

LEMMA PagingIs ==
    ASSUME NEW s, Shaped(s), NEW kind \in Paged, NEW info
    PROVE  LET t == Paging(s, kind, info)
           IN  /\ Shaped(t) /\ t.completeness = s.completeness
               /\ t.listed = s.listed /\ t.approvals = s.approvals
               /\ t.transfers = s.transfers /\ t.exposure = s.exposure
               /\ t.pages[kind] = info
               /\ \A k \in Paged \ {kind} : t.pages[k] = s.pages[k]
BY DEF Paging, Shaped, SubjectFields

\* Of a history that is read by pages, everything is there, or there is more.
LEMMA PageIsAll ==
    ASSUME NEW all, NEW limit, NEW page \in Paginated(all, limit)
    PROVE  /\ page.rows \subseteq all
           /\ page.last = "short" => page.rows = all
           /\ \/ PageInfo(page, limit).hasMore
              \/ PageInfo(page, limit).last = "empty"
              \/ page.rows = all
<1>1. /\ page.rows \subseteq all /\ page.last \in {"full", "short", "empty"}
      /\ page.last = "full" => page.fetched = limit
      /\ page.last = "short" => page.rows = all
  BY DEF Paginated
<1>2. /\ PageInfo(page, limit).hasMore = (page.fetched = limit /\ page.last = "full")
      /\ PageInfo(page, limit).last = page.last
  BY DEF PageInfo
<1>3. QED  BY <1>1, <1>2

Available(s, f) == s.completeness[f] = "available"

Told(s, kind) == s.pages[kind].hasMore \/ s.pages[kind].last = "empty"

BalancesRead(s, w) ==
    (\E f \in BalanceFields : Available(s, f)) =>
        \/ s.pages["tokens"].last # "short"
        \/ \A t \in w.tokens : \E b \in s.listed :
               b.token = t.token /\ b.value = t.value

ApprovalsRead(s, w) ==
    Available(s, "approvalEvents") =>
        \/ Told(s, "approvals")
        \/ \A log \in w.logs : \E a \in s.approvals : a.log = log

TransfersRead(s, w, cut) ==
    Available(s, "transferLogs") =>
        \/ cut
        \/ Told(s, "transfers")
        \/ \A t \in w.transfers : \E row \in s.transfers : row.id[2] = t.id

ExposureRead(s) == Available(s, "rwaYieldExposure") => s.exposure # None

AllRead(s, w, cut) ==
    /\ BalancesRead(s, w)
    /\ ApprovalsRead(s, w)
    /\ TransfersRead(s, w, cut)
    /\ ExposureRead(s)

LEMMA SameIsRead ==
    ASSUME NEW s, NEW t, Same(s, t), NEW w, NEW cut, AllRead(s, w, cut)
    PROVE  Shaped(t) /\ AllRead(t, w, cut)
BY DEF Same, AllRead, BalancesRead, ApprovalsRead, TransfersRead,
       ExposureRead, Available, Told

LEMMA BalanceFieldsAre == BalanceFields \subseteq Fields
BY DEF BalanceFields, Fields

LEMMA AfterMoralisIsSame ==
    ASSUME Shaped(subject), NEW s \in AfterMoralis
    PROVE  Shaped(s) /\ Same(subject, s)
<1>1. CASE config.moralisBalances
  <2>1. PICK read \in SUBSET Rows("moralis", wallet.tokens) :
           s = Source(AddEvidence(subject, BalanceEvidence(read)), "moralis", "partial")
    BY <1>1 DEF AfterMoralis
  <2> DEFINE t == AddEvidence(subject, BalanceEvidence(read))
  <2>2. Same(subject, t)
    BY AddEvidenceIsSame
  <2> HIDE DEF t
  <2>3. Same(t, Source(t, "moralis", "partial"))
    BY <2>2, SourceIsSame DEF Same
  <2>4. QED  BY <2>1, <2>2, <2>3, SameIsTransitive DEF Same, t
<1>2. CASE ~config.moralisBalances
  <2>1. s = subject
    BY <1>2 DEF AfterMoralis
  <2>2. QED  BY <2>1 DEF Same
<1>3. QED  BY <1>1, <1>2

LEMMA AfterIndexerIsSame ==
    ASSUME Shaped(subject), NEW s \in AfterIndexer
    PROVE  Shaped(s) /\ Same(subject, s)
<1>1. CASE AsksIndexer
  <2>1. PICK t \in AfterMoralis : s = Source(t, "etherscanV2", "partial")
    BY <1>1 DEF AfterIndexer
  <2>2. Shaped(t) /\ Same(subject, t)
    BY AfterMoralisIsSame
  <2>3. Same(t, s)
    BY <2>1, <2>2, SourceIsSame
  <2>4. QED  BY <2>2, <2>3, SameIsTransitive DEF Same
<1>2. CASE ~AsksIndexer
  BY <1>2, AfterMoralisIsSame DEF AfterIndexer
<1>3. QED  BY <1>1, <1>2

LEMMA AfterHistoryIsSame ==
    ASSUME Shaped(subject), NEW s \in AfterHistory
    PROVE  Shaped(s) /\ Same(subject, s)
<1>1. CASE config.moralisHistory
  <2>1. PICK read \in SUBSET wallet.transfers :
           s = Source(AddEvidence(subject, TransferEvidence(read)), "moralis", "partial")
    BY <1>1 DEF AfterHistory
  <2> DEFINE t == AddEvidence(subject, TransferEvidence(read))
  <2>2. Same(subject, t)
    BY AddEvidenceIsSame
  <2> HIDE DEF t
  <2>3. Same(t, Source(t, "moralis", "partial"))
    BY <2>2, SourceIsSame DEF Same
  <2>4. QED  BY <2>1, <2>2, <2>3, SameIsTransitive DEF Same, t
<1>2. CASE ~config.moralisHistory
  <2>1. s = subject
    BY <1>2 DEF AfterHistory
  <2>2. QED  BY <2>1 DEF Same
<1>3. QED  BY <1>1, <1>2

\* Some rows are listed, and the coverage of balances is made what it is.
LEMMA ListedIs ==
    ASSUME NEW s, Shaped(s), NEW items, NEW coverage, NEW w, NEW cut,
           ApprovalsRead(s, w), TransfersRead(s, w, cut), ExposureRead(s),
           coverage = "available" =>
               \/ s.pages["tokens"].last # "short"
               \/ \A t \in w.tokens : \E b \in items :
                      b.token = t.token /\ b.value = t.value
    PROVE  LET t == Covered(Hold(s, items), BalanceFields, coverage)
           IN  Shaped(t) /\ AllRead(t, w, cut)
<1> DEFINE h == Hold(s, items)
           t == Covered(h, BalanceFields, coverage)
<1>1. /\ Shaped(h) /\ h.completeness = s.completeness
      /\ h.listed = items /\ h.approvals = s.approvals
      /\ h.transfers = s.transfers /\ h.exposure = s.exposure
      /\ h.pages = s.pages
  BY HoldIs
<1> HIDE DEF h
<1>2. /\ Shaped(t)
      /\ \A f \in Fields : t.completeness[f] =
            IF f \in BalanceFields THEN coverage ELSE s.completeness[f]
      /\ t.listed = items /\ t.approvals = s.approvals
      /\ t.transfers = s.transfers /\ t.exposure = s.exposure
      /\ t.pages = s.pages
  BY <1>1, CoveredIs
<1> HIDE DEF t
<1>3. /\ "approvalEvents" \in Fields \ BalanceFields
      /\ "transferLogs" \in Fields \ BalanceFields
      /\ "rwaYieldExposure" \in Fields \ BalanceFields
  BY DEF Fields, BalanceFields
<1>4. BalancesRead(t, w)
  BY <1>2, BalanceFieldsAre DEF BalancesRead, Available
<1>5. ApprovalsRead(t, w)
  BY <1>2, <1>3 DEF ApprovalsRead, Available, Told
<1>6. TransfersRead(t, w, cut)
  BY <1>2, <1>3 DEF TransfersRead, Available, Told
<1>7. ExposureRead(t)
  BY <1>2, <1>3 DEF ExposureRead, Available
<1>8. QED  BY <1>2, <1>4, <1>5, <1>6, <1>7 DEF AllRead, t, h

\* Then a source's status and items of evidence are noted.
LEMMA NotedIs ==
    ASSUME NEW s, Shaped(s), NEW name, NEW status, NEW items, NEW w, NEW cut,
           AllRead(s, w, cut)
    PROVE  LET t == AddEvidence(Source(s, name, status), items)
           IN  Shaped(t) /\ AllRead(t, w, cut)
<1> DEFINE r == Source(s, name, status)
<1>1. Same(s, r)
  BY SourceIsSame
<1> HIDE DEF r
<1>2. Same(r, AddEvidence(r, items))
  BY <1>1, AddEvidenceIsSame DEF Same
<1>3. Same(s, AddEvidence(r, items))
  BY <1>1, <1>2, SameIsTransitive
<1>4. QED  BY <1>3, SameIsRead DEF r

\* After the deadline everything is as well read as before.
LEMMA CutIsRead ==
    ASSUME NEW s, NEW w, NEW cut, AllRead(s, w, FALSE)
    PROVE  AllRead(s, w, cut)
BY DEF AllRead, TransfersRead

\* Each tool that ends leaves everything as well read as it is reported.
ReadSoFar ==
    state # "INIT" /\ wallet # None =>
        Shaped(subject) /\ AllRead(subject, wallet, expired)

ReadNow == Shaped(subject') /\ AllRead(subject', wallet, expired')

LEMMA SkipIsRead ==
    ASSUME Shaped(subject), AllRead(subject, wallet, expired), Skip
    PROVE  ReadNow
<1>1. PICK tool \in Range(Tools) :
         /\ subject' = [subject EXCEPT
              !.completeness = [f \in Fields |->
                  IF f \in ToolFields[tool] /\ @[f] # "unavailable"
                  THEN "partial" ELSE @[f]],
              !.sources = [s \in SourceNames |->
                  IF s \in ToolSources[tool] /\ @[s] # "unavailable"
                  THEN "partial" ELSE @[s]]]
         /\ expired' = TRUE
  BY DEF Skip, ToolEnds
<1>2. /\ Shaped(subject')
      /\ subject'.listed = subject.listed
      /\ subject'.approvals = subject.approvals
      /\ subject'.exposure = subject.exposure
      /\ subject'.pages = subject.pages
      /\ \A f \in Fields : subject'.completeness[f] \in
                              {"partial", subject.completeness[f]}
  BY <1>1 DEF Shaped, SubjectFields
<1>3. \A f \in Fields : Available(subject', f) => Available(subject, f)
  BY <1>2 DEF Available
<1>4. {"approvalEvents", "rwaYieldExposure"} \subseteq Fields
  BY DEF Fields
<1>5. BalancesRead(subject', wallet)
  BY <1>2, <1>3, BalanceFieldsAre DEF AllRead, BalancesRead
<1>6. ApprovalsRead(subject', wallet)
  BY <1>2, <1>3, <1>4 DEF AllRead, ApprovalsRead, Told
<1>7. TransfersRead(subject', wallet, expired')
  BY <1>1 DEF TransfersRead
<1>8. ExposureRead(subject')
  BY <1>2, <1>3, <1>4 DEF AllRead, ExposureRead
<1>9. QED  BY <1>2, <1>5, <1>6, <1>7, <1>8 DEF ReadNow, AllRead

LEMMA NativeIsRead ==
    ASSUME Shaped(subject), AllRead(subject, wallet, FALSE), GetNativeBalance
    PROVE  ReadNow
<1> DEFINE item == Balance("rpc", None, "MNT", 0)
           s == [subject EXCEPT !.native = {item}, !.held = {item}]
           c == Covered(s, {"nativeBalance"}, "available")
<1>1. expired' = FALSE
  BY DEF GetNativeBalance, ToolEnds
<1>2. CASE subject' = subject
  BY <1>1, <1>2 DEF ReadNow
<1>3. CASE subject' = Source(subject, "mantleRpc", "partial")
  BY <1>1, <1>3, SourceIsSame, SameIsRead DEF ReadNow
<1>4. CASE subject' = AddEvidence(Source(c, "mantleRpc", "available"),
                                  BalanceEvidence({item}))
  <2>1. Same(subject, s)
    BY DEF Same, Shaped, SubjectFields
  <2>2. Shaped(s) /\ AllRead(s, wallet, FALSE)
    BY <2>1, SameIsRead
  <2> HIDE DEF s
  <2>3. /\ Shaped(c)
        /\ \A f \in Fields \ {"nativeBalance"} :
              c.completeness[f] = s.completeness[f]
        /\ c.listed = s.listed /\ c.approvals = s.approvals
        /\ c.transfers = s.transfers /\ c.exposure = s.exposure
        /\ c.pages = s.pages
    BY <2>2, CoveredIs
  <2> HIDE DEF c
  <2>4. BalanceFields \cup {"approvalEvents", "transferLogs", "rwaYieldExposure"}
           \subseteq Fields \ {"nativeBalance"}
    BY DEF Fields, BalanceFields
  <2>5. AllRead(c, wallet, FALSE)
    <3>1. BalancesRead(c, wallet)
      BY <2>2, <2>3, <2>4 DEF AllRead, BalancesRead, Available
    <3>2. ApprovalsRead(c, wallet)
      BY <2>2, <2>3, <2>4 DEF AllRead, ApprovalsRead, Available, Told
    <3>3. TransfersRead(c, wallet, FALSE)
      BY <2>2, <2>3, <2>4 DEF AllRead, TransfersRead, Available, Told
    <3>4. ExposureRead(c)
      BY <2>2, <2>3, <2>4 DEF AllRead, ExposureRead, Available
    <3>5. QED  BY <3>1, <3>2, <3>3, <3>4 DEF AllRead
  <2>6. QED  BY <1>1, <1>4, <2>3, <2>5, NotedIs DEF ReadNow
<1>5. QED
  BY <1>2, <1>3, <1>4 DEF GetNativeBalance, ToolEnds

LEMMA BalancesAreRead ==
    ASSUME Shaped(subject), AllRead(subject, wallet, FALSE),
           \/ BalancesFromMoralis \/ BalancesFromTransfers
           \/ BalancesFromAllowlist \/ BalancesUnavailable
    PROVE  ReadNow
<1>1. CASE BalancesFromMoralis
  <2>1. PICK page \in Paginated(wallet.tokens, 1) :
           /\ subject' = AddEvidence(
                  Source(Covered(Hold(
                      Paging(subject, "tokens", [hasMore |-> FALSE, last |-> page.last]),
                      Rows("moralis", page.rows)), BalanceFields, "available"),
                      "moralis", "available"),
                  BalanceEvidence(Rows("moralis", page.rows)))
           /\ expired' = FALSE
    BY <1>1 DEF BalancesFromMoralis, ToolEnds
  <2> DEFINE items == Rows("moralis", page.rows)
             info == [hasMore |-> FALSE, last |-> page.last]
             s == Paging(subject, "tokens", info)
             t == Covered(Hold(s, items), BalanceFields, "available")
  <2>2. \A token \in page.rows : \E b \in items :
            b.token = token.token /\ b.value = token.value
    <3> TAKE token \in page.rows
    <3> DEFINE b == Balance("moralis", token.token, token.symbol, token.value)
    <3>1. b \in items
      BY DEF Rows
    <3>2. b.token = token.token /\ b.value = token.value
      BY DEF Balance
    <3>3. QED  BY <3>1, <3>2
  <2>3. subject' = AddEvidence(Source(t, "moralis", "available"), BalanceEvidence(items))
    BY <2>1
  <2>4. info.last = page.last
    OBVIOUS
  <2> HIDE DEF items, info
  <2>5. "tokens" \in Paged /\ {"approvals", "transfers"} \subseteq Paged \ {"tokens"}
    BY DEF Paged
  <2>6. /\ Shaped(s) /\ s.completeness = subject.completeness
        /\ s.approvals = subject.approvals /\ s.transfers = subject.transfers
        /\ s.exposure = subject.exposure /\ s.pages["tokens"] = info
        /\ s.pages["approvals"] = subject.pages["approvals"]
        /\ s.pages["transfers"] = subject.pages["transfers"]
    BY <2>5, PagingIs
  <2> HIDE DEF s
  <2>7. ApprovalsRead(s, wallet) /\ TransfersRead(s, wallet, FALSE) /\ ExposureRead(s)
    <3>1. ApprovalsRead(s, wallet)
      BY <2>6 DEF AllRead, ApprovalsRead, Available, Told
    <3>2. TransfersRead(s, wallet, FALSE)
      BY <2>6 DEF AllRead, TransfersRead, Available, Told
    <3>3. ExposureRead(s)
      BY <2>6 DEF AllRead, ExposureRead, Available
    <3>4. QED  BY <3>1, <3>2, <3>3
  <2>8. \/ s.pages["tokens"].last # "short"
        \/ \A token \in wallet.tokens : \E b \in items :
               b.token = token.token /\ b.value = token.value
    BY <2>2, <2>4, <2>6, PageIsAll
  <2>9. Shaped(t) /\ AllRead(t, wallet, FALSE)
    BY <2>6, <2>7, <2>8, ListedIs
  <2> HIDE DEF t
  <2>10. QED  BY <2>1, <2>3, <2>9, NotedIs DEF ReadNow
<1>2. CASE BalancesFromTransfers
  <2>0. PICK s \in AfterMoralis : \E items, missing, cut :
           LET read == IF cut THEN Source(s, "mantleRpc", "partial") ELSE s
           IN  /\ subject' = AddEvidence(
                     Source(Covered(Hold(read, items), BalanceFields, "partial"),
                            "etherscanV2", "available"), missing)
               /\ expired' = cut
    BY <1>2 DEF BalancesFromTransfers, ToolEnds
  <2>1. PICK items, missing, cut :
           LET read == IF cut THEN Source(s, "mantleRpc", "partial") ELSE s
           IN  /\ subject' = AddEvidence(
                     Source(Covered(Hold(read, items), BalanceFields, "partial"),
                            "etherscanV2", "available"), missing)
               /\ expired' = cut
    BY <2>0
  <2> DEFINE read == IF cut THEN Source(s, "mantleRpc", "partial") ELSE s
             t == Covered(Hold(read, items), BalanceFields, "partial")
  <2>2. Shaped(s) /\ AllRead(s, wallet, FALSE)
    BY AfterMoralisIsSame, SameIsRead
  <2>3. Shaped(read) /\ AllRead(read, wallet, FALSE)
    BY <2>2, SourceIsSame, SameIsRead
  <2> HIDE DEF read
  <2>4. Shaped(t) /\ AllRead(t, wallet, FALSE)
    BY <2>3, ListedIs DEF AllRead
  <2>5. AllRead(t, wallet, cut)
    BY <2>4, CutIsRead
  <2>6. subject' = AddEvidence(Source(t, "etherscanV2", "available"), missing)
    BY <2>1 DEF read
  <2> HIDE DEF t
  <2>7. QED  BY <2>1, <2>4, <2>5, <2>6, NotedIs DEF ReadNow
<1>3. CASE BalancesFromAllowlist
  <2>0. PICK s \in AfterIndexer : \E items, cut :
           LET read == IF cut THEN Source(s, "mantleRpc", "partial") ELSE s
           IN  /\ subject' = AddEvidence(
                     Covered(Hold(read, items), BalanceFields, "partial"),
                     BalanceEvidence(items))
               /\ expired' = cut
    BY <1>3 DEF BalancesFromAllowlist, ToolEnds
  <2>1. PICK items, cut :
           LET read == IF cut THEN Source(s, "mantleRpc", "partial") ELSE s
           IN  /\ subject' = AddEvidence(
                     Covered(Hold(read, items), BalanceFields, "partial"),
                     BalanceEvidence(items))
               /\ expired' = cut
    BY <2>0
  <2> DEFINE read == IF cut THEN Source(s, "mantleRpc", "partial") ELSE s
             t == Covered(Hold(read, items), BalanceFields, "partial")
  <2>2. Shaped(s) /\ AllRead(s, wallet, FALSE)
    BY AfterIndexerIsSame, SameIsRead
  <2>3. Shaped(read) /\ AllRead(read, wallet, FALSE)
    BY <2>2, SourceIsSame, SameIsRead
  <2> HIDE DEF read
  <2>4. Shaped(t) /\ AllRead(t, wallet, FALSE)
    BY <2>3, ListedIs DEF AllRead
  <2>5. AllRead(t, wallet, cut)
    BY <2>4, CutIsRead
  <2>6. subject' = AddEvidence(t, BalanceEvidence(items))
    BY <2>1 DEF read
  <2> HIDE DEF t
  <2>7. QED  BY <2>1, <2>4, <2>5, <2>6, AddEvidenceIsSame, SameIsRead DEF ReadNow
<1>4. CASE BalancesUnavailable
  <2>1. subject' \in AfterIndexer /\ expired' = FALSE
    BY <1>4 DEF BalancesUnavailable, ToolEnds
  <2>2. QED  BY <2>1, AfterIndexerIsSame, SameIsRead DEF ReadNow
<1>5. QED  BY <1>1, <1>2, <1>3, <1>4

\* The subject after the approvals on a page, and what may be known of whether
\* they are active.
ApprovalsOf(page, confirmed, active) ==
    AddEvidence(
        Source(Covered(Covered(
            [Paging(subject, "approvals", PageInfo(page, MaxPages)) EXCEPT
                !.approvals = {ApprovalOf(log, log \in confirmed) : log \in page.rows}],
            {"approvalEvents"}, "available"),
            {"activeAllowanceConfirmation"}, active),
            "etherscanV2", "available"),
        {ApprovalEvidence(log, log \in confirmed) : log \in page.rows})

ActiveOf(logs, confirmed) ==
    CASE logs = {} -> {"partial"}
      [] logs # {} /\ ~config.rpc -> {"unavailable"}
      [] OTHER -> {IF log \in confirmed THEN "available" ELSE "partial" : log \in logs}

LEMMA ApprovalsStep ==
    ASSUME GetTokenApprovals
    PROVE  \E page \in Paginated(wallet.logs, MaxPages) :
              \E confirmed \in (IF config.rpc THEN SUBSET page.rows ELSE {{}}) :
                 \E active \in ActiveOf(page.rows, confirmed) :
                    /\ subject' = ApprovalsOf(page, confirmed, active)
                    /\ expired' = FALSE
<1>1. PICK page \in Paginated(wallet.logs, MaxPages) :
         \E confirmed \in (IF config.rpc THEN SUBSET page.rows ELSE {{}}) :
            \E active \in ActiveOf(page.rows, confirmed) :
               ToolEnds(ApprovalsOf(page, confirmed, active), FALSE)
  BY ZenonT(60) DEF GetTokenApprovals, ApprovalsOf, ActiveOf
<1>2. QED  BY <1>1, ZenonT(60) DEF ToolEnds

LEMMA ApprovalsAreRead ==
    ASSUME Shaped(subject), AllRead(subject, wallet, FALSE),
           GetTokenApprovals \/ ApprovalsUnavailable
    PROVE  ReadNow
<1>1. CASE GetTokenApprovals
  <2>1. PICK page \in Paginated(wallet.logs, MaxPages) :
           \E confirmed \in (IF config.rpc THEN SUBSET page.rows ELSE {{}}) :
              \E active \in ActiveOf(page.rows, confirmed) :
                 subject' = ApprovalsOf(page, confirmed, active) /\ expired' = FALSE
    BY <1>1, ApprovalsStep
  <2>2. PICK confirmed \in (IF config.rpc THEN SUBSET page.rows ELSE {{}}) :
           \E active \in ActiveOf(page.rows, confirmed) :
              subject' = ApprovalsOf(page, confirmed, active) /\ expired' = FALSE
    BY <2>1
  <2>3. PICK active \in ActiveOf(page.rows, confirmed) :
           subject' = ApprovalsOf(page, confirmed, active) /\ expired' = FALSE
    BY <2>2
  <2> DEFINE approvals == {ApprovalOf(log, log \in confirmed) : log \in page.rows}
             items == {ApprovalEvidence(log, log \in confirmed) : log \in page.rows}
             info == PageInfo(page, MaxPages)
             r == Paging(subject, "approvals", info)
             s == [r EXCEPT !.approvals = approvals]
             c == Covered(s, {"approvalEvents"}, "available")
             d == Covered(c, {"activeAllowanceConfirmation"}, active)
  <2>4. \A log \in page.rows : \E a \in approvals : a.log = log
    <3> TAKE log \in page.rows
    <3>1. ApprovalOf(log, log \in confirmed) \in approvals
      OBVIOUS
    <3>2. ApprovalOf(log, log \in confirmed).log = log
      BY DEF ApprovalOf
    <3>3. QED  BY <3>1, <3>2
  <2> HIDE DEF approvals
  <2>5. info.hasMore \/ info.last = "empty" \/ page.rows = wallet.logs
    BY PageIsAll
  <2> HIDE DEF info, items
  <2>6. "approvals" \in Paged /\ {"tokens", "transfers"} \subseteq Paged \ {"approvals"}
    BY DEF Paged
  <2>7. /\ Shaped(r) /\ r.completeness = subject.completeness
        /\ r.listed = subject.listed /\ r.transfers = subject.transfers
        /\ r.exposure = subject.exposure /\ r.pages["approvals"] = info
        /\ r.pages["tokens"] = subject.pages["tokens"]
        /\ r.pages["transfers"] = subject.pages["transfers"]
    BY <2>6, PagingIs
  <2> HIDE DEF r
  <2>8. /\ Shaped(s) /\ s.completeness = r.completeness
        /\ s.listed = r.listed /\ s.approvals = approvals
        /\ s.transfers = r.transfers /\ s.exposure = r.exposure
        /\ s.pages = r.pages
    BY <2>7 DEF Shaped, SubjectFields
  <2> HIDE DEF s
  <2>9. /\ Shaped(s) /\ s.completeness = subject.completeness
        /\ s.listed = subject.listed /\ s.approvals = approvals
        /\ s.transfers = subject.transfers /\ s.exposure = subject.exposure
        /\ s.pages["approvals"] = info
        /\ s.pages["tokens"] = subject.pages["tokens"]
        /\ s.pages["transfers"] = subject.pages["transfers"]
    BY <2>7, <2>8
  <2>10. /\ Shaped(c)
         /\ \A f \in Fields \ {"approvalEvents"} :
               c.completeness[f] = s.completeness[f]
         /\ c.listed = s.listed /\ c.approvals = s.approvals
         /\ c.transfers = s.transfers /\ c.exposure = s.exposure
         /\ c.pages = s.pages
    BY <2>9, CoveredIs
  <2> HIDE DEF c
  <2>11. /\ Shaped(d)
         /\ \A f \in Fields \ {"activeAllowanceConfirmation"} :
               d.completeness[f] = c.completeness[f]
         /\ d.listed = c.listed /\ d.approvals = c.approvals
         /\ d.transfers = c.transfers /\ d.exposure = c.exposure
         /\ d.pages = c.pages
    BY <2>10, CoveredIs
  <2> HIDE DEF d
  <2>12. BalanceFields \cup {"transferLogs", "rwaYieldExposure"} \subseteq
           Fields \ {"approvalEvents", "activeAllowanceConfirmation"}
    BY DEF Fields, BalanceFields
  <2>13. \A f \in Fields \ {"approvalEvents", "activeAllowanceConfirmation"} :
           Available(d, f) <=> Available(subject, f)
    BY <2>9, <2>10, <2>11 DEF Available
  <2>14. AllRead(d, wallet, FALSE)
    <3>1. BalancesRead(d, wallet)
      BY <2>9, <2>10, <2>11, <2>12, <2>13 DEF AllRead, BalancesRead
    <3>2. ApprovalsRead(d, wallet)
      <4>1. d.approvals = approvals /\ d.pages["approvals"] = info
        BY <2>9, <2>10, <2>11
      <4>2. Told(d, "approvals") \/ page.rows = wallet.logs
        BY <2>5, <4>1, Zenon DEF Told
      <4>3. QED  BY <2>4, <4>1, <4>2 DEF ApprovalsRead
    <3>3. TransfersRead(d, wallet, FALSE)
      BY <2>9, <2>10, <2>11, <2>12, <2>13 DEF AllRead, TransfersRead, Told
    <3>4. ExposureRead(d)
      BY <2>9, <2>10, <2>11, <2>12, <2>13 DEF AllRead, ExposureRead
    <3>5. QED  BY <3>1, <3>2, <3>3, <3>4 DEF AllRead
  <2>15. subject' = AddEvidence(Source(d, "etherscanV2", "available"), items)
    BY <2>3 DEF ApprovalsOf, items, d, c, s, r, info, approvals
  <2>16. QED  BY <2>3, <2>11, <2>14, <2>15, NotedIs DEF ReadNow
<1>2. CASE ApprovalsUnavailable
  <2>1. /\ subject' \in {subject, Source(subject, "etherscanV2", "partial")}
        /\ expired' = FALSE
    BY <1>2 DEF ApprovalsUnavailable, ToolEnds
  <2>2. Same(subject, Source(subject, "etherscanV2", "partial"))
    BY SourceIsSame
  <2>3. Same(subject, subject')
    BY <2>1, <2>2 DEF Same
  <2>4. QED  BY <2>1, <2>3, SameIsRead DEF ReadNow
<1>3. QED  BY <1>1, <1>2

\* Transfers are noted, and the coverage of transfers is made what it is.
LEMMA TransfersListed ==
    ASSUME NEW s, Shaped(s), NEW rows, NEW coverage, NEW w, NEW cut,
           BalancesRead(s, w), ApprovalsRead(s, w), ExposureRead(s),
           coverage = "available" =>
               \/ cut
               \/ Told(s, "transfers")
               \/ \A t \in w.transfers : \E row \in rows : row.id[2] = t.id
    PROVE  LET t == Covered(Covered([s EXCEPT !.transfers = rows],
                                    {"transferLogs"}, coverage),
                            {"transactionHistory"}, "partial")
           IN  Shaped(t) /\ AllRead(t, w, cut)
<1> DEFINE r == [s EXCEPT !.transfers = rows]
           c == Covered(r, {"transferLogs"}, coverage)
           d == Covered(c, {"transactionHistory"}, "partial")
<1>1. /\ Shaped(r) /\ r.completeness = s.completeness
      /\ r.listed = s.listed /\ r.approvals = s.approvals
      /\ r.transfers = rows /\ r.exposure = s.exposure
      /\ r.pages = s.pages
  BY DEF Shaped, SubjectFields
<1> HIDE DEF r
<1>2. /\ Shaped(c)
      /\ \A f \in Fields : c.completeness[f] =
            IF f \in {"transferLogs"} THEN coverage ELSE r.completeness[f]
      /\ c.listed = r.listed /\ c.approvals = r.approvals
      /\ c.transfers = r.transfers /\ c.exposure = r.exposure
      /\ c.pages = r.pages
  BY <1>1, CoveredIs
<1> HIDE DEF c
<1>3. /\ Shaped(d)
      /\ \A f \in Fields : d.completeness[f] =
            IF f \in {"transactionHistory"} THEN "partial" ELSE c.completeness[f]
      /\ d.listed = c.listed /\ d.approvals = c.approvals
      /\ d.transfers = c.transfers /\ d.exposure = c.exposure
      /\ d.pages = c.pages
  BY <1>2, CoveredIs
<1> HIDE DEF d
<1>4. BalanceFields \cup {"approvalEvents", "rwaYieldExposure"} \subseteq
         Fields \ {"transferLogs", "transactionHistory"}
  BY DEF Fields, BalanceFields
<1>5. \A f \in Fields \ {"transferLogs", "transactionHistory"} :
         Available(d, f) <=> Available(s, f)
  BY <1>1, <1>2, <1>3 DEF Available
<1>6. Available(d, "transferLogs") => coverage = "available"
  <2>1. "transferLogs" \in Fields
    BY DEF Fields
  <2>2. QED  BY <1>2, <1>3, <2>1 DEF Available
<1>7. AllRead(d, w, cut)
  <2>1. BalancesRead(d, w)
    BY <1>1, <1>2, <1>3, <1>4, <1>5 DEF BalancesRead
  <2>2. ApprovalsRead(d, w)
    BY <1>1, <1>2, <1>3, <1>4, <1>5 DEF ApprovalsRead, Told
  <2>3. TransfersRead(d, w, cut)
    BY <1>1, <1>2, <1>3, <1>6 DEF TransfersRead, Told
  <2>4. ExposureRead(d)
    BY <1>1, <1>2, <1>3, <1>4, <1>5 DEF ExposureRead
  <2>5. QED  BY <2>1, <2>2, <2>3, <2>4 DEF AllRead
<1>8. QED  BY <1>3, <1>7 DEF d, c, r

LEMMA RowsAreAll ==
    ASSUME NEW transfers, NEW judged
    PROVE  \A t \in transfers : \E row \in TransferRows(transfers, judged) :
              row.id[2] = t.id
<1> TAKE t \in transfers
<1> DEFINE row(u) == [id |-> <<"transfer", u.id>>, status |-> "available",
                      kind |-> IF judged THEN u.kind ELSE "token_transfer"]
<1>1. row(t) \in TransferRows(transfers, judged)
  BY DEF TransferRows
<1>2. row(t).id[2] = t.id
  OBVIOUS
<1>3. QED  BY <1>1, <1>2

\* The pages of the transfers are noted before the transfers are.
LEMMA TransfersPaged ==
    ASSUME NEW s, Shaped(s), NEW info, NEW w, AllRead(s, w, FALSE)
    PROVE  LET t == Paging(s, "transfers", info)
           IN  /\ Shaped(t) /\ t.pages["transfers"] = info
               /\ BalancesRead(t, w) /\ ApprovalsRead(t, w) /\ ExposureRead(t)
<1> DEFINE t == Paging(s, "transfers", info)
<1>1. "transfers" \in Paged /\ {"tokens", "approvals"} \subseteq Paged \ {"transfers"}
  BY DEF Paged
<1>2. /\ Shaped(t) /\ t.completeness = s.completeness
      /\ t.listed = s.listed /\ t.approvals = s.approvals
      /\ t.exposure = s.exposure /\ t.pages["transfers"] = info
      /\ t.pages["tokens"] = s.pages["tokens"]
      /\ t.pages["approvals"] = s.pages["approvals"]
  BY <1>1, PagingIs
<1> HIDE DEF t
<1>3. BalancesRead(t, w)
  BY <1>2 DEF AllRead, BalancesRead, Available
<1>4. ApprovalsRead(t, w)
  BY <1>2 DEF AllRead, ApprovalsRead, Available, Told
<1>5. ExposureRead(t)
  BY <1>2 DEF AllRead, ExposureRead, Available
<1>6. QED  BY <1>2, <1>3, <1>4, <1>5 DEF t

LEMMA TransfersAreRead ==
    ASSUME Shaped(subject), AllRead(subject, wallet, FALSE),
           \/ TransfersFromMoralis \/ TransfersFromEtherscan
           \/ TransfersUnavailable
    PROVE  ReadNow
<1>1. CASE TransfersFromMoralis
  <2>1. PICK page \in Paginated(wallet.transfers, 1) :
           /\ subject' = AddEvidence(
                  Source(Covered(Covered(
                      [Paging(subject, "transfers", PageInfo(page, 1)) EXCEPT
                          !.transfers = TransferRows(page.rows, FALSE)],
                      {"transferLogs"},
                      IF page.rows = {} THEN "partial" ELSE "available"),
                      {"transactionHistory"}, "partial"), "moralis", "available"),
                  TransferEvidence(page.rows))
           /\ expired' = FALSE
    BY <1>1 DEF TransfersFromMoralis, ToolEnds
  <2> DEFINE rows == TransferRows(page.rows, FALSE)
             coverage == IF page.rows = {} THEN "partial" ELSE "available"
             info == PageInfo(page, 1)
             s == Paging(subject, "transfers", info)
             t == Covered(Covered([s EXCEPT !.transfers = rows],
                                  {"transferLogs"}, coverage),
                          {"transactionHistory"}, "partial")
  <2>2. subject' = AddEvidence(Source(t, "moralis", "available"),
                               TransferEvidence(page.rows))
    BY <2>1
  <2>3. /\ \A x \in page.rows : \E row \in rows : row.id[2] = x.id
        /\ info.hasMore \/ info.last = "empty" \/ page.rows = wallet.transfers
    <3>1. \A x \in page.rows : \E row \in rows : row.id[2] = x.id
      BY RowsAreAll
    <3>2. info.hasMore \/ info.last = "empty" \/ page.rows = wallet.transfers
      BY PageIsAll
    <3>3. QED  BY <3>1, <3>2
  <2> HIDE DEF rows, coverage, info
  <2>4. /\ Shaped(s) /\ s.pages["transfers"] = info
        /\ BalancesRead(s, wallet) /\ ApprovalsRead(s, wallet) /\ ExposureRead(s)
    BY TransfersPaged
  <2> HIDE DEF s
  <2>5. \/ Told(s, "transfers")
        \/ \A x \in wallet.transfers : \E row \in rows : row.id[2] = x.id
    BY <2>3, <2>4 DEF Told
  <2>6. Shaped(t) /\ AllRead(t, wallet, FALSE)
    BY <2>4, <2>5, TransfersListed
  <2> HIDE DEF t
  <2>7. QED  BY <2>1, <2>2, <2>6, NotedIs DEF ReadNow
<1>2. CASE TransfersFromEtherscan
  <2>0. PICK z \in AfterHistory, page \in Paginated(wallet.transfers, MaxPages) :
           \E read \in SUBSET page.rows :
             /\ subject' = AddEvidence(
                    Source(Covered(Covered(
                        [Paging(z, "transfers", PageInfo(page, MaxPages)) EXCEPT
                            !.transfers = TransferRows(read, TRUE)],
                        {"transferLogs"}, "available"),
                        {"transactionHistory"}, "partial"), "etherscanV2", "available"),
                    TransferEvidence(read))
             /\ expired' = (read # page.rows)
    BY <1>2 DEF TransfersFromEtherscan, ToolEnds
  <2>1. PICK read \in SUBSET page.rows :
           /\ subject' = AddEvidence(
                  Source(Covered(Covered(
                      [Paging(z, "transfers", PageInfo(page, MaxPages)) EXCEPT
                          !.transfers = TransferRows(read, TRUE)],
                      {"transferLogs"}, "available"),
                      {"transactionHistory"}, "partial"), "etherscanV2", "available"),
                  TransferEvidence(read))
           /\ expired' = (read # page.rows)
    BY <2>0
  <2> DEFINE rows == TransferRows(read, TRUE)
             cut == read # page.rows
             info == PageInfo(page, MaxPages)
             s == Paging(z, "transfers", info)
             t == Covered(Covered([s EXCEPT !.transfers = rows],
                                  {"transferLogs"}, "available"),
                          {"transactionHistory"}, "partial")
  <2>2. Shaped(z) /\ AllRead(z, wallet, FALSE)
    BY AfterHistoryIsSame, SameIsRead
  <2>3. subject' = AddEvidence(Source(t, "etherscanV2", "available"),
                               TransferEvidence(read))
        /\ expired' = cut
    BY <2>1
  <2>4. /\ cut \/ \A x \in page.rows : \E row \in rows : row.id[2] = x.id
        /\ info.hasMore \/ info.last = "empty" \/ page.rows = wallet.transfers
    <3>1. \A x \in read : \E row \in rows : row.id[2] = x.id
      BY RowsAreAll
    <3>2. info.hasMore \/ info.last = "empty" \/ page.rows = wallet.transfers
      BY PageIsAll
    <3>3. cut \/ read = page.rows
      OBVIOUS
    <3> HIDE DEF rows, cut, info
    <3>4. QED  BY <3>1, <3>2, <3>3
  <2> HIDE DEF rows, cut, info
  <2>5. /\ Shaped(s) /\ s.pages["transfers"] = info
        /\ BalancesRead(s, wallet) /\ ApprovalsRead(s, wallet) /\ ExposureRead(s)
    BY <2>2, TransfersPaged
  <2> HIDE DEF s
  <2>6. \/ cut
        \/ Told(s, "transfers")
        \/ \A x \in wallet.transfers : \E row \in rows : row.id[2] = x.id
    BY <2>4, <2>5 DEF Told
  <2>7. Shaped(t) /\ AllRead(t, wallet, cut)
    BY <2>5, <2>6, TransfersListed
  <2> HIDE DEF t
  <2>8. QED  BY <2>3, <2>7, NotedIs DEF ReadNow
<1>3. CASE TransfersUnavailable
  <2>1. PICK s \in AfterHistory :
           subject' \in {s, Source(s, "etherscanV2", "partial")} /\ expired' = FALSE
    BY <1>3 DEF TransfersUnavailable, ToolEnds
  <2>2. Shaped(s) /\ AllRead(s, wallet, FALSE)
    BY AfterHistoryIsSame, SameIsRead
  <2>3. Same(s, Source(s, "etherscanV2", "partial"))
    BY <2>2, SourceIsSame
  <2>4. Same(s, subject')
    BY <2>1, <2>2, <2>3 DEF Same
  <2>5. QED  BY <2>1, <2>2, <2>4, SameIsRead DEF ReadNow
<1>4. QED  BY <1>1, <1>2, <1>3

\* An exposure is a record, which None is not.
NoneIsNoExposure ==
    \A percent, warning, cites :
        None # [percent |-> percent, warning |-> warning, cites |-> cites]

LEMMA RestIsRead ==
    ASSUME Shaped(subject), AllRead(subject, wallet, FALSE), NoneIsNoExposure,
           GetTokenPrices \/ GetTokenSecurity \/ GetRwaYieldExposure
    PROVE  ReadNow
<1>1. CASE GetTokenPrices
  BY <1>1 DEF GetTokenPrices, ToolEnds, ReadNow
<1>2. CASE GetTokenSecurity
  <2>1. expired' = FALSE
    BY <1>2 DEF GetTokenSecurity, ToolEnds
  <2>2. PICK tokens, coverage, items :
           \/ subject' = subject
           \/ subject' = Source(subject, "goPlus", "partial")
           \/ subject' = AddEvidence(Source(Covered(
                  [subject EXCEPT !.tokens = tokens], {"tokenSecurity"}, coverage),
                  "goPlus", "available"), items)
    BY <1>2 DEF GetTokenSecurity, ToolEnds
  <2> DEFINE s == [subject EXCEPT !.tokens = tokens]
             c == Covered(s, {"tokenSecurity"}, coverage)
  <2>3. Same(subject, s)
    BY DEF Same, Shaped, SubjectFields
  <2>4. Shaped(s) /\ AllRead(s, wallet, FALSE)
    BY <2>3, SameIsRead
  <2> HIDE DEF s
  <2>5. /\ Shaped(c)
        /\ \A f \in Fields \ {"tokenSecurity"} :
              c.completeness[f] = s.completeness[f]
        /\ c.listed = s.listed /\ c.approvals = s.approvals
        /\ c.transfers = s.transfers /\ c.exposure = s.exposure
        /\ c.pages = s.pages
    BY <2>4, CoveredIs
  <2> HIDE DEF c
  <2>6. BalanceFields \cup {"approvalEvents", "transferLogs", "rwaYieldExposure"}
           \subseteq Fields \ {"tokenSecurity"}
    BY DEF Fields, BalanceFields
  <2>7. AllRead(c, wallet, FALSE)
    <3>1. BalancesRead(c, wallet)
      BY <2>4, <2>5, <2>6 DEF AllRead, BalancesRead, Available
    <3>2. ApprovalsRead(c, wallet)
      BY <2>4, <2>5, <2>6 DEF AllRead, ApprovalsRead, Available, Told
    <3>3. TransfersRead(c, wallet, FALSE)
      BY <2>4, <2>5, <2>6 DEF AllRead, TransfersRead, Available, Told
    <3>4. ExposureRead(c)
      BY <2>4, <2>5, <2>6 DEF AllRead, ExposureRead, Available
    <3>5. QED  BY <3>1, <3>2, <3>3, <3>4 DEF AllRead
  <2>8. CASE subject' = AddEvidence(Source(c, "goPlus", "available"), items)
    BY <2>1, <2>5, <2>7, <2>8, NotedIs DEF ReadNow
  <2>9. CASE subject' = Source(subject, "goPlus", "partial")
    BY <2>1, <2>9, SourceIsSame, SameIsRead DEF ReadNow
  <2>10. CASE subject' = subject
    BY <2>1, <2>10 DEF ReadNow
  <2>11. QED  BY <2>2, <2>8, <2>9, <2>10 DEF c, s
<1>3. CASE GetRwaYieldExposure
  <2>1. expired' = FALSE
    BY <1>3 DEF GetRwaYieldExposure, ToolEnds
  <2>2. PICK percent, warning, cites :
           \/ subject' = subject
           \/ subject' = Covered([subject EXCEPT !.exposure =
                  [percent |-> percent, warning |-> warning, cites |-> cites]],
                  {"rwaYieldExposure"}, "available")
    BY <1>3 DEF GetRwaYieldExposure, ToolEnds
  <2> DEFINE exposure == [percent |-> percent, warning |-> warning, cites |-> cites]
             s == [subject EXCEPT !.exposure = exposure]
             c == Covered(s, {"rwaYieldExposure"}, "available")
  <2>3. exposure # None
    BY DEF NoneIsNoExposure
  <2> HIDE DEF exposure
  <2>4. /\ Shaped(s) /\ s.completeness = subject.completeness
        /\ s.listed = subject.listed /\ s.approvals = subject.approvals
        /\ s.transfers = subject.transfers /\ s.exposure = exposure
        /\ s.pages = subject.pages
    BY DEF Shaped, SubjectFields
  <2> HIDE DEF s
  <2>5. /\ Shaped(c)
        /\ \A f \in Fields \ {"rwaYieldExposure"} :
              c.completeness[f] = s.completeness[f]
        /\ c.listed = s.listed /\ c.approvals = s.approvals
        /\ c.transfers = s.transfers /\ c.exposure = s.exposure
        /\ c.pages = s.pages
    BY <2>4, CoveredIs
  <2> HIDE DEF c
  <2>6. BalanceFields \cup {"approvalEvents", "transferLogs"}
           \subseteq Fields \ {"rwaYieldExposure"}
    BY DEF Fields, BalanceFields
  <2>7. AllRead(c, wallet, FALSE)
    <3>1. BalancesRead(c, wallet)
      BY <2>4, <2>5, <2>6 DEF AllRead, BalancesRead, Available
    <3>2. ApprovalsRead(c, wallet)
      BY <2>4, <2>5, <2>6 DEF AllRead, ApprovalsRead, Available, Told
    <3>3. TransfersRead(c, wallet, FALSE)
      BY <2>4, <2>5, <2>6 DEF AllRead, TransfersRead, Available, Told
    <3>4. ExposureRead(c)
      BY <2>3, <2>4, <2>5 DEF ExposureRead
    <3>5. QED  BY <3>1, <3>2, <3>3, <3>4 DEF AllRead
  <2>8. subject' = c => ReadNow
    BY <2>1, <2>5, <2>7 DEF ReadNow
  <2>9. subject' = subject => ReadNow
    BY <2>1 DEF ReadNow
  <2>10. QED  BY <2>2, <2>8, <2>9 DEF c, s, exposure
<1>4. QED  BY <1>1, <1>2, <1>3

LEMMA GathersReads ==
    ASSUME Shaped(subject), AllRead(subject, wallet, expired), NoneIsNoExposure,
           Gathers, wallet # None
    PROVE  ReadNow
<1>1. CASE Expire
  <2>1. AllRead(subject, wallet, FALSE)
    BY <1>1 DEF Expire, AllRead, TransfersRead
  <2>2. QED  BY <1>1, <2>1, CutIsRead DEF Expire, ReadNow
<1>2. CASE Skip
  BY <1>2, SkipIsRead
<1>3. CASE ApprovalsCrash
  BY <1>3 DEF ApprovalsCrash, ReadNow
<1>4. ASSUME \/ GetNativeBalance
             \/ BalancesFromMoralis \/ BalancesFromTransfers
             \/ BalancesFromAllowlist \/ BalancesUnavailable
             \/ GetTokenApprovals \/ ApprovalsUnavailable
             \/ TransfersFromMoralis \/ TransfersFromEtherscan
             \/ TransfersUnavailable
             \/ GetTokenPrices \/ GetTokenSecurity \/ GetRwaYieldExposure
      PROVE  ReadNow
  <2>1. ~expired
    BY <1>4 DEF GetNativeBalance, BalancesFromMoralis, BalancesFromTransfers,
       BalancesFromAllowlist, BalancesUnavailable, GetTokenApprovals,
       ApprovalsUnavailable, TransfersFromMoralis, TransfersFromEtherscan,
       TransfersUnavailable, GetTokenPrices, GetTokenSecurity,
       GetRwaYieldExposure, InTime
  <2>2. AllRead(subject, wallet, FALSE)
    BY <2>1 DEF AllRead, TransfersRead
  <2>3. QED
    BY <1>4, <2>2, NativeIsRead, BalancesAreRead, ApprovalsAreRead,
       TransfersAreRead, RestIsRead
<1>5. QED  BY <1>1, <1>2, <1>3, <1>4 DEF Gathers

\* For any wallet, any configuration and any way that the providers answer,
\* the deadline included: what is reported as available was read in full, or the
\* page coverage tells of more, or the last page came empty (or full, for the
\* tokens) (live_adapters.py: the fallbacks of each tool; inventory.py:page_info).
THEOREM AlwaysHonest ==
    ASSUME NoneIsNoExposure
    PROVE  Spec => []CoverageIsHonest
<1>1. Init => ReadSoFar
  BY DEF Init, ReadSoFar
<1>2. ASSUME ReadSoFar, [Next]_vars
      PROVE  ReadSoFar'
  <2>1. CASE Gathers
    <3>1. state # "INIT" /\ wallet' = wallet
      BY <2>1, GathersInTime
    <3>2. QED  BY <1>2, <2>1, <3>1, GathersReads DEF ReadSoFar, ReadNow
  <2>2. CASE Begin
    <3> SUFFICES ASSUME wallet # None
                 PROVE  ReadNow
      BY <2>2 DEF Begin, ReadSoFar, ReadNow
    <3>1. subject' = LiveSubject
      BY <2>2 DEF Begin
    <3>2. Shaped(subject')
      BY <3>1 DEF LiveSubject, Shaped, SubjectFields
    <3>3. \A f \in Fields : ~Available(subject', f)
      BY <3>1 DEF LiveSubject, Available
    <3>4. BalanceFields \cup {"approvalEvents", "transferLogs", "rwaYieldExposure"}
             \subseteq Fields
      BY DEF Fields, BalanceFields
    <3>5. QED
      BY <3>2, <3>3, <3>4
      DEF ReadNow, AllRead, BalancesRead, ApprovalsRead, TransfersRead, ExposureRead
  <2>3. ASSUME state # "INIT", UNCHANGED <<wallet, expired, subject>>
        PROVE  ReadSoFar'
    BY <1>2, <2>3 DEF ReadSoFar
  <2>4. CASE UNCHANGED vars
    BY <1>2, <2>4 DEF vars, ReadSoFar
  <2>5. ASSUME Weigh \/ Resume \/ Evaluate \/ BindEvidence \/ Explain
               \/ ExplainCandidate
        PROVE  state # "INIT" /\ UNCHANGED <<wallet, expired, subject>>
    BY <2>5 DEF Weigh, Gathered, Resume, Evaluate, BindEvidence, Explain,
       ExplainCandidate
  <2>6. QED  BY <1>2, <2>1, <2>2, <2>3, <2>4, <2>5 DEF Next, Gathers
<1>3. ReadSoFar /\ IsOfSubject => CoverageIsHonest
  <2> SUFFICES ASSUME ReadSoFar, IsOfSubject, answer # None, wallet # None
               PROVE  CoverageIsHonest
    BY DEF CoverageIsHonest
  <2>1. AllRead(subject, wallet, expired)
    BY DEF ReadSoFar, IsOfSubject
  <2>2. Fields \ Gaps(subject) = {f \in Fields : Available(subject, f)}
    BY DEF Gaps, Available
  <2>3. QED
    BY <2>1, <2>2
    DEF CoverageIsHonest, AllRead, BalancesRead, ApprovalsRead, TransfersRead,
        ExposureRead, Told, MoreIsTold
<1>4. QED  BY <1>1, <1>2, <1>3, OfSubject, PTL DEF Spec

-----------------------------------------------------------------------------
(* Less risk never scores more.                                            *)

LEMMA LevelOfIs ==
    ASSUME NEW n \in Int
    PROVE  \/ n <= 2000 /\ LevelOf(n) = "Low"
           \/ n \in 2001 .. 4500 /\ LevelOf(n) = "Moderate"
           \/ n \in 4501 .. 7000 /\ LevelOf(n) = "High"
           \/ n > 7000 /\ LevelOf(n) = "Critical"
<1>1. CASE n <= 2000
  <2>1. ~(n >= 2001)
    BY <1>1
  <2>2. n \notin 2001 .. 4500
    BY <2>1
  <2>3. n \notin 4501 .. 7000
    BY <2>1
  <2>4. QED  BY <1>1, <2>2, <2>3 DEF LevelOf
<1>2. CASE n \in 2001 .. 4500
  <2>1. ~(n <= 2000) /\ n \notin 4501 .. 7000
    BY <1>2
  <2>2. QED  BY <1>2, <2>1 DEF LevelOf
<1>3. CASE n \in 4501 .. 7000
  <2>1. ~(n <= 2000) /\ n \notin 2001 .. 4500
    BY <1>3
  <2>2. QED  BY <1>3, <2>1 DEF LevelOf
<1>4. CASE n > 7000
  <2>1. ~(n <= 2000) /\ n \notin 2001 .. 4500 /\ n \notin 4501 .. 7000
    BY <1>4
  <2>2. QED  BY <1>4, <2>1 DEF LevelOf
<1>5. QED  BY <1>1, <1>2, <1>3, <1>4

LEMMA LevelOfGrows ==
    ASSUME NEW m \in Int, NEW n \in Int, m <= n
    PROVE  /\ LevelOf(m) \in {"Low", "Moderate", "High", "Critical"}
           /\ SeverityRank(LevelOf(m)) <= SeverityRank(LevelOf(n))
BY LevelOfIs, Ranks

Known == {"Low", "Moderate", "High", "Critical"}

LEMMA RankRange ==
    /\ \A s \in Known : SeverityRank(s) \in 1 .. 4
    /\ SeverityRank("High") = 3 /\ SeverityRank("Moderate") = 2
BY Ranks DEF Known

LEMMA WorseGrows ==
    ASSUME NEW s \in Known, NEW t \in Known, NEW bound \in Known,
           SeverityRank(s) <= SeverityRank(t)
    PROVE  /\ Worse(s, bound) \in Known
           /\ SeverityRank(Worse(s, bound)) <= SeverityRank(Worse(t, bound))
           /\ SeverityRank(s) <= SeverityRank(Worse(t, bound))
BY RankRange DEF Worse

\* The level before the gaps are looked at.
Floored(scan) ==
    CASE ApprovalsScore(scan) >= 85 -> "Critical"
      [] ApprovalsScore(scan) < 85 /\ (\/ ApprovalsScore(scan) >= 80
                                       \/ TransfersScore(scan) >= 75
                                       \/ YieldScore(scan) >= 60) ->
            Worse(LevelOf(WeightedScore(scan)), "High")
      [] OTHER -> LevelOf(WeightedScore(scan))

\* One scan is no worse than another: no part of it scores more, and what is
\* not known is the same.
NoWorse(less, scan) ==
    /\ ApprovalsScore(less) <= ApprovalsScore(scan)
    /\ TransfersScore(less) <= TransfersScore(scan)
    /\ ConcentrationScore(less) = ConcentrationScore(scan)
    /\ YieldScore(less) = YieldScore(scan)
    /\ DefiScore(less) = DefiScore(scan)
    /\ IsPartial(less) = IsPartial(scan)

LEMMA ScoresAreInt ==
    ASSUME NEW scan
    PROVE  /\ ApprovalsScore(scan) \in Int /\ TransfersScore(scan) \in Int
           /\ ConcentrationScore(scan) \in Int /\ YieldScore(scan) \in Int
           /\ DefiScore(scan) \in Int
           /\ ApprovalsScore(scan) >= 0 /\ TransfersScore(scan) >= 0
           /\ ConcentrationScore(scan) >= 0 /\ YieldScore(scan) >= 0
           /\ DefiScore(scan) >= 0
BY ApprovalsScoreValues, TransfersScoreValues, ConcentrationScoreValues,
   YieldScoreValues, DefiScoreValues

LEMMA NoWorseScores ==
    ASSUME NEW less, NEW scan, NoWorse(less, scan)
    PROVE  /\ WeightedScore(less) <= WeightedScore(scan)
           /\ Score(less) <= Score(scan)
<1>1. WeightedScore(less) <= WeightedScore(scan)
  <2> DEFINE a == ApprovalsScore(less)  b == ApprovalsScore(scan)
             c == TransfersScore(less)  d == TransfersScore(scan)
             e == ConcentrationScore(scan)
             f == YieldScore(scan)
             g == DefiScore(scan)
  <2>1. /\ WeightedScore(less) = 35 * a + 25 * c + 20 * e + 15 * f + 5 * g
        /\ WeightedScore(scan) = 35 * b + 25 * d + 20 * e + 15 * f + 5 * g
    BY DEF WeightedScore, NoWorse
  <2>2. /\ a \in Int /\ b \in Int /\ c \in Int /\ d \in Int
        /\ e \in Int /\ f \in Int /\ g \in Int
        /\ a <= b /\ c <= d
    BY ScoresAreInt DEF NoWorse
  <2> HIDE DEF a, b, c, d, e, f, g
  <2>3. QED  BY <2>1, <2>2
<1>2. QED  BY <1>1, WeightedIsInt, ScoresAreInt DEF NoWorse, Score, AtLeast

LEMMA NoWorseLevel ==
    ASSUME NEW less, NEW scan, NoWorse(less, scan)
    PROVE  SeverityRank(Level(less)) <= SeverityRank(Level(scan))
<1> DEFINE l == LevelOf(WeightedScore(less))  m == LevelOf(WeightedScore(scan))
<1>1. l \in Known /\ m \in Known /\ SeverityRank(l) <= SeverityRank(m)
  BY NoWorseScores, WeightedIsInt, LevelOfGrows DEF Known
<1>2. "High" \in Known /\ "Moderate" \in Known /\ "Critical" \in Known
      /\ SeverityRank("Critical") = 4
  BY Ranks DEF Known
<1>3. /\ Worse(l, "High") \in Known /\ Worse(m, "High") \in Known
      /\ SeverityRank(Worse(l, "High")) <= SeverityRank(Worse(m, "High"))
      /\ SeverityRank(l) <= SeverityRank(Worse(m, "High"))
  <2>1. SeverityRank(m) <= SeverityRank(m)
    BY <1>1, RankRange
  <2>2. QED  BY <1>1, <1>2, <2>1, WorseGrows
<1>4. Floored(less) \in Known /\ Floored(scan) \in Known
      /\ SeverityRank(Floored(less)) <= SeverityRank(Floored(scan))
  <2> DEFINE floors(s) == \/ ApprovalsScore(s) >= 80
                          \/ TransfersScore(s) >= 75
                          \/ YieldScore(s) >= 60
  <2>1. /\ ApprovalsScore(less) >= 85 => ApprovalsScore(scan) >= 85
        /\ floors(less) => floors(scan)
        /\ ApprovalsScore(less) >= 85 \/ ApprovalsScore(less) < 85
        /\ ApprovalsScore(scan) >= 85 \/ ApprovalsScore(scan) < 85
        /\ ~(ApprovalsScore(less) >= 85 /\ ApprovalsScore(less) < 85)
        /\ ~(ApprovalsScore(scan) >= 85 /\ ApprovalsScore(scan) < 85)
    BY ScoresAreInt DEF NoWorse
  <2>2. /\ ApprovalsScore(less) >= 85 => Floored(less) = "Critical"
        /\ ApprovalsScore(less) < 85 /\ floors(less) => Floored(less) = Worse(l, "High")
        /\ ApprovalsScore(less) < 85 /\ ~floors(less) => Floored(less) = l
    BY <2>1 DEF Floored
  <2>3. /\ ApprovalsScore(scan) >= 85 => Floored(scan) = "Critical"
        /\ ApprovalsScore(scan) < 85 /\ floors(scan) => Floored(scan) = Worse(m, "High")
        /\ ApprovalsScore(scan) < 85 /\ ~floors(scan) => Floored(scan) = m
    BY <2>1 DEF Floored
  <2> HIDE DEF floors, l, m
  <2>4. Floored(less) \in {"Critical", Worse(l, "High"), l}
        /\ Floored(scan) \in {"Critical", Worse(m, "High"), m}
    BY <2>1, <2>2, <2>3
  <2>5. Floored(less) \in Known /\ Floored(scan) \in Known
    BY <1>1, <1>2, <1>3, <2>4
  <2>6. CASE ApprovalsScore(scan) >= 85
    BY <1>2, <2>3, <2>5, <2>6, RankRange
  <2>7. CASE ApprovalsScore(scan) < 85
    <3>1. ApprovalsScore(less) < 85
      BY <2>1, <2>7
    <3>2. CASE floors(scan)
      BY <1>1, <1>3, <2>2, <2>3, <2>5, <2>7, <3>1, <3>2
    <3>3. CASE ~floors(scan)
      BY <1>1, <2>1, <2>2, <2>3, <2>5, <2>7, <3>1, <3>3
    <3>4. QED  BY <3>2, <3>3
  <2>8. QED  BY <2>1, <2>5, <2>6, <2>7
<1>5. Level(less) = IF IsPartial(less) THEN Worse(Floored(less), "Moderate")
                                       ELSE Floored(less)
  BY DEF Level, Floored
<1>6. Level(scan) = IF IsPartial(less) THEN Worse(Floored(scan), "Moderate")
                                       ELSE Floored(scan)
  BY DEF Level, Floored, NoWorse
<1>7. SeverityRank(Worse(Floored(less), "Moderate"))
         <= SeverityRank(Worse(Floored(scan), "Moderate"))
  BY <1>2, <1>4, WorseGrows
<1>8. QED  BY <1>4, <1>5, <1>6, <1>7

\* A scan with less in it is no worse.
LEMMA LessIsNoWorse ==
    ASSUME NEW less, NEW scan,
           less.approvals \subseteq scan.approvals,
           less.transfers \subseteq scan.transfers,
           less.balances = scan.balances, less.exposure = scan.exposure,
           less.completeness = scan.completeness
    PROVE  NoWorse(less, scan)
<1>1. ApprovalsScore(less) <= ApprovalsScore(scan)
  <2> DEFINE S == {ApprovalScore(a) : a \in Active(less)}
             T == {ApprovalScore(a) : a \in Active(scan)}
  <2>1. S \subseteq T
    BY DEF Active
  <2>2. T \subseteq {0, 10, 30, 50, 70, 80, 100}
    BY ApprovalScoreValues
  <2>3. ApprovalsScore(less) = Highest(S) /\ ApprovalsScore(scan) = Highest(T)
    BY DEF ApprovalsScore
  <2> HIDE DEF S, T
  <2>4. T \in SUBSET {0, 10, 25, 30, 50, 70, 75, 80, 100} /\ S \in SUBSET T
    BY <2>1, <2>2
  <2>5. QED  BY <2>3, <2>4, HighestGrows
<1>2. TransfersScore(less) <= TransfersScore(scan)
  <2> DEFINE S == {TransferScore(t) : t \in less.transfers}
             T == {TransferScore(t) : t \in scan.transfers}
  <2>1. S \subseteq T
    OBVIOUS
  <2>2. T \subseteq {0, 25, 50, 75}
    BY TransferScoreValues
  <2>3. TransfersScore(less) = Highest(S) /\ TransfersScore(scan) = Highest(T)
    BY DEF TransfersScore
  <2> HIDE DEF S, T
  <2>4. T \in SUBSET {0, 10, 25, 30, 50, 70, 75, 80, 100} /\ S \in SUBSET T
    BY <2>1, <2>2
  <2>5. QED  BY <2>3, <2>4, HighestGrows
<1>3. ConcentrationScore(less) = ConcentrationScore(scan)
  BY DEF ConcentrationScore, Valued
<1>4. YieldScore(less) = YieldScore(scan)
  BY DEF YieldScore
<1>5. DefiScore(less) = DefiScore(scan)
  BY DEF DefiScore, LpValue
<1>6. IsPartial(less) = IsPartial(scan)
  BY DEF IsPartial, Gaps
<1>7. QED  BY <1>1, <1>2, <1>3, <1>4, <1>5, <1>6 DEF NoWorse

LEMMA SimulationsDoNotRaise ==
    ASSUME NEW scan
    PROVE  /\ SimulateApprovalRevoke(Parts(scan)) <= Score(scan)
           /\ SimulatePortfolioAdjustment(Parts(scan)) <= Score(scan)
<1> DEFINE a == ApprovalsScore(scan)  b == TransfersScore(scan)
           c == ConcentrationScore(scan)  d == YieldScore(scan)
           e == DefiScore(scan)
<1>1. /\ SimulateApprovalRevoke(Parts(scan)) =
            35 * AtLeast(0, a - 60) + 25 * b + 20 * c + 15 * d + 5 * e
      /\ SimulatePortfolioAdjustment(Parts(scan)) =
            35 * a + 25 * b + 20 * AtLeast(0, c - 20) + 15 * AtLeast(0, d - 30) + 5 * e
  BY DEF SimulateApprovalRevoke, SimulatePortfolioAdjustment, SimulatedScore, Parts
<1>2. WeightedScore(scan) = 35 * a + 25 * b + 20 * c + 15 * d + 5 * e
  BY DEF WeightedScore
<1>3. /\ a \in Int /\ b \in Int /\ c \in Int /\ d \in Int /\ e \in Int
      /\ a >= 0 /\ c >= 0 /\ d >= 0
  BY ScoresAreInt
<1>4. WeightedScore(scan) <= Score(scan) /\ Score(scan) \in Int
  BY WeightedIsInt DEF Score, AtLeast
<1> HIDE DEF a, b, c, d, e
<1>5. /\ AtLeast(0, a - 60) \in Int /\ AtLeast(0, a - 60) <= a
      /\ AtLeast(0, c - 20) \in Int /\ AtLeast(0, c - 20) <= c
      /\ AtLeast(0, d - 30) \in Int /\ AtLeast(0, d - 30) <= d
  BY <1>3 DEF AtLeast
<1>6. SimulateApprovalRevoke(Parts(scan)) <= WeightedScore(scan)
      /\ SimulateApprovalRevoke(Parts(scan)) \in Int
  BY <1>1, <1>2, <1>3, <1>5
<1>7. SimulatePortfolioAdjustment(Parts(scan)) <= WeightedScore(scan)
      /\ SimulatePortfolioAdjustment(Parts(scan)) \in Int
  BY <1>1, <1>2, <1>3, <1>5
<1>8. QED  BY <1>4, <1>6, <1>7, WeightedIsInt

\* For any wallet: an approval or a transfer less does not raise the score or
\* the level, and no simulation ends above the score that it starts from
\* (risk.py:evaluate_wallet_risk, simulation.py).
THEOREM LessNeverScoresMore == Spec => []FindingsNeverHelp
<1>1. IsOfSubject => FindingsNeverHelp
  <2> SUFFICES ASSUME IsOfSubject, answer # None
               PROVE  FindingsNeverHelp
    BY DEF FindingsNeverHelp
  <2> DEFINE scan == Scan(subject)
  <2>1. answer.score = Score(scan) /\ answer.level = Level(scan)
    BY DEF IsOfSubject, Assess
  <2>2. DOMAIN scan = {"mode", "completeness", "sources", "evidence", "balances",
                       "approvals", "transfers", "tokens", "exposure"}
    BY DEF Scan
  <2>3. FindingsNeverHelp =
           LET without == {[scan EXCEPT !.approvals = @ \ {a}] : a \in scan.approvals}
                     \cup {[scan EXCEPT !.transfers = @ \ {t}] : t \in scan.transfers}
           IN  /\ \A less \in without :
                   /\ Score(less) <= answer.score
                   /\ SeverityRank(Level(less)) <= SeverityRank(answer.level)
               /\ SimulateApprovalRevoke(Parts(scan)) <= answer.score
               /\ SimulatePortfolioAdjustment(Parts(scan)) <= answer.score
    BY DEF FindingsNeverHelp
  <2> HIDE DEF scan
  <2>4. ASSUME NEW a \in scan.approvals
        PROVE  NoWorse([scan EXCEPT !.approvals = @ \ {a}], scan)
    <3> DEFINE less == [scan EXCEPT !.approvals = @ \ {a}]
    <3>1. /\ less.approvals \subseteq scan.approvals
          /\ less.transfers \subseteq scan.transfers
          /\ less.balances = scan.balances /\ less.exposure = scan.exposure
          /\ less.completeness = scan.completeness
      BY <2>2
    <3> HIDE DEF less
    <3>2. NoWorse(less, scan)
      BY <3>1, LessIsNoWorse
    <3>3. QED  BY <3>2 DEF less
  <2>5. ASSUME NEW t \in scan.transfers
        PROVE  NoWorse([scan EXCEPT !.transfers = @ \ {t}], scan)
    <3> DEFINE less == [scan EXCEPT !.transfers = @ \ {t}]
    <3>1. /\ less.approvals \subseteq scan.approvals
          /\ less.transfers \subseteq scan.transfers
          /\ less.balances = scan.balances /\ less.exposure = scan.exposure
          /\ less.completeness = scan.completeness
      BY <2>2
    <3> HIDE DEF less
    <3>2. NoWorse(less, scan)
      BY <3>1, LessIsNoWorse
    <3>3. QED  BY <3>2 DEF less
  <2>6. \A less : NoWorse(less, scan) =>
           /\ Score(less) <= answer.score
           /\ SeverityRank(Level(less)) <= SeverityRank(answer.level)
    BY <2>1, NoWorseScores, NoWorseLevel
  <2>7. /\ SimulateApprovalRevoke(Parts(scan)) <= answer.score
        /\ SimulatePortfolioAdjustment(Parts(scan)) <= answer.score
    BY <2>1, SimulationsDoNotRaise
  <2>8. QED  BY <2>3, <2>4, <2>5, <2>6, <2>7
<1>2. QED  BY <1>1, OfSubject, PTL

=============================================================================
