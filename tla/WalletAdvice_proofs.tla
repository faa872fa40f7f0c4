------------------------- MODULE WalletAdvice_proofs -------------------------
(***************************************************************************)
(* What is said of a wallet's scan: for every wallet, every fixture and    *)
(* every text of a language model, its decision acts on a high level and   *)
(* its explanation is about its risks.  And what that rests on: however    *)
(* the providers answer, each claim has evidence, each item of evidence    *)
(* its row where the coverage says so, and no transition is refused.       *)
(***************************************************************************)
EXTENDS WalletScan_proofs

-----------------------------------------------------------------------------
(* What the risks are about, and what they cite.                           *)

BundleOf(scan) == {e.id : e \in Bundle(scan)}

AreOf(scan, s, type) ==
    \A r \in Range(s) : r.type = type /\ r.evidence \subseteq BundleOf(scan)

LEMMA EmptyIsOf == ASSUME NEW scan, NEW type PROVE AreOf(scan, <<>>, type)
BY EmptyIsPiece DEF AreOf

LEMMA RiskIsOf ==
    ASSUME NEW scan, NEW type, NEW severity, NEW score, NEW confidence,
           NEW cited, cited \subseteq Bundle(scan)
    PROVE  AreOf(scan, Risk(type, severity, score, confidence, cited), type)
<1>1. {e.id : e \in cited} \subseteq BundleOf(scan)
  BY DEF BundleOf
<1>2. QED  BY <1>1, RiskIsPiece DEF AreOf

LEMMA RowRiskIsOf ==
    ASSUME NEW scan, NEW type, NEW severity, NEW score, NEW ids, NEW status
    PROVE  AreOf(scan, RowRisk(scan, type, severity, score, ids, status), type)
<1>1. Cited(scan, ids) \subseteq Bundle(scan)
  BY DEF Cited
<1>2. QED  BY <1>1, RiskIsOf DEF RowRisk

LEMMA CoverageIsOfBundle ==
    ASSUME NEW scan
    PROVE  CoverageEvidence(scan) \subseteq Bundle(scan)
<1>1. CoverageEvidence(scan) \in
          {{e \in Bundle(scan) : e.quality = "coverage"},
           {CHOOSE e \in Bundle(scan) : TRUE}}
      /\ (CoverageEvidence(scan) = {CHOOSE e \in Bundle(scan) : TRUE}
            => \/ Bundle(scan) # {}
               \/ CoverageEvidence(scan)
                      = {e \in Bundle(scan) : e.quality = "coverage"})
  BY DEF CoverageEvidence
<1>2. Bundle(scan) # {} => (CHOOSE e \in Bundle(scan) : TRUE) \in Bundle(scan)
  OBVIOUS
<1>3. QED  BY <1>1, <1>2

LEMMA RowRisksAreOf ==
    ASSUME NEW scan
    PROVE  /\ AreOf(scan, ApprovalRisk(scan), "approval")
           /\ AreOf(scan, TransferRisk(scan), "transfer")
           /\ AreOf(scan, ConcentrationRisk(scan), "concentration")
           /\ AreOf(scan, HighValueRisk(scan), "high_value_exposure")
           /\ AreOf(scan, TokenSecurityRisk(scan), "token_security")
           /\ AreOf(scan, YieldRisk(scan), "rwa_yield")
           /\ AreOf(scan, DefiRisk(scan), "defi")
<1> DEFINE IsRow(s, type) ==
              \/ s = <<>>
              \/ \E severity, score, ids, status :
                    s = RowRisk(scan, type, severity, score, ids, status)
<1>1. IsRow(ApprovalRisk(scan), "approval")
  BY DEF ApprovalRisk
<1>2. IsRow(TransferRisk(scan), "transfer")
  BY DEF TransferRisk
<1>3. IsRow(ConcentrationRisk(scan), "concentration")
  BY DEF ConcentrationRisk
<1>4. IsRow(HighValueRisk(scan), "high_value_exposure")
  <2> DEFINE top == Largest(Valued(scan))
             score == CASE top.value >= 50000 -> 70
                        [] top.value \in 10000 .. 49999 -> 55
                        [] top.value \in 5000 .. 9999   -> 45
                        [] OTHER -> 0
             severity == IF score >= 60 THEN "High" ELSE "Moderate"
             status == CoverageOf(scan, {"knownTokenBalances", "fullTokenInventory"})
  <2>1. HighValueRisk(scan) =
           IF Valued(scan) = {} THEN <<>>
           ELSE RowRisk(scan, "high_value_exposure", severity, score, {top.id}, status)
    BY DEF HighValueRisk
  <2> HIDE DEF score, top, severity, status
  <2>2. QED  BY <2>1
<1>5. IsRow(TokenSecurityRisk(scan), "token_security")
  BY DEF TokenSecurityRisk
<1>6. IsRow(YieldRisk(scan), "rwa_yield")
  BY DEF YieldRisk
<1>7. IsRow(DefiRisk(scan), "defi")
  BY DEF DefiRisk
<1>8. ASSUME NEW s, NEW type, IsRow(s, type)
      PROVE  AreOf(scan, s, type)
  BY <1>8, EmptyIsOf, RowRiskIsOf
<1> HIDE DEF IsRow
<1>9. QED  BY <1>1, <1>2, <1>3, <1>4, <1>5, <1>6, <1>7, <1>8

GapTypes == {"source_coverage", "stale_data", "wallet_activity"}

\* A risk that only tells of missing, old or undated data.
IsFaint(r) == r.severity = "Moderate" /\ r.impact \in 0 .. 25

LEMMA DataRisksAreOf ==
    ASSUME NEW scan
    PROVE  /\ AreOf(scan, DataRisk(scan), "source_coverage")
           /\ AreOf(scan, StaleRisk(scan), "stale_data")
           /\ AreOf(scan, ActivityRisk(scan), "wallet_activity")
           /\ \A r \in Range(DataRisk(scan)) \cup Range(StaleRisk(scan))
                          \cup Range(ActivityRisk(scan)) : IsFaint(r)
<1> DEFINE Faint(s, type) ==
              AreOf(scan, s, type) /\ \A r \in Range(s) : IsFaint(r)
<1>1. ASSUME NEW type, NEW score \in 0 .. 25, NEW confidence,
             NEW cited \in SUBSET Bundle(scan)
      PROVE  /\ Faint(<<>>, type)
             /\ Faint(Risk(type, "Moderate", score, confidence, cited), type)
  <2>1. Capped(score, confidence) \in 0 .. 25
    BY DEF Capped, AtMost
  <2>2. \A r \in Range(Risk(type, "Moderate", score, confidence, cited)) :
           IsFaint(r)
    BY <2>1, RiskIsPiece DEF IsFaint
  <2>3. QED  BY <2>2, EmptyIsOf, EmptyIsPiece, RiskIsOf
<1>2. 10 \in 0 .. 25 /\ 12 \in 0 .. 25 /\ 15 \in 0 .. 25 /\ 20 \in 0 .. 25
      /\ 25 \in 0 .. 25
  OBVIOUS
<1> DEFINE coverage == CoverageEvidence(scan)
           stale == {e \in Bundle(scan) :
                        e.quality = "stale" \/ (scan.mode = "live" /\ e.age = "old")}
           undated == {e \in Bundle(scan) : scan.mode = "live" /\ e.age = "undated"}
<1>3. /\ coverage \in SUBSET Bundle(scan)
      /\ stale \in SUBSET Bundle(scan)
      /\ undated \in SUBSET Bundle(scan)
  BY CoverageIsOfBundle
<1>4. /\ DataRisk(scan) \in
            {<<>>, Risk("source_coverage", "Moderate", 25, 55, coverage),
             Risk("source_coverage", "Moderate", 15, 65, coverage)}
      /\ StaleRisk(scan) \in
            {<<>>, Risk("stale_data", "Moderate", 20, 60, stale),
             Risk("stale_data", "Moderate", 10, 60, undated)}
      /\ ActivityRisk(scan) \in
            {<<>>, Risk("wallet_activity", "Moderate", 20, 60, coverage),
             Risk("wallet_activity", "Moderate", 12, 70, coverage)}
  BY DEF DataRisk, StaleRisk, ActivityRisk
<1> HIDE DEF coverage, stale, undated, Faint
<1>5. Faint(DataRisk(scan), "source_coverage")
  <2>1. Faint(<<>>, "source_coverage")
    BY ONLY <1>1, <1>2, <1>3
  <2>2. Faint(Risk("source_coverage", "Moderate", 25, 55, coverage), "source_coverage")
    BY ONLY <1>1, <1>2, <1>3
  <2>3. Faint(Risk("source_coverage", "Moderate", 15, 65, coverage), "source_coverage")
    BY ONLY <1>1, <1>2, <1>3
  <2>4. QED  BY <1>4, <2>1, <2>2, <2>3
<1>6. Faint(StaleRisk(scan), "stale_data")
  <2>1. Faint(<<>>, "stale_data")
    BY ONLY <1>1, <1>2, <1>3
  <2>2. Faint(Risk("stale_data", "Moderate", 20, 60, stale), "stale_data")
    BY ONLY <1>1, <1>2, <1>3
  <2>3. Faint(Risk("stale_data", "Moderate", 10, 60, undated), "stale_data")
    BY ONLY <1>1, <1>2, <1>3
  <2>4. QED  BY <1>4, <2>1, <2>2, <2>3
<1>7. Faint(ActivityRisk(scan), "wallet_activity")
  <2>1. Faint(<<>>, "wallet_activity")
    BY ONLY <1>1, <1>2, <1>3
  <2>2. Faint(Risk("wallet_activity", "Moderate", 20, 60, coverage), "wallet_activity")
    BY ONLY <1>1, <1>2, <1>3
  <2>3. Faint(Risk("wallet_activity", "Moderate", 12, 70, coverage), "wallet_activity")
    BY ONLY <1>1, <1>2, <1>3
  <2>4. QED  BY <1>4, <2>1, <2>2, <2>3
<1>8. QED  BY <1>5, <1>6, <1>7 DEF Faint

\* The risks of an assessment are those of its ten parts.
LEMMA AllRisksRange ==
    ASSUME NEW scan
    PROVE  /\ \E S : AllRisks(scan) \in Seq(S)
           /\ Range(AllRisks(scan)) =
                  Range(ApprovalRisk(scan)) \cup Range(TransferRisk(scan))
                    \cup Range(ConcentrationRisk(scan)) \cup Range(HighValueRisk(scan))
                    \cup Range(TokenSecurityRisk(scan)) \cup Range(YieldRisk(scan))
                    \cup Range(DefiRisk(scan)) \cup Range(DataRisk(scan))
                    \cup Range(StaleRisk(scan)) \cup Range(ActivityRisk(scan))
<1> DEFINE p1 == ApprovalRisk(scan)       p2 == TransferRisk(scan)
           p3 == ConcentrationRisk(scan)  p4 == HighValueRisk(scan)
           p5 == TokenSecurityRisk(scan)  p6 == YieldRisk(scan)
           p7 == DefiRisk(scan)           p8 == DataRisk(scan)
           p9 == StaleRisk(scan)          p10 == ActivityRisk(scan)
           S == Range(p1) \cup Range(p2) \cup Range(p3) \cup Range(p4)
                  \cup Range(p5) \cup Range(p6) \cup Range(p7) \cup Range(p8)
                  \cup Range(p9) \cup Range(p10)
           Joined(s, R) == s \in Seq(S) /\ Range(s) = R
<1>1. /\ IsPiece(p1) /\ IsPiece(p2) /\ IsPiece(p3) /\ IsPiece(p4)
      /\ IsPiece(p5) /\ IsPiece(p6) /\ IsPiece(p7) /\ IsPiece(p8)
      /\ IsPiece(p9) /\ IsPiece(p10)
  BY ApprovalRiskIsCritical, TransferRiskIsMild, ConcentrationRiskIsMild,
     HighValueRiskIsMild, TokenSecurityRiskIsMild, YieldRiskIsMild,
     DefiRiskIsMild, DataRisksAreMild DEF AreMild
<1>2. AllRisks(scan) = p1 \o p2 \o p3 \o p4 \o p5 \o p6 \o p7 \o p8 \o p9 \o p10
  BY DEF AllRisks
<1> HIDE DEF p1, p2, p3, p4, p5, p6, p7, p8, p9, p10
<1>3. /\ p1 \in Seq(S) /\ p2 \in Seq(S) /\ p3 \in Seq(S) /\ p4 \in Seq(S)
      /\ p5 \in Seq(S) /\ p6 \in Seq(S) /\ p7 \in Seq(S) /\ p8 \in Seq(S)
      /\ p9 \in Seq(S) /\ p10 \in Seq(S)
  BY <1>1, PieceIsSeq
<1>4. S = Range(p1) \cup Range(p2) \cup Range(p3) \cup Range(p4)
            \cup Range(p5) \cup Range(p6) \cup Range(p7) \cup Range(p8)
            \cup Range(p9) \cup Range(p10)
  OBVIOUS
<1> HIDE DEF S
<1>5. ASSUME NEW s, NEW R, NEW p \in Seq(S), Joined(s, R)
      PROVE  Joined(s \o p, R \cup Range(p))
  BY <1>5, RangeOfConcat
<1>6. Joined(p1, Range(p1))
  BY <1>3
<1> HIDE DEF Joined
<1>7. Joined(p1 \o p2 \o p3 \o p4 \o p5,
             Range(p1) \cup Range(p2) \cup Range(p3) \cup Range(p4) \cup Range(p5))
  BY <1>3, <1>5, <1>6
<1>8. Joined(p1 \o p2 \o p3 \o p4 \o p5 \o p6 \o p7 \o p8 \o p9 \o p10,
             Range(p1) \cup Range(p2) \cup Range(p3) \cup Range(p4)
               \cup Range(p5) \cup Range(p6) \cup Range(p7) \cup Range(p8)
               \cup Range(p9) \cup Range(p10))
  BY <1>3, <1>5, <1>7
<1>9. QED
  BY <1>2, <1>8 DEF Joined, p1, p2, p3, p4, p5, p6, p7, p8, p9, p10

-----------------------------------------------------------------------------
(* The order of risks, and the three that come first.                      *)

IsRisk(r) == /\ r.severity \in {"Moderate", "High", "Critical"}
             /\ r.impact \in 0 .. 100

\* What GoesBefore compares.
Rank(r) == 1000 * SeverityRank(r.severity) + r.impact

AreRisks(risks) ==
    (\E S : risks \in Seq(S)) /\ \A r \in Range(risks) : IsRisk(r)

LEMMA RankIs ==
    ASSUME NEW r, IsRisk(r)
    PROVE  /\ Rank(r) \in Int
           /\ r.severity = "Moderate" => Rank(r) = 2000 + r.impact
           /\ r.severity # "Moderate" => Rank(r) >= 3000
<1> DEFINE severity == SeverityRank(r.severity)
           impact == r.impact
<1>1. /\ impact \in 0 .. 100 /\ severity \in {2, 3, 4}
      /\ r.severity = "Moderate" => severity = 2
      /\ r.severity # "Moderate" => severity \in {3, 4}
  BY Ranks DEF IsRisk
<1>2. Rank(r) = 1000 * severity + impact
  BY DEF Rank
<1> HIDE DEF severity
<1>3. QED  BY <1>1, <1>2

LEMMA AllRisksAreRisks == ASSUME NEW scan PROVE AreRisks(AllRisks(scan))
<1>1. \A r : IsMild(r) => IsRisk(r)
  BY DEF IsMild, IsRisk
<1>2. \A r \in Range(ApprovalRisk(scan)) : IsRisk(r)
  BY ApprovalRiskIsCritical DEF IsRisk
<1>3. QED
  BY <1>1, <1>2, AllRisksRange, TransferRiskIsMild, ConcentrationRiskIsMild,
     HighValueRiskIsMild, TokenSecurityRiskIsMild, YieldRiskIsMild,
     DefiRiskIsMild, DataRisksAreMild DEF AreMild, AreRisks

Before(risks, i) == {j \in DOMAIN risks : GoesBefore(risks, j, i)}

\* The risks are in a strict total order.
LEMMA OrderIsTotal ==
    ASSUME NEW risks, AreRisks(risks)
    PROVE  /\ DOMAIN risks = 1 .. Len(risks) /\ Len(risks) \in Nat
           /\ \A i \in DOMAIN risks : IsFiniteSet(Before(risks, i))
           /\ \A i, j \in DOMAIN risks :
                 /\ GoesBefore(risks, i, j) => Rank(risks[i]) >= Rank(risks[j])
                 /\ ~GoesBefore(risks, i, i)
                 /\ i # j => GoesBefore(risks, i, j) \/ GoesBefore(risks, j, i)
                 /\ GoesBefore(risks, i, j) =>
                       Before(risks, i) \subseteq Before(risks, j)
<1>1. DOMAIN risks = 1 .. Len(risks) /\ Len(risks) \in Nat
  BY LenProperties DEF AreRisks
<1>2. \A i, j : GoesBefore(risks, i, j) <=>
         \/ Rank(risks[i]) > Rank(risks[j])
         \/ Rank(risks[i]) = Rank(risks[j]) /\ i < j
  BY DEF GoesBefore, Rank
<1>3. \A i \in DOMAIN risks : Rank(risks[i]) \in Int
  <2>1. \A i \in DOMAIN risks : IsRisk(risks[i])
    BY DEF AreRisks, Range
  <2>2. QED  BY <2>1, RankIs
<1>4. \A i \in DOMAIN risks : IsFiniteSet(Before(risks, i))
  <2>1. IsFiniteSet(1 .. Len(risks))
    BY <1>1, FS_Interval
  <2>2. \A i : Before(risks, i) \subseteq 1 .. Len(risks)
    BY <1>1 DEF Before
  <2>3. QED  BY <2>1, <2>2, FS_Subset
<1>5. ASSUME NEW i \in DOMAIN risks, NEW j \in DOMAIN risks,
             GoesBefore(risks, i, j)
      PROVE  Before(risks, i) \subseteq Before(risks, j)
  <2>1. ASSUME NEW k \in DOMAIN risks, GoesBefore(risks, k, i)
        PROVE  GoesBefore(risks, k, j)
    BY <1>1, <1>2, <1>3, <1>5, <2>1
  <2>2. QED  BY <2>1 DEF Before
<1>6. QED  BY <1>1, <1>2, <1>3, <1>4, <1>5

\* Of some of the risks there is one that none of them goes before.
LEMMA SomeIsFirst ==
    ASSUME NEW risks, AreRisks(risks),
           NEW T \in SUBSET DOMAIN risks, T # {}
    PROVE  \E i \in T : \A j \in T \ {i} : GoesBefore(risks, i, j)
<1> DEFINE segments == {Before(risks, i) : i \in T}
<1>1. segments # {}
  OBVIOUS
<1>2. segments \subseteq FiniteSubsetsOf(DOMAIN risks)
  BY OrderIsTotal DEF FiniteSubsetsOf, Before
<1>3. IsWellFoundedOn(StrictSubsetOrdering(DOMAIN risks),
                      FiniteSubsetsOf(DOMAIN risks))
  BY FS_StrictSubsetOrderingWellFounded
<1>4. PICK x \in segments :
         \A y \in segments : ~ (<<y, x>> \in StrictSubsetOrdering(DOMAIN risks))
  <2> HIDE DEF segments
  <2>1. QED  BY <1>1, <1>2, <1>3, WFMin
<1>5. PICK i \in T : x = Before(risks, i)
  OBVIOUS
<1>6. ASSUME NEW j \in T, GoesBefore(risks, j, i)
      PROVE  FALSE
  <2>1. /\ Before(risks, j) \subseteq Before(risks, i)
        /\ j \in Before(risks, i) /\ j \notin Before(risks, j)
        /\ Before(risks, i) \subseteq DOMAIN risks
    BY <1>6, OrderIsTotal DEF Before
  <2>2. <<Before(risks, j), Before(risks, i)>>
            \in StrictSubsetOrdering(DOMAIN risks)
    BY <2>1 DEF StrictSubsetOrdering
  <2>3. QED  BY <1>4, <1>5, <2>2
<1>7. QED  BY <1>6, OrderIsTotal

\* There is a first, a second and a third risk, if there are as many.
LEMMA PlacesAreTaken ==
    ASSUME NEW risks, AreRisks(risks), NEW n \in 1 .. AtMost(3, Len(risks))
    PROVE  \E i \in DOMAIN risks : Cardinality(Before(risks, i)) = n - 1
<1>1. /\ DOMAIN risks = 1 .. Len(risks) /\ Len(risks) \in Nat
      /\ n \in {1, 2, 3} /\ n <= Len(risks)
  BY OrderIsTotal DEF AtMost
<1>2. PICK a \in DOMAIN risks :
         \A j \in DOMAIN risks \ {a} : GoesBefore(risks, a, j)
  <2>1. 1 \in DOMAIN risks
    BY <1>1
  <2>2. QED  BY <2>1, SomeIsFirst
<1>3. ASSUME NEW i \in DOMAIN risks, NEW j \in DOMAIN risks,
             GoesBefore(risks, i, j)
      PROVE  ~GoesBefore(risks, j, i)
  BY <1>3, OrderIsTotal DEF Before
<1>4. CASE n = 1
  <2>1. Before(risks, a) = {}
    BY <1>2, <1>3, OrderIsTotal DEF Before
  <2>2. QED  BY <1>4, <2>1, FS_EmptySet
<1>5. CASE n > 1
  <2>1. DOMAIN risks \ {a} # {}
    <3>1. 1 \in DOMAIN risks /\ 2 \in DOMAIN risks
      BY <1>1, <1>5
    <3>2. QED  BY <3>1
  <2>2. PICK b \in DOMAIN risks \ {a} :
           \A j \in (DOMAIN risks \ {a}) \ {b} : GoesBefore(risks, b, j)
    BY <2>1, SomeIsFirst
  <2>3. CASE n = 2
    <3>1. Before(risks, b) = {a}
      BY <1>2, <1>3, <2>2, OrderIsTotal DEF Before
    <3>2. Cardinality({a}) = 1
      BY FS_Singleton
    <3>3. Cardinality(Before(risks, b)) = 1
      BY <3>1, <3>2
    <3>4. b \in DOMAIN risks /\ n - 1 = 1
      BY <2>2, <2>3
    <3>5. QED  BY <3>3, <3>4
  <2>4. CASE n = 3
    <3>1. (DOMAIN risks \ {a}) \ {b} # {}
      <4>1. 1 \in DOMAIN risks /\ 2 \in DOMAIN risks /\ 3 \in DOMAIN risks
        BY <1>1, <2>4
      <4>2. QED  BY <4>1
    <3>2. PICK c \in (DOMAIN risks \ {a}) \ {b} :
             \A j \in ((DOMAIN risks \ {a}) \ {b}) \ {c} : GoesBefore(risks, c, j)
      BY <3>1, SomeIsFirst
    <3>3. Before(risks, c) = {a} \cup {b}
      BY <1>2, <1>3, <2>2, <3>2, OrderIsTotal DEF Before
    <3>4. IsFiniteSet({a}) /\ Cardinality({a}) = 1 /\ b \notin {a}
      BY <2>2, FS_Singleton
    <3>5. Cardinality({a} \cup {b}) = 1 + 1
      BY <3>4, FS_AddElement
    <3>6. n - 1 = 1 + 1
      BY ONLY <2>4
    <3>7. Cardinality(Before(risks, c)) = n - 1
      BY ONLY <3>3, <3>5, <3>6
    <3>8. QED  BY <3>2, <3>7
  <2>5. QED  BY <1>1, <1>5, <2>3, <2>4
<1>6. QED  BY <1>1, <1>4, <1>5

\* The top risks are risks, and the first is as high as any.
LEMMA TopIsOfRisks ==
    ASSUME NEW risks, AreRisks(risks)
    PROVE  /\ Range(TopRisks(risks)) \subseteq Range(risks)
           /\ TopRisks(risks) = <<>> => Range(risks) = {}
           /\ TopRisks(risks) # <<>> =>
                 /\ TopRisks(risks)[1] \in Range(risks)
                 /\ \A r \in Range(risks) : Rank(TopRisks(risks)[1]) >= Rank(r)
<1> DEFINE place(n) == CHOOSE i \in DOMAIN risks :
                           Cardinality(Before(risks, i)) = n - 1
           last == AtMost(3, Len(risks))
<1>1. /\ DOMAIN TopRisks(risks) = 1 .. last
      /\ \A n \in 1 .. last : TopRisks(risks)[n] = risks[place(n)]
  BY DEF TopRisks, Before
<1>2. \A n \in 1 .. last : /\ place(n) \in DOMAIN risks
                           /\ Cardinality(Before(risks, place(n))) = n - 1
  BY PlacesAreTaken
<1>3. DOMAIN risks = 1 .. Len(risks) /\ Len(risks) \in Nat
  BY OrderIsTotal
<1>4. /\ last \in Nat /\ (last = 0 <=> Len(risks) = 0)
  BY <1>3 DEF AtMost
<1> HIDE DEF place, last
<1>5. Range(TopRisks(risks)) \subseteq Range(risks)
  BY <1>1, <1>2 DEF Range
<1>6. CASE last = 0
  <2>1. DOMAIN risks = {} /\ DOMAIN TopRisks(risks) = {}
    BY <1>1, <1>3, <1>4, <1>6
  <2>2. Range(risks) = {}
    BY <2>1 DEF Range
  <2>3. TopRisks(risks) = <<>>
    BY <2>1 DEF TopRisks
  <2>4. QED  BY <1>5, <2>2, <2>3
<1>7. CASE last # 0
  <2>1. 1 \in 1 .. last
    BY <1>4, <1>7
  <2>2. TopRisks(risks) # <<>>
    <3>1. DOMAIN <<>> = {}
      OBVIOUS
    <3>2. QED  BY <1>1, <2>1, <3>1
  <2>3. place(1) \in DOMAIN risks /\ Cardinality(Before(risks, place(1))) = 0
    BY <1>2, <2>1
  <2>4. Before(risks, place(1)) = {}
    BY <2>3, OrderIsTotal, FS_EmptySet
  <2>5. \A j \in DOMAIN risks : Rank(risks[place(1)]) >= Rank(risks[j])
    <3>1. \A j \in DOMAIN risks : j # place(1) => GoesBefore(risks, place(1), j)
      BY <2>3, <2>4, OrderIsTotal DEF Before
    <3>2. Rank(risks[place(1)]) \in Int
      BY <2>3, RankIs DEF AreRisks, Range
    <3>3. QED  BY <2>3, <3>1, <3>2, OrderIsTotal
  <2>6. TopRisks(risks)[1] = risks[place(1)]
    BY <1>1, <2>1
  <2>7. QED  BY <1>5, <2>2, <2>3, <2>5, <2>6 DEF Range
<1>8. QED  BY <1>6, <1>7

-----------------------------------------------------------------------------
(* A high level has a risk behind it that comes before every gap.          *)

IsTold(r) == Rank(r) >= 2026

LEMMA SevereIsTold ==
    ASSUME NEW r, IsRisk(r),
           r.severity # "Moderate" \/ r.impact >= 26
    PROVE  IsTold(r)
<1>1. r.impact \in Int
  BY DEF IsRisk
<1>2. QED  BY <1>1, RankIs DEF IsTold

\* The row of a part that scores enough is told of: with evidence to cite, a
\* score of 50 is not capped.
LEMMA RowOfScore ==
    ASSUME NEW scan, NEW type, NEW severity, NEW score \in 1 .. 100, NEW ids,
           NEW status, NEW row,
           row = RowRisk(scan, type, severity, score, ids, status),
           score = 50 \/ severity # "Moderate",
           \A r \in Range(row) : IsRisk(r) /\ r.evidence # {}
    PROVE  \E r \in Range(row) : IsTold(r)
<1> DEFINE cited == Cited(scan, ids)
           confidence == Confidence(cited, status)
<1>1. row = Risk(type, severity, score, confidence, cited)
  BY DEF RowRisk
<1>2. PICK r : row = <<r>>
  BY <1>1, RiskIsPiece
<1>3. r \in Range(row)
  BY <1>2 DEF Range
<1>4. /\ r.severity = severity /\ r.impact = Capped(score, confidence)
      /\ r.evidence = {e.id : e \in cited}
  BY <1>1, <1>3, RiskIsPiece
<1>5. cited # {}
  BY <1>3, <1>4
<1>6. confidence \in {95, 78, 68, 58}
  <2> DEFINE base == CASE status = "available" -> 95
                       [] status = "partial"   -> 78
                       [] OTHER                -> 58
  <2>1. base \in {95, 78, 58}
    OBVIOUS
  <2>2. confidence \in {AtMost(68, base), base}
    BY <1>5 DEF Confidence
  <2> HIDE DEF base, confidence
  <2>3. QED  BY <2>1, <2>2 DEF AtMost
<1> HIDE DEF confidence
<1>7. Capped(50, confidence) = 50
  BY <1>6 DEF Capped, AtMost
<1>8. r.severity # "Moderate" \/ r.impact >= 26
  BY <1>4, <1>7
<1>9. QED  BY <1>3, <1>8, SevereIsTold

LEMMA HighIsTold ==
    ASSUME NEW scan, OrphanClaims(scan) = {}, Level(scan) \in {"High", "Critical"}
    PROVE  \E r \in Range(AllRisks(scan)) : IsTold(r)
<1> DEFINE risks == AllRisks(scan)
           a == ApprovalsScore(scan)      t == TransfersScore(scan)
           c == ConcentrationScore(scan)  y == YieldScore(scan)
           d == DefiScore(scan)
<1>1. \A r \in Range(risks) : r.evidence # {}
  BY DEF OrphanClaims, Range
<1>2. \A r \in Range(risks) : IsRisk(r)
  BY AllRisksAreRisks DEF AreRisks
<1>3. /\ a \in {0, 10, 30, 50, 70, 80, 100} /\ t \in {0, 25, 50, 75}
      /\ c \in 0 .. 100 /\ y \in 0 .. 60 /\ d \in {0, 25, 50}
  BY ApprovalsScoreValues, TransfersScoreValues, ConcentrationScoreValues,
     YieldScoreValues, DefiScoreValues
<1>4. /\ Range(ApprovalRisk(scan)) \subseteq Range(risks)
      /\ Range(TransferRisk(scan)) \subseteq Range(risks)
      /\ Range(ConcentrationRisk(scan)) \subseteq Range(risks)
      /\ Range(YieldRisk(scan)) \subseteq Range(risks)
  BY AllRisksRange
<1> HIDE DEF risks
<1>5. CASE a >= 50
  <2> DEFINE worst == CHOOSE x \in Active(scan) : ApprovalScore(x) = a
             severity == IF a >= 85 THEN "Critical"
                         ELSE IF a >= 60 THEN "High" ELSE "Moderate"
  <2>1. a # 0 /\ a \in 1 .. 100 /\ (a = 50 \/ severity # "Moderate")
    BY <1>3, <1>5
  <2>2. ApprovalRisk(scan) =
           RowRisk(scan, "approval", severity, a, worst.cites, worst.status)
    BY <2>1 DEF ApprovalRisk
  <2> HIDE DEF a, worst, severity
  <2>3. \A r \in Range(ApprovalRisk(scan)) : IsRisk(r) /\ r.evidence # {}
    BY <1>1, <1>2, <1>4
  <2>4. \E r \in Range(ApprovalRisk(scan)) : IsTold(r)
    BY <2>1, <2>2, <2>3, RowOfScore
  <2>5. QED  BY <1>4, <2>4 DEF risks
<1>6. CASE t >= 50
  <2> DEFINE worst == CHOOSE x \in scan.transfers : TransferScore(x) = t
             severity == IF t >= 75 THEN "High" ELSE "Moderate"
  <2>1. t # 0 /\ t \in 1 .. 100 /\ (t = 50 \/ severity # "Moderate")
    BY <1>3, <1>6
  <2>2. TransferRisk(scan) =
           RowRisk(scan, "transfer", severity, t, {worst.id}, worst.status)
    BY <2>1 DEF TransferRisk
  <2> HIDE DEF t, worst, severity
  <2>3. \A r \in Range(TransferRisk(scan)) : IsRisk(r) /\ r.evidence # {}
    BY <1>1, <1>2, <1>4
  <2>4. \E r \in Range(TransferRisk(scan)) : IsTold(r)
    BY <2>1, <2>2, <2>3, RowOfScore
  <2>5. QED  BY <1>4, <2>4 DEF risks
<1>7. CASE c >= 60
  <2> DEFINE top == Largest(Valued(scan))
  <2>1. ~(c < 45) /\ c \in 1 .. 100 /\ "High" # "Moderate"
    BY <1>3, <1>7
  <2>2. ConcentrationRisk(scan) =
           RowRisk(scan, "concentration", "High", c, {top.id}, top.status)
    BY <1>7, <2>1 DEF ConcentrationRisk
  <2> HIDE DEF c, top
  <2>3. \A r \in Range(ConcentrationRisk(scan)) : IsRisk(r) /\ r.evidence # {}
    BY <1>1, <1>2, <1>4
  <2>4. \E r \in Range(ConcentrationRisk(scan)) : IsTold(r)
    BY <2>1, <2>2, <2>3, RowOfScore
  <2>5. QED  BY <1>4, <2>4 DEF risks
<1>8. CASE y >= 60
  <2> DEFINE status == IF scan.exposure.warning THEN "partial" ELSE "available"
  <2>1. y # 0 /\ y \in 1 .. 100 /\ "High" # "Moderate"
    BY <1>3, <1>8
  <2>2. YieldRisk(scan) =
           RowRisk(scan, "rwa_yield", "High", y, scan.exposure.cites, status)
    BY <1>8, <2>1 DEF YieldRisk
  <2> HIDE DEF y, status
  <2>3. \A r \in Range(YieldRisk(scan)) : IsRisk(r) /\ r.evidence # {}
    BY <1>1, <1>2, <1>4
  <2>4. \E r \in Range(YieldRisk(scan)) : IsTold(r)
    BY <2>1, <2>2, <2>3, RowOfScore
  <2>5. QED  BY <1>4, <2>4 DEF risks
<1>9. CASE ~(a >= 50) /\ ~(t >= 50) /\ ~(c >= 60) /\ ~(y >= 60)
  <2>1. a \in {0, 10, 30} /\ t \in {0, 25} /\ c \in 0 .. 59 /\ y \in 0 .. 59
    BY <1>3, <1>9
  <2>2. WeightedScore(scan) = 35 * a + 25 * t + 20 * c + 15 * y + 5 * d
    BY DEF WeightedScore
  <2>3. Level(scan) \in {LevelOf(WeightedScore(scan)),
                         Worse(LevelOf(WeightedScore(scan)), "Moderate")}
    <3>1. ~(a >= 85) /\ ~(a >= 80) /\ ~(t >= 75) /\ ~(y >= 60)
      BY <2>1
    <3>2. QED  BY <3>1 DEF Level
  <2> HIDE DEF a, t, c, y, d
  <2>4. WeightedScore(scan) <= 4500
    <3>1. a <= 30 /\ t <= 25 /\ c <= 59 /\ y <= 59 /\ d <= 50
          /\ a \in Int /\ t \in Int /\ c \in Int /\ y \in Int /\ d \in Int
      BY ONLY <1>3, <2>1
    <3>2. QED  BY ONLY <2>2, <3>1
  <2>5. LevelOf(WeightedScore(scan)) \in {"Low", "Moderate"}
    <3> DEFINE n == WeightedScore(scan)
    <3>1. n \in Int
      BY WeightedIsInt
    <3> HIDE DEF n
    <3>2. \/ n <= 2000 /\ LevelOf(n) = "Low"
          \/ n \in 2001 .. 4500 /\ LevelOf(n) = "Moderate"
          \/ n \in 4501 .. 7000 /\ LevelOf(n) = "High"
          \/ n > 7000 /\ LevelOf(n) = "Critical"
      BY ONLY <3>1, LevelOfIs
    <3>3. n <= 4500
      BY <2>4 DEF n
    <3>4. LevelOf(n) \in {"Low", "Moderate"}
      BY ONLY <3>1, <3>2, <3>3
    <3>5. QED  BY <3>4 DEF n
  <2>6. FALSE
    BY <2>3, <2>5 DEF Worse
  <2>7. QED  BY <2>6
<1>10. QED  BY <1>5, <1>6, <1>7, <1>8, <1>9

\* A risk that is told of decides, not a gap.
LEMMA HighDecides ==
    ASSUME NEW scan, OrphanClaims(scan) = {}, Level(scan) \in {"High", "Critical"},
           NEW partial
    PROVE  Decision(TopRisks(AllRisks(scan)), partial)
               \notin {"SAFE", "SIMULATE_ONLY"}
<1> DEFINE risks == AllRisks(scan)
           top == TopRisks(risks)
<1>1. PICK finding \in Range(risks) : IsTold(finding)
  BY HighIsTold
<1>2. /\ top # <<>> /\ top[1] \in Range(risks)
      /\ Rank(top[1]) >= Rank(finding)
  BY <1>1, AllRisksAreRisks, TopIsOfRisks
<1>3. \A r \in Range(risks) : r.type \in GapTypes => IsFaint(r)
  BY AllRisksRange, RowRisksAreOf, DataRisksAreOf DEF AreOf, GapTypes
<1>4. \A r : IsFaint(r) => Rank(r) \in Int /\ Rank(r) <= 2025
  BY RankIs DEF IsFaint, IsRisk
<1>5. Rank(finding) \in Int
  BY <1>1, AllRisksAreRisks, RankIs DEF AreRisks
<1>6. top[1].type \notin GapTypes
  BY <1>1, <1>2, <1>3, <1>4, <1>5 DEF IsTold
<1> HIDE DEF top
<1>7. QED  BY <1>2, <1>6 DEF Decision, GapTypes, top
-----------------------------------------------------------------------------
(* What is given out.                                                      *)

\* Every risk that is explained has evidence in the bundle.
LEMMA TopIsCited ==
    ASSUME NEW scan, OrphanClaims(scan) = {}
    PROVE  \A r \in Range(TopRisks(AllRisks(scan))) :
              r.evidence # {} /\ r.evidence \subseteq BundleOf(scan)
<1>1. \A r \in Range(AllRisks(scan)) : r.evidence # {}
  BY DEF OrphanClaims, Range
<1>2. \A r \in Range(AllRisks(scan)) : r.evidence \subseteq BundleOf(scan)
  BY AllRisksRange, RowRisksAreOf, DataRisksAreOf DEF AreOf
<1>3. Range(TopRisks(AllRisks(scan))) \subseteq Range(AllRisks(scan))
  BY AllRisksAreRisks, TopIsOfRisks
<1>4. QED  BY <1>1, <1>2, <1>3

Grounded(claims, top, known) ==
    /\ {c.type : c \in claims} \subseteq {r.type : r \in Range(top)}
    /\ \A c \in claims : c.evidence # {} /\ c.evidence \subseteq known

LEMMA RuleClaimsAreGrounded ==
    ASSUME NEW assessment, NEW known,
           \A r \in Range(assessment.top) :
              r.evidence # {} /\ r.evidence \subseteq known
    PROVE  LET claims == RuleClaims(assessment, known)
           IN  /\ Grounded(claims, assessment.top, known)
               /\ {c.type : c \in claims} = {r.type : r \in Range(assessment.top)}
<1> DEFINE claims == RuleClaims(assessment, known)
<1>1. \A r \in Range(assessment.top) :
         r.evidence \cap known = r.evidence /\ r.evidence \cap known # {}
  OBVIOUS
<1>2. claims = {Claim(r.type, r.evidence \cap known) : r \in Range(assessment.top)}
  BY <1>1 DEF RuleClaims
<1>3. \A r \in Range(assessment.top) :
         LET c == Claim(r.type, r.evidence \cap known)
         IN  c \in claims /\ c.type = r.type /\ c.evidence = r.evidence
  BY <1>1, <1>2 DEF Claim
<1>4. \A c \in claims : \E r \in Range(assessment.top) :
         c.type = r.type /\ c.evidence = r.evidence
  <2>1. \A c \in claims : \E r \in Range(assessment.top) :
           c = Claim(r.type, r.evidence \cap known)
    BY <1>2
  <2> HIDE DEF claims
  <2>2. SUFFICES ASSUME NEW c \in claims
                 PROVE  \E r \in Range(assessment.top) :
                           c.type = r.type /\ c.evidence = r.evidence
    OBVIOUS
  <2>3. PICK r \in Range(assessment.top) : c = Claim(r.type, r.evidence \cap known)
    BY <2>1
  <2>4. c.type = r.type /\ c.evidence = r.evidence \cap known
    BY <2>3 DEF Claim
  <2>5. QED  BY <1>1, <2>4
<1> HIDE DEF claims
<1>5. Grounded(claims, assessment.top, known)
  BY <1>4 DEF Grounded
<1>6. {c.type : c \in claims} = {r.type : r \in Range(assessment.top)}
  BY <1>3, <1>4
<1>7. QED  BY <1>5, <1>6 DEF claims

LEMMA PassedClaimsAreGrounded ==
    ASSUME NEW candidate, NEW assessment, NEW known,
           Passes(candidate, assessment, known)
    PROVE  Grounded(candidate.claims, assessment.top, known)
BY DEF Passes, Grounded

IsAssessed ==
    answer = Assess(Scan(subject)) /\ OrphanClaims(Scan(subject)) = {}

\* No assessment is given out with a claim that no evidence is behind, and
\* nothing is told before there is one; what is told is about it.
IsBound ==
    /\ answer # None \/ state \in {"EVIDENCE_BINDING", "EXPLAINING", "SIMULATION_READY"}
          => IsAssessed
    /\ told # None => state \in {"SIMULATION_READY"} \cup Failures
    /\ ExplanationIsGrounded

LEMMA AssessedIsCited ==
    ASSUME IsAssessed
    PROVE  \A r \in Range(answer.top) :
              r.evidence # {} /\ r.evidence \subseteq BundleIds
<1>1. answer.top = TopRisks(AllRisks(Scan(subject)))
  BY DEF IsAssessed, Assess
<1>2. BundleIds = BundleOf(Scan(subject))
  BY DEF BundleIds, BundleOf
<1>3. QED  BY <1>1, <1>2, TopIsCited DEF IsAssessed

LEMMA ExplainIsBound ==
    ASSUME IsBound, Explain
    PROVE  IsBound'
<1> USE DEF IsBound, Explain
<1>1. state' \in {"SIMULATION_READY", "refused"}
  BY TransitionMoves DEF Moves
<1>2. IsAssessed /\ IsAssessed'
  BY DEF IsAssessed
<1>3. told'.mode = "rule_fallback" /\ told'.claims = RuleClaims(answer, BundleIds)
  OBVIOUS
<1>4. ExplanationIsGrounded'
  <2>1. BundleIds' = BundleIds
    BY DEF BundleIds
  <2>2. LET claims == RuleClaims(answer, BundleIds)
        IN  /\ Grounded(claims, answer.top, BundleIds)
            /\ {c.type : c \in claims} = {r.type : r \in Range(answer.top)}
    BY <1>2, AssessedIsCited, RuleClaimsAreGrounded
  <2>3. answer' = answer
    OBVIOUS
  <2>4. QED
    BY ONLY <1>3, <2>1, <2>2, <2>3 DEF ExplanationIsGrounded, Grounded
<1>5. QED  BY <1>1, <1>2, <1>4 DEF Failures

LEMMA CandidateIsBound ==
    ASSUME IsBound, ExplainCandidate
    PROVE  IsBound'
<1> USE DEF IsBound, ExplainCandidate
<1>1. IsAssessed /\ IsAssessed'
  BY DEF IsAssessed
<1>2. PICK candidate \in Candidates :
         told' = [mode   |-> IF Passes(candidate, answer, BundleIds)
                             THEN "llm_guarded" ELSE "rule_fallback",
                  claims |-> Explanation(candidate, answer, BundleIds)]
  OBVIOUS
<1>3. ExplanationIsGrounded'
  <2>1. BundleIds' = BundleIds
    BY DEF BundleIds
  <2>2. CASE candidate # None /\ Passes(candidate, answer, BundleIds)
    <3>1. told'.mode = "llm_guarded" /\ told'.claims = candidate.claims
      BY <1>2, <2>2 DEF Explanation
    <3>2. QED
      BY <2>1, <2>2, <3>1, PassedClaimsAreGrounded DEF ExplanationIsGrounded, Grounded
  <2>3. CASE ~(candidate # None /\ Passes(candidate, answer, BundleIds))
    <3>1. told'.claims = RuleClaims(answer, BundleIds)
      BY <1>2, <2>3 DEF Explanation
    <3>2. LET claims == RuleClaims(answer, BundleIds)
          IN  /\ Grounded(claims, answer.top, BundleIds)
              /\ {c.type : c \in claims} = {r.type : r \in Range(answer.top)}
      BY <1>1, AssessedIsCited, RuleClaimsAreGrounded
    <3>3. answer' = answer
      OBVIOUS
    <3>4. QED
      BY ONLY <2>1, <3>1, <3>2, <3>3 DEF ExplanationIsGrounded, Grounded
  <2>4. QED  BY <2>2, <2>3
<1>4. QED  BY <1>1, <1>3

LEMMA Bound == Spec => [](IsOfSubject /\ IsBound)
<1>1. Init => IsBound
  BY DEF Init, IsBound, ExplanationIsGrounded
<1>2. ASSUME IsOfSubject, IsBound, [Next]_vars
      PROVE  IsBound'
  <2> USE <1>2
  <2>1. CASE UNCHANGED vars
    BY <2>1
    DEF IsBound, IsAssessed, ExplanationIsGrounded, BundleIds, vars
  <2>2. CASE Explain
    BY <2>2, ExplainIsBound
  <2>3. CASE ExplainCandidate
    BY <2>3, CandidateIsBound
  <2>4. CASE Evaluate
    <3>1. told = None /\ told' = None /\ UNCHANGED subject
            /\ state' \notin {"EXPLAINING", "SIMULATION_READY"}
      BY <2>4, TransitionMoves DEF Evaluate, IsBound, Failures
    <3>2. CASE OrphanClaims(Scan(subject)) = {}
      <4>1. answer' = Assess(Scan(subject))
        BY <2>4, <3>2 DEF Evaluate
      <4>2. IsAssessed'
        BY <3>1, <3>2, <4>1 DEF IsAssessed
      <4>3. QED  BY <3>1, <4>2 DEF IsBound, ExplanationIsGrounded
    <3>3. CASE OrphanClaims(Scan(subject)) # {}
      BY <2>4, <3>1, <3>3 DEF Evaluate, IsBound, IsAssessed, ExplanationIsGrounded
    <3>4. QED  BY <3>2, <3>3
  <2>5. CASE Weigh \/ Resume \/ BindEvidence
    <3>1. /\ told = None /\ UNCHANGED <<told, answer, subject>>
          /\ \/ state' \in {"PARTIAL_OR_UNKNOWN", "RISK_EVALUATING", "refused"}
             \/ state = "EVIDENCE_BINDING" /\ state' \in {"EXPLAINING", "refused"}
      BY <2>5, TransitionMoves
      DEF Weigh, Resume, BindEvidence, Gathered, IsBound, Failures
    <3>2. QED  BY <3>1 DEF IsBound, IsAssessed, ExplanationIsGrounded
  <2>6. CASE Gathers
    <3>1. /\ told = None /\ told' = None /\ answer = None /\ answer' = None
          /\ state' \in {"DATA_GATHERING", "crashed"}
      BY <2>6, GathersInTime DEF IsBound, Failures, IsOfSubject
    <3>2. QED  BY <3>1 DEF IsBound, ExplanationIsGrounded
  <2>7. CASE Begin
    BY <2>7, TransitionMoves
    DEF Begin, IsBound, ExplanationIsGrounded, Failures, IsOfSubject
  <2>8. QED
    BY <2>1, <2>2, <2>3, <2>4, <2>5, <2>6, <2>7 DEF Next, Gathers
<1>3. QED  BY <1>1, <1>2, OfSubject, PTL DEF Spec

\* For any wallet: the decision about a wallet of high risk is never SAFE and
\* never only to simulate, whatever its data leave out
\* (risk.py:_decision_type).
THEOREM HighIsActed == Spec => []HighIsActedOn
<1>1. IsOfSubject /\ IsBound => HighIsActedOn
  <2> SUFFICES ASSUME IsOfSubject, IsBound, answer # None,
                      answer.level \in {"High", "Critical"}
               PROVE  answer.decision \notin {"SAFE", "SIMULATE_ONLY"}
    BY DEF HighIsActedOn
  <2>1. PICK partial :
           /\ answer.level = Level(Scan(subject))
           /\ answer.decision = Decision(TopRisks(AllRisks(Scan(subject))), partial)
    BY DEF IsOfSubject, Assess
  <2>2. OrphanClaims(Scan(subject)) = {}
    BY DEF IsBound, IsAssessed
  <2>3. QED  BY <2>1, <2>2, HighDecides
<1>2. QED  BY <1>1, Bound, PTL

\* For any wallet and any text of a language model: the explanation that is
\* given out is about the top risks and cites evidence of the scan, and the
\* rules' own leaves none of them out (explain.py, llm_guard.py).
THEOREM AlwaysGrounded == Spec => []ExplanationIsGrounded
<1>1. IsBound => ExplanationIsGrounded
  BY DEF IsBound
<1>2. QED  BY <1>1, Bound, PTL


-----------------------------------------------------------------------------
(* What a tool changes of the subject.                                     *)

\* t is s but for these fields.
Changes(s, t, fields) ==
    Shaped(t) /\ \A f \in SubjectFields \ fields : t[f] = s[f]

LEMMA NothingChanges == ASSUME NEW s, Shaped(s), NEW fields PROVE Changes(s, s, fields)
BY DEF Changes

LEMMA ChangesAdd ==
    ASSUME NEW s, NEW t, NEW u, NEW F, NEW G, NEW H,
           Changes(s, t, F), Changes(t, u, G), F \cup G \subseteq H
    PROVE  Changes(s, u, H)
BY DEF Changes

LEMMA SourceChanges ==
    ASSUME NEW s, Shaped(s), NEW name, NEW status
    PROVE  Changes(s, Source(s, name, status), {"sources"})
BY DEF Changes, Source, Shaped, SubjectFields

LEMMA CoveredChanges ==
    ASSUME NEW s, Shaped(s), NEW fields, NEW coverage
    PROVE  LET t == Covered(s, fields, coverage)
           IN  /\ Changes(s, t, {"completeness"})
               /\ t.completeness =
                     [f \in Fields |-> IF f \in fields THEN coverage
                                                       ELSE s.completeness[f]]
BY DEF Changes, Covered, Shaped, SubjectFields

LEMMA HoldChanges ==
    ASSUME NEW s, Shaped(s), NEW items
    PROVE  LET t == Hold(s, items)
           IN  /\ Changes(s, t, {"listed", "held"})
               /\ t.listed = items
               /\ t.held = {b \in s.held : \A i \in items : i.token # b.token}
                              \cup items
BY DEF Changes, Hold, Shaped, SubjectFields

-----------------------------------------------------------------------------
(* Evidence that is added.                                                 *)

Ids(items) == {e.id : e \in items}

Unique(items) == \A a, b \in items : a.id = b.id => a = b

\* t has the evidence of s and, under each of their names, these items.
Adds(s, t, items) ==
    /\ s.evidence \subseteq t.evidence
    /\ t.evidence \subseteq s.evidence \cup items
    /\ Ids(items) \subseteq Ids(t.evidence)
    /\ Unique(t.evidence)

LEMMA AddsNothing ==
    ASSUME NEW s, NEW t, Unique(s.evidence), t.evidence = s.evidence
    PROVE  Adds(s, t, {})
BY DEF Adds, Ids

LEMMA AddsOn ==
    ASSUME NEW s, NEW t, NEW u, NEW I, NEW J, Adds(s, t, I), Adds(t, u, J)
    PROVE  Adds(s, u, I \cup J)
<1>1. Ids(I) \subseteq Ids(u.evidence)
  BY DEF Adds, Ids
<1>2. Ids(I \cup J) = Ids(I) \cup Ids(J)
  BY DEF Ids
<1>3. QED  BY <1>1, <1>2 DEF Adds

LEMMA AddEvidenceChanges ==
    ASSUME NEW s, Shaped(s), NEW items, Unique(s.evidence), Unique(items)
    PROVE  LET t == AddEvidence(s, items)
           IN  Changes(s, t, {"evidence"}) /\ Adds(s, t, items)
<1> DEFINE t == AddEvidence(s, items)
<1>1. Changes(s, t, {"evidence"})
  BY DEF Changes, AddEvidence, Shaped, SubjectFields
<1>2. t.evidence = s.evidence \cup {e \in items : \A old \in s.evidence : old.id # e.id}
  BY DEF AddEvidence, Shaped, SubjectFields
<1> HIDE DEF t
<1>3. Ids(items) \subseteq Ids(t.evidence)
  BY <1>2 DEF Ids
<1>4. Unique(t.evidence)
  BY <1>2 DEF Unique
<1>5. QED  BY <1>1, <1>2, <1>3, <1>4 DEF Adds, t

\* A source's status and items of evidence are noted.
LEMMA NotedChanges ==
    ASSUME NEW s, Shaped(s), NEW name, NEW status, NEW items,
           Unique(s.evidence), Unique(items)
    PROVE  LET t == AddEvidence(Source(s, name, status), items)
           IN  Changes(s, t, {"sources", "evidence"}) /\ Adds(s, t, items)
<1> DEFINE r == Source(s, name, status)
           t == AddEvidence(r, items)
<1>1. Changes(s, r, {"sources"})
  BY SourceChanges
<1>2. Shaped(r) /\ r.evidence = s.evidence
  BY <1>1 DEF Changes, SubjectFields
<1> HIDE DEF r
<1>3. Changes(r, t, {"evidence"}) /\ Adds(r, t, items)
  BY <1>2, AddEvidenceChanges
<1>4. Changes(s, t, {"sources", "evidence"})
  BY <1>1, <1>3, ChangesAdd
<1>5. QED  BY <1>2, <1>3, <1>4 DEF Adds, r

LEMMA EvidenceIs ==
    ASSUME NEW kind, NEW of, NEW quality, NEW age
    PROVE  Evidence(kind, of, quality, age).id = <<kind, of>>
BY DEF Evidence

LEMMA MissingIs ==
    ASSUME NEW T
    PROVE  LET missing == {Evidence("balance", <<"error", t>>, "missing", "recent") :
                              t \in T}
           IN  /\ Unique(missing)
               /\ \A e \in missing : e.id[1] = "balance" /\ e.id[2][1] = "error"
<1> DEFINE missing == {Evidence("balance", <<"error", t>>, "missing", "recent") : t \in T}
<1>1. \A e \in missing : \E t \in T :
         /\ e = Evidence("balance", <<"error", t>>, "missing", "recent")
         /\ e.id = <<"balance", <<"error", t>>>>
  <2>1. SUFFICES ASSUME NEW e \in missing
                 PROVE  \E t \in T :
                           /\ e = Evidence("balance", <<"error", t>>, "missing", "recent")
                           /\ e.id = <<"balance", <<"error", t>>>>
    OBVIOUS
  <2>2. PICK t \in T : e = Evidence("balance", <<"error", t>>, "missing", "recent")
    OBVIOUS
  <2>3. QED  BY <2>2, EvidenceIs
<1> HIDE DEF missing
<1>2. ASSUME NEW e \in missing
      PROVE  e.id[1] = "balance" /\ e.id[2][1] = "error"
  <2>1. PICK t \in T : e.id = <<"balance", <<"error", t>>>>
    BY <1>1
  <2>2. <<"balance", <<"error", t>>>>[1] = "balance"
    OBVIOUS
  <2>3. <<"balance", <<"error", t>>>>[2] = <<"error", t>> /\ <<"error", t>>[1] = "error"
    OBVIOUS
  <2>4. QED  BY <2>1, <2>2, <2>3
<1>3. Unique(missing)
  <2>1. SUFFICES ASSUME NEW a \in missing, NEW b \in missing, a.id = b.id
                 PROVE  a = b
    BY DEF Unique
  <2>2. PICK t \in T : a = Evidence("balance", <<"error", t>>, "missing", "recent")
                        /\ a.id = <<"balance", <<"error", t>>>>
    BY <1>1
  <2>3. PICK u \in T : b = Evidence("balance", <<"error", u>>, "missing", "recent")
                        /\ b.id = <<"balance", <<"error", u>>>>
    BY <1>1
  <2>4. t = u
    BY <2>1, <2>2, <2>3
  <2>5. QED  BY <2>2, <2>3, <2>4
<1>4. QED  BY <1>2, <1>3 DEF missing

LEMMA RowsAre ==
    ASSUME NEW by, NEW tokens
    PROVE  /\ \A b \in Rows(by, tokens) : \E t \in tokens :
                 b = Balance(by, t.token, t.symbol, t.value)
           /\ \A t \in tokens :
                 Balance(by, t.token, t.symbol, t.value) \in Rows(by, tokens)
BY DEF Rows

LEMMA BalanceIs ==
    ASSUME NEW by, NEW token, NEW symbol, NEW value
    PROVE  LET b == Balance(by, token, symbol, value)
           IN  /\ b.token = token /\ b.symbol = symbol /\ b.value = value
               /\ b.id = <<"balance", <<by, token>>>>
BY DEF Balance

\* Rows of one provider, a token each.
AreRows(items, by) ==
    /\ \A b \in items : b.id = <<"balance", <<by, b.token>>>>
    /\ \A a, b \in items : a.token = b.token => a = b

LEMMA BalanceEvidenceIs ==
    ASSUME NEW items, NEW by, AreRows(items, by)
    PROVE  /\ Unique(BalanceEvidence(items))
           /\ \A b \in items : b.id \in Ids(BalanceEvidence(items))
           /\ \A e \in BalanceEvidence(items) :
                 e.id[1] = "balance" /\ \E b \in items : e.id = b.id
<1> DEFINE of(b) == Evidence("balance", b.id[2], "fresh", "recent")
<1>1. BalanceEvidence(items) = {of(b) : b \in items}
  BY DEF BalanceEvidence
<1>2. \A b \in items : of(b).id = b.id
  BY EvidenceIs DEF AreRows
<1>3. /\ \A b, c \in items : b.id = c.id => of(b) = of(c)
      /\ \A b \in items : of(b).id[1] = "balance"
  BY EvidenceIs
<1> HIDE DEF of
<1>4. Unique(BalanceEvidence(items))
  BY <1>1, <1>2, <1>3 DEF Unique
<1>5. QED  BY <1>1, <1>2, <1>3, <1>4 DEF Ids

\* Tokens of a wallet.
AreTokens(tokens) ==
    /\ IsFiniteSet(tokens)
    /\ \A t \in tokens : t.value \in Nat
    /\ \A t, u \in tokens : t.token = u.token => t = u

AreCounted(balances) ==
    IsFiniteSet(balances) /\ \A b \in balances : b.value \in Nat

LEMMA RowsAreRows ==
    ASSUME NEW by, NEW tokens, AreTokens(tokens)
    PROVE  /\ AreRows(Rows(by, tokens), by)
           /\ AreCounted(Rows(by, tokens))
<1> DEFINE f == [t \in tokens |-> Balance(by, t.token, t.symbol, t.value)]
           T == Rows(by, tokens)
<1>1. \A b \in T : \E t \in tokens : b = f[t] /\ b.token = t.token
                       /\ b.value = t.value /\ b.id = <<"balance", <<by, b.token>>>>
  BY RowsAre, BalanceIs
<1>2. \A t \in tokens : f[t] \in T
  BY RowsAre
<1>3. f \in Surjection(tokens, T)
  BY <1>1, <1>2 DEF Surjection
<1>4. IsFiniteSet(T)
  BY <1>3, FS_Surjection DEF AreTokens
<1> HIDE DEF T, f
<1>5. \A b \in T : b.value \in Nat
  BY <1>1 DEF AreTokens
<1>6. \A a, b \in T : a.token = b.token => a = b
  BY <1>1 DEF AreTokens
<1>7. QED  BY <1>1, <1>4, <1>5, <1>6 DEF AreRows, AreCounted, T

LEMMA FewerTokens ==
    ASSUME NEW tokens, AreTokens(tokens), NEW S \in SUBSET tokens
    PROVE  AreTokens(S)
BY FS_Subset DEF AreTokens

LEMMA FewerRows ==
    ASSUME NEW items, NEW by, AreRows(items, by), NEW S \in SUBSET items
    PROVE  AreRows(S, by)
BY DEF AreRows

-----------------------------------------------------------------------------
(* A scan whose rows have their evidence makes no claim without any.       *)

\* One of some balances is the largest.
LEMMA LargestIs ==
    ASSUME NEW balances, AreCounted(balances), balances # {}
    PROVE  Largest(balances) \in balances
<1> DEFINE above(b) == {c \in balances : c.value > b.value}
           segments == {above(b) : b \in balances}
<1>1. segments # {} /\ segments \subseteq FiniteSubsetsOf(balances)
  <2>1. \A b : above(b) \subseteq balances
    OBVIOUS
  <2>2. \A b : above(b) \in FiniteSubsetsOf(balances)
    BY <2>1, FS_Subset DEF FiniteSubsetsOf, AreCounted
  <2>3. QED  BY <2>2
<1>2. IsWellFoundedOn(StrictSubsetOrdering(balances), FiniteSubsetsOf(balances))
  BY FS_StrictSubsetOrderingWellFounded
<1>3. PICK x \in segments :
         \A y \in segments : ~ (<<y, x>> \in StrictSubsetOrdering(balances))
  <2> HIDE DEF segments
  <2>1. QED  BY <1>1, <1>2, WFMin
<1>4. PICK b \in balances : x = above(b)
  OBVIOUS
<1>5. ASSUME NEW c \in balances, ~(b.value >= c.value)
      PROVE  FALSE
  <2>1. c \in above(b) /\ c \notin above(c) /\ above(c) \subseteq above(b)
        /\ above(b) \subseteq balances
    BY <1>5 DEF AreCounted
  <2>2. <<above(c), above(b)>> \in StrictSubsetOrdering(balances)
    BY <2>1 DEF StrictSubsetOrdering
  <2>3. QED  BY <1>3, <1>4, <2>2
<1>6. \E c \in balances : \A d \in balances : c.value >= d.value
  BY <1>5
<1>7. QED  BY <1>6 DEF Largest

\* Each row cites evidence that is there.
AreBacked(scan) ==
    LET ids == Ids(scan.evidence)
    IN  /\ AreCounted(scan.balances)
        /\ \A b \in scan.balances : b.id \in ids
        /\ \A a \in scan.approvals : a.cites \cap ids # {}
        /\ \A t \in scan.transfers \cup scan.tokens : t.id \in ids
        /\ scan.exposure # None => scan.exposure.cites \cap ids # {}

HasEvidence(s) == \A r \in Range(s) : r.evidence # {}

LEMMA RiskHasEvidence ==
    ASSUME NEW type, NEW severity, NEW score, NEW confidence, NEW cited, cited # {}
    PROVE  HasEvidence(Risk(type, severity, score, confidence, cited))
BY RiskIsPiece DEF HasEvidence

LEMMA EmptyHasEvidence == HasEvidence(<<>>)
BY EmptyIsPiece DEF HasEvidence

LEMMA RowRiskHasEvidence ==
    ASSUME NEW scan, NEW type, NEW severity, NEW score, NEW ids, NEW status,
           ids \cap Ids(scan.evidence) # {}
    PROVE  HasEvidence(RowRisk(scan, type, severity, score, ids, status))
<1>1. Cited(scan, ids) # {}
  BY DEF Cited, Bundle, Ids
<1>2. QED  BY <1>1, RiskHasEvidence DEF RowRisk

\* Where something is missing, that is evidence itself.
LEMMA GapIsEvidence ==
    ASSUME NEW scan, NEW f \in Fields, scan.completeness[f] # "available"
    PROVE  CoverageEvidence(scan) # {}
<1> DEFINE e == [id |-> <<"coverage", None>>, quality |-> "coverage", age |-> "undated"]
<1>1. Gaps(scan) # {}
  BY DEF Gaps
<1>2. e \in Bundle(scan)
  BY <1>1 DEF Bundle
<1>3. e \in {x \in Bundle(scan) : x.quality = "coverage"}
  BY <1>2
<1>4. QED  BY <1>3 DEF CoverageEvidence

LEMMA ApprovalHasEvidence ==
    ASSUME NEW scan, AreBacked(scan)
    PROVE  HasEvidence(ApprovalRisk(scan))
<1> DEFINE score == ApprovalsScore(scan)
           worst == CHOOSE a \in Active(scan) : ApprovalScore(a) = score
           S == {ApprovalScore(a) : a \in Active(scan)}
<1>1. score # 0 => \E a \in Active(scan) : ApprovalScore(a) = score
  <2>1. S \subseteq {0, 10, 30, 50, 70, 80, 100}
    BY ApprovalScoreValues
  <2>2. score \in S \cup {0}
    <3> HIDE DEF S
    <3>1. S \in SUBSET {0, 10, 25, 30, 50, 70, 75, 80, 100}
      BY <2>1
    <3>2. Highest(S) \in S \cup {0}
      BY <3>1, HighestOf
    <3>3. QED  BY <3>2 DEF ApprovalsScore, S
  <2>3. QED  BY <2>2
<1>2. score # 0 => worst \in scan.approvals
  BY <1>1 DEF Active
<1>3. score # 0 => worst.cites \cap Ids(scan.evidence) # {}
  BY <1>2 DEF AreBacked
<1>4. \E severity : ApprovalRisk(scan) =
         IF score = 0 THEN <<>>
         ELSE RowRisk(scan, "approval", severity, score, worst.cites, worst.status)
  BY DEF ApprovalRisk
<1> HIDE DEF score, worst
<1>5. QED  BY <1>3, <1>4, EmptyHasEvidence, RowRiskHasEvidence

LEMMA TransferHasEvidence ==
    ASSUME NEW scan, AreBacked(scan)
    PROVE  HasEvidence(TransferRisk(scan))
<1> DEFINE score == TransfersScore(scan)
           worst == CHOOSE t \in scan.transfers : TransferScore(t) = score
           S == {TransferScore(t) : t \in scan.transfers}
<1>1. score # 0 => \E t \in scan.transfers : TransferScore(t) = score
  <2>1. S \subseteq {0, 25, 50, 75}
    BY TransferScoreValues
  <2>2. score \in S \cup {0}
    <3> HIDE DEF S
    <3>1. S \in SUBSET {0, 10, 25, 30, 50, 70, 75, 80, 100}
      BY <2>1
    <3>2. Highest(S) \in S \cup {0}
      BY <3>1, HighestOf
    <3>3. QED  BY <3>2 DEF TransfersScore, S
  <2>3. QED  BY <2>2
<1>2. score # 0 => worst \in scan.transfers
  BY <1>1
<1>3. score # 0 => {worst.id} \cap Ids(scan.evidence) # {}
  BY <1>2 DEF AreBacked
<1>4. \E severity : TransferRisk(scan) =
         IF score = 0 THEN <<>>
         ELSE RowRisk(scan, "transfer", severity, score, {worst.id}, worst.status)
  BY DEF TransferRisk
<1> HIDE DEF score, worst
<1>5. QED  BY <1>3, <1>4, EmptyHasEvidence, RowRiskHasEvidence

\* The largest of some of the balances has evidence.
LEMMA LargestHasEvidence ==
    ASSUME NEW scan, AreBacked(scan), NEW S \in SUBSET scan.balances, S # {}
    PROVE  {Largest(S).id} \cap Ids(scan.evidence) # {}
<1>1. AreCounted(S)
  BY FS_Subset DEF AreBacked, AreCounted
<1>2. Largest(S) \in scan.balances
  BY <1>1, LargestIs
<1>3. QED  BY <1>2 DEF AreBacked

LEMMA BalancesHaveEvidence ==
    ASSUME NEW scan, AreBacked(scan)
    PROVE  /\ HasEvidence(ConcentrationRisk(scan))
           /\ HasEvidence(HighValueRisk(scan))
           /\ HasEvidence(DefiRisk(scan))
<1> DEFINE top == Largest(Valued(scan))
           lp == Largest(LpValue(scan))
<1>1. Valued(scan) \subseteq scan.balances /\ LpValue(scan) \subseteq scan.balances
  BY DEF Valued, LpValue
<1>2. /\ Valued(scan) # {} => {top.id} \cap Ids(scan.evidence) # {}
      /\ LpValue(scan) # {} => {lp.id} \cap Ids(scan.evidence) # {}
  BY <1>1, LargestHasEvidence
<1>3. \E severity, score, status :
         HighValueRisk(scan) = IF Valued(scan) = {} THEN <<>>
                               ELSE RowRisk(scan, "high_value_exposure", severity,
                                            score, {top.id}, status)
  <2> DEFINE score == CASE top.value >= 50000 -> 70
                        [] top.value \in 10000 .. 49999 -> 55
                        [] top.value \in 5000 .. 9999   -> 45
                        [] OTHER -> 0
             severity == IF score >= 60 THEN "High" ELSE "Moderate"
             status == CoverageOf(scan, {"knownTokenBalances", "fullTokenInventory"})
  <2>1. HighValueRisk(scan) =
           IF Valued(scan) = {} THEN <<>>
           ELSE RowRisk(scan, "high_value_exposure", severity, score, {top.id}, status)
    BY DEF HighValueRisk
  <2> HIDE DEF score, top, severity, status
  <2>2. QED  BY <2>1
<1>4. \E severity, score, status :
         ConcentrationRisk(scan) = IF ConcentrationScore(scan) < 45 THEN <<>>
                                   ELSE RowRisk(scan, "concentration", severity,
                                                score, {top.id}, status)
  BY DEF ConcentrationRisk
<1>5. ~(ConcentrationScore(scan) < 45) => Valued(scan) # {}
  BY DEF ConcentrationScore
<1>6. \E severity, score, status :
         DefiRisk(scan) = IF DefiScore(scan) = 0 THEN <<>>
                          ELSE RowRisk(scan, "defi", severity, score, {lp.id}, status)
  BY DEF DefiRisk
<1>7. DefiScore(scan) # 0 => LpValue(scan) # {}
  <2> SUFFICES ASSUME LpValue(scan) = {} PROVE DefiScore(scan) = 0
    OBVIOUS
  <2> DEFINE S == {b.value : b \in LpValue(scan)}
  <2>1. S = {}
    OBVIOUS
  <2> HIDE DEF S
  <2>2. Highest(S) = 0
    BY <2>1, HighestOf
  <2>3. DefiScore(scan) = CASE Highest(S) > 5000 -> 50
                            [] Highest(S) \in 501 .. 5000 -> 25
                            [] OTHER -> 0
    BY DEF DefiScore, S
  <2>4. QED  BY <2>2, <2>3
<1> HIDE DEF top, lp
<1>8. QED
  BY <1>2, <1>3, <1>4, <1>5, <1>6, <1>7, EmptyHasEvidence, RowRiskHasEvidence

LEMMA TokenAndYieldHaveEvidence ==
    ASSUME NEW scan, AreBacked(scan)
    PROVE  HasEvidence(TokenSecurityRisk(scan)) /\ HasEvidence(YieldRisk(scan))
<1> DEFINE risky == {t \in scan.tokens : t.security = "risky"}
           unknown == {t \in scan.tokens : t.security = "unknown"}
           chosen == IF risky # {} THEN risky ELSE unknown
           selected == CHOOSE t \in chosen : TRUE
           status == CoverageOf(scan, {"tokenSecurity"})
           risk(severity, score) ==
               RowRisk(scan, "token_security", severity, score, {selected.id}, status)
<1>1. TokenSecurityRisk(scan) \in
         {<<>>} \cup {r \in {risk("High", 70), risk("Moderate", 25)} : chosen # {}}
  <2>1. CASE risky # {}
    <3>1. TokenSecurityRisk(scan) = risk("High", 70)
      BY <2>1 DEF TokenSecurityRisk
    <3>2. QED  BY <2>1, <3>1
  <2>2. CASE risky = {} /\ unknown # {}
    <3>1. TokenSecurityRisk(scan) = risk("Moderate", 25)
      BY <2>2 DEF TokenSecurityRisk
    <3>2. QED  BY <2>2, <3>1
  <2>3. CASE risky = {} /\ unknown = {}
    <3>1. TokenSecurityRisk(scan) = <<>>
      BY <2>3 DEF TokenSecurityRisk
    <3>2. QED  BY <3>1
  <2>4. QED  BY <2>1, <2>2, <2>3
<1>2. chosen # {} => selected \in scan.tokens
  OBVIOUS
<1>3. chosen # {} => {selected.id} \cap Ids(scan.evidence) # {}
  BY <1>2 DEF AreBacked
<1> HIDE DEF chosen, selected, status
<1>4. HasEvidence(TokenSecurityRisk(scan))
  BY <1>1, <1>3, EmptyHasEvidence, RowRiskHasEvidence
<1>5. YieldScore(scan) # 0 => scan.exposure.cites \cap Ids(scan.evidence) # {}
  <2>1. scan.exposure = None => YieldScore(scan) = 0
    BY ZenonT(30) DEF YieldScore
  <2>2. QED  BY <2>1 DEF AreBacked
<1>6. \E severity, state1 :
         YieldRisk(scan) = IF YieldScore(scan) = 0 THEN <<>>
                           ELSE RowRisk(scan, "rwa_yield", severity, YieldScore(scan),
                                        scan.exposure.cites, state1)
  BY DEF YieldRisk
<1>7. HasEvidence(YieldRisk(scan))
  BY <1>5, <1>6, EmptyHasEvidence, RowRiskHasEvidence
<1>8. QED  BY <1>4, <1>7

LEMMA GapsHaveEvidence ==
    ASSUME NEW scan
    PROVE  /\ HasEvidence(DataRisk(scan))
           /\ HasEvidence(StaleRisk(scan))
           /\ HasEvidence(ActivityRisk(scan))
<1> DEFINE coverage == CoverageEvidence(scan)
           all == Risk("source_coverage", "Moderate", 25, 55, coverage)
           some == Risk("source_coverage", "Moderate", 15, 65, coverage)
           stale == {e \in Bundle(scan) :
                        e.quality = "stale" \/ (scan.mode = "live" /\ e.age = "old")}
           undated == {e \in Bundle(scan) : scan.mode = "live" /\ e.age = "undated"}
<1>1. HasEvidence(DataRisk(scan))
  <2>1. \/ DataRisk(scan) = <<>>
        \/ /\ DataRisk(scan) \in {all, some}
           /\ \E f \in Fields : scan.completeness[f] # "available"
    <3>1. CriticalFields \subseteq Fields /\ "nativeBalance" \in CriticalFields
      BY DEF CriticalFields, Fields
    <3>2. IsPartial(scan) => \E f \in Fields : scan.completeness[f] # "available"
      BY DEF IsPartial, Gaps
    <3>3. QED  BY <3>1, <3>2 DEF DataRisk
  <2>2. QED  BY <2>1, GapIsEvidence, EmptyHasEvidence, RiskHasEvidence
<1>2. HasEvidence(StaleRisk(scan))
  <2>1. \/ StaleRisk(scan) = <<>>
        \/ stale # {} /\ StaleRisk(scan) = Risk("stale_data", "Moderate", 20, 60, stale)
        \/ undated # {} /\ StaleRisk(scan) = Risk("stale_data", "Moderate", 10, 60, undated)
    BY DEF StaleRisk
  <2> HIDE DEF stale, undated
  <2>2. QED  BY <2>1, EmptyHasEvidence, RiskHasEvidence
<1>3. HasEvidence(ActivityRisk(scan))
  <2>1. {"transferLogs", "transactionHistory"} \subseteq Fields
    BY DEF Fields
  <2>2. CoverageOf(scan, {"transferLogs", "transactionHistory"}) # "available"
           => \E f \in Fields : scan.completeness[f] # "available"
    BY <2>1 DEF CoverageOf
  <2>3. \/ ActivityRisk(scan) = <<>>
        \/ /\ ActivityRisk(scan) \in
                 {Risk("wallet_activity", "Moderate", 20, 60, coverage),
                  Risk("wallet_activity", "Moderate", 12, 70, coverage)}
           /\ \E f \in Fields : scan.completeness[f] # "available"
    BY <2>2 DEF ActivityRisk
  <2>4. QED  BY <2>3, GapIsEvidence, EmptyHasEvidence, RiskHasEvidence
<1>4. QED  BY <1>1, <1>2, <1>3

LEMMA BackedIsBound ==
    ASSUME NEW scan, AreBacked(scan)
    PROVE  OrphanClaims(scan) = {}
<1>1. HasEvidence(AllRisks(scan))
  BY ApprovalHasEvidence, TransferHasEvidence, BalancesHaveEvidence,
     TokenAndYieldHaveEvidence, GapsHaveEvidence, AllRisksRange DEF HasEvidence
<1>2. \A i \in DOMAIN AllRisks(scan) : AllRisks(scan)[i] \in Range(AllRisks(scan))
  BY DEF Range
<1>3. QED  BY <1>1, <1>2 DEF HasEvidence, OrphanClaims

-----------------------------------------------------------------------------
(* What the gathered data are like at each point of a scan.                *)

IsWhole(s) ==
    /\ Shaped(s)
    /\ s.completeness \in [Fields -> Coverages]
    /\ Unique(s.evidence)
    /\ \A a, b \in s.held : a.token = b.token => a = b

IsCited(s) ==
    LET ids == Ids(s.evidence)
    IN  /\ AreCounted(s.native \cup s.listed)
        /\ \A b \in s.native \cup s.listed \cup s.held : b.id \in ids
        /\ \A a \in s.approvals : a.cites \cap ids # {}
        /\ \A x \in s.transfers \cup s.tokens : x.id \in ids
        /\ s.exposure # None => s.exposure.cites \cap ids # {}

OfKind(items, kind) == {e \in items : e.id[1] = kind}

\* The rows of evidence, when tool n is the next.  A balance without a row comes
\* from a provider that failed, and then the inventory is not all there.
BalancesHaveRows(s, n) ==
    /\ n <= 1 => OfKind(s.evidence, "balance") = {}
    /\ n <= 2 => ~Available(s, "fullTokenInventory")
    /\ n <= 2 \/ Available(s, "fullTokenInventory") =>
          \A e \in OfKind(s.evidence, "balance") :
              \E b \in s.held : b.token = e.id[2][2]

ApprovalsHaveRows(s, n) ==
    /\ n <= 3 => OfKind(s.evidence, "approval") = {}
    /\ \A e \in OfKind(s.evidence, "approval") :
          \E a \in s.approvals : e.id = <<"approval", a.log.pair>>

TransfersHaveRows(s, n, cut) ==
    /\ n <= 4 => /\ OfKind(s.evidence, "transfer") = {}
                 /\ ~Available(s, "transferLogs")
    /\ \/ cut
       \/ ~Available(s, "transferLogs")
       \/ Told(s, "transfers")
       \/ \A e \in OfKind(s.evidence, "transfer") :
              \E x \in s.transfers : e.id = x.id

IsGathered(s, n, cut) ==
    /\ IsWhole(s)
    /\ IsCited(s)
    /\ BalancesHaveRows(s, n)
    /\ ApprovalsHaveRows(s, n)
    /\ TransfersHaveRows(s, n, cut)

LEMMA SomeFields ==
    /\ {"fullTokenInventory", "transferLogs"} \subseteq Fields
    /\ {"available", "partial", "unavailable"} \subseteq Coverages
BY DEF Fields, Coverages

\* A tool that adds no row and makes nothing available.
LEMMA QuietIsGathered ==
    ASSUME NEW s, NEW t, NEW n \in Nat, NEW cut, NEW after,
           IsGathered(s, n, cut), cut => after,
           Changes(s, t, {"sources", "completeness"}),
           t.completeness \in [Fields -> Coverages],
           \A f \in Fields : Available(t, f) => Available(s, f)
    PROVE  IsGathered(t, n, after) /\ IsGathered(t, n + 1, after)
<1>1. /\ Shaped(t) /\ t.evidence = s.evidence /\ t.native = s.native
      /\ t.held = s.held /\ t.listed = s.listed /\ t.approvals = s.approvals
      /\ t.transfers = s.transfers /\ t.tokens = s.tokens /\ t.exposure = s.exposure
      /\ t.pages = s.pages
  BY DEF Changes, SubjectFields
<1>2. IsWhole(t)
  BY <1>1 DEF IsGathered, IsWhole
<1>3. IsCited(t)
  BY <1>1 DEF IsGathered, IsCited
<1>4. BalancesHaveRows(t, n) /\ BalancesHaveRows(t, n + 1)
  BY <1>1, SomeFields DEF IsGathered, BalancesHaveRows
<1>5. ApprovalsHaveRows(t, n) /\ ApprovalsHaveRows(t, n + 1)
  BY <1>1 DEF IsGathered, ApprovalsHaveRows
<1>6. TransfersHaveRows(t, n, after) /\ TransfersHaveRows(t, n + 1, after)
  <2>1. Told(t, "transfers") <=> Told(s, "transfers")
    BY <1>1 DEF Told
  <2>2. QED  BY <1>1, <2>1, SomeFields DEF IsGathered, TransfersHaveRows
<1>7. QED  BY <1>2, <1>3, <1>4, <1>5, <1>6 DEF IsGathered

LEMMA SourceIsGathered ==
    ASSUME NEW s, NEW n \in Nat, NEW name, NEW status, IsGathered(s, n, FALSE),
           NEW after
    PROVE  /\ IsGathered(s, n + 1, after)
           /\ IsGathered(Source(s, name, status), n + 1, after)
<1> DEFINE t == Source(s, name, status)
<1>1. Shaped(s) /\ s.completeness \in [Fields -> Coverages]
  BY DEF IsGathered, IsWhole
<1>2. Changes(s, t, {"sources"}) /\ Changes(s, s, {"sources"})
  BY <1>1, SourceChanges, NothingChanges
<1> HIDE DEF t
<1>3. t.completeness = s.completeness
  BY <1>2 DEF Changes, SubjectFields
<1>4. /\ Changes(s, t, {"sources", "completeness"})
      /\ Changes(s, s, {"sources", "completeness"})
  BY <1>2 DEF Changes
<1>5. IsGathered(s, n + 1, after)
  BY <1>1, <1>4, QuietIsGathered
<1>6. IsGathered(t, n + 1, after)
  BY <1>1, <1>3, <1>4, QuietIsGathered DEF Available
<1>7. QED  BY <1>5, <1>6 DEF t

ThisWallet ==
    /\ AreTokens(wallet.tokens)
    /\ \A a, b \in wallet.logs : a.pair = b.pair => a = b
    /\ \A a, b \in wallet.transfers : a.id = b.id => a = b

\* The tool that has been called has left good data behind.
GatheredNext == IsGathered(subject', at', expired')

LEMMA SkipGathers ==
    ASSUME at \in Nat, IsGathered(subject, at, expired), Skip
    PROVE  GatheredNext
<1>1. PICK tool \in Range(Tools) :
         ToolEnds([subject EXCEPT
              !.completeness = [f \in Fields |->
                  IF f \in ToolFields[tool] /\ @[f] # "unavailable"
                  THEN "partial" ELSE @[f]],
              !.sources = [s \in SourceNames |->
                  IF s \in ToolSources[tool] /\ @[s] # "unavailable"
                  THEN "partial" ELSE @[s]]], TRUE)
  BY DEF Skip
<1>2. Shaped(subject) /\ subject.completeness \in [Fields -> Coverages]
  BY DEF IsGathered, IsWhole
<1>3. /\ Changes(subject, subject', {"sources", "completeness"})
      /\ subject'.completeness = [f \in Fields |->
            IF f \in ToolFields[tool] /\ subject.completeness[f] # "unavailable"
            THEN "partial" ELSE subject.completeness[f]]
      /\ at' = at + 1 /\ expired' = TRUE
  BY <1>1, <1>2 DEF ToolEnds, Changes, Shaped, SubjectFields
<1>4. subject'.completeness \in [Fields -> Coverages]
  BY <1>2, <1>3, SomeFields
<1>5. \A f \in Fields : Available(subject', f) => Available(subject, f)
  BY <1>3 DEF Available
<1>6. QED  BY <1>3, <1>4, <1>5, QuietIsGathered DEF GatheredNext

LEMMA ToolsInOrder ==
    ASSUME at \in 1 .. Len(Tools) + 1, NEW tool, Gathering(tool)
    PROVE  /\ at \in 1 .. 7
           /\ tool = "getNativeBalance" => at = 1
           /\ tool = "getKnownTokenBalances" => at = 2
           /\ tool = "getTokenApprovals" => at = 3
           /\ tool = "getTransferLogs" => at = 4
           /\ tool \in {"getTokenPrices", "getTokenSecurity", "getRwaYieldExposure"}
                 => at >= 5
<1>1. Len(Tools) = 7
  BY DEF Tools
<1>2. at \in {1, 2, 3, 4, 5, 6, 7}
  BY <1>1 DEF Gathering
<1>3. QED  BY <1>2 DEF Gathering, Tools

\* By tool n rows of balances are read, beside old ones; the coverage of some
\* fields becomes what it is, and there is new evidence.
Reads(n, s, t, by, items, old, fields, coverage, new) ==
    /\ n \in {1, 2}
    /\ Changes(s, t, {"native", "listed", "held", "completeness", "sources",
                      "evidence"})
    /\ AreRows(items, by) /\ AreCounted(items)
    /\ t.native \in {s.native, items} /\ t.listed \in {s.listed, items}
    /\ old \subseteq s.held /\ (n = 2 => old = s.held)
    /\ t.held = {b \in old : \A i \in items : i.token # b.token} \cup items
    /\ t.completeness = [f \in Fields |-> IF f \in fields THEN coverage
                                                          ELSE s.completeness[f]]
    /\ coverage \in {"available", "partial"} /\ "transferLogs" \notin fields
    /\ "fullTokenInventory" \in fields => n = 2
    /\ Adds(s, t, new)
    /\ \A b \in items : b.id \in Ids(new)
    /\ \A e \in new : e.id[1] = "balance"
    /\ \/ n = 2 /\ coverage = "partial" /\ "fullTokenInventory" \in fields
       \/ \A e \in new : \E b \in items : e.id = b.id

LEMMA ReadIsGathered ==
    ASSUME NEW n, NEW s, NEW t, NEW by, NEW items, NEW old, NEW fields, NEW coverage,
           NEW new, Reads(n, s, t, by, items, old, fields, coverage, new),
           IsGathered(s, n, FALSE), NEW after
    PROVE  IsGathered(t, n + 1, after)
<1> USE DEF Reads
<1>1. /\ Shaped(t) /\ t.approvals = s.approvals
      /\ t.transfers = s.transfers /\ t.tokens = s.tokens /\ t.exposure = s.exposure
  BY DEF Changes, SubjectFields
<1>2. Ids(s.evidence) \subseteq Ids(t.evidence) /\ Ids(new) \subseteq Ids(t.evidence)
  BY DEF Adds, Ids
<1>3. IsWhole(t)
  <2>1. t.completeness \in [Fields -> Coverages]
    BY SomeFields DEF IsGathered, IsWhole
  <2>2. \A a, b \in t.held : a.token = b.token => a = b
    BY DEF IsGathered, IsWhole, AreRows
  <2>3. QED  BY <1>1, <2>1, <2>2 DEF IsWhole, Adds
<1>4. IsCited(t)
  <2>1. AreCounted(t.native \cup t.listed)
    <3>1. t.native \cup t.listed \subseteq (s.native \cup s.listed) \cup items
      OBVIOUS
    <3>2. IsFiniteSet((s.native \cup s.listed) \cup items)
      BY FS_Union DEF IsGathered, IsCited, AreCounted
    <3>3. QED  BY <3>1, <3>2, FS_Subset DEF IsGathered, IsCited, AreCounted
  <2>2. \A b \in t.native \cup t.listed \cup t.held : b.id \in Ids(t.evidence)
    BY <1>2 DEF IsGathered, IsCited
  <2>3. QED  BY <1>1, <1>2, <2>1, <2>2 DEF IsGathered, IsCited
<1>5. /\ OfKind(t.evidence, "approval") = OfKind(s.evidence, "approval")
      /\ OfKind(t.evidence, "transfer") = OfKind(s.evidence, "transfer")
  BY DEF Adds, OfKind
<1>6. BalancesHaveRows(t, n + 1)
  <2>1. t.completeness["fullTokenInventory"] =
           IF "fullTokenInventory" \in fields THEN coverage
                                              ELSE s.completeness["fullTokenInventory"]
    BY SomeFields
  <2>2. n + 1 <= 2 => ~Available(t, "fullTokenInventory")
    BY <2>1 DEF IsGathered, BalancesHaveRows, Available
  <2>3. ASSUME n + 1 <= 2 \/ Available(t, "fullTokenInventory"),
               NEW e \in OfKind(t.evidence, "balance")
        PROVE  \E b \in t.held : b.token = e.id[2][2]
    <3>1. ~(n = 2 /\ coverage = "partial" /\ "fullTokenInventory" \in fields)
      BY <2>1, <2>3 DEF Available
    <3>2. CASE e \in new
      <4>1. PICK b \in items : e.id = b.id
        BY <3>1, <3>2
      <4>2. e.id[2][2] = b.token
        BY <4>1 DEF AreRows
      <4>3. QED  BY <4>2
    <3>3. CASE e \in s.evidence
      <4>1. e \in OfKind(s.evidence, "balance")
        BY <3>3, <2>3 DEF OfKind
      <4>2. n = 2 /\ old = s.held
        BY <4>1 DEF IsGathered, BalancesHaveRows
      <4>3. PICK b \in s.held : b.token = e.id[2][2]
        BY <4>1, <4>2 DEF IsGathered, BalancesHaveRows
      <4>4. QED  BY <4>2, <4>3
    <3>4. QED  BY <3>2, <3>3 DEF Adds, OfKind
  <2>4. QED  BY <2>2, <2>3 DEF BalancesHaveRows
<1>7. ApprovalsHaveRows(t, n + 1)
  BY <1>1, <1>5 DEF IsGathered, ApprovalsHaveRows
<1>8. TransfersHaveRows(t, n + 1, after)
  <2>1. t.completeness["transferLogs"] = s.completeness["transferLogs"]
    BY SomeFields
  <2>2. QED  BY <1>5, <2>1 DEF IsGathered, TransfersHaveRows, Available
<1>9. QED  BY <1>3, <1>4, <1>6, <1>7, <1>8 DEF IsGathered

LEMMA NativeGathers ==
    ASSUME at \in 1 .. Len(Tools) + 1, IsGathered(subject, at, FALSE),
           GetNativeBalance
    PROVE  GatheredNext
<1> DEFINE item == Balance("rpc", None, "MNT", 0)
           s == [subject EXCEPT !.native = {item}, !.held = {item}]
           c == Covered(s, {"nativeBalance"}, "available")
           t == AddEvidence(Source(c, "mantleRpc", "available"),
                            BalanceEvidence({item}))
<1>1. at = 1 /\ at' = at + 1
  <2>1. Gathering("getNativeBalance") /\ at' = at + 1
    BY DEF GetNativeBalance, InTime, ToolEnds
  <2>2. QED  BY <2>1, ToolsInOrder
<1>2. CASE subject' \in {subject, Source(subject, "mantleRpc", "partial")}
  <2>1. IsGathered(subject', at + 1, expired')
    BY <1>1, <1>2, SourceIsGathered
  <2>2. QED  BY <1>1, <2>1 DEF GatheredNext
<1>3. CASE subject' = t
  <2>1. Shaped(subject) /\ Unique(subject.evidence)
    BY DEF IsGathered, IsWhole
  <2>2. /\ Changes(subject, s, {"native", "held"})
        /\ s.native = {item} /\ s.held = {item}
    BY <2>1 DEF Changes, Shaped, SubjectFields
  <2> HIDE DEF s
  <2>3. /\ Changes(s, c, {"completeness"})
        /\ c.completeness = [f \in Fields |-> IF f \in {"nativeBalance"} THEN "available"
                                              ELSE s.completeness[f]]
    BY <2>2, CoveredChanges DEF Changes
  <2> HIDE DEF c
  <2>4. AreRows({item}, "rpc")
    BY BalanceIs DEF AreRows
  <2>5. AreCounted({item})
    <3>1. item.value = 0
      BY BalanceIs
    <3> HIDE DEF item
    <3>2. IsFiniteSet({item})
      BY FS_Singleton
    <3>3. QED  BY <3>1, <3>2 DEF AreCounted
  <2> HIDE DEF item
  <2>6. /\ Unique(BalanceEvidence({item}))
        /\ \A b \in {item} : b.id \in Ids(BalanceEvidence({item}))
        /\ \A e \in BalanceEvidence({item}) :
              e.id[1] = "balance" /\ \E b \in {item} : e.id = b.id
    BY <2>4, BalanceEvidenceIs
  <2>7. Shaped(c) /\ c.evidence = subject.evidence
    BY <2>2, <2>3 DEF Changes, SubjectFields
  <2>8. Changes(c, t, {"sources", "evidence"}) /\ Adds(c, t, BalanceEvidence({item}))
    BY <2>1, <2>6, <2>7, NotedChanges
  <2> HIDE DEF t
  <2>9. /\ Changes(subject, t, {"native", "listed", "held", "completeness",
                                "sources", "evidence"})
        /\ Adds(subject, t, BalanceEvidence({item}))
    BY <2>2, <2>3, <2>7, <2>8 DEF Changes, Adds
  <2>10. /\ t.native = {item} /\ t.listed = subject.listed
         /\ t.held = {b \in {} : \A i \in {item} : i.token # b.token} \cup {item}
         /\ t.completeness = [f \in Fields |-> IF f \in {"nativeBalance"} THEN "available"
                                               ELSE subject.completeness[f]]
    BY <2>2, <2>3, <2>8 DEF Changes, SubjectFields
  <2>12. {"nativeBalance"} \in SUBSET Fields /\ "transferLogs" \notin {"nativeBalance"}
         /\ "fullTokenInventory" \notin {"nativeBalance"}
    BY DEF Fields
  <2>13. Reads(at, subject, t, "rpc", {item}, {}, {"nativeBalance"}, "available",
               BalanceEvidence({item}))
    <3> DEFINE rows == {item}
               new == BalanceEvidence(rows)
               fields == {"nativeBalance"}
    <3>1. /\ at \in {1, 2} /\ at # 2
          /\ "fullTokenInventory" \notin fields
          /\ "transferLogs" \notin fields
      BY <1>1, <2>12
    <3>2. /\ \A b \in rows : b.id \in Ids(new)
          /\ \A e \in new : e.id[1] = "balance" /\ \E b \in rows : e.id = b.id
      BY <2>6
    <3>3. AreRows(rows, "rpc") /\ AreCounted(rows)
      BY <2>4, <2>5
    <3>4. /\ Changes(subject, t, {"native", "listed", "held", "completeness",
                                  "sources", "evidence"})
          /\ Adds(subject, t, new)
          /\ t.native = rows /\ t.listed = subject.listed
          /\ t.held = {b \in {} : \A i \in rows : i.token # b.token} \cup rows
          /\ t.completeness = [f \in Fields |-> IF f \in fields THEN "available"
                                                ELSE subject.completeness[f]]
      BY <2>9, <2>10
    <3> HIDE DEF rows, new, fields
    <3>5. Reads(at, subject, t, "rpc", rows, {}, fields, "available", new)
      BY ONLY <3>1, <3>2, <3>3, <3>4 DEF Reads
    <3>6. QED  BY <3>5 DEF rows, new, fields
  <2>14. QED  BY <1>1, <1>3, <2>13, ReadIsGathered DEF GatheredNext
<1>4. QED  BY <1>2, <1>3 DEF GetNativeBalance, ToolEnds

\* What a provider leaves that was asked before: its source, and evidence of the
\* rows that it gave.
Leaves(s, t, kind) ==
    /\ Changes(s, t, {"sources", "evidence"})
    /\ \E more : Adds(s, t, more) /\ \A e \in more : e.id[1] = kind

LEMMA NothingLeft ==
    ASSUME NEW s, Shaped(s), Unique(s.evidence), NEW kind
    PROVE  Leaves(s, s, kind)
<1>1. Adds(s, s, {})
  BY AddsNothing
<1>2. QED  BY <1>1, NothingChanges DEF Leaves

LEMMA SourceLeft ==
    ASSUME NEW s, NEW t, NEW kind, Leaves(s, t, kind), NEW name, NEW status
    PROVE  Leaves(s, Source(t, name, status), kind)
<1> DEFINE u == Source(t, name, status)
<1>1. Changes(t, u, {"sources"})
  BY SourceChanges DEF Leaves, Changes
<1>2. u.evidence = t.evidence
  BY <1>1 DEF Changes, SubjectFields
<1> HIDE DEF u
<1>3. Changes(s, u, {"sources", "evidence"})
  BY <1>1, ChangesAdd DEF Leaves
<1>4. QED  BY <1>2, <1>3 DEF Leaves, Adds, u

LEMMA EvidenceLeft ==
    ASSUME NEW s, Shaped(s), Unique(s.evidence), NEW kind, NEW more, Unique(more),
           \A e \in more : e.id[1] = kind, NEW name, NEW status
    PROVE  Leaves(s, Source(AddEvidence(s, more), name, status), kind)
<1> DEFINE t == AddEvidence(s, more)
<1>1. Changes(s, t, {"evidence"}) /\ Adds(s, t, more)
  BY AddEvidenceChanges
<1> HIDE DEF t
<1>2. Leaves(s, t, kind)
  BY <1>1 DEF Leaves, Changes
<1>3. QED  BY <1>2, SourceLeft DEF t

LEMMA MoralisLeaves ==
    ASSUME Shaped(subject), Unique(subject.evidence), ThisWallet, NEW s \in AfterMoralis
    PROVE  Leaves(subject, s, "balance")
<1>1. CASE config.moralisBalances
  <2>1. PICK read \in SUBSET Rows("moralis", wallet.tokens) :
           s = Source(AddEvidence(subject, BalanceEvidence(read)), "moralis", "partial")
    BY <1>1 DEF AfterMoralis
  <2>2. AreRows(read, "moralis")
    BY RowsAreRows, FewerRows DEF ThisWallet
  <2>3. /\ Unique(BalanceEvidence(read))
        /\ \A e \in BalanceEvidence(read) : e.id[1] = "balance"
    BY <2>2, BalanceEvidenceIs
  <2>4. QED  BY <2>1, <2>3, EvidenceLeft
<1>2. CASE ~config.moralisBalances
  BY <1>2, NothingLeft DEF AfterMoralis
<1>3. QED  BY <1>1, <1>2

LEMMA IndexerLeaves ==
    ASSUME Shaped(subject), Unique(subject.evidence), ThisWallet, NEW s \in AfterIndexer
    PROVE  Leaves(subject, s, "balance")
BY MoralisLeaves, SourceLeft DEF AfterIndexer

LEMMA LeftIsGathered ==
    ASSUME NEW n, NEW s, NEW t, NEW kind, Leaves(s, t, kind),
           IsGathered(s, n, FALSE), NEW after,
           \/ n = 2 /\ kind = "balance"
           \/ n = 4 /\ kind = "transfer"
    PROVE  IsGathered(t, n + 1, after)
<1>1. PICK more : Adds(s, t, more) /\ \A e \in more : e.id[1] = kind
  BY DEF Leaves
<1>2. /\ Shaped(t) /\ t.completeness = s.completeness /\ t.native = s.native
      /\ t.held = s.held /\ t.listed = s.listed /\ t.approvals = s.approvals
      /\ t.transfers = s.transfers /\ t.tokens = s.tokens /\ t.exposure = s.exposure
  BY DEF Leaves, Changes, SubjectFields
<1>3. Ids(s.evidence) \subseteq Ids(t.evidence)
  BY <1>1 DEF Adds, Ids
<1>4. \A other : other # kind =>
         OfKind(t.evidence, other) = OfKind(s.evidence, other)
  BY <1>1 DEF Adds, OfKind
<1>5. IsWhole(t)
  BY <1>1, <1>2 DEF IsGathered, IsWhole, Adds
<1>6. IsCited(t)
  BY <1>2, <1>3 DEF IsGathered, IsCited
<1>7. BalancesHaveRows(t, n + 1)
  BY <1>2, <1>4 DEF IsGathered, BalancesHaveRows, Available
<1>8. ApprovalsHaveRows(t, n + 1)
  BY <1>2, <1>4 DEF IsGathered, ApprovalsHaveRows
<1>9. TransfersHaveRows(t, n + 1, after)
  BY <1>2, <1>4 DEF IsGathered, TransfersHaveRows, Available
<1>10. QED  BY <1>5, <1>6, <1>7, <1>8, <1>9 DEF IsGathered

\* Pages are noted before the rows on them.
LEMMA PagingChanges ==
    ASSUME NEW s, Shaped(s), NEW kind \in Paged, NEW info
    PROVE  LET t == Paging(s, kind, info)
           IN  /\ Changes(s, t, {"pages"}) /\ t.pages[kind] = info
               /\ \A k \in Paged \ {kind} : t.pages[k] = s.pages[k]
BY DEF Changes, Paging, Shaped, SubjectFields

\* No row is read yet, and no page but the inventory's is asked for.
LEMMA PagedIsGathered ==
    ASSUME NEW s, IsGathered(s, 2, FALSE), NEW info
    PROVE  IsGathered(Paging(s, "tokens", info), 2, FALSE)
<1> DEFINE t == Paging(s, "tokens", info)
<1>1. Shaped(s) /\ "tokens" \in Paged
  BY DEF IsGathered, IsWhole, Paged
<1>2. Changes(s, t, {"pages"})
  BY <1>1, PagingChanges
<1> HIDE DEF t
<1>3. /\ Shaped(t) /\ t.evidence = s.evidence /\ t.native = s.native
      /\ t.held = s.held /\ t.listed = s.listed /\ t.approvals = s.approvals
      /\ t.transfers = s.transfers /\ t.tokens = s.tokens /\ t.exposure = s.exposure
      /\ t.completeness = s.completeness
  BY <1>2 DEF Changes, SubjectFields
<1>4. IsWhole(t)
  BY <1>3 DEF IsGathered, IsWhole
<1>5. IsCited(t)
  BY <1>3 DEF IsGathered, IsCited
<1>6. BalancesHaveRows(t, 2) /\ ApprovalsHaveRows(t, 2)
  BY <1>3 DEF IsGathered, BalancesHaveRows, ApprovalsHaveRows, Available
<1>7. TransfersHaveRows(t, 2, FALSE)
  BY <1>3 DEF IsGathered, TransfersHaveRows, Available
<1>8. QED  BY <1>4, <1>5, <1>6, <1>7 DEF IsGathered, t

\* The rows take their place, and evidence of them is added.
LEMMA HoldReads ==
    ASSUME NEW base, Shaped(base),
           NEW s, Leaves(base, s, "balance"),
           NEW by, NEW items, AreRows(items, by), AreCounted(items),
           NEW coverage \in {"available", "partial"},
           NEW new, Unique(new), \A e \in new : e.id[1] = "balance",
           \A b \in items : b.id \in Ids(new),
           \/ coverage = "partial"
           \/ s = base /\ \A e \in new : \E b \in items : e.id = b.id,
           NEW t, Changes(Covered(Hold(s, items), BalanceFields, coverage), t,
                          {"sources", "evidence"}),
           Adds(Covered(Hold(s, items), BalanceFields, coverage), t, new)
    PROVE  \E more : Reads(2, base, t, by, items, base.held, BalanceFields,
                           coverage, more)
<1> DEFINE h == Hold(s, items)
           c == Covered(h, BalanceFields, coverage)
<1>1. PICK left : /\ Adds(base, s, left)
                  /\ \A e \in left : e.id[1] = "balance"
                  /\ s = base => left = {}
  <2>1. CASE s = base
    <3>1. Unique(base.evidence)
      BY <2>1 DEF Leaves, Adds
    <3>2. Adds(base, s, {})
      BY <2>1, <3>1, AddsNothing
    <3>3. QED  BY <3>2
  <2>2. CASE s # base
    BY <2>2 DEF Leaves
  <2>3. QED  BY <2>1, <2>2
<1>2. Shaped(s)
  BY DEF Leaves, Changes
<1>3. /\ Changes(s, h, {"listed", "held"}) /\ h.listed = items
      /\ h.held = {b \in s.held : \A i \in items : i.token # b.token} \cup items
  BY <1>2, HoldChanges
<1> HIDE DEF h
<1>4. /\ Changes(h, c, {"completeness"})
      /\ c.completeness = [f \in Fields |-> IF f \in BalanceFields THEN coverage
                                            ELSE h.completeness[f]]
  BY <1>3, CoveredChanges DEF Changes
<1>5. Changes(c, t, {"sources", "evidence"}) /\ Adds(c, t, new)
  BY DEF h
<1> HIDE DEF c
<1>6. /\ Changes(base, t, {"native", "listed", "held", "completeness", "sources",
                              "evidence"})
      /\ t.native = base.native /\ t.listed = items
      /\ t.held = {b \in base.held : \A i \in items : i.token # b.token} \cup items
      /\ t.completeness = [f \in Fields |-> IF f \in BalanceFields THEN coverage
                                            ELSE base.completeness[f]]
      /\ c.evidence = s.evidence
  BY <1>3, <1>4, <1>5 DEF Leaves, Changes, SubjectFields
<1>7. Adds(base, t, left \cup new)
  <2>1. Adds(s, t, new)
    BY <1>5, <1>6 DEF Adds
  <2>2. QED  BY <1>1, <2>1, AddsOn
<1>8. \A b \in items : b.id \in Ids(left \cup new)
  BY DEF Ids
<1>9. "fullTokenInventory" \in BalanceFields /\ "transferLogs" \notin BalanceFields
  BY DEF BalanceFields
<1>10. \/ coverage = "partial"
       \/ \A e \in left \cup new : \E b \in items : e.id = b.id
  BY <1>1
<1>11. \A e \in left \cup new : e.id[1] = "balance"
  BY <1>1
<1>12. Reads(2, base, t, by, items, base.held, BalanceFields, coverage,
             left \cup new)
  BY ONLY <1>6, <1>7, <1>8, <1>9, <1>10, <1>11, AreRows(items, by), AreCounted(items),
     coverage \in {"available", "partial"} DEF Reads
<1>13. QED  BY <1>12

LEMMA HoldGathers ==
    ASSUME NEW base, IsGathered(base, 2, FALSE), at = 2, at' = at + 1,
           NEW s, Leaves(base, s, "balance"),
           NEW by, NEW items, AreRows(items, by), AreCounted(items),
           NEW coverage \in {"available", "partial"},
           NEW new, Unique(new), \A e \in new : e.id[1] = "balance",
           \A b \in items : b.id \in Ids(new),
           \/ coverage = "partial"
           \/ s = base /\ \A e \in new : \E b \in items : e.id = b.id,
           LET c == Covered(Hold(s, items), BalanceFields, coverage)
           IN  \/ subject' = AddEvidence(c, new)
               \/ \E name, status : subject' = AddEvidence(Source(c, name, status), new)
    PROVE  GatheredNext
<1> DEFINE c == Covered(Hold(s, items), BalanceFields, coverage)
<1>1. Shaped(s) /\ Unique(s.evidence) /\ Shaped(base)
  BY DEF IsGathered, IsWhole, Leaves, Changes, Adds
<1>2. Shaped(c) /\ c.evidence = s.evidence
  <2> DEFINE h == Hold(s, items)
  <2>1. Changes(s, h, {"listed", "held"})
    BY <1>1, HoldChanges
  <2> HIDE DEF h
  <2>2. Shaped(h)
    BY <2>1 DEF Changes
  <2>3. Changes(h, Covered(h, BalanceFields, coverage), {"completeness"})
    BY <2>2, CoveredChanges
  <2>4. QED  BY <2>1, <2>3 DEF Changes, SubjectFields, h
<1>3. subject' = AddEvidence(c, new)
         \/ \E name, status : subject' = AddEvidence(Source(c, name, status), new)
  OBVIOUS
<1> HIDE DEF c
<1>4. Changes(c, subject', {"sources", "evidence"}) /\ Adds(c, subject', new)
  <2>1. CASE subject' = AddEvidence(c, new)
    BY <1>1, <1>2, <2>1, AddEvidenceChanges DEF Changes
  <2>2. CASE \E name, status : subject' = AddEvidence(Source(c, name, status), new)
    <3>1. PICK name, status : subject' = AddEvidence(Source(c, name, status), new)
      BY <2>2
    <3>2. QED  BY <1>1, <1>2, <3>1, NotedChanges
  <2>3. QED  BY <1>3, <2>1, <2>2
<1>5. PICK more : Reads(2, base, subject', by, items, base.held, BalanceFields,
                        coverage, more)
  BY <1>1, <1>4, HoldReads DEF c
<1>6. QED  BY <1>5, ReadIsGathered DEF GatheredNext

LEMMA BalancesGather ==
    ASSUME at \in 1 .. Len(Tools) + 1, IsGathered(subject, at, FALSE), ThisWallet,
           \/ BalancesFromMoralis \/ BalancesFromTransfers
           \/ BalancesFromAllowlist \/ BalancesUnavailable
    PROVE  GatheredNext
<1>1. at = 2 /\ at' = at + 1
  <2>1. Gathering("getKnownTokenBalances") /\ at' = at + 1
    BY DEF BalancesFromMoralis, BalancesFromTransfers, BalancesFromAllowlist,
       BalancesUnavailable, InTime, ToolEnds
  <2>2. QED  BY <2>1, ToolsInOrder
<1>2. Shaped(subject) /\ Unique(subject.evidence)
  BY DEF IsGathered, IsWhole
<1>3. IsGathered(subject, 2, FALSE)
  BY <1>1
<1>4. CASE BalancesFromMoralis
  <2>1. PICK page \in Paginated(wallet.tokens, 1) :
           LET items == Rows("moralis", page.rows)
               s == Paging(subject, "tokens", [hasMore |-> FALSE, last |-> page.last])
           IN  subject' = AddEvidence(
                   Source(Covered(Hold(s, items), BalanceFields, "available"),
                          "moralis", "available"), BalanceEvidence(items))
    BY <1>4 DEF BalancesFromMoralis, ToolEnds
  <2> DEFINE items == Rows("moralis", page.rows)
             base == Paging(subject, "tokens", [hasMore |-> FALSE, last |-> page.last])
  <2>2. subject' = AddEvidence(
               Source(Covered(Hold(base, items), BalanceFields, "available"),
                      "moralis", "available"), BalanceEvidence(items))
    BY <2>1
  <2>3. AreRows(items, "moralis") /\ AreCounted(items)
    <3>1. page.rows \subseteq wallet.tokens
      BY PageIsAll
    <3>2. AreTokens(page.rows)
      BY <3>1, FewerTokens DEF ThisWallet
    <3>3. QED  BY <3>2, RowsAreRows
  <2>4. IsGathered(base, 2, FALSE)
    BY <1>3, PagedIsGathered
  <2> HIDE DEF items, base
  <2>5. Leaves(base, base, "balance")
    BY <2>4, NothingLeft DEF IsGathered, IsWhole
  <2> DEFINE new == BalanceEvidence(items)
  <2>6. /\ Unique(new) /\ \A e \in new : e.id[1] = "balance"
        /\ \A b \in items : b.id \in Ids(new)
        /\ \A e \in new : \E b \in items : e.id = b.id
    BY <2>3, BalanceEvidenceIs
  <2>7. subject' = AddEvidence(
               Source(Covered(Hold(base, items), BalanceFields, "available"),
                      "moralis", "available"), new)
    BY <2>2
  <2> HIDE DEF new
  <2>8. QED  BY <1>1, <2>3, <2>4, <2>5, <2>6, <2>7, HoldGathers
<1>5. CASE BalancesFromTransfers
  <2>0. PICK s \in AfterMoralis, candidates \in SUBSET {t.token : t \in wallet.transfers} :
           \E asked \in SUBSET candidates : \E answered \in SUBSET asked :
             LET items == {Balance("transfers", t.token, t.symbol, 0) :
                              t \in {t \in wallet.tokens : t.token \in answered}}
                 missing == {Evidence("balance", <<"error", t>>, "missing", "recent") :
                                t \in asked \ answered}
                 cut == asked # candidates
                 read == IF cut THEN Source(s, "mantleRpc", "partial") ELSE s
             IN  ToolEnds(AddEvidence(
                     Source(Covered(Hold(read, items), BalanceFields, "partial"),
                            "etherscanV2", "available"),
                     BalanceEvidence(items) \cup missing), cut)
    BY <1>5 DEF BalancesFromTransfers
  <2>1. PICK asked \in SUBSET candidates : \E answered \in SUBSET asked :
             LET items == {Balance("transfers", t.token, t.symbol, 0) :
                              t \in {t \in wallet.tokens : t.token \in answered}}
                 missing == {Evidence("balance", <<"error", t>>, "missing", "recent") :
                                t \in asked \ answered}
                 cut == asked # candidates
                 read == IF cut THEN Source(s, "mantleRpc", "partial") ELSE s
             IN  ToolEnds(AddEvidence(
                     Source(Covered(Hold(read, items), BalanceFields, "partial"),
                            "etherscanV2", "available"),
                     BalanceEvidence(items) \cup missing), cut)
    BY <2>0
  <2>2. PICK answered \in SUBSET asked :
             LET items == {Balance("transfers", t.token, t.symbol, 0) :
                              t \in {t \in wallet.tokens : t.token \in answered}}
                 missing == {Evidence("balance", <<"error", t>>, "missing", "recent") :
                                t \in asked \ answered}
                 cut == asked # candidates
                 read == IF cut THEN Source(s, "mantleRpc", "partial") ELSE s
             IN  ToolEnds(AddEvidence(
                     Source(Covered(Hold(read, items), BalanceFields, "partial"),
                            "etherscanV2", "available"),
                     BalanceEvidence(items) \cup missing), cut)
    BY <2>1
  <2> DEFINE found == {t \in wallet.tokens : t.token \in answered}
             items == {Balance("transfers", t.token, t.symbol, 0) : t \in found}
             missing == {Evidence("balance", <<"error", t>>, "missing", "recent") :
                            t \in asked \ answered}
             read == IF asked # candidates THEN Source(s, "mantleRpc", "partial") ELSE s
             new == BalanceEvidence(items) \cup missing
  <2>3. Leaves(subject, read, "balance")
    BY <1>2, MoralisLeaves, SourceLeft
  <2>4. AreRows(items, "transfers") /\ AreCounted(items)
    <3> DEFINE f == [t \in found |-> Balance("transfers", t.token, t.symbol, 0)]
    <3>1. AreTokens(found)
      BY FewerTokens DEF ThisWallet
    <3>2. f \in Surjection(found, items)
      BY DEF Surjection
    <3>3. IsFiniteSet(items)
      BY <3>1, <3>2, FS_Surjection DEF AreTokens
    <3>4. \A b \in items : \E t \in found :
             /\ b = Balance("transfers", t.token, t.symbol, 0)
             /\ b.token = t.token /\ b.value = 0
             /\ b.id = <<"balance", <<"transfers", b.token>>>>
      BY BalanceIs
    <3> HIDE DEF found, items
    <3>5. \A a, b \in items : a.token = b.token => a = b
      BY <3>1, <3>4 DEF AreTokens
    <3>6. QED  BY <3>3, <3>4, <3>5 DEF AreRows, AreCounted
  <2> HIDE DEF items
  <2>5. Unique(new) /\ \A e \in new : e.id[1] = "balance"
    <3>1. Unique(missing) /\ \A e \in missing :
             e.id[1] = "balance" /\ e.id[2][1] = "error"
      BY MissingIs
    <3>2. /\ Unique(BalanceEvidence(items))
          /\ \A e \in BalanceEvidence(items) :
                e.id[1] = "balance" /\ e.id[2][1] = "transfers"
      <4>1. \A b \in items : b.id[2][1] = "transfers"
        BY <2>4 DEF AreRows
      <4>2. QED  BY <2>4, <4>1, BalanceEvidenceIs
    <3> HIDE DEF missing
    <3>3. QED  BY <3>1, <3>2 DEF Unique
  <2>6. \A b \in items : b.id \in Ids(new)
    BY <2>4, BalanceEvidenceIs DEF Ids
  <2>7. subject' = AddEvidence(
               Source(Covered(Hold(read, items), BalanceFields, "partial"),
                      "etherscanV2", "available"), new)
    BY <2>2 DEF items, ToolEnds
  <2> HIDE DEF read, new
  <2>8. QED
    BY <1>1, <1>3, <2>3, <2>4, <2>5, <2>6, <2>7, HoldGathers
<1>6. CASE BalancesFromAllowlist
  <2> DEFINE known == {t \in wallet.tokens : t.known}
  <2>1. PICK s \in AfterIndexer, answered \in SUBSET known, cut \in BOOLEAN :
           LET items == Rows("allowlist", answered)
               read == IF cut THEN Source(s, "mantleRpc", "partial") ELSE s
           IN  ToolEnds(AddEvidence(
                     Covered(Hold(read, items), BalanceFields, "partial"),
                     BalanceEvidence(items)), cut)
    BY <1>6 DEF BalancesFromAllowlist
  <2> DEFINE items == Rows("allowlist", answered)
             read == IF cut THEN Source(s, "mantleRpc", "partial") ELSE s
  <2>2. Leaves(subject, read, "balance")
    BY <1>2, IndexerLeaves, SourceLeft
  <2>3. AreRows(items, "allowlist") /\ AreCounted(items)
    <3>1. answered \subseteq wallet.tokens
      OBVIOUS
    <3>2. AreTokens(answered)
      BY <3>1, FewerTokens DEF ThisWallet
    <3>3. QED  BY <3>2, RowsAreRows
  <2>4. subject' = AddEvidence(Covered(Hold(read, items), BalanceFields, "partial"),
                               BalanceEvidence(items))
    BY <2>1 DEF ToolEnds
  <2> HIDE DEF items, read
  <2> DEFINE new == BalanceEvidence(items)
  <2>5. /\ Unique(new) /\ \A e \in new : e.id[1] = "balance"
        /\ \A b \in items : b.id \in Ids(new)
    BY <2>3, BalanceEvidenceIs
  <2>6. subject' = AddEvidence(Covered(Hold(read, items), BalanceFields, "partial"), new)
    BY <2>4
  <2> HIDE DEF new
  <2>7. QED  BY <1>1, <1>3, <2>2, <2>3, <2>5, <2>6, HoldGathers
<1>7. CASE BalancesUnavailable
  <2>1. subject' \in AfterIndexer
    BY <1>7 DEF BalancesUnavailable, ToolEnds
  <2>2. Leaves(subject, subject', "balance")
    BY <1>2, <2>1, IndexerLeaves
  <2>3. QED  BY <1>1, <1>3, <2>2, LeftIsGathered DEF GatheredNext
<1>8. QED  BY <1>4, <1>5, <1>6, <1>7

-----------------------------------------------------------------------------
(* Approvals, transfers and security.                                      *)

\* Tool n finds rows of one kind: it sets their field, the coverage of fields
\* that are its own, and adds evidence of that kind.
Finds(n, s, t, kind, field, new) ==
    /\ n \in Nat /\ n >= 3
    /\ <<kind, field>> \in {<<"approval", "approvals">>, <<"transfer", "transfers">>,
                            <<"security", "tokens">>}
    /\ kind = "approval" => n = 3
    /\ kind = "transfer" => n = 4
    /\ Changes(s, t, {field, "pages", "completeness", "sources", "evidence"})
    /\ kind # "transfer" => t.pages["transfers"] = s.pages["transfers"]
    /\ t.completeness \in [Fields -> Coverages]
    /\ t.completeness["fullTokenInventory"] = s.completeness["fullTokenInventory"]
    /\ kind # "transfer" => t.completeness["transferLogs"] = s.completeness["transferLogs"]
    /\ Adds(s, t, new)
    /\ \A e \in new : e.id[1] = kind

\* The rows that were found cite evidence, and evidence of them has its row.
RowsOf(t, kind, new, cut) ==
    /\ kind = "approval" =>
          /\ \A a \in t.approvals : a.cites \cap Ids(t.evidence) # {}
          /\ \A e \in new : \E a \in t.approvals : e.id = <<"approval", a.log.pair>>
    /\ kind = "transfer" =>
          /\ \A x \in t.transfers : x.id \in Ids(t.evidence)
          /\ \/ cut \/ Told(t, "transfers")
             \/ \A e \in new : \E x \in t.transfers : e.id = x.id
    /\ kind = "security" => \A x \in t.tokens : x.id \in Ids(t.evidence)

LEMMA FoundIsGathered ==
    ASSUME NEW n, NEW s, NEW t, NEW kind, NEW field, NEW new, NEW after,
           Finds(n, s, t, kind, field, new), IsGathered(s, n, FALSE),
           RowsOf(t, kind, new, after)
    PROVE  IsGathered(t, n + 1, after)
<1>1. /\ Shaped(t) /\ t.held = s.held /\ t.native = s.native /\ t.listed = s.listed
      /\ t.exposure = s.exposure
      /\ kind # "approval" => t.approvals = s.approvals
      /\ kind # "transfer" => t.transfers = s.transfers
      /\ kind # "security" => t.tokens = s.tokens
  BY DEF Finds, Changes, SubjectFields
<1>2. Ids(s.evidence) \subseteq Ids(t.evidence)
  BY DEF Finds, Adds, Ids
<1>3. \A other : other # kind =>
         OfKind(t.evidence, other) = OfKind(s.evidence, other)
  BY DEF Finds, Adds, OfKind
<1>4. kind \in {"approval", "transfer", "security"} /\ n \in Nat /\ n >= 3
  BY DEF Finds
<1>5. IsWhole(t)
  BY <1>1 DEF IsGathered, IsWhole, Finds, Adds
<1>6. IsCited(t)
  BY <1>1, <1>2, <1>4 DEF IsGathered, IsCited, RowsOf
<1>7. BalancesHaveRows(t, n + 1)
  BY <1>1, <1>3, <1>4 DEF IsGathered, BalancesHaveRows, Available, Finds
<1>8. ApprovalsHaveRows(t, n + 1)
  <2>1. CASE kind = "approval"
    <3>1. n = 3 /\ OfKind(s.evidence, "approval") = {}
      BY <2>1 DEF Finds, IsGathered, ApprovalsHaveRows
    <3>2. \A e \in OfKind(t.evidence, "approval") : e \in new
      BY <3>1 DEF OfKind, Finds, Adds
    <3>3. QED  BY <2>1, <3>1, <3>2 DEF ApprovalsHaveRows, RowsOf
  <2>2. CASE kind # "approval"
    BY <1>1, <1>3, <1>4, <2>2 DEF IsGathered, ApprovalsHaveRows
  <2>3. QED  BY <2>1, <2>2
<1>9. TransfersHaveRows(t, n + 1, after)
  <2>1. CASE kind = "transfer"
    <3>1. n = 4 /\ OfKind(s.evidence, "transfer") = {}
      BY <2>1 DEF Finds, IsGathered, TransfersHaveRows
    <3>2. \A e \in OfKind(t.evidence, "transfer") : e \in new
      BY <3>1 DEF OfKind, Finds, Adds
    <3>3. QED  BY <2>1, <3>1, <3>2 DEF TransfersHaveRows, RowsOf
  <2>2. CASE kind # "transfer"
    <3>1. Told(t, "transfers") <=> Told(s, "transfers")
      BY <2>2 DEF Finds, Told
    <3>2. QED
      BY <1>1, <1>3, <1>4, <2>2, <3>1 DEF IsGathered, TransfersHaveRows, Available, Finds
  <2>3. QED  BY <2>1, <2>2
<1>10. QED  BY <1>5, <1>6, <1>7, <1>8, <1>9 DEF IsGathered

\* Evidence of the approvals of some logs.
AreOfLogs(new, logs) ==
    /\ Unique(new)
    /\ \A e \in new : /\ e.id[1] = "approval"
                      /\ \E log \in logs : e.id = <<"approval", log.pair>>
    /\ \A log \in logs : <<"approval", log.pair>> \in Ids(new)

LEMMA ApprovalEvidenceIs ==
    ASSUME NEW logs, \A a, b \in logs : a.pair = b.pair => a = b, NEW confirmed
    PROVE  AreOfLogs({ApprovalEvidence(log, log \in confirmed) : log \in logs}, logs)
<1> DEFINE of(log) == ApprovalEvidence(log, log \in confirmed)
           new == {of(log) : log \in logs}
<1>1. \A log \in logs : of(log).id = <<"approval", log.pair>>
  BY EvidenceIs DEF ApprovalEvidence
<1> HIDE DEF of
<1>2. ASSUME NEW e \in new
      PROVE  e.id[1] = "approval" /\ \E log \in logs : e.id = <<"approval", log.pair>>
  <2>1. PICK log \in logs : e = of(log)
    OBVIOUS
  <2>2. QED  BY <1>1, <2>1
<1>3. \A log \in logs : <<"approval", log.pair>> \in Ids(new)
  BY <1>1 DEF Ids
<1>4. Unique(new)
  <2>1. SUFFICES ASSUME NEW a \in logs, NEW b \in logs, of(a).id = of(b).id
                 PROVE  of(a) = of(b)
    BY DEF Unique
  <2>2. a.pair = b.pair
    BY <1>1, <2>1
  <2>3. QED  BY <2>2
<1>5. QED  BY <1>2, <1>3, <1>4 DEF AreOfLogs, of

LEMMA ApprovalsGather ==
    ASSUME at \in 1 .. Len(Tools) + 1, IsGathered(subject, at, FALSE), ThisWallet,
           GetTokenApprovals \/ ApprovalsUnavailable
    PROVE  GatheredNext
<1>1. at = 3 /\ at' = at + 1
  <2>1. Gathering("getTokenApprovals") /\ at' = at + 1
    BY DEF GetTokenApprovals, ApprovalsUnavailable, InTime, ToolEnds
  <2>2. QED  BY <2>1, ToolsInOrder
<1>2. Shaped(subject) /\ Unique(subject.evidence)
      /\ subject.completeness \in [Fields -> Coverages]
  BY DEF IsGathered, IsWhole
<1>3. IsGathered(subject, 3, FALSE)
  BY <1>1
<1>4. CASE GetTokenApprovals
  <2>0. PICK page \in Paginated(wallet.logs, MaxPages) :
           \E confirmed \in (IF config.rpc THEN SUBSET page.rows ELSE {{}}) :
              \E active \in ActiveOf(page.rows, confirmed) :
                 subject' = ApprovalsOf(page, confirmed, active)
    BY <1>4, ApprovalsStep
  <2>1. PICK confirmed \in (IF config.rpc THEN SUBSET page.rows ELSE {{}}) :
           \E active \in ActiveOf(page.rows, confirmed) :
              subject' = ApprovalsOf(page, confirmed, active)
    BY <2>0
  <2>2. PICK active \in ActiveOf(page.rows, confirmed) :
           subject' = ApprovalsOf(page, confirmed, active)
    BY <2>1
  <2>3. active \in {"available", "partial", "unavailable"}
    BY DEF ActiveOf
  <2> DEFINE logs == page.rows
             approvals == {ApprovalOf(log, log \in confirmed) : log \in logs}
             new == {ApprovalEvidence(log, log \in confirmed) : log \in logs}
             r == Paging(subject, "approvals", PageInfo(page, MaxPages))
             s == [r EXCEPT !.approvals = approvals]
             c == Covered(s, {"approvalEvents"}, "available")
             d == Covered(c, {"activeAllowanceConfirmation"}, active)
  <2>4. /\ \A a \in approvals : \E log \in logs :
              a.log = log /\ <<"approval", log.pair>> \in a.cites
        /\ \A log \in logs : \E a \in approvals : a.log = log
    <3>1. \A log \in logs :
             /\ ApprovalOf(log, log \in confirmed).log = log
             /\ <<"approval", log.pair>> \in ApprovalOf(log, log \in confirmed).cites
      BY DEF ApprovalOf
    <3> DEFINE of(log) == ApprovalOf(log, log \in confirmed)
    <3>2. /\ approvals = {of(log) : log \in logs}
          /\ \A log \in logs :
                of(log).log = log /\ <<"approval", log.pair>> \in of(log).cites
      BY <3>1
    <3> HIDE DEF of, approvals
    <3>3. QED  BY <3>2
  <2>5. AreOfLogs(new, logs)
    <3>1. \A a, b \in logs : a.pair = b.pair => a = b
      BY PageIsAll DEF ThisWallet
    <3>2. QED  BY <3>1, ApprovalEvidenceIs, Zenon
  <2> HIDE DEF approvals, new, logs
  <2>6. /\ Changes(subject, s, {"approvals", "pages"}) /\ s.approvals = approvals
        /\ s.pages["transfers"] = subject.pages["transfers"]
    <3>1. "approvals" \in Paged /\ "transfers" \in Paged \ {"approvals"}
      BY DEF Paged
    <3>2. /\ Changes(subject, r, {"pages"})
          /\ r.pages["transfers"] = subject.pages["transfers"]
      BY <1>2, <3>1, PagingChanges
    <3> HIDE DEF r
    <3>3. Changes(r, s, {"approvals"}) /\ s.approvals = approvals
      BY <3>2 DEF Changes, Shaped, SubjectFields
    <3> HIDE DEF s
    <3>4. QED  BY <3>2, <3>3 DEF Changes, SubjectFields
  <2> HIDE DEF s
  <2>7. /\ Changes(s, c, {"completeness"})
        /\ c.completeness = [f \in Fields |-> IF f \in {"approvalEvents"} THEN "available"
                                              ELSE s.completeness[f]]
    BY <2>6, CoveredChanges DEF Changes
  <2> HIDE DEF c
  <2>8. /\ Changes(c, d, {"completeness"})
        /\ d.completeness = [f \in Fields |-> IF f \in {"activeAllowanceConfirmation"}
                                              THEN active ELSE c.completeness[f]]
    BY <2>7, CoveredChanges DEF Changes
  <2> HIDE DEF d
  <2>9. Unique(d.evidence) /\ Shaped(d) /\ d.evidence = subject.evidence
    BY <1>2, <2>6, <2>7, <2>8 DEF Changes, SubjectFields
  <2>10. Changes(d, subject', {"sources", "evidence"}) /\ Adds(d, subject', new)
    <3>1. subject' = AddEvidence(Source(d, "etherscanV2", "available"), new)
      BY <2>2 DEF ApprovalsOf, d, c, s, r, approvals, new, logs
    <3>2. QED  BY <2>5, <2>9, <3>1, NotedChanges DEF AreOfLogs
  <2>11. /\ Changes(subject, subject',
                   {"approvals", "pages", "completeness", "sources", "evidence"})
         /\ subject'.pages["transfers"] = subject.pages["transfers"]
         /\ subject'.approvals = approvals
         /\ subject'.completeness = d.completeness /\ Adds(subject, subject', new)
    BY <2>6, <2>7, <2>8, <2>9, <2>10 DEF Changes, SubjectFields, Adds
  <2>12. /\ d.completeness \in [Fields -> Coverages]
         /\ d.completeness["fullTokenInventory"] = subject.completeness["fullTokenInventory"]
         /\ d.completeness["transferLogs"] = subject.completeness["transferLogs"]
    <3>1. s.completeness = subject.completeness
      BY <2>6 DEF Changes, SubjectFields
    <3>2. QED  BY <1>2, <2>3, <2>7, <2>8, <3>1, SomeFields
  <2>13. Finds(3, subject, subject', "approval", "approvals", new)
    BY <2>5, <2>11, <2>12 DEF Finds, AreOfLogs
  <2>14. RowsOf(subject', "approval", new, expired')
    <3>1. Ids(new) \subseteq Ids(subject'.evidence)
      BY <2>11 DEF Adds
    <3>2. ASSUME NEW a \in subject'.approvals
          PROVE  a.cites \cap Ids(subject'.evidence) # {}
      <4>1. PICK log \in logs : <<"approval", log.pair>> \in a.cites
        BY <2>4, <2>11
      <4>2. <<"approval", log.pair>> \in Ids(subject'.evidence)
        BY <2>5, <3>1 DEF AreOfLogs
      <4>3. QED  BY <4>1, <4>2
    <3>3. ASSUME NEW e \in new
          PROVE  \E a \in subject'.approvals : e.id = <<"approval", a.log.pair>>
      BY <2>4, <2>5, <2>11 DEF AreOfLogs
    <3>4. QED  BY <3>2, <3>3 DEF RowsOf
  <2>15. QED  BY <1>1, <1>3, <2>13, <2>14, FoundIsGathered DEF GatheredNext
<1>5. CASE ApprovalsUnavailable
  <2>1. subject' \in {subject, Source(subject, "etherscanV2", "partial")}
    BY <1>5 DEF ApprovalsUnavailable, ToolEnds
  <2>2. QED  BY <1>1, <1>3, <2>1, SourceIsGathered DEF GatheredNext
<1>6. QED  BY <1>4, <1>5

\* Evidence of some transfers.
AreOfTransfers(new, transfers) ==
    /\ Unique(new)
    /\ \A e \in new : /\ e.id[1] = "transfer"
                      /\ \E t \in transfers : e.id = <<"transfer", t.id>>
    /\ \A t \in transfers : <<"transfer", t.id>> \in Ids(new)

LEMMA TransferEvidenceIs ==
    ASSUME NEW transfers, \A a, b \in transfers : a.id = b.id => a = b
    PROVE  AreOfTransfers(TransferEvidence(transfers), transfers)
<1> DEFINE of(t) == Evidence("transfer", t.id, "fresh", t.age)
           new == {of(t) : t \in transfers}
<1>1. \A t \in transfers : of(t).id = <<"transfer", t.id>>
  BY EvidenceIs
<1> HIDE DEF of
<1>2. ASSUME NEW e \in new
      PROVE  e.id[1] = "transfer" /\ \E t \in transfers : e.id = <<"transfer", t.id>>
  <2>1. PICK t \in transfers : e = of(t)
    OBVIOUS
  <2>2. QED  BY <1>1, <2>1
<1>3. \A t \in transfers : <<"transfer", t.id>> \in Ids(new)
  BY <1>1 DEF Ids
<1>4. Unique(new)
  <2>1. SUFFICES ASSUME NEW a \in transfers, NEW b \in transfers, of(a).id = of(b).id
                 PROVE  of(a) = of(b)
    BY DEF Unique
  <2>2. a.id = b.id
    BY <1>1, <2>1
  <2>3. QED  BY <2>2
<1>5. new = TransferEvidence(transfers)
  BY DEF of, TransferEvidence
<1>6. QED  BY <1>2, <1>3, <1>4, <1>5 DEF AreOfTransfers

LEMMA TransferRowsAre ==
    ASSUME NEW transfers, NEW judged
    PROVE  /\ \A x \in TransferRows(transfers, judged) :
                 \E t \in transfers : x.id = <<"transfer", t.id>>
           /\ \A t \in transfers :
                 \E x \in TransferRows(transfers, judged) : x.id = <<"transfer", t.id>>
<1> DEFINE of(t) == [id |-> <<"transfer", t.id>>, status |-> "available",
                     kind |-> IF judged THEN t.kind ELSE "token_transfer"]
<1>1. TransferRows(transfers, judged) = {of(t) : t \in transfers}
  BY DEF TransferRows
<1>2. \A t \in transfers : of(t).id = <<"transfer", t.id>>
  OBVIOUS
<1> HIDE DEF of
<1>3. QED  BY <1>1, <1>2

\* What a provider of the history leaves that did not answer in full; all of it is
\* of transfers of the wallet.
HistoryLeft(s) ==
    /\ Leaves(subject, s, "transfer")
    /\ \E left : /\ Adds(subject, s, left)
                 /\ \A e \in left : /\ e.id[1] = "transfer"
                                    /\ \E t \in wallet.transfers : e.id = <<"transfer", t.id>>

LEMMA HistoryLeaves ==
    ASSUME Shaped(subject), Unique(subject.evidence), ThisWallet, NEW s \in AfterHistory
    PROVE  HistoryLeft(s)
<1>1. CASE config.moralisHistory
  <2>1. PICK read \in SUBSET wallet.transfers :
           s = Source(AddEvidence(subject, TransferEvidence(read)), "moralis", "partial")
    BY <1>1 DEF AfterHistory
  <2> DEFINE new == TransferEvidence(read)
             t == AddEvidence(subject, new)
  <2>2. AreOfTransfers(new, read)
    BY TransferEvidenceIs DEF ThisWallet
  <2> HIDE DEF new
  <2>3. Leaves(subject, s, "transfer")
    BY <2>1, <2>2, EvidenceLeft DEF AreOfTransfers, new
  <2>4. Changes(subject, t, {"evidence"}) /\ Adds(subject, t, new)
    BY <2>2, AddEvidenceChanges DEF AreOfTransfers
  <2> HIDE DEF t
  <2>5. Changes(t, s, {"sources"})
    BY <2>1, <2>4, SourceChanges DEF Changes, t, new
  <2>6. Adds(subject, s, new)
    BY <2>4, <2>5 DEF Adds, Changes, SubjectFields
  <2>7. QED  BY <2>2, <2>3, <2>6 DEF HistoryLeft, AreOfTransfers
<1>2. CASE ~config.moralisHistory
  <2>1. s = subject
    BY <1>2 DEF AfterHistory
  <2>2. Adds(subject, s, {})
    BY <2>1, AddsNothing
  <2>3. QED  BY <2>1, <2>2, NothingLeft DEF HistoryLeft
<1>3. QED  BY <1>1, <1>2

\* Some transfers of the wallet are read, after what another provider has left.
LEMMA TransfersFound ==
    ASSUME IsGathered(subject, 4, FALSE), ThisWallet, at = 4, at' = at + 1,
           NEW s, HistoryLeft(s),
           NEW read \in SUBSET wallet.transfers, NEW judged, NEW coverage \in Coverages,
           NEW name, NEW info,
           \/ expired' \/ info.hasMore \/ info.last = "empty"
           \/ read = wallet.transfers,
           subject' = AddEvidence(
               Source(Covered(Covered(
                   [Paging(s, "transfers", info) EXCEPT !.transfers = TransferRows(read, judged)],
                   {"transferLogs"}, coverage),
                   {"transactionHistory"}, "partial"), name, "available"),
               TransferEvidence(read))
    PROVE  GatheredNext
<1> DEFINE rows == TransferRows(read, judged)
           new == TransferEvidence(read)
           p == Paging(s, "transfers", info)
           r == [p EXCEPT !.transfers = rows]
           c == Covered(r, {"transferLogs"}, coverage)
           d == Covered(c, {"transactionHistory"}, "partial")
<1>1. subject' = AddEvidence(Source(d, name, "available"), new)
  OBVIOUS
<1>2. /\ \A x \in rows : \E t \in read : x.id = <<"transfer", t.id>>
      /\ \A t \in read : \E x \in rows : x.id = <<"transfer", t.id>>
  BY TransferRowsAre
<1>3. AreOfTransfers(new, read)
  BY TransferEvidenceIs DEF ThisWallet
<1> HIDE DEF rows, new
<1>4. PICK left : /\ Adds(subject, s, left)
                  /\ \A e \in left :
                        /\ e.id[1] = "transfer"
                        /\ \E t \in wallet.transfers : e.id = <<"transfer", t.id>>
  BY DEF HistoryLeft
<1>5. Shaped(s) /\ Changes(subject, s, {"sources", "evidence"})
  BY DEF HistoryLeft, Leaves, Changes
<1>6. /\ Changes(s, r, {"transfers", "pages"}) /\ r.transfers = rows
      /\ r.pages["transfers"] = info
  <2>1. Changes(s, p, {"pages"}) /\ p.pages["transfers"] = info
    BY <1>5, PagingChanges DEF Paged
  <2> HIDE DEF p
  <2>2. Changes(p, r, {"transfers"}) /\ r.transfers = rows
    BY <2>1 DEF Changes, Shaped, SubjectFields
  <2> HIDE DEF r
  <2>3. QED  BY <2>1, <2>2 DEF Changes, SubjectFields
<1> HIDE DEF r
<1>7. /\ Changes(r, c, {"completeness"})
      /\ c.completeness = [f \in Fields |-> IF f \in {"transferLogs"} THEN coverage
                                            ELSE r.completeness[f]]
  BY <1>6, CoveredChanges DEF Changes
<1> HIDE DEF c
<1>8. /\ Changes(c, d, {"completeness"})
      /\ d.completeness = [f \in Fields |-> IF f \in {"transactionHistory"} THEN "partial"
                                            ELSE c.completeness[f]]
  BY <1>7, CoveredChanges DEF Changes
<1> HIDE DEF d
<1>9. Shaped(d) /\ d.evidence = s.evidence
  BY <1>6, <1>7, <1>8 DEF Changes, SubjectFields
<1>10. Changes(d, subject', {"sources", "evidence"}) /\ Adds(d, subject', new)
  BY <1>1, <1>3, <1>4, <1>9, NotedChanges DEF AreOfTransfers, Adds
<1>11. Adds(subject, subject', left \cup new)
  <2>1. Adds(s, subject', new)
    BY <1>9, <1>10 DEF Adds
  <2>2. QED  BY <1>4, <2>1, AddsOn
<1>12. /\ Changes(subject, subject',
                  {"transfers", "pages", "completeness", "sources", "evidence"})
       /\ subject'.transfers = rows /\ subject'.pages["transfers"] = info
       /\ subject'.completeness = d.completeness
       /\ r.completeness = subject.completeness
  BY <1>5, <1>6, <1>7, <1>8, <1>10 DEF Changes, SubjectFields
<1>13. /\ d.completeness \in [Fields -> Coverages]
       /\ d.completeness["fullTokenInventory"] = subject.completeness["fullTokenInventory"]
  BY <1>7, <1>8, <1>12, SomeFields DEF IsGathered, IsWhole
<1>14. Finds(4, subject, subject', "transfer", "transfers", left \cup new)
  BY <1>3, <1>4, <1>11, <1>12, <1>13 DEF Finds, AreOfTransfers
<1>15. RowsOf(subject', "transfer", left \cup new, expired')
  <2>1. Ids(new) \subseteq Ids(subject'.evidence)
    BY <1>10 DEF Adds
  <2>2. \A x \in subject'.transfers : x.id \in Ids(subject'.evidence)
    BY <1>2, <1>3, <1>12, <2>1 DEF AreOfTransfers
  <2>3. ASSUME read = wallet.transfers, NEW e \in left \cup new
        PROVE  \E x \in subject'.transfers : e.id = x.id
    <3>1. PICK t \in read : e.id = <<"transfer", t.id>>
      BY <1>3, <1>4, <2>3 DEF AreOfTransfers
    <3>2. QED  BY <1>2, <1>12, <3>1
  <2>4. \/ expired' \/ Told(subject', "transfers")
        \/ read = wallet.transfers
    BY <1>12, Zenon DEF Told
  <2>5. QED  BY <2>2, <2>3, <2>4 DEF RowsOf
<1>16. QED  BY <1>14, <1>15, FoundIsGathered DEF GatheredNext

LEMMA TransfersGather ==
    ASSUME at \in 1 .. Len(Tools) + 1, IsGathered(subject, at, FALSE), ThisWallet,
           TransfersFromMoralis \/ TransfersFromEtherscan \/ TransfersUnavailable
    PROVE  GatheredNext
<1>1. at = 4 /\ at' = at + 1
  <2>1. Gathering("getTransferLogs") /\ at' = at + 1
    BY DEF TransfersFromMoralis, TransfersFromEtherscan, TransfersUnavailable, InTime,
       ToolEnds
  <2>2. QED  BY <2>1, ToolsInOrder
<1>2. Shaped(subject) /\ Unique(subject.evidence)
  BY DEF IsGathered, IsWhole
<1>3. IsGathered(subject, 4, FALSE)
  BY <1>1
<1>4. CASE TransfersFromMoralis
  <2>1. HistoryLeft(subject)
    <3>1. Adds(subject, subject, {})
      BY <1>2, AddsNothing
    <3>2. QED  BY <1>2, <3>1, NothingLeft DEF HistoryLeft
  <2>2. PICK page \in Paginated(wallet.transfers, 1) :
           subject' = AddEvidence(
               Source(Covered(Covered(
                   [Paging(subject, "transfers", PageInfo(page, 1)) EXCEPT
                       !.transfers = TransferRows(page.rows, FALSE)],
                   {"transferLogs"}, IF page.rows = {} THEN "partial" ELSE "available"),
                   {"transactionHistory"}, "partial"), "moralis", "available"),
               TransferEvidence(page.rows))
    BY <1>4 DEF TransfersFromMoralis, ToolEnds
  <2> DEFINE coverage == IF page.rows = {} THEN "partial" ELSE "available"
             info == PageInfo(page, 1)
             read == page.rows
  <2>3. coverage \in Coverages
    BY SomeFields
  <2>4. /\ read \subseteq wallet.transfers
        /\ info.hasMore \/ info.last = "empty" \/ read = wallet.transfers
    BY PageIsAll
  <2>5. subject' = AddEvidence(
               Source(Covered(Covered(
                   [Paging(subject, "transfers", info) EXCEPT
                       !.transfers = TransferRows(read, FALSE)],
                   {"transferLogs"}, coverage),
                   {"transactionHistory"}, "partial"), "moralis", "available"),
               TransferEvidence(read))
    BY <2>2
  <2> HIDE DEF coverage, info, read
  <2>6. \/ expired' \/ info.hasMore \/ info.last = "empty"
        \/ read = wallet.transfers
    BY <2>4
  <2>7. QED  BY <1>1, <1>3, <2>1, <2>3, <2>4, <2>5, <2>6, TransfersFound
<1>5. CASE TransfersFromEtherscan
  <2>0. PICK s \in AfterHistory, page \in Paginated(wallet.transfers, MaxPages) :
           \E read \in SUBSET page.rows :
             /\ subject' = AddEvidence(
                 Source(Covered(Covered(
                     [Paging(s, "transfers", PageInfo(page, MaxPages)) EXCEPT
                         !.transfers = TransferRows(read, TRUE)],
                     {"transferLogs"}, "available"),
                     {"transactionHistory"}, "partial"), "etherscanV2", "available"),
                 TransferEvidence(read))
             /\ expired' = (read # page.rows)
    BY <1>5 DEF TransfersFromEtherscan, ToolEnds
  <2>1. PICK read \in SUBSET page.rows :
           /\ subject' = AddEvidence(
                 Source(Covered(Covered(
                     [Paging(s, "transfers", PageInfo(page, MaxPages)) EXCEPT
                         !.transfers = TransferRows(read, TRUE)],
                     {"transferLogs"}, "available"),
                     {"transactionHistory"}, "partial"), "etherscanV2", "available"),
                 TransferEvidence(read))
           /\ expired' = (read # page.rows)
    BY <2>0
  <2> DEFINE info == PageInfo(page, MaxPages)
  <2>2. HistoryLeft(s)
    BY <1>2, HistoryLeaves
  <2>3. /\ page.rows \subseteq wallet.transfers
        /\ info.hasMore \/ info.last = "empty" \/ page.rows = wallet.transfers
    BY PageIsAll
  <2>4. subject' = AddEvidence(
            Source(Covered(Covered(
                [Paging(s, "transfers", info) EXCEPT !.transfers = TransferRows(read, TRUE)],
                {"transferLogs"}, "available"),
                {"transactionHistory"}, "partial"), "etherscanV2", "available"),
            TransferEvidence(read))
    BY <2>1
  <2>5. expired' \/ read = page.rows
    BY <2>1
  <2> HIDE DEF info
  <2>6. \/ expired' \/ info.hasMore \/ info.last = "empty"
        \/ read = wallet.transfers
    BY <2>3, <2>5
  <2>7. read \in SUBSET wallet.transfers
    BY <2>3
  <2>8. QED  BY <1>1, <1>3, <2>2, <2>4, <2>6, <2>7, SomeFields, TransfersFound
<1>6. CASE TransfersUnavailable
  <2>1. PICK s \in AfterHistory :
           subject' \in {s, Source(s, "etherscanV2", "partial")}
    BY <1>6 DEF TransfersUnavailable, ToolEnds
  <2>2. Leaves(subject, s, "transfer")
    BY <1>2, HistoryLeaves DEF HistoryLeft
  <2>3. Leaves(subject, subject', "transfer")
    BY <2>1, <2>2, SourceLeft
  <2>4. QED  BY <1>1, <1>3, <2>3, LeftIsGathered DEF GatheredNext
<1>7. QED  BY <1>4, <1>5, <1>6

LEMMA PricesGather ==
    ASSUME at \in 1 .. Len(Tools) + 1, IsGathered(subject, at, FALSE), GetTokenPrices
    PROVE  GatheredNext
<1>1. at \in Nat /\ subject' = subject /\ at' = at + 1
  BY ToolsInOrder DEF GetTokenPrices, InTime, ToolEnds
<1>2. QED  BY <1>1, SourceIsGathered DEF GatheredNext

\* Evidence of the security of some tokens.
AreOfTokens(new, tokens) ==
    /\ Unique(new)
    /\ \A e \in new : e.id[1] = "security"
    /\ \A t \in tokens : <<"security", t.token>> \in Ids(new)

LEMMA SecurityEvidenceIs ==
    ASSUME NEW tokens, \A t, u \in tokens : t.token = u.token => t = u, NEW known
    PROVE  AreOfTokens({Evidence("security", t.token,
                                 IF t \in known THEN "fresh" ELSE "missing", "recent") :
                           t \in tokens}, tokens)
<1> DEFINE of(t) == Evidence("security", t.token,
                             IF t \in known THEN "fresh" ELSE "missing", "recent")
           new == {of(t) : t \in tokens}
<1>1. \A t \in tokens : of(t).id = <<"security", t.token>>
  BY EvidenceIs
<1> HIDE DEF of
<1>2. ASSUME NEW e \in new
      PROVE  e.id[1] = "security"
  <2>1. PICK t \in tokens : e = of(t)
    OBVIOUS
  <2>2. QED  BY <1>1, <2>1
<1>3. \A t \in tokens : <<"security", t.token>> \in Ids(new)
  BY <1>1 DEF Ids
<1>4. Unique(new)
  <2>1. SUFFICES ASSUME NEW a \in tokens, NEW b \in tokens, of(a).id = of(b).id
                 PROVE  of(a) = of(b)
    BY DEF Unique
  <2>2. a.token = b.token
    BY <1>1, <2>1
  <2>3. QED  BY <2>2
<1>5. QED  BY <1>2, <1>3, <1>4 DEF AreOfTokens, of

LEMMA SecurityGathers ==
    ASSUME at \in 1 .. Len(Tools) + 1, IsGathered(subject, at, FALSE), ThisWallet,
           GetTokenSecurity
    PROVE  GatheredNext
<1> DEFINE held == {t \in wallet.tokens : \E b \in HeldTokens(subject) : b.token = t.token}
<1>1. at \in Nat /\ at >= 5 /\ at' = at + 1
  <2>1. Gathering("getTokenSecurity") /\ at' = at + 1
    BY DEF GetTokenSecurity, InTime, ToolEnds
  <2>2. QED  BY <2>1, ToolsInOrder
<1>2. Shaped(subject) /\ Unique(subject.evidence)
      /\ subject.completeness \in [Fields -> Coverages]
  BY DEF IsGathered, IsWhole
<1>3. CASE subject' \in {subject, Source(subject, "goPlus", "partial")}
  BY <1>1, <1>3, SourceIsGathered DEF GatheredNext
<1>4. ASSUME NEW known \in SUBSET held,
             subject' = AddEvidence(
                 Source(Covered(
                     [subject EXCEPT !.tokens =
                         {[id |-> <<"security", t.token>>,
                           security |-> CASE t \notin known -> "unknown"
                                          [] t \in known /\ t.risky -> "risky"
                                          [] OTHER -> "known"] : t \in held}],
                     {"tokenSecurity"},
                     IF known = {} THEN "partial" ELSE "available"),
                     "goPlus", "available"),
                 {Evidence("security", t.token,
                           IF t \in known THEN "fresh" ELSE "missing", "recent") :
                     t \in held})
      PROVE  GatheredNext
  <2> DEFINE row(t) == [id |-> <<"security", t.token>>,
                        security |-> CASE t \notin known -> "unknown"
                                       [] t \in known /\ t.risky -> "risky"
                                       [] OTHER -> "known"]
             rows == {row(t) : t \in held}
             new == {Evidence("security", t.token,
                              IF t \in known THEN "fresh" ELSE "missing", "recent") :
                        t \in held}
             coverage == IF known = {} THEN "partial" ELSE "available"
             s == [subject EXCEPT !.tokens = rows]
             c == Covered(s, {"tokenSecurity"}, coverage)
  <2>1. subject' = AddEvidence(Source(c, "goPlus", "available"), new)
    BY <1>4
  <2>2. \A x \in rows : \E t \in held : x.id = <<"security", t.token>>
    <3>1. \A t \in held : row(t).id = <<"security", t.token>>
      OBVIOUS
    <3> HIDE DEF row, held
    <3>2. QED  BY <3>1
  <2>3. AreOfTokens(new, held)
    <3>1. \A t, u \in held : t.token = u.token => t = u
      BY DEF ThisWallet, AreTokens
    <3> HIDE DEF held
    <3>2. QED  BY <3>1, SecurityEvidenceIs, Zenon
  <2>4. coverage \in Coverages
    BY SomeFields
  <2> HIDE DEF rows, new, held, coverage
  <2>5. Changes(subject, s, {"tokens"}) /\ s.tokens = rows
    BY <1>2 DEF Changes, Shaped, SubjectFields
  <2> HIDE DEF s
  <2>6. /\ Changes(s, c, {"completeness"})
        /\ c.completeness = [f \in Fields |-> IF f \in {"tokenSecurity"} THEN coverage
                                              ELSE s.completeness[f]]
    BY <2>5, CoveredChanges DEF Changes
  <2> HIDE DEF c
  <2>7. Shaped(c) /\ c.evidence = subject.evidence
    BY <2>5, <2>6 DEF Changes, SubjectFields
  <2>8. Changes(c, subject', {"sources", "evidence"}) /\ Adds(c, subject', new)
    BY <1>2, <2>1, <2>3, <2>7, NotedChanges DEF AreOfTokens
  <2>9. /\ Changes(subject, subject',
                  {"tokens", "pages", "completeness", "sources", "evidence"})
        /\ subject'.pages = subject.pages
        /\ subject'.tokens = rows /\ Adds(subject, subject', new)
        /\ subject'.completeness = c.completeness
        /\ s.completeness = subject.completeness
    BY <2>5, <2>6, <2>7, <2>8 DEF Changes, SubjectFields, Adds
  <2>10. /\ c.completeness \in [Fields -> Coverages]
         /\ c.completeness["fullTokenInventory"] = subject.completeness["fullTokenInventory"]
         /\ c.completeness["transferLogs"] = subject.completeness["transferLogs"]
    BY <1>2, <2>4, <2>6, <2>9, SomeFields
  <2>11. Finds(at, subject, subject', "security", "tokens", new)
    BY <1>1, <2>3, <2>9, <2>10 DEF Finds, AreOfTokens
  <2>12. RowsOf(subject', "security", new, expired')
    <3>1. Ids(new) \subseteq Ids(subject'.evidence)
      BY <2>9 DEF Adds
    <3>2. QED  BY <2>2, <2>3, <2>9, <3>1 DEF RowsOf, AreOfTokens
  <2>13. QED  BY <1>1, <2>11, <2>12, FoundIsGathered DEF GatheredNext
<1>5. QED
  <2>1. CASE held # {} /\ \E known \in SUBSET held :
             subject' = AddEvidence(
                 Source(Covered(
                     [subject EXCEPT !.tokens =
                         {[id |-> <<"security", t.token>>,
                           security |-> CASE t \notin known -> "unknown"
                                          [] t \in known /\ t.risky -> "risky"
                                          [] OTHER -> "known"] : t \in held}],
                     {"tokenSecurity"},
                     IF known = {} THEN "partial" ELSE "available"),
                     "goPlus", "available"),
                 {Evidence("security", t.token,
                           IF t \in known THEN "fresh" ELSE "missing", "recent") :
                     t \in held})
    BY <1>4, <2>1, Zenon
  <2>2. QED  BY <1>3, <2>1, ZenonT(40) DEF GetTokenSecurity, ToolEnds

LEMMA ExposureGathers ==
    ASSUME at \in 1 .. Len(Tools) + 1, IsGathered(subject, at, FALSE),
           GetRwaYieldExposure
    PROVE  GatheredNext
<1>1. at \in Nat /\ at >= 5 /\ at' = at + 1
  <2>1. Gathering("getRwaYieldExposure") /\ at' = at + 1
    BY DEF GetRwaYieldExposure, InTime, ToolEnds
  <2>2. QED  BY <2>1, ToolsInOrder
<1>2. Shaped(subject) /\ subject.completeness \in [Fields -> Coverages]
  BY DEF IsGathered, IsWhole
<1>3. CASE subject' = subject
  BY <1>1, <1>3, SourceIsGathered DEF GatheredNext
<1>4. ASSUME NEW exposure, exposure.cites # {},
             \A id \in exposure.cites : \E b \in subject.held : id = b.id,
             subject' = Covered([subject EXCEPT !.exposure = exposure],
                                {"rwaYieldExposure"}, "available")
      PROVE  GatheredNext
  <2> DEFINE s == [subject EXCEPT !.exposure = exposure]
  <2>1. Changes(subject, s, {"exposure"}) /\ s.exposure = exposure
    BY <1>2 DEF Changes, Shaped, SubjectFields
  <2>2. subject' = Covered(s, {"rwaYieldExposure"}, "available")
    BY <1>4
  <2> HIDE DEF s
  <2>3. /\ Changes(s, subject', {"completeness"})
        /\ subject'.completeness = [f \in Fields |-> IF f \in {"rwaYieldExposure"}
                                       THEN "available" ELSE s.completeness[f]]
    BY <2>1, <2>2, CoveredChanges DEF Changes
  <2>4. /\ Shaped(subject') /\ subject'.exposure = exposure
        /\ subject'.evidence = subject.evidence /\ subject'.native = subject.native
        /\ subject'.held = subject.held /\ subject'.listed = subject.listed
        /\ subject'.approvals = subject.approvals
        /\ subject'.transfers = subject.transfers /\ subject'.tokens = subject.tokens
        /\ subject'.pages = subject.pages
        /\ s.completeness = subject.completeness
    BY <2>1, <2>3 DEF Changes, SubjectFields
  <2>5. /\ subject'.completeness \in [Fields -> Coverages]
        /\ subject'.completeness["fullTokenInventory"]
              = subject.completeness["fullTokenInventory"]
        /\ subject'.completeness["transferLogs"] = subject.completeness["transferLogs"]
    BY <1>2, <2>3, <2>4, SomeFields
  <2>6. IsWhole(subject')
    BY <2>4, <2>5 DEF IsGathered, IsWhole
  <2>7. IsCited(subject')
    <3>1. exposure.cites \cap Ids(subject.evidence) # {}
      BY <1>4 DEF IsGathered, IsCited
    <3>2. QED  BY <2>4, <3>1 DEF IsGathered, IsCited
  <2>8. BalancesHaveRows(subject', at + 1)
    BY <1>1, <2>4, <2>5 DEF IsGathered, BalancesHaveRows, Available
  <2>9. ApprovalsHaveRows(subject', at + 1)
    BY <1>1, <2>4 DEF IsGathered, ApprovalsHaveRows
  <2>10. TransfersHaveRows(subject', at + 1, expired')
    <3>1. Told(subject', "transfers") <=> Told(subject, "transfers")
      BY <2>4 DEF Told
    <3>2. QED  BY <1>1, <2>4, <2>5, <3>1 DEF IsGathered, TransfersHaveRows, Available
  <2>11. QED  BY <1>1, <2>6, <2>7, <2>8, <2>9, <2>10 DEF IsGathered, GatheredNext
<1> DEFINE valued == {b \in subject.held : b.value > 0}
           total == Total(valued)
           of(symbol) == Total({b \in valued : b.symbol = symbol})
           cites == {b.id : b \in {b \in valued : b.symbol \in YieldTokens}}
           exposure == [percent |-> Share(of("mETH"), total) + Share(of("cmETH"), total),
                        warning |-> 2 * (of("mETH") + of("cmETH")) >= total,
                        cites |-> cites]
<1>5. \/ subject' = subject
      \/ /\ cites # {}
         /\ subject' = Covered([subject EXCEPT !.exposure = exposure],
                               {"rwaYieldExposure"}, "available")
  BY DEF GetRwaYieldExposure, ToolEnds
<1>6. exposure.cites = cites /\ \A id \in cites : \E b \in subject.held : id = b.id
  OBVIOUS
<1> HIDE DEF exposure, cites
<1>7. QED  BY <1>3, <1>4, <1>5, <1>6

-----------------------------------------------------------------------------
(* A scan gathers, and goes on in order.                                   *)

\* The deadline, and the crash, leave the data as they are.
LEMMA GathersGather ==
    ASSUME at \in 1 .. Len(Tools) + 1, expired \in BOOLEAN, ThisWallet,
           IsGathered(subject, at, expired), Gathers
    PROVE  /\ GatheredNext /\ at' \in 1 .. Len(Tools) + 1 /\ expired' \in BOOLEAN
           /\ steps' = steps /\ config' = config
<1>1. CASE Expire
  <2>1. /\ subject' = subject /\ at' = at /\ expired' = TRUE
        /\ steps' = steps /\ config' = config
    BY <1>1 DEF Expire
  <2>2. Shaped(subject) /\ subject.completeness \in [Fields -> Coverages]
    BY DEF IsGathered, IsWhole
  <2>3. Changes(subject, subject, {"sources", "completeness"})
    BY <2>2, NothingChanges
  <2>4. IsGathered(subject, at, expired')
    <3>1. (expired => expired') /\ at \in Nat
      BY <2>1
    <3>2. \A f \in Fields : Available(subject, f) => Available(subject, f)
      OBVIOUS
    <3>3. QED  BY <2>2, <2>3, <3>1, <3>2, QuietIsGathered, Zenon
  <2>5. QED  BY <2>1, <2>4 DEF GatheredNext
<1>2. CASE ApprovalsCrash
  BY <1>2 DEF ApprovalsCrash, GatheredNext
<1>3. ASSUME NEW tool, Gathering(tool), at' = at + 1
      PROVE  at' \in 1 .. Len(Tools) + 1
  <2>1. at \in 1 .. 7 /\ Len(Tools) = 7
    BY <1>3, ToolsInOrder DEF Tools
  <2>2. QED  BY <1>3, <2>1
<1>4. CASE Skip
  <2>1. PICK tool \in Range(Tools) : Gathering(tool) /\ at' = at + 1 /\ expired' = TRUE
           /\ steps' = steps /\ config' = config
    BY <1>4 DEF Skip, ToolEnds
  <2>2. at \in Nat
    OBVIOUS
  <2>3. GatheredNext
    BY <1>4, <2>2, SkipGathers
  <2>4. QED  BY <1>3, <2>1, <2>3
<1>5. ASSUME \/ GetNativeBalance
             \/ BalancesFromMoralis \/ BalancesFromTransfers
             \/ BalancesFromAllowlist \/ BalancesUnavailable
             \/ GetTokenApprovals \/ ApprovalsUnavailable
             \/ TransfersFromMoralis \/ TransfersFromEtherscan
             \/ TransfersUnavailable
             \/ GetTokenPrices \/ GetTokenSecurity \/ GetRwaYieldExposure
      PROVE  /\ GatheredNext /\ at' \in 1 .. Len(Tools) + 1 /\ expired' \in BOOLEAN
             /\ steps' = steps /\ config' = config
  <2>1. PICK tool : Gathering(tool) /\ ~expired
    BY <1>5 DEF GetNativeBalance, BalancesFromMoralis, BalancesFromTransfers,
       BalancesFromAllowlist, BalancesUnavailable, GetTokenApprovals,
       ApprovalsUnavailable, TransfersFromMoralis, TransfersFromEtherscan,
       TransfersUnavailable, GetTokenPrices, GetTokenSecurity,
       GetRwaYieldExposure, InTime
  <2>2. at' = at + 1 /\ expired' \in BOOLEAN /\ steps' = steps /\ config' = config
    <3>1. CASE GetNativeBalance
      BY <3>1 DEF GetNativeBalance, ToolEnds
    <3>2. CASE BalancesFromMoralis \/ BalancesFromTransfers
      BY <3>2 DEF BalancesFromMoralis, BalancesFromTransfers, ToolEnds
    <3>3. CASE BalancesFromAllowlist \/ BalancesUnavailable
      BY <3>3 DEF BalancesFromAllowlist, BalancesUnavailable, ToolEnds
    <3>4. CASE GetTokenApprovals \/ ApprovalsUnavailable
      BY <3>4 DEF GetTokenApprovals, ApprovalsUnavailable, ToolEnds
    <3>5. CASE TransfersFromMoralis \/ TransfersFromEtherscan \/ TransfersUnavailable
      BY <3>5 DEF TransfersFromMoralis, TransfersFromEtherscan, TransfersUnavailable,
         ToolEnds
    <3>6. CASE GetTokenPrices \/ GetTokenSecurity \/ GetRwaYieldExposure
      BY <3>6 DEF GetTokenPrices, GetTokenSecurity, GetRwaYieldExposure, ToolEnds
    <3>7. QED  BY <1>5, <3>1, <3>2, <3>3, <3>4, <3>5, <3>6
  <2>3. at' \in 1 .. Len(Tools) + 1
    BY <1>3, <2>1, <2>2
  <2>4. IsGathered(subject, at, FALSE)
    <3>1. expired = FALSE
      BY <2>1
    <3>2. QED  BY <3>1
  <2>5. GatheredNext
    BY <1>5, <2>4, NativeGathers, BalancesGather, ApprovalsGather, TransfersGather,
       PricesGather, SecurityGathers, ExposureGathers
  <2>6. QED  BY <2>2, <2>3, <2>5
<1>6. QED  BY <1>1, <1>2, <1>4, <1>5 DEF Gathers

LEMMA LiveIsGathered == IsGathered(LiveSubject, 1, FALSE)
<1> DEFINE s == LiveSubject
           rule == Evidence("rule", None, "fresh", "recent")
<1>1. /\ Shaped(s) /\ s.evidence = {rule} /\ s.native = {} /\ s.listed = {}
      /\ s.held = {} /\ s.approvals = {} /\ s.transfers = {} /\ s.tokens = {}
      /\ s.exposure = None
  BY DEF LiveSubject, Shaped, SubjectFields
<1>2. /\ s.completeness \in [Fields -> Coverages]
      /\ \A f \in Fields : ~Available(s, f)
  BY SomeFields DEF LiveSubject, Available
<1>3. rule.id = <<"rule", None>>
  BY EvidenceIs
<1> HIDE DEF s, rule
<1>4. \A e \in s.evidence : e.id[1] = "rule"
  BY <1>1, <1>3
<1>5. IsWhole(s)
  BY <1>1, <1>2 DEF IsWhole, Unique
<1>6. IsCited(s)
  <2>1. IsFiniteSet({} \cup {})
    BY FS_EmptySet
  <2>2. QED  BY <1>1, <2>1 DEF IsCited, AreCounted
<1>7. BalancesHaveRows(s, 1) /\ ApprovalsHaveRows(s, 1) /\ TransfersHaveRows(s, 1, FALSE)
  BY <1>1, <1>2, <1>4, SomeFields
  DEF BalancesHaveRows, ApprovalsHaveRows, TransfersHaveRows, OfKind
<1>8. QED  BY <1>5, <1>6, <1>7 DEF IsGathered, s

\* The states of a scan that has gathered all its data
Weighed == {"PARTIAL_OR_UNKNOWN", "RISK_EVALUATING", "EVIDENCE_BINDING",
            "EXPLAINING", "SIMULATION_READY"}

\* A live scan's data are good, as far as its tools have been called; a fixture's
\* are all there.
IsOnItsWay ==
    /\ config \in Configs
    /\ wallet \in Wallets \cup {None}
    /\ at \in 1 .. Len(Tools) + 1
    /\ expired \in BOOLEAN
    /\ state = "INIT" => at = 1 /\ expired = FALSE /\ subject = None
    /\ state # "INIT" =>
          IF wallet = None THEN subject \in Fixtures
                           ELSE IsGathered(subject, at, expired)
    /\ answer # None \/ state \in Weighed => at = Len(Tools) + 1

LEMMA WalletIsThis == wallet \in Wallets => ThisWallet
BY WalletsAssumption DEF ThisWallet, AreTokens

\* A fixture has no tools left to call.
FixtureIsRead == wallet = None /\ state # "INIT" => at = Len(Tools) + 1

LEMMA OnItsWay == Spec => [](IsOfSubject /\ IsBound /\ IsOnItsWay /\ FixtureIsRead)
<1>1. Init => IsOnItsWay /\ FixtureIsRead
  <2>1. Len(Tools) = 7
    BY DEF Tools
  <2>2. ASSUME Init
        PROVE  IsOnItsWay
    <3>1. at = 1 /\ expired = FALSE /\ state = "INIT" /\ subject = None /\ answer = None
      BY <2>2 DEF Init
    <3>2. config \in Configs /\ wallet \in Wallets \cup {None}
      BY <2>2 DEF Init
    <3>3. at \in 1 .. Len(Tools) + 1
      BY <2>1, <3>1
    <3>4. state \notin Weighed
      BY <3>1 DEF Weighed
    <3>5. QED  BY <3>1, <3>2, <3>3, <3>4 DEF IsOnItsWay
  <2>3. Init => FixtureIsRead
    BY DEF Init, FixtureIsRead
  <2>4. QED  BY <2>2, <2>3
<1>2. ASSUME IsOfSubject, IsBound, IsOnItsWay, FixtureIsRead, [Next]_vars
      PROVE  IsOnItsWay' /\ FixtureIsRead'
  <2>1. CASE Gathers
    <3>1. /\ state = "DATA_GATHERING" /\ state' \in {state, "crashed"}
          /\ answer' = answer /\ wallet' = wallet /\ answer = None
      BY <1>2, <2>1, GathersInTime DEF IsOfSubject
    <3>2. CASE wallet # None
      <4>1. ThisWallet /\ IsGathered(subject, at, expired)
        BY <1>2, <3>1, <3>2, WalletIsThis DEF IsOnItsWay, Weighed
      <4>2. /\ GatheredNext /\ at' \in 1 .. Len(Tools) + 1 /\ expired' \in BOOLEAN
            /\ config' = config
        BY <1>2, <2>1, <4>1, GathersGather DEF IsOnItsWay, Weighed
      <4>3. QED
        BY <1>2, <3>1, <3>2, <4>2 DEF IsOnItsWay, Weighed, FixtureIsRead, GatheredNext
    <3>3. CASE wallet = None
      <4>1. at = 8 /\ Len(Tools) = 7
        BY <1>2, <3>1, <3>3 DEF FixtureIsRead, Tools
      <4>2. ~ \E tool : Gathering(tool)
        BY <4>1 DEF Gathering
      <4>3. Expire
        BY <2>1, <4>2 DEF Gathers, Skip, GetNativeBalance, BalancesFromMoralis,
           BalancesFromTransfers, BalancesFromAllowlist, BalancesUnavailable,
           GetTokenApprovals, ApprovalsUnavailable, ApprovalsCrash,
           TransfersFromMoralis, TransfersFromEtherscan, TransfersUnavailable,
           GetTokenPrices, GetTokenSecurity, GetRwaYieldExposure, InTime
      <4>4. QED  BY <3>3, <4>3 DEF Expire
    <3>4. QED  BY <3>2, <3>3
  <2>2. CASE Begin
    <3>1. /\ state = "INIT" /\ state' \in {"DATA_GATHERING", "refused"}
          /\ UNCHANGED <<config, wallet, expired, answer>> /\ answer = None
      BY <1>2, <2>2, TransitionMoves DEF Begin, IsOfSubject
    <3>2. CASE wallet = None
      <4>1. subject' \in Fixtures /\ at' = Len(Tools) + 1
        BY <2>2, <3>2 DEF Begin
      <4>2. at' \in 1 .. Len(Tools) + 1
        <5>1. Len(Tools) = 7
          BY DEF Tools
        <5>2. QED  BY <4>1, <5>1
      <4>3. QED  BY <1>2, <3>1, <3>2, <4>1, <4>2 DEF IsOnItsWay, Weighed, FixtureIsRead
    <3>3. CASE wallet # None
      <4>1. subject' = LiveSubject /\ at' = 1 /\ expired' = FALSE /\ at' = at
        BY <1>2, <2>2, <3>1, <3>3 DEF Begin, IsOnItsWay
      <4>2. IsGathered(subject', at', expired')
        BY <4>1, LiveIsGathered
      <4>3. QED  BY <1>2, <3>1, <3>3, <4>1, <4>2 DEF IsOnItsWay, Weighed, FixtureIsRead
    <3>4. QED  BY <3>2, <3>3
  <2>3. CASE Weigh \/ Resume \/ Evaluate \/ BindEvidence \/ Explain \/ ExplainCandidate
    <3>1. /\ UNCHANGED <<config, wallet, at, expired, subject>> /\ state # "INIT"
          /\ at = Len(Tools) + 1
      BY <1>2, <2>3 DEF Weigh, Gathered, Resume, Evaluate, BindEvidence, Explain,
         ExplainCandidate, IsOnItsWay, Weighed
    <3>2. state' # "INIT"
      BY <2>3, TransitionMoves DEF Weigh, Gathered, Resume, Evaluate, BindEvidence,
         Explain, ExplainCandidate
    <3>3. QED  BY <1>2, <3>1, <3>2 DEF IsOnItsWay, Weighed, FixtureIsRead
  <2>4. CASE UNCHANGED vars
    BY <1>2, <2>4 DEF vars, IsOnItsWay, FixtureIsRead
  <2>5. QED  BY <1>2, <2>1, <2>2, <2>3, <2>4 DEF Next, Gathers
<1>3. QED  BY <1>1, <1>2, Bound, PTL DEF Spec

\* For any wallet and any way that its providers answer: evidence without a row
\* to show is never of an approval, and is of a balance or a transfer only where
\* the coverage, the page coverage or the deadline says so (workflows.py:_detail_resolution).
THEOREM RowsForEvidence == Spec => []EvidenceHasItsRow
<1>1. IsOfSubject /\ IsOnItsWay => EvidenceHasItsRow
  <2> SUFFICES ASSUME IsOfSubject, IsOnItsWay, answer # None, wallet # None,
                      NEW e \in Unresolved(subject)
               PROVE  /\ e.id[1] # "approval"
                      /\ e.id[1] = "transfer" =>
                            \/ expired
                            \/ subject.completeness["transferLogs"] # "available"
                            \/ MoreIsTold("transfers")
                      /\ e.id[1] = "balance" =>
                            \/ subject.completeness["fullTokenInventory"] # "available"
                            \/ \E b \in subject.held : b.token = e.id[2][2]
    BY DEF EvidenceHasItsRow
  <2>1. IsGathered(subject, at, expired)
    BY DEF IsOfSubject, IsOnItsWay
  <2>2. e \in subject.evidence /\ e.id \notin RowIds(subject)
    BY DEF Unresolved
  <2>3. e.id[1] # "approval"
    BY <2>1, <2>2 DEF IsGathered, ApprovalsHaveRows, OfKind, RowIds
  <2>4. e.id[1] = "transfer" =>
           \/ expired
           \/ subject.completeness["transferLogs"] # "available"
           \/ MoreIsTold("transfers")
    <3>1. Told(subject, "transfers") <=> MoreIsTold("transfers")
      BY DEF Told, MoreIsTold
    <3>2. QED
      BY <2>1, <2>2, <3>1 DEF IsGathered, TransfersHaveRows, OfKind, RowIds, Available
  <2>5. e.id[1] = "balance" =>
           \/ subject.completeness["fullTokenInventory"] # "available"
           \/ \E b \in subject.held : b.token = e.id[2][2]
    BY <2>1, <2>2 DEF IsGathered, BalancesHaveRows, OfKind, Available
  <2>6. QED  BY <2>3, <2>4, <2>5
<1>2. QED  BY <1>1, OnItsWay, PTL

\* A fixture cites its own evidence.
FixturesAreBound == \A s \in Fixtures : OrphanClaims(Scan(s)) = {}

\* The longest way of a scan is of six transitions.
StepsOfScan == MaxSteps \in Nat /\ MaxSteps >= 6

\* How many transitions have led to each state.
IsInSteps ==
    /\ steps \in Nat
    /\ state = "INIT" => steps = 0
    /\ state = "DATA_GATHERING" => steps <= 1
    /\ state = "PARTIAL_OR_UNKNOWN" => steps <= 2
    /\ state = "RISK_EVALUATING" => steps <= 3
    /\ state = "EVIDENCE_BINDING" => steps <= 4
    /\ state = "EXPLAINING" => steps <= 5
    /\ NothingIsRefused

LEMMA BoundWhenGathered ==
    ASSUME IsOnItsWay, FixturesAreBound, state = "RISK_EVALUATING"
    PROVE  OrphanClaims(Scan(subject)) = {}
<1>1. CASE wallet = None
  BY <1>1 DEF IsOnItsWay, FixturesAreBound
<1>2. CASE wallet # None
  <2>1. IsCited(subject)
    BY <1>2 DEF IsOnItsWay, IsGathered
  <2>2. AreBacked(Scan(subject))
    BY <2>1 DEF IsCited, AreBacked, Scan
  <2>3. QED  BY <2>2, BackedIsBound
<1>3. QED  BY <1>1, <1>2

\* A transition that the table has is made while steps are left.
LEMMA TransitionIsMade ==
    ASSUME NEW to, Transition(to), to \in Moves[state], steps \in Nat, StepsOfScan,
           steps < 6
    PROVE  state' = to /\ steps' = steps + 1
BY DEF Transition, StepsOfScan

\* For any wallet, configuration and way that the providers answer, and any
\* fixture that cites its own evidence: with six transitions or more allowed, none
\* is refused and no claim is without evidence (policy.py:allow_transition,
\* evidence.py:validate_evidence_binding).
THEOREM NeverRefused ==
    ASSUME StepsOfScan, FixturesAreBound
    PROVE  Spec => []NothingIsRefused
<1>1. Init => IsInSteps
  BY DEF Init, IsInSteps, NothingIsRefused
<1>2. ASSUME IsOnItsWay, IsInSteps, [Next]_vars
      PROVE  IsInSteps'
  <2> USE <1>2 DEF IsInSteps, NothingIsRefused
  <2>1. CASE Gathers
    <3>1. state = "DATA_GATHERING" /\ state' \in {"DATA_GATHERING", "crashed"}
      BY <2>1, GathersInTime
    <3>2. steps' = steps
      BY <2>1 DEF Gathers, Expire, Skip, GetNativeBalance, BalancesFromMoralis,
         BalancesFromTransfers, BalancesFromAllowlist, BalancesUnavailable,
         GetTokenApprovals, ApprovalsUnavailable, ApprovalsCrash,
         TransfersFromMoralis, TransfersFromEtherscan, TransfersUnavailable,
         GetTokenPrices, GetTokenSecurity, GetRwaYieldExposure, ToolEnds
    <3>3. QED  BY <3>1, <3>2
  <2>2. CASE Begin
    <3>1. Transition("DATA_GATHERING") /\ state = "INIT"
      BY <2>2 DEF Begin
    <3>2. state' = "DATA_GATHERING" /\ steps' = steps + 1
      BY <3>1, TransitionIsMade DEF Moves
    <3>3. QED  BY <3>1, <3>2
  <2>3. CASE Weigh
    <3>1. PICK to \in {"PARTIAL_OR_UNKNOWN", "RISK_EVALUATING"} : Transition(to)
      BY <2>3 DEF Weigh
    <3>2. state = "DATA_GATHERING" /\ to \in Moves[state]
      BY <2>3 DEF Weigh, Gathered, Moves
    <3>3. state' = to /\ steps' = steps + 1
      BY <3>1, <3>2, TransitionIsMade
    <3>4. QED  BY <3>2, <3>3
  <2>4. CASE Resume
    <3>1. Transition("RISK_EVALUATING") /\ state = "PARTIAL_OR_UNKNOWN"
      BY <2>4 DEF Resume
    <3>2. state' = "RISK_EVALUATING" /\ steps' = steps + 1
      BY <3>1, TransitionIsMade DEF Moves
    <3>3. QED  BY <3>1, <3>2
  <2>5. CASE Evaluate
    <3>1. state = "RISK_EVALUATING" /\ OrphanClaims(Scan(subject)) = {}
      BY <2>5, BoundWhenGathered DEF Evaluate
    <3>2. Transition("EVIDENCE_BINDING")
      BY <2>5, <3>1 DEF Evaluate
    <3>3. state' = "EVIDENCE_BINDING" /\ steps' = steps + 1
      BY <3>1, <3>2, TransitionIsMade DEF Moves
    <3>4. QED  BY <3>1, <3>3
  <2>6. CASE BindEvidence
    <3>1. Transition("EXPLAINING") /\ state = "EVIDENCE_BINDING"
      BY <2>6 DEF BindEvidence
    <3>2. state' = "EXPLAINING" /\ steps' = steps + 1
      BY <3>1, TransitionIsMade DEF Moves
    <3>3. QED  BY <3>1, <3>2
  <2>7. CASE Explain
    <3>1. Transition("SIMULATION_READY") /\ state = "EXPLAINING"
      BY <2>7 DEF Explain
    <3>2. state' = "SIMULATION_READY" /\ steps' = steps + 1
      BY <3>1, TransitionIsMade DEF Moves
    <3>3. QED  BY <3>2
  <2>8. CASE ExplainCandidate \/ UNCHANGED vars
    BY <2>8 DEF ExplainCandidate, vars
  <2>9. QED
    BY <2>1, <2>2, <2>3, <2>4, <2>5, <2>6, <2>7, <2>8 DEF Next, Gathers
<1>3. IsInSteps => NothingIsRefused
  BY DEF IsInSteps
<1>4. QED  BY <1>1, <1>2, <1>3, OnItsWay, PTL DEF Spec

-----------------------------------------------------------------------------
(* The types.                                                              *)

LEMMA WeightedIsInRange ==
    ASSUME NEW scan
    PROVE  WeightedScore(scan) \in 0 .. 10000
<1> DEFINE a == ApprovalsScore(scan)       b == TransfersScore(scan)
           c == ConcentrationScore(scan)   d == YieldScore(scan)
           e == DefiScore(scan)
<1>1. /\ a \in Int /\ b \in Int /\ c \in Int /\ d \in Int /\ e \in Int
      /\ a >= 0 /\ b >= 0 /\ c >= 0 /\ d >= 0 /\ e >= 0
      /\ a <= 100 /\ b <= 75 /\ c <= 100 /\ d <= 60 /\ e <= 50
  BY ApprovalsScoreValues, TransfersScoreValues, ConcentrationScoreValues,
     YieldScoreValues, DefiScoreValues
<1>2. WeightedScore(scan) = 35 * a + 25 * b + 20 * c + 15 * d + 5 * e
  BY DEF WeightedScore
<1> HIDE DEF a, b, c, d, e
<1>3. QED  BY <1>1, <1>2

LEMMA ScoreIsInRange ==
    ASSUME NEW scan
    PROVE  Score(scan) \in 0 .. 10000
BY WeightedIsInRange DEF Score, AtLeast

LEMMA LevelIsKnown ==
    ASSUME NEW scan
    PROVE  Level(scan) \in Range(Severities)
<1>1. LevelOf(WeightedScore(scan)) \in Known
  BY WeightedIsInt, LevelOfGrows DEF Known
<1>2. \A s \in Known : Worse(s, "High") \in Known /\ Worse(s, "Moderate") \in Known
  BY DEF Worse, Known
<1>3. Floored(scan) \in Known
  BY <1>1, <1>2 DEF Floored, Known
<1>4. Level(scan) \in {Floored(scan), Worse(Floored(scan), "Moderate")}
  BY DEF Level, Floored
<1>5. Known = Range(Severities)
  BY DEF Known, Severities, Range
<1>6. QED  BY <1>2, <1>3, <1>4, <1>5

LEMMA TopTypes ==
    ASSUME NEW scan
    PROVE  \A r \in Range(TopRisks(AllRisks(scan))) : r.type \in RiskTypes
<1>1. Range(TopRisks(AllRisks(scan))) \subseteq Range(AllRisks(scan))
  BY AllRisksAreRisks, TopIsOfRisks
<1>2. \A r \in Range(AllRisks(scan)) :
         r.type \in {"approval", "transfer", "concentration", "high_value_exposure",
                     "token_security", "rwa_yield", "defi", "source_coverage",
                     "stale_data", "wallet_activity"}
  BY AllRisksRange, RowRisksAreOf, DataRisksAreOf DEF AreOf
<1>3. QED  BY <1>1, <1>2 DEF RiskTypes

\* What TypeOK says of the workflow, and that what is told is of the assessment.
IsTyped ==
    /\ state \in DOMAIN Moves \cup Failures
    /\ steps \in 0 .. MaxSteps
    /\ told # None => told.mode \in {"rule_fallback", "llm_guarded"} /\ IsAssessed

LEMMA MovesFrom ==
    DOMAIN Moves = {"INIT", "DATA_GATHERING", "PARTIAL_OR_UNKNOWN",
                    "RISK_EVALUATING", "EVIDENCE_BINDING", "EXPLAINING",
                    "SIMULATION_READY"}
BY DEF Moves

LEMMA TransitionIsTyped ==
    ASSUME NEW to \in DOMAIN Moves, Transition(to), steps \in 0 .. MaxSteps
    PROVE  state' \in DOMAIN Moves \cup Failures /\ steps' \in 0 .. MaxSteps
<1>1. MaxSteps \in Nat
  BY ConfigsAssumption
<1>2. QED  BY <1>1 DEF Transition, Failures

\* For any wallets, fixtures, configurations and candidates: the variables of a
\* scan have their types, and each item of evidence and each balance held is one of
\* a kind (live_adapters.py:_add_evidence, _merge_balances, risk.py, policy.py).
THEOREM ScanTypeCorrect == Spec => []TypeOK
<1>1. Init => IsTyped
  <2>1. MaxSteps \in Nat
    BY ConfigsAssumption
  <2>2. QED  BY <2>1, MovesFrom DEF Init, IsTyped
<1>2. ASSUME IsOfSubject, IsBound, IsTyped, [Next]_vars
      PROVE  IsTyped'
  <2>1. CASE Gathers
    <3>1. /\ state = "DATA_GATHERING" /\ state' \in {state, "crashed"} /\ told' = told
      BY <2>1, GathersInTime
    <3>2. steps' = steps
      BY <2>1 DEF Gathers, Expire, Skip, GetNativeBalance, BalancesFromMoralis,
         BalancesFromTransfers, BalancesFromAllowlist, BalancesUnavailable,
         GetTokenApprovals, ApprovalsUnavailable, ApprovalsCrash,
         TransfersFromMoralis, TransfersFromEtherscan, TransfersUnavailable,
         GetTokenPrices, GetTokenSecurity, GetRwaYieldExposure, ToolEnds
    <3>3. told = None
      BY <1>2, <3>1 DEF IsBound, Failures
    <3>4. QED  BY <1>2, <3>1, <3>2, <3>3 DEF IsTyped, Failures
  <2>2. CASE Begin \/ Weigh \/ Resume \/ BindEvidence
    <3>1. PICK to \in DOMAIN Moves : Transition(to)
      BY <2>2, MovesFrom DEF Begin, Weigh, Resume, BindEvidence
    <3>2. state' \in DOMAIN Moves \cup Failures /\ steps' \in 0 .. MaxSteps
      BY <1>2, <3>1, TransitionIsTyped DEF IsTyped
    <3>3. told' = told
      BY <2>2 DEF Begin, Weigh, Resume, BindEvidence
    <3>4. told = None
      BY <1>2, <2>2 DEF IsBound, Failures, Begin, Weigh, Gathered, Resume, BindEvidence
    <3>5. QED  BY <3>2, <3>3, <3>4 DEF IsTyped
  <2>3. CASE Evaluate
    <3>1. state' \in DOMAIN Moves \cup Failures /\ steps' \in 0 .. MaxSteps
      <4>1. CASE Transition("EVIDENCE_BINDING")
        BY <1>2, <4>1, MovesFrom, TransitionIsTyped DEF IsTyped
      <4>2. CASE state' = "unbound" /\ steps' = steps
        BY <1>2, <4>2 DEF IsTyped, Failures
      <4>3. QED  BY <2>3, <4>1, <4>2 DEF Evaluate
    <3>2. told = None /\ told' = told
      BY <1>2, <2>3 DEF Evaluate, IsBound, Failures
    <3>3. QED  BY <3>1, <3>2 DEF IsTyped
  <2>4. CASE Explain
    <3>1. Transition("SIMULATION_READY") /\ told'.mode = "rule_fallback"
          /\ UNCHANGED <<subject, answer>> /\ state = "EXPLAINING"
      BY <2>4 DEF Explain
    <3>2. state' \in DOMAIN Moves \cup Failures /\ steps' \in 0 .. MaxSteps
      BY <1>2, <3>1, MovesFrom, TransitionIsTyped DEF IsTyped
    <3>3. IsAssessed'
      BY <1>2, <3>1 DEF IsBound, IsAssessed
    <3>4. QED  BY <3>1, <3>2, <3>3 DEF IsTyped
  <2>5. CASE ExplainCandidate
    <3>1. PICK candidate \in Candidates :
             told' = [mode   |-> IF Passes(candidate, answer, BundleIds)
                                 THEN "llm_guarded" ELSE "rule_fallback",
                      claims |-> Explanation(candidate, answer, BundleIds)]
      BY <2>5 DEF ExplainCandidate
    <3>2. told'.mode \in {"rule_fallback", "llm_guarded"}
      BY <3>1
    <3>3. UNCHANGED <<state, steps, subject, answer>> /\ state = "SIMULATION_READY"
      BY <2>5 DEF ExplainCandidate
    <3>4. IsAssessed'
      BY <1>2, <3>3 DEF IsBound, IsAssessed
    <3>5. QED  BY <1>2, <3>2, <3>3, <3>4 DEF IsTyped
  <2>6. CASE UNCHANGED vars
    BY <1>2, <2>6 DEF vars, IsTyped, IsAssessed
  <2>7. QED
    BY <1>2, <2>1, <2>2, <2>3, <2>4, <2>5, <2>6 DEF Next, Gathers
<1>3. IsOfSubject /\ IsBound /\ IsOnItsWay /\ IsTyped => TypeOK
  <2> SUFFICES ASSUME IsOfSubject, IsBound, IsOnItsWay, IsTyped
               PROVE  TypeOK
    OBVIOUS
  <2>1. subject # None =>
          /\ subject.completeness \in [Fields -> Coverages]
          /\ \A a, b \in subject.evidence : a.id = b.id => a = b
          /\ \A a, b \in subject.held : a.token = b.token => a = b
    BY FixturesAssumption DEF IsOnItsWay, IsGathered, IsWhole, Unique
  <2>2. answer # None =>
          answer.score \in 0 .. 10000 /\ answer.level \in Range(Severities)
    BY ScoreIsInRange, LevelIsKnown DEF IsOfSubject, Assess
  <2>3. ASSUME told # None
        PROVE  /\ told.mode \in {"rule_fallback", "llm_guarded"}
               /\ \A c \in told.claims : c.type \in RiskTypes
    <3>1. answer.top = TopRisks(AllRisks(Scan(subject)))
      BY <2>3 DEF IsTyped, IsAssessed, Assess
    <3>2. \A c \in told.claims : \E r \in Range(answer.top) : c.type = r.type
      BY <2>3 DEF IsBound, ExplanationIsGrounded
    <3>3. QED  BY <2>3, <3>1, <3>2, TopTypes DEF IsTyped
  <2>4. /\ config \in Configs /\ wallet \in Wallets \cup {None}
        /\ at \in 1 .. Len(Tools) + 1 /\ expired \in BOOLEAN
    BY DEF IsOnItsWay
  <2>5. state \in DOMAIN Moves \cup Failures /\ steps \in 0 .. MaxSteps
    BY DEF IsTyped
  <2>6. told # None =>
          /\ told.mode \in {"rule_fallback", "llm_guarded"}
          /\ \A c \in told.claims : c.type \in RiskTypes
    BY <2>3
  <2>7. QED  BY ONLY <2>1, <2>2, <2>4, <2>5, <2>6, SMTT(30) DEF TypeOK
<1>4. QED  BY <1>1, <1>2, <1>3, OnItsWay, PTL DEF Spec
=============================================================================
