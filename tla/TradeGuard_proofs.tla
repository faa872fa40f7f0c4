-------------------------- MODULE TradeGuard_proofs --------------------------
(***************************************************************************)
(* What holds of the guard for every prompt of any number of figures: any  *)
(* natural leverage, margin and amount in any form, and any mode.          *)
(***************************************************************************)
EXTENDS TradeGuard, FiniteSetTheorems, TLAPS

-----------------------------------------------------------------------------
(* The score.                                                              *)

LEMMA DivMonotone ==
    ASSUME NEW a \in Nat, NEW b \in Nat, a <= b
    PROVE  a \div 100 \in Nat /\ b \div 100 \in Nat /\ a \div 100 <= b \div 100
  OBVIOUS

Gaps == {"none", "replay", "blocking"}

LEMMA BaseScoreMonotone ==
    ASSUME NEW l1 \in Nat, NEW l2 \in Nat, l1 <= l2,
           NEW m1 \in Nat, NEW m2 \in Nat, m1 <= m2,
           NEW g1 \in Gaps, NEW g2 \in Gaps, Penalty(g1) <= Penalty(g2)
    PROVE  /\ BaseScore(l1, m1, g1) \in 0 .. 100
           /\ BaseScore(l2, m2, g2) \in 0 .. 100
           /\ BaseScore(l1, m1, g1) <= BaseScore(l2, m2, g2)
<1> DEFINE x == 600 * l1 + 45 * m1 + 100 * Penalty(g1)
           y == 600 * l2 + 45 * m2 + 100 * Penalty(g2)
<1>1. Penalty(g1) \in Nat /\ Penalty(g2) \in Nat
  BY DEF Penalty
<1>2. x \in Nat /\ y \in Nat /\ x <= y
  BY <1>1
<1> HIDE DEF x, y
<1>3. x \div 100 \in Nat /\ y \div 100 \in Nat /\ x \div 100 <= y \div 100
  BY <1>2, DivMonotone
<1>4. /\ BaseScore(l1, m1, g1) = AtMost(100, x \div 100)
      /\ BaseScore(l2, m2, g2) = AtMost(100, y \div 100)
  BY DEF BaseScore, x, y
<1>5. QED  BY <1>3, <1>4 DEF AtMost

LEMMA ScoreMonotone ==
    ASSUME NEW l1 \in Nat, NEW l2 \in Nat, l1 <= l2,
           NEW m1 \in Nat, NEW m2 \in Nat, m1 <= m2,
           NEW g1 \in Gaps, NEW g2 \in Gaps, Penalty(g1) <= Penalty(g2)
    PROVE  /\ Score(l1, m1, g1) \in 0 .. 100
           /\ Score(l2, m2, g2) \in 0 .. 100
           /\ Score(l1, m1, g1) <= Score(l2, m2, g2)
<1>1. /\ BaseScore(l1, m1, g1) \in 0 .. 100
      /\ BaseScore(l2, m2, g2) \in 0 .. 100
      /\ BaseScore(l1, m1, g1) <= BaseScore(l2, m2, g2)
  BY BaseScoreMonotone
<1>2. /\ l1 >= 10 \/ m1 >= 60 => l2 >= 10 \/ m2 >= 60
      /\ g1 = "blocking" => g2 = "blocking"
  BY DEF Penalty, Gaps
<1>3. QED  BY <1>1, <1>2 DEF Score, AtLeast

\* Asking for less, or knowing more, never makes the guard stricter.
LEMMA EvaluateMonotone ==
    ASSUME NEW l1 \in Nat, NEW l2 \in Nat, l1 <= l2,
           NEW m1 \in Nat, NEW m2 \in Nat, m1 <= m2,
           NEW g1 \in Gaps, NEW g2 \in Gaps, Penalty(g1) <= Penalty(g2)
    PROVE  /\ Evaluate(l1, m1, g1).score <= Evaluate(l2, m2, g2).score
           /\ Strictness(Evaluate(l1, m1, g1).decision)
                <= Strictness(Evaluate(l2, m2, g2).decision)
<1> DEFINE score1 == Score(l1, m1, g1)
           score2 == Score(l2, m2, g2)
<1>1. score1 <= score2 /\ score1 \in 0 .. 100 /\ score2 \in 0 .. 100
  BY ScoreMonotone
<1>2. /\ Evaluate(l1, m1, g1).score = score1
      /\ Evaluate(l2, m2, g2).score = score2
      /\ Evaluate(l1, m1, g1).decision = Decide(score1, g1)
      /\ Evaluate(l2, m2, g2).decision = Decide(score2, g2)
  BY DEF Evaluate
<1> HIDE DEF score1, score2
<1>3. Strictness(Decide(score1, g1)) <= Strictness(Decide(score2, g2))
  BY <1>1 DEF Strictness, Decide, Penalty, Gaps
<1>4. QED  BY <1>1, <1>2, <1>3

LEMMA EvaluateType ==
    ASSUME NEW l \in Nat, NEW m \in Nat, NEW g \in Gaps
    PROVE  Evaluate(l, m, g) \in Verdict
<1>1. Penalty(g) <= Penalty(g) /\ l <= l /\ m <= m
  BY DEF Penalty
<1>2. Score(l, m, g) \in 0 .. 100
  BY <1>1, ScoreMonotone
<1>3. QED  BY <1>2 DEF Evaluate, Verdict, Decide, Decisions, Level, Levels

LEMMA GapProperties ==
    ASSUME NEW s1 \in Statuses, NEW s2 \in Statuses, Order(s1) <= Order(s2),
           NEW mentions
    PROVE  /\ Gap(s1, mentions) \in Gaps /\ Gap(s2, mentions) \in Gaps
           /\ Penalty(Gap(s1, mentions)) <= Penalty(Gap(s2, mentions))
  BY DEF Gap, Gaps, Penalty, Order, Statuses

-----------------------------------------------------------------------------
(* The combined coverage.                                                  *)

LEMMA CombineWorst ==
    ASSUME NEW statuses \in SUBSET Statuses, statuses # {}, NEW mode
    PROVE  /\ Combine(mode, statuses) \in Statuses
           /\ \A s \in statuses : Order(s) <= Order(Combine(mode, statuses))
<1>1. \E s \in statuses : \A x \in statuses : Order(x) <= Order(s)
  <2>1. CASE "unavailable" \in statuses
    BY <2>1 DEF Order, Statuses
  <2>2. CASE "unavailable" \notin statuses /\ "partial" \in statuses
    BY <2>2 DEF Order, Statuses
  <2>3. CASE /\ statuses \cap {"unavailable", "partial"} = {}
             /\ "replay" \in statuses
    BY <2>3 DEF Order, Statuses
  <2>4. CASE statuses = {"full"}
    BY <2>4 DEF Order
  <2>5. QED  BY <2>1, <2>2, <2>3, <2>4 DEF Statuses
<1> DEFINE worst == CHOOSE s \in statuses :
                        \A x \in statuses : Order(x) <= Order(s)
<1>2. worst \in statuses /\ \A x \in statuses : Order(x) <= Order(worst)
  BY <1>1
<1>3. Combine(mode, statuses) =
        IF mode = "demo_scenario" /\ worst = "full" THEN "replay" ELSE worst
  BY DEF Combine
<1> HIDE DEF worst
<1>4. QED  BY <1>2, <1>3 DEF Statuses, Order

LEMMA CombinedType ==
    ASSUME NEW r, NEW outcomes, NEW s \in Sources
    PROVE  /\ Combined(r, outcomes) \in Statuses
           /\ Order(Coverage(r, s, outcomes[s])) <= Order(Combined(r, outcomes))
<1> DEFINE statuses == {Coverage(r, x, outcomes[x]) : x \in Sources}
<1>1. \A x \in Sources : Coverage(r, x, outcomes[x]) \in Statuses
  BY DEF Coverage, FixtureCoverage, Statuses
<1>2. /\ statuses \in SUBSET Statuses /\ statuses # {}
      /\ Coverage(r, s, outcomes[s]) \in statuses
  BY <1>1
<1>3. Combined(r, outcomes) = Combine(r.mode, statuses)
  BY DEF Combined
<1> HIDE DEF statuses
<1>4. QED  BY <1>2, <1>3, CombineWorst

-----------------------------------------------------------------------------
(* The inductive invariant: every result is the one its step computed.     *)

Trace ==
    /\ step # "parse" => intent = Parse(request.prompt)
    /\ \A s \in Sources : outcome[s] \in {"unread"} \cup ReadOutcomes(s)
    /\ step \in {"positions", "decide", "done"} => outcome["market"] # "unread"
    /\ step = "done" =>
          /\ assessment.coverage = Combined(request, outcome)
          /\ assessment.verdict =
                Evaluate(intent.leverage, intent.margin,
                         Gap(assessment.coverage, request.mentionsCoverage))
          /\ assessment.proposal = Propose(intent, assessment.verdict.score)

LEMMA PromptType ==
    ASSUME NEW prompt \in Prompt
    PROVE  /\ DOMAIN prompt \subseteq Nat
           /\ \A k \in DOMAIN prompt : prompt[k] \in Figure /\ prompt[k].n \in Nat
<1>1. PICK len \in 0 .. MaxFigures : prompt \in [1 .. len -> Figure]
  BY DEF Prompt
<1>2. \A f \in Figure : f.n \in Nat
  BY NumbersAssumption DEF Figure
<1>3. QED  BY <1>1, <1>2, NumbersAssumption

\* The place that Match reads is the first.
LEMMA FirstPlace ==
    ASSUME NEW places \in SUBSET Nat, places # {}
    PROVE  \E k \in places : \A j \in places : k <= j
<1> DEFINE Upto == {0 .. k : k \in places}
<1>1. IsWellFoundedOn(StrictSubsetOrdering(Nat), FiniteSubsetsOf(Nat))
  BY FS_StrictSubsetOrderingWellFounded
<1>2. \A k \in Nat : 0 .. k \in FiniteSubsetsOf(Nat)
  BY FS_Interval DEF FiniteSubsetsOf
<1>3. Upto \subseteq FiniteSubsetsOf(Nat) /\ Upto # {}
  BY <1>2
<1>4. PICK least \in Upto :
         \A other \in Upto : ~(<<other, least>> \in StrictSubsetOrdering(Nat))
  BY <1>1, <1>3, WFMin
<1>5. PICK k \in places : least = 0 .. k
  OBVIOUS
<1>6. ASSUME NEW j \in places, ~(k <= j) PROVE FALSE
  <2>1. 0 .. j \subseteq 0 .. k /\ 0 .. j # 0 .. k
    BY <1>6
  <2>2. /\ 0 .. j \in SUBSET Nat /\ 0 .. k \in SUBSET Nat
        /\ 0 .. j \in Upto
    OBVIOUS
  <2>3. QED  BY <1>4, <1>5, <2>1, <2>2 DEF StrictSubsetOrdering
<1>7. QED  BY <1>6

LEMMA MatchType ==
    ASSUME NEW prompt \in Prompt, NEW places \in SUBSET DOMAIN prompt,
           places # {}
    PROVE  Match(prompt, places) \in Nat
<1>1. places \in SUBSET Nat
  BY PromptType
<1>2. (CHOOSE k \in places : \A j \in places : k <= j) \in places
  BY <1>1, FirstPlace
<1>3. QED  BY <1>2, PromptType DEF Match

LEMMA PlacesType ==
    ASSUME NEW prompt \in Prompt
    PROVE  /\ LeveragePlaces(prompt) \in SUBSET DOMAIN prompt
           /\ MarginPlaces(prompt) \in SUBSET DOMAIN prompt
           /\ AmountPlaces(prompt) \in SUBSET DOMAIN prompt
  BY DEF LeveragePlaces, MarginPlaces, AmountPlaces, Places

LEMMA ParseType == ASSUME NEW prompt \in Prompt PROVE Parse(prompt) \in Intent
<1>1. /\ LeveragePlaces(prompt) # {} => Match(prompt, LeveragePlaces(prompt)) \in Nat
      /\ MarginPlaces(prompt) # {} => Match(prompt, MarginPlaces(prompt)) \in Nat
      /\ AmountPlaces(prompt) # {} => Match(prompt, AmountPlaces(prompt)) \in Nat
  BY PlacesType, MatchType
<1> DEFINE margin == IF MarginPlaces(prompt) = {} THEN 10
                     ELSE AtMost(100, Match(prompt, MarginPlaces(prompt)))
           leverage == IF LeveragePlaces(prompt) = {} THEN 1
                       ELSE AtLeast(1, Match(prompt, LeveragePlaces(prompt)))
           defaulted ==
             (IF LeveragePlaces(prompt) = {} THEN {"leverage"} ELSE {})
               \cup (IF MarginPlaces(prompt) = {} THEN {"margin"} ELSE {})
<1>2. margin \in 0 .. 100 /\ leverage \in Nat \ {0}
  BY <1>1 DEF AtMost, AtLeast
<1>3. defaulted \in SUBSET {"leverage", "margin"}
  OBVIOUS
<1>4. Notional(prompt, margin) \in Nat
  BY <1>1 DEF Notional
<1>5. Parse(prompt) = [leverage |-> leverage, margin |-> margin,
                       notional |-> Notional(prompt, margin),
                       defaulted |-> defaulted]
  BY DEF Parse
<1> HIDE DEF margin, leverage, defaulted
<1>6. QED  BY <1>2, <1>3, <1>4, <1>5 DEF Intent

LEMMA InitInv == Init => TypeOK /\ Trace
  BY DEF Init, TypeOK, Trace, Outcomes

LEMMA ParseInv ==
    ASSUME TypeOK, Trace, ParseIntent PROVE TypeOK' /\ Trace'
<1>1. intent' \in Intent
  BY ParseType DEF ParseIntent, TypeOK, Request
<1>2. QED  BY <1>1 DEF ParseIntent, TypeOK, Trace, ReadOutcomes

LEMMA ReadInv ==
    ASSUME TypeOK, Trace,
           NEW source \in Sources, NEW next \in {"market", "positions", "decide"},
           source = "account" => next = "market",
           source = "market" => next = "positions",
           source = "positions" => next = "decide",
           Read(source, next)
    PROVE  TypeOK' /\ Trace'
<1>1. PICK how \in ReadOutcomes(source) :
         outcome' = [outcome EXCEPT ![source] = how]
  BY DEF Read
<1>2. how \in Outcomes /\ how # "unread"
  BY DEF ReadOutcomes, Outcomes
<1>3. step = source /\ step' = next /\ UNCHANGED <<request, intent, assessment>>
  BY DEF Read
<1>4. TypeOK'
  BY <1>1, <1>2, <1>3 DEF TypeOK, Sources
<1>5. \A s \in Sources : outcome'[s] \in {"unread"} \cup ReadOutcomes(s)
  BY <1>1 DEF Trace, TypeOK
<1>6. next \in {"positions", "decide"} => outcome'["market"] # "unread"
  BY <1>1, <1>2, <1>3 DEF Trace, TypeOK, Sources
<1>7. Trace'
  BY <1>3, <1>5, <1>6 DEF Trace, ReadOutcomes, Sources
<1>8. QED  BY <1>4, <1>7

LEMMA AssessInv ==
    ASSUME TypeOK, Trace, Assess PROVE TypeOK' /\ Trace'
<1> DEFINE status == Combined(request, outcome)
           gap == Gap(status, request.mentionsCoverage)
           verdict == Evaluate(intent.leverage, intent.margin, gap)
           proposal == Propose(intent, verdict.score)
<1>1. /\ assessment' = [coverage |-> status,
                        verdict |-> verdict, proposal |-> proposal]
      /\ step = "decide" /\ step' = "done"
      /\ UNCHANGED <<request, intent, outcome>>
  BY DEF Assess
<1>2. intent \in Intent
  BY <1>1 DEF TypeOK
<1>3. status \in Statuses
  BY CombinedType DEF Sources
<1> HIDE DEF status
<1>4. gap \in Gaps
  BY DEF Gap, Gaps
<1> HIDE DEF gap
<1>5. verdict \in Verdict
  BY <1>2, <1>4, EvaluateType DEF Intent
<1> HIDE DEF verdict
<1>6. proposal \in Proposal
  <2>1. intent.notional \div 4 \in Nat
    BY <1>2 DEF Intent
  <2>2. QED  BY <2>1 DEF Propose, Proposal, AtLeast
<1> HIDE DEF proposal
<1>7. assessment' \in Assessment
  BY <1>1, <1>3, <1>5, <1>6 DEF Assessment
<1>8. TypeOK'
  BY <1>1, <1>7 DEF TypeOK
<1>9. /\ assessment'.coverage = status
      /\ assessment'.verdict = verdict
      /\ assessment'.proposal = proposal
  BY <1>1
<1>10. Trace'
  BY <1>1, <1>9 DEF Trace, ReadOutcomes, status, verdict, gap, proposal
<1>11. QED  BY <1>8, <1>10

LEMMA Invariant == Spec => [](TypeOK /\ Trace)
<1>1. TypeOK /\ Trace /\ [Next]_vars => TypeOK' /\ Trace'
  <2> SUFFICES ASSUME TypeOK, Trace, [Next]_vars PROVE TypeOK' /\ Trace'
    OBVIOUS
  <2>1. CASE UNCHANGED vars
    BY <2>1 DEF vars, TypeOK, Trace, ReadOutcomes
  <2>2. CASE ReadAccount
    BY <2>2, ReadInv DEF ReadAccount, Sources
  <2>3. CASE ReadMarket
    BY <2>3, ReadInv DEF ReadMarket, Sources
  <2>4. CASE ReadPositions
    BY <2>4, ReadInv DEF ReadPositions, Sources
  <2>5. QED  BY <2>1, <2>2, <2>3, <2>4, ParseInv, AssessInv DEF Next
<1>2. QED  BY <1>1, InitInv, PTL DEF Spec

-----------------------------------------------------------------------------
(* Theorems.                                                               *)

\* What a finished assessment is made of.
LEMMA DoneFacts ==
    ASSUME TypeOK, Trace, Done
    PROVE  LET gap == Gap(assessment.coverage, request.mentionsCoverage)
           IN  /\ assessment.coverage \in Statuses
               /\ intent \in Intent
               /\ gap \in Gaps
               /\ assessment.verdict = Evaluate(intent.leverage, intent.margin, gap)
               /\ intent = Parse(request.prompt)
               /\ \A s \in Sources : Order(Coverage(request, s, outcome[s]))
                                         <= Order(assessment.coverage)
  BY CombinedType
     DEF TypeOK, Trace, Done, Assessment, Gap, Gaps

\* Every result of the check has its type, whatever numbers prompts name.
THEOREM TypeCorrect == Spec => []TypeOK
  BY Invariant, PTL

\* Missing live data always blocks.
THEOREM UnknownBlocks == Spec => []UnknownIsNotSafe
<1>1. TypeOK /\ Trace => UnknownIsNotSafe
  <2> SUFFICES ASSUME TypeOK, Trace, Done, request.mode = "live_read_only",
                      NEW s \in Sources, outcome[s] # "read"
               PROVE  /\ assessment.coverage # "full"
                      /\ assessment.verdict.decision = "block"
    BY DEF UnknownIsNotSafe
  <2>1. outcome[s] # "fixture"
    BY DEF Trace, ReadOutcomes
  <2>2. Coverage(request, s, outcome[s]) = "partial"
    BY <2>1 DEF Coverage
  <2>3. assessment.coverage \in {"partial", "unavailable"}
    BY <2>2, DoneFacts DEF Order, Statuses
  <2>4. /\ Gap(assessment.coverage, request.mentionsCoverage) = "blocking"
        /\ assessment.verdict
              = Evaluate(intent.leverage, intent.margin, "blocking")
    BY <2>3, DoneFacts DEF Gap
  <2>5. assessment.verdict.decision = "block"
    BY <2>4 DEF Evaluate, Decide
  <2>6. QED  BY <2>3, <2>5
<1>2. QED  BY <1>1, Invariant, PTL

\* No smaller trade and no better coverage is decided more strictly, whatever
\* leverage a prompt names.
THEOREM GuardMonotone == Spec => []NeverStricterForLess
<1>1. TypeOK /\ Trace => NeverStricterForLess
  <2> SUFFICES ASSUME TypeOK, Trace, Done,
                      NEW lev \in 1 .. intent.leverage,
                      NEW mar \in 0 .. intent.margin,
                      NEW status \in Statuses,
                      Order(status) <= Order(assessment.coverage)
               PROVE  LET less == Evaluate(lev, mar,
                                     Gap(status, request.mentionsCoverage))
                      IN  /\ less.score <= assessment.verdict.score
                          /\ Strictness(less.decision)
                                <= Strictness(assessment.verdict.decision)
    BY DEF NeverStricterForLess
  <2> DEFINE g1 == Gap(status, request.mentionsCoverage)
             g2 == Gap(assessment.coverage, request.mentionsCoverage)
  <2>1. /\ intent.leverage \in Nat /\ intent.margin \in Nat
        /\ lev \in Nat /\ lev <= intent.leverage
        /\ mar \in Nat /\ mar <= intent.margin
    BY DoneFacts DEF Intent
  <2>2. g1 \in Gaps /\ g2 \in Gaps /\ Penalty(g1) <= Penalty(g2)
    BY DoneFacts, GapProperties
  <2>3. assessment.verdict = Evaluate(intent.leverage, intent.margin, g2)
    BY DoneFacts
  <2> HIDE DEF g1, g2
  <2>4. /\ Evaluate(lev, mar, g1).score
              <= Evaluate(intent.leverage, intent.margin, g2).score
        /\ Strictness(Evaluate(lev, mar, g1).decision)
              <= Strictness(Evaluate(intent.leverage, intent.margin, g2).decision)
    BY <2>1, <2>2, EvaluateMonotone
  <2>5. QED  BY <2>3, <2>4 DEF g1
<1>2. QED  BY <1>1, Invariant, PTL

\* The hard limits hold of every figure of every prompt that the parser has not
\* overlooked.
THEOREM HardLimits == Spec => []HardLimitsHold
<1>1. TypeOK /\ Trace => HardLimitsHold
  <2> SUFFICES ASSUME TypeOK, Trace, Done PROVE HardLimitsHold
    BY DEF HardLimitsHold
  <2> DEFINE gap == Gap(assessment.coverage, request.mentionsCoverage)
             score == Score(intent.leverage, intent.margin, gap)
  <2>1. /\ intent = Parse(request.prompt) /\ intent \in Intent /\ gap \in Gaps
        /\ assessment.verdict = Evaluate(intent.leverage, intent.margin, gap)
    BY DoneFacts
  <2>2. /\ assessment.verdict.decision = Decide(score, gap)
        /\ assessment.verdict.level = Level(score)
    BY <2>1 DEF Evaluate
  <2>3. ASSUME NEW k \in DOMAIN request.prompt, TooMuch(request.prompt[k]),
               ~Overlooked(k)
        PROVE  /\ assessment.verdict.decision = "block"
               /\ assessment.verdict.level = "critical"
    <3>1. intent.leverage >= 10 \/ intent.margin >= 60
      <4> DEFINE prompt == request.prompt
                 figure == prompt[k]
      <4>1. prompt \in Prompt
        BY DEF TypeOK, Request
      <4>2. figure \in Figure /\ figure.n \in Nat /\ DOMAIN prompt \subseteq Nat
        BY <4>1, PromptType
      <4>3. ASSUME NEW places \in SUBSET DOMAIN prompt, k \in places,
                   ~\E j \in places : j < k
            PROVE  Match(prompt, places) = figure.n
        <5>1. \A j \in places : k <= j
          BY <4>2, <4>3
        <5>2. (CHOOSE i \in places : \A j \in places : i <= j) = k
          BY <4>2, <4>3, <5>1
        <5>3. QED  BY <5>2 DEF Match
      <4>4. /\ LeveragePlaces(prompt) \subseteq DOMAIN prompt
            /\ MarginPlaces(prompt) \subseteq DOMAIN prompt
        BY <4>1, PlacesType
      <4>5. CASE figure.means = "leverage"
        <5>1. figure.n >= 10
          BY <2>3, <4>5 DEF TooMuch
        <5>2. /\ k \in LeveragePlaces(prompt)
              /\ ~\E j \in LeveragePlaces(prompt) : j < k
          BY <2>1, <2>3, <4>5 DEF Overlooked, Parse
        <5>3. Match(prompt, LeveragePlaces(prompt)) = figure.n
          BY <4>3, <4>4, <5>2
        <5>4. intent.leverage = AtLeast(1, figure.n)
          BY <2>1, <5>2, <5>3 DEF Parse
        <5>5. QED  BY <4>2, <5>1, <5>4 DEF AtLeast
      <4>6. CASE figure.means = "margin"
        <5>1. figure.n >= 60
          BY <2>3, <4>6 DEF TooMuch
        <5>2. /\ k \in MarginPlaces(prompt)
              /\ ~\E j \in MarginPlaces(prompt) : j < k
          BY <2>1, <2>3, <4>6 DEF Overlooked, Parse
        <5>3. Match(prompt, MarginPlaces(prompt)) = figure.n
          BY <4>3, <4>4, <5>2
        <5>4. intent.margin = AtMost(100, figure.n)
          BY <2>1, <5>2, <5>3 DEF Parse
        <5>5. QED  BY <4>2, <5>1, <5>4 DEF AtMost
      <4>7. QED  BY <2>3, <4>5, <4>6 DEF TooMuch
    <3>2. BaseScore(intent.leverage, intent.margin, gap) \in 0 .. 100
      <4>1. /\ Penalty(gap) <= Penalty(gap)
            /\ intent.leverage <= intent.leverage /\ intent.leverage \in Nat
            /\ intent.margin <= intent.margin /\ intent.margin \in Nat
        BY <2>1 DEF Penalty, Intent
      <4>2. QED  BY ZenonT(40), <2>1, <4>1, BaseScoreMonotone
    <3>3. score >= 86
      BY <3>1, <3>2 DEF Score, AtLeast
    <3>4. score \in Int
      BY <3>2 DEF Score, AtLeast
    <3> HIDE DEF score
    <3>5. QED  BY <2>2, <3>3, <3>4 DEF Decide, Level
  <2>4. ASSUME \/ request.mentionsCoverage
               \/ request.btc /\ request.mode # "live_read_only"
        PROVE  assessment.verdict.decision = "block"
    <3>1. CASE request.mentionsCoverage
      BY <2>2, <3>1 DEF Gap, Decide
    <3>2. CASE request.btc /\ request.mode # "live_read_only"
      <4>1. outcome["market"] = "fixture"
        BY <3>2 DEF Trace, Done, ReadOutcomes, Sources
      <4>2. Coverage(request, "market", outcome["market"]) = "partial"
        BY <3>2, <4>1 DEF Coverage, FixtureCoverage
      <4>3. assessment.coverage \in {"partial", "unavailable"}
        BY <4>2, DoneFacts DEF Order, Statuses, Sources
      <4>4. QED  BY <2>2, <4>3 DEF Gap, Decide
    <3>3. QED  BY <2>4, <3>1, <3>2
  <2>5. QED  BY <2>3, <2>4 DEF HardLimitsHold
<1>2. QED  BY <1>1, Invariant, PTL

\* The score of a finished assessment is a number up to 100, and 54 or more if
\* the coverage blocks.
LEMMA DoneScore ==
    ASSUME TypeOK, Trace, Done
    PROVE  \E gap \in Gaps, score \in 0 .. 100 :
               /\ assessment.verdict.score = score
               /\ assessment.verdict.decision = Decide(score, gap)
               /\ assessment.verdict.level = Level(score)
               /\ gap = "blocking" => score >= 54
<1> DEFINE gap == Gap(assessment.coverage, request.mentionsCoverage)
           base == BaseScore(intent.leverage, intent.margin, gap)
           score == Score(intent.leverage, intent.margin, gap)
<1>1. /\ intent \in Intent /\ gap \in Gaps
      /\ assessment.verdict = Evaluate(intent.leverage, intent.margin, gap)
      /\ assessment.verdict \in Verdict
  BY DoneFacts DEF TypeOK, Done, Assessment
<1>2. base \in 0 .. 100
  <2>1. /\ Penalty(gap) <= Penalty(gap)
        /\ intent.leverage <= intent.leverage /\ intent.leverage \in Nat
        /\ intent.margin <= intent.margin /\ intent.margin \in Nat
    BY <1>1 DEF Penalty, Intent
  <2>2. QED  BY <1>1, <2>1, BaseScoreMonotone
<1>3. /\ assessment.verdict.score = score
      /\ assessment.verdict.decision = Decide(score, gap)
      /\ assessment.verdict.level = Level(score)
  BY <1>1 DEF Evaluate
<1>4. score \in 0 .. 100
  BY <1>1, <1>3 DEF Verdict
<1>5. gap = "blocking" => score >= 54
  <2> HIDE DEF gap
  <2>1. score = IF intent.leverage >= 10 \/ intent.margin >= 60
                THEN AtLeast(86, base)
                ELSE IF gap = "blocking" THEN AtLeast(54, base) ELSE base
    BY DEF Score
  <2> HIDE DEF score, base
  <2>2. QED  BY <1>2, <2>1 DEF AtLeast
<1> HIDE DEF gap, score
<1>6. QED  BY <1>1, <1>3, <1>4, <1>5

\* Decision and level agree for whatever numbers a prompt names.
THEOREM LevelsAgree == Spec => []LevelAgrees
<1>1. TypeOK /\ Trace => LevelAgrees
  <2> SUFFICES ASSUME TypeOK, Trace, Done PROVE LevelAgrees
    BY DEF LevelAgrees
  <2>1. PICK gap \in Gaps, score \in 0 .. 100 :
            /\ assessment.verdict.decision = Decide(score, gap)
            /\ assessment.verdict.level = Level(score)
            /\ gap = "blocking" => score >= 54
    BY DoneScore
  <2>2. Decide(score, gap) = "block" => Level(score) \in {"high", "critical"}
    BY <2>1 DEF Decide, Level
  <2>3. Decide(score, gap) = "allow" => Level(score) \in {"low", "moderate"}
    BY <2>1 DEF Decide, Level
  <2>4. QED  BY <2>1, <2>2, <2>3 DEF LevelAgrees
<1>2. QED  BY <1>1, Invariant, PTL

\* A proposal to a trade that is not allowed scores lower and would be allowed.
THEOREM ProposalsHelp == Spec => []ProposalHelps
<1>1. TypeOK /\ Trace => ProposalHelps
  <2> SUFFICES ASSUME TypeOK, Trace, Done,
                      assessment.verdict.decision # "allow"
               PROVE  /\ assessment.proposal.riskAfter
                             < assessment.verdict.score
                      /\ Evaluate(assessment.proposal.leverage,
                                  assessment.proposal.margin, "none").decision
                             = "allow"
    BY DEF ProposalHelps
  <2>1. PICK gap \in Gaps, score \in 0 .. 100 :
            /\ assessment.verdict.score = score
            /\ assessment.verdict.decision = Decide(score, gap)
            /\ gap = "blocking" => score >= 54
    BY DoneScore
  <2>2. assessment.proposal = Propose(intent, score)
    BY <2>1 DEF Trace, Done
  <2>3. /\ assessment.proposal.leverage = 3
        /\ assessment.proposal.margin = 15
        /\ assessment.proposal.riskAfter = IF score >= 70 THEN 38 ELSE 24
    BY <2>2 DEF Propose
  <2>4. score >= 35
    BY <2>1 DEF Decide
  <2>5. assessment.proposal.riskAfter < score
    BY <2>3, <2>4
  <2>6. Evaluate(3, 15, "none").decision = "allow"
    <3>1. (600 * 3 + 45 * 15 + 100 * 0) \div 100 = 24  OBVIOUS
    <3>2. BaseScore(3, 15, "none") = 24
      BY <3>1 DEF BaseScore, Penalty, AtMost
    <3>3. Score(3, 15, "none") = 24  BY <3>2 DEF Score
    <3>4. QED  BY <3>3 DEF Evaluate, Decide
  <2>7. QED  BY <2>1, <2>3, <2>5, <2>6
<1>2. QED  BY <1>1, Invariant, PTL
=============================================================================
