----------------------------- MODULE TradeGuard -----------------------------
(***************************************************************************)
(* One pre-flight check of InjectiveLens, build_preflight_assessment: the  *)
(* prompt is parsed into a trade intent (parser.py), the three read-only   *)
(* sources are read one after the other (adapters.py), their coverage is   *)
(* combined, the guard decides, and a safer trade is proposed (fixtures.py)*)
(*                                                                         *)
(* A prompt is the sequence of the figures in it.  Each has what its user  *)
(* means by it and the form in which it is written; the parser sees only   *)
(* the form.  Numbers are natural numbers: the parser truncates leverage   *)
(* and margin to int, and the float arithmetic of the score agrees with    *)
(* exact arithmetic on such inputs.                                        *)
(***************************************************************************)
EXTENDS Integers, Sequences

CONSTANTS
    Leverages,  \* leverages that prompts name
    Margins,    \* margin percentages that prompts name
    Amounts,    \* USD amounts that prompts name
    MaxFigures, \* how many figures a prompt has at most
    Modes,      \* modes that clients ask for
    None        \* not there

ASSUME NumbersAssumption ==
    /\ Leverages \subseteq Nat
    /\ Margins \subseteq Nat
    /\ Amounts \subseteq Nat
    /\ MaxFigures \in Nat

VARIABLES
    step,       \* the next call of build_preflight_assessment
    request,    \* the request body
    intent,     \* parse_trade_intent's result
    outcome,    \* how each source's read ended
    assessment  \* the finished assessment

vars == <<step, request, intent, outcome, assessment>>

Sources == {"account", "market", "positions"}

Statuses == {"full", "replay", "partial", "unavailable"}

\* fixture: not a live read.  no_url, error: the live adapter falls back to
\* the fixture.  no_id: the market endpoint answers without a real market id.
Outcomes == {"unread", "fixture", "read", "no_url", "error", "no_id"}

\* "x": 10x.  "margin": 60% of (available) margin.  "percent": 60%, or a 5%
\* stop.  "number": a number by itself, as in 10 times, 60 percent, 500 USD.
\* "glued": x10, where no pattern sees a number.
Figure == [means : {"leverage"}, form : {"x", "number", "glued"}, n : Leverages]
     \cup [means : {"margin"}, form : {"margin", "percent", "number"}, n : Margins]
     \cup [means : {"other"}, form : {"percent"}, n : Margins]
     \cup [means : {"amount"}, form : {"number"}, n : Amounts]

Prompt == UNION {[1 .. k -> Figure] : k \in 0 .. MaxFigures}

Request == [prompt : Prompt, btc : BOOLEAN, mentionsCoverage : BOOLEAN,
            mode : Modes]

Intent == [leverage : Nat \ {0}, margin : 0 .. 100, notional : Nat,
           defaulted : SUBSET {"leverage", "margin"}]

Decisions == {"allow", "warn", "block"}

Levels == {"low", "moderate", "high", "critical"}

Verdict == [decision : Decisions, score : 0 .. 100, level : Levels]

Proposal == [leverage : Nat, margin : Nat, notional : Nat, riskAfter : Nat]

Assessment == [coverage : Statuses, verdict : Verdict,
               proposal : Proposal]

TypeOK ==
    /\ step \in {"parse", "account", "market", "positions", "decide", "done"}
    /\ request \in Request
    /\ step # "parse" => intent \in Intent
    /\ outcome \in [Sources -> Outcomes]
    /\ step = "done" => assessment \in Assessment

-----------------------------------------------------------------------------
(* parser.py                                                               *)

AtLeast(bound, n) == IF n < bound THEN bound ELSE n
AtMost(bound, n) == IF n > bound THEN bound ELSE n

\* The places of the figures that a pattern matches, and the match: the first.
Places(prompt, forms) == {k \in DOMAIN prompt : prompt[k].form \in forms}

Match(prompt, places) ==
    prompt[CHOOSE k \in places : \A j \in places : k <= j].n

LeveragePlaces(prompt) == Places(prompt, {"x"})

\* Any percentage will do if none is said to be of the margin.
MarginPlaces(prompt) ==
    IF Places(prompt, {"margin"}) # {} THEN Places(prompt, {"margin"})
    ELSE Places(prompt, {"percent"})

\* A number of two to seven digits with word boundaries on both sides: an
\* amount, but also a percentage, or a leverage in words.
AmountPlaces(prompt) ==
    {k \in Places(prompt, {"margin", "percent", "number"}) :
        prompt[k].n >= 10 /\ prompt[k].n < 10000000}

NotAmounts == {1, 2, 3, 5, 10, 20, 50, 60, 100}

Notional(prompt, margin) ==
    LET places == AmountPlaces(prompt)
    IN  IF places # {} /\ Match(prompt, places) \notin NotAmounts
        THEN Match(prompt, places)
        ELSE IF margin >= 60 THEN 12500 ELSE 2500

\* Broken: the margin is not clamped.
ParseUnclamped(prompt) ==
    LET margin == IF MarginPlaces(prompt) = {} THEN 10
                  ELSE Match(prompt, MarginPlaces(prompt))
    IN  [leverage  |-> IF LeveragePlaces(prompt) = {} THEN 1
                       ELSE AtLeast(1, Match(prompt, LeveragePlaces(prompt))),
         margin    |-> margin,
         notional  |-> Notional(prompt, margin),
         defaulted |-> {}]

\* What is defaulted is said in the intent's warnings.
Parse(prompt) ==
    LET margin == IF MarginPlaces(prompt) = {} THEN 10
                  ELSE AtMost(100, Match(prompt, MarginPlaces(prompt)))
    IN  [leverage  |-> IF LeveragePlaces(prompt) = {} THEN 1
                       ELSE AtLeast(1, Match(prompt, LeveragePlaces(prompt))),
         margin    |-> margin,
         notional  |-> Notional(prompt, margin),
         defaulted |-> (IF LeveragePlaces(prompt) = {} THEN {"leverage"} ELSE {})
                  \cup (IF MarginPlaces(prompt) = {} THEN {"margin"} ELSE {})]

-----------------------------------------------------------------------------
(* Source coverage: adapters.py, source_coverage_fixture and               *)
(* combine_source_coverage.                                                *)

\* The fixtures know the market, and never the prompt's wording.
FixtureCoverage(r, source) ==
    IF source = "market" /\ r.btc THEN "partial"
    ELSE IF r.mode = "demo_scenario" THEN "replay"
    ELSE "full"

\* Broken: a failed live read keeps the coverage of its fixture.
CoverageOfFixture(r, source, how) ==
    CASE how = "read" -> "full"
      [] OTHER        -> FixtureCoverage(r, source)

Coverage(r, source, how) ==
    CASE how = "fixture" -> FixtureCoverage(r, source)
      [] how = "read"    -> "full"
      [] OTHER           -> "partial"

Order(status) == CASE status = "full"    -> 0
                   [] status = "replay"  -> 1
                   [] status = "partial" -> 2
                   [] OTHER              -> 3

\* The worst of the sources' statuses; a demo is a replay at best.
Combine(mode, statuses) ==
    LET worst == CHOOSE s \in statuses : \A x \in statuses : Order(x) <= Order(s)
    IN  IF mode = "demo_scenario" /\ worst = "full" THEN "replay" ELSE worst

Combined(r, outcomes) ==
    Combine(r.mode, {Coverage(r, s, outcomes[s]) : s \in Sources})

-----------------------------------------------------------------------------
(* evaluate_trade_risk                                                     *)

\* What the guard makes of the coverage, and of a prompt that mentions it.
Gap(status, mentionsCoverage) ==
    IF status \in {"partial", "unavailable"} \/ mentionsCoverage THEN "blocking"
    ELSE IF status = "replay" THEN "replay"
    ELSE "none"

Penalty(gap) == CASE gap = "blocking" -> 18
                  [] gap = "replay"   -> 8
                  [] OTHER            -> 0

\* int(leverage * 6 + margin * 0.45 + penalty), at most 100.
BaseScore(leverage, margin, gap) ==
    AtMost(100, (600 * leverage + 45 * margin + 100 * Penalty(gap)) \div 100)

\* Broken: the limits themselves are still let through.
ScoreOffByOne(leverage, margin, gap) ==
    LET base == BaseScore(leverage, margin, gap)
    IN  IF leverage > 10 \/ margin > 60 THEN AtLeast(86, base)
        ELSE IF gap = "blocking" THEN AtLeast(54, base)
        ELSE base

\* Broken: a limit raises the score only when it is met exactly.
ScoreAtLimitOnly(leverage, margin, gap) ==
    LET base == BaseScore(leverage, margin, gap)
    IN  IF leverage = 10 \/ margin = 60 THEN AtLeast(86, base)
        ELSE IF gap = "blocking" THEN AtLeast(54, base)
        ELSE base

Score(leverage, margin, gap) ==
    LET base == BaseScore(leverage, margin, gap)
    IN  IF leverage >= 10 \/ margin >= 60 THEN AtLeast(86, base)
        ELSE IF gap = "blocking" THEN AtLeast(54, base)
        ELSE base

Decide(score, gap) ==
    IF score >= 70 \/ gap = "blocking" THEN "block"
    ELSE IF score >= 35 THEN "warn"
    ELSE "allow"

Level(score) == IF score >= 80 THEN "critical"
                ELSE IF score >= 50 THEN "high"
                ELSE IF score >= 25 THEN "moderate"
                ELSE "low"

Evaluate(leverage, margin, gap) ==
    LET score == Score(leverage, margin, gap)
    IN  [decision |-> Decide(score, gap),
         score    |-> score,
         level    |-> Level(score)]

\* Broken: the score of a blocked trade's proposal for every trade under review.
ProposeFromReview(i, riskBefore) ==
    [leverage  |-> 3,
     margin    |-> 15,
     notional  |-> AtLeast(250, i.notional \div 4),
     riskAfter |-> IF riskBefore >= 35 THEN 38 ELSE 24]

\* safer_trade_simulation
Propose(i, riskBefore) ==
    [leverage  |-> 3,
     margin    |-> 15,
     notional  |-> AtLeast(250, i.notional \div 4),
     riskAfter |-> IF riskBefore >= 70 THEN 38 ELSE 24]

-----------------------------------------------------------------------------
Init ==
    /\ step = "parse"
    /\ request \in Request
    /\ intent = None
    /\ outcome = [s \in Sources |-> "unread"]
    /\ assessment = None

ParseIntent ==
    /\ step = "parse"
    /\ intent' = Parse(request.prompt)
    /\ step' = "account"
    /\ UNCHANGED <<request, outcome, assessment>>

\* What reading a source of the selected adapter can come to.
ReadOutcomes(source) ==
    IF request.mode # "live_read_only" THEN {"fixture"}
    ELSE {"read", "no_url", "error"}
            \cup (IF source = "market" THEN {"no_id"} ELSE {})

Read(source, next) ==
    /\ step = source
    /\ \E how \in ReadOutcomes(source) :
           outcome' = [outcome EXCEPT ![source] = how]
    /\ step' = next
    /\ UNCHANGED <<request, intent, assessment>>

ReadAccount == Read("account", "market")
ReadMarket == Read("market", "positions")
ReadPositions == Read("positions", "decide")

Assess ==
    /\ step = "decide"
    /\ LET status  == Combined(request, outcome)
           verdict == Evaluate(intent.leverage, intent.margin,
                               Gap(status, request.mentionsCoverage))
       IN  assessment' = [coverage  |-> status,
                          verdict   |-> verdict,
                          proposal  |-> Propose(intent, verdict.score)]
    /\ step' = "done"
    /\ UNCHANGED <<request, intent, outcome>>

Next == \/ ParseIntent
        \/ ReadAccount
        \/ ReadMarket
        \/ ReadPositions
        \/ Assess

Spec == Init /\ [][Next]_vars

-----------------------------------------------------------------------------
(* Properties.                                                             *)

Done == step = "done"

\* A live check that could not read all it wanted, or read a market without a
\* real id, blocks: "missing fields are unknown rather than safe" (README).
UnknownIsNotSafe ==
    Done /\ request.mode = "live_read_only"
         /\ (\E s \in Sources : outcome[s] # "read")
    => /\ assessment.coverage # "full"
       /\ assessment.verdict.decision = "block"

\* A leverage of 10x or a margin of 60% is a limit.
TooMuch(figure) == \/ figure.means = "leverage" /\ figure.n >= 10
                   \/ figure.means = "margin" /\ figure.n >= 60

\* The parser takes another figure for the one at k, or none, and says so.
Overlooked(k) ==
    LET means  == request.prompt[k].means
        places == IF means = "leverage" THEN LeveragePlaces(request.prompt)
                  ELSE MarginPlaces(request.prompt)
    IN  IF places = {} THEN means \in intent.defaulted
        ELSE k \notin places \/ \E j \in places : j < k

\* A trade at a limit or beyond is blocked as critical, unless the parser has
\* overlooked what the prompt says: it reads only the first figure of the forms
\* that it knows ("2x, at most 10x", "x10", "10 times" and "60 percent" get
\* through), and where it reads none the intent warns that it holds a default.
\* A prompt or a market that points at partial data is blocked.
HardLimitsHold ==
    Done =>
      /\ \A k \in DOMAIN request.prompt :
            TooMuch(request.prompt[k]) =>
              \/ /\ assessment.verdict.decision = "block"
                 /\ assessment.verdict.level = "critical"
              \/ Overlooked(k)
      /\ \/ request.mentionsCoverage
         \/ request.btc /\ request.mode # "live_read_only"
         => assessment.verdict.decision = "block"

Strictness(decision) == CASE decision = "allow" -> 0
                          [] decision = "warn"  -> 1
                          [] OTHER              -> 2

\* Asking for less, or knowing more, never makes the guard stricter: no lower
\* leverage, lower margin or better coverage has a harder decision or a higher
\* score than the assessed trade.
NeverStricterForLess ==
    Done =>
      \A lev \in 1 .. intent.leverage, mar \in 0 .. intent.margin,
         status \in {s \in Statuses : Order(s) <= Order(assessment.coverage)} :
          LET less == Evaluate(lev, mar, Gap(status, request.mentionsCoverage))
          IN  /\ less.score <= assessment.verdict.score
              /\ Strictness(less.decision)
                    <= Strictness(assessment.verdict.decision)

\* The decision and the risk level that the client shows side by side agree.
LevelAgrees ==
    Done =>
      /\ assessment.verdict.decision = "block"
            => assessment.verdict.level \in {"high", "critical"}
      /\ assessment.verdict.decision = "allow"
            => assessment.verdict.level \in {"low", "moderate"}

\* A trade that the guard does not allow gets a proposal with a lower score
\* ("Return a lower-risk trade proposal", the agent card), and with full
\* coverage the guard would allow what it proposes.
ProposalHelps ==
    Done /\ assessment.verdict.decision # "allow" =>
        LET proposal == assessment.proposal
        IN  /\ proposal.riskAfter < assessment.verdict.score
            /\ Evaluate(proposal.leverage, proposal.margin, "none").decision
                   = "allow"
=============================================================================
