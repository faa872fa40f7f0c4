---------------------------- MODULE WalletAdvice ----------------------------
(***************************************************************************)
(* What is said of an assessment after it was made: its explanation, with  *)
(* or without a language model's text (explain.py, llm_guard.py), and its  *)
(* simulations (simulation.py).                                            *)
(*                                                                         *)
(* Each type of risk has one text, so a claim's text is the type of the    *)
(* risk that it repeats, or None for a text of the model's own.  Of the    *)
(* explanation's prose it is kept whether it has a forbidden phrase.       *)
(***************************************************************************)
EXTENDS WalletRisk, Functions

RiskTypes == {"approval", "transfer", "concentration", "high_value_exposure",
              "token_security", "rwa_yield", "defi", "source_coverage",
              "stale_data", "wallet_activity"}

Claim(type, evidence) == [type |-> type, evidence |-> evidence]

\* Broken: only the risk that decides is explained.
RuleClaimsOfFirst(assessment, known) ==
    {Claim(r.type, r.evidence \cap known) :
        r \in {r \in Range(assessment.top) :
                  r = assessment.top[1] /\ r.evidence \cap known # {}}}

\* rule_based_explanation: the top risks that have evidence.
RuleClaims(assessment, known) ==
    {Claim(r.type, r.evidence \cap known) :
        r \in {r \in Range(assessment.top) : r.evidence \cap known # {}}}

\* validate_llm_claims
Passes(candidate, assessment, known) ==
    /\ ~candidate.forbidden
    /\ \A c \in candidate.claims :
          /\ \E r \in Range(assessment.top) : r.type = c.type
          /\ c.evidence # {}
          /\ c.evidence \subseteq known

\* guarded_explanation: the claims that are given out.
Explanation(candidate, assessment, known) ==
    IF candidate # None /\ Passes(candidate, assessment, known)
    THEN candidate.claims
    ELSE RuleClaims(assessment, known)

-----------------------------------------------------------------------------
(* Simulations change the scores of an assessment's parts.                 *)

\* subScores
Parts(scan) ==
    [approval |-> ApprovalsScore(scan), transfer |-> TransfersScore(scan),
     concentration |-> ConcentrationScore(scan), yield |-> YieldScore(scan),
     defi |-> DefiScore(scan)]

\* Its own weights; the floor under a critical approval is not laid.
SimulatedScore(parts) ==
    35 * parts.approval + 25 * parts.transfer + 20 * parts.concentration
        + 15 * parts.yield + 5 * parts.defi

SimulateApprovalRevoke(parts) ==
    SimulatedScore([parts EXCEPT !.approval = AtLeast(0, @ - 60)])

SimulatePortfolioAdjustment(parts) ==
    SimulatedScore([parts EXCEPT !.yield = AtLeast(0, @ - 30),
                                 !.concentration = AtLeast(0, @ - 20)])
=============================================================================
