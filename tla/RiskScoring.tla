---------------------------- MODULE RiskScoring ----------------------------
(***************************************************************************)
(* The numbers of a risk assessment: the scorer's points, its level and    *)
(* action, the action engine's decision with the graph's risk, and the     *)
(* tier of the warning text (backend/app/services/nlp/risk_scorer.py,      *)
(* warning_generator.py, services/intervention/action_engine.py).  Each of *)
(* the four keeps thresholds of its own.                                   *)
(*                                                                         *)
(* Confidences are in 1/10000, weights and graph risks in percent, points  *)
(* in 1/1000000; the code's floats are taken as exact.                     *)
(***************************************************************************)
EXTENDS Integers

Least(a, b) == IF a <= b THEN a ELSE b

\* ActiveModel's defaults: load_from_db is never called, and hot_swap is called
\* with a version only.
TransformerWeight == 60
GbmWeight == 40

Point == 1000000

Certain == 10000
Confidence == 0..Certain
Full == 100
Percent == 0..Full

\* A SessionContext.  Its duration, number of messages and UPI flag are not
\* used, and no caller sets its behavioral score.
Evidence == [conf : Confidence, risky : BOOLEAN, unknown : BOOLEAN, reports : Nat, entities : Nat]

\* Mutant: the classifier's confidence is not weighted.
UnweightedConfidence(c) == c * 35 * 100

\* The confidence counts whether or not the predicted class is a scam.
ConfidencePoints(c) == c * 35 * TransformerWeight
ReportPoints(n) == Least(20, 5 * n) * Point

\* Mutant: the points for many entities are counted below four as well.
FewEntitiesCount(n) == Least(10, 2 * (n - 3)) * GbmWeight * 10000

EntityPoints(n) == IF n > 3 THEN Least(10, 2 * (n - 3)) * GbmWeight * 10000 ELSE 0

Points(x) ==
  ConfidencePoints(x.conf) + (IF x.risky THEN 25 * Point ELSE 0)
  + (IF x.unknown THEN 20 * Point ELSE 0) + ReportPoints(x.reports) + EntityPoints(x.entities)

Score(x) == Least(Full, Points(x) \div Point)

Level(score) ==
  IF score <= 30 THEN "LOW"
  ELSE IF score <= 50 THEN "MEDIUM"
  ELSE IF score <= 70 THEN "HIGH" ELSE "CRITICAL"

\* Codes of InterventionDecision and RiskScore, by severity.
Severity == [NONE |-> 0, SOFT_WARNING |-> 1, HARD_BLOCK |-> 2,
             FREEZE_AND_REPORT |-> 3, CRITICAL_REPORT |-> 4]
Action == DOMAIN Severity

RecommendedAction(score) ==
  IF score <= 30 THEN "NONE"
  ELSE IF score <= 50 THEN "SOFT_WARNING"
  ELSE IF score <= 70 THEN "HARD_BLOCK"
  ELSE IF score <= 85 THEN "FREEZE_AND_REPORT" ELSE "CRITICAL_REPORT"

\* Mutant: the graph counts up to 50 points.
GraphCountsMore(score, graph) ==
  RecommendedAction(Least(Full, score + (graph * 50) \div 100))

\* The coached-victim override needs a behavioral context, which no caller gives.
Decide(score, graph) ==
  LET final == Least(Full, score + (graph * 20) \div 100)
  IN  IF final <= 30 THEN "NONE"
      ELSE IF final <= 50 THEN "SOFT_WARNING"
      ELSE IF final <= 70 THEN "HARD_BLOCK"
      ELSE IF final <= 85 THEN "FREEZE_AND_REPORT" ELSE "CRITICAL_REPORT"

\* Mutant: the warnings go by the thresholds of the actions.
LateWarning(scam, score) ==
  IF ~ scam THEN "legitimate"
  ELSE IF score > 85 THEN "critical" ELSE IF score > 70 THEN "high" ELSE "medium"

\* A type without texts, "unknown", gets the text for a legitimate message.
WarningTier(scam, score) ==
  IF ~ scam THEN "legitimate"
  ELSE IF score >= 70 THEN "critical" ELSE IF score >= 40 THEN "high" ELSE "medium"
=============================================================================
