------------------------- MODULE DecisionValidation -------------------------
(***************************************************************************)
(* What the decision client makes of a model's answer (llm.ts): a bounded   *)
(* decision, which drives safety and must be valid, and an explanation      *)
(* around it, which drives nothing and loses what is not.  Pure operators.  *)
(*                                                                          *)
(* An answer is the parsed payload: a decision alone (the legacy form), or  *)
(* a decision with hypotheses, a finding summary and a recommendation, each *)
(* of which may be Missing (absent or malformed).  A text is the set of     *)
(* claims that the patterns of claimQualityWarnings find in it; that they   *)
(* search the texts joined, so that a claim may span two, is left out.      *)
(* Hypotheses are a set: nothing depends on their order.                    *)
(***************************************************************************)
EXTENDS Integers

CONSTANTS NoDecision,  \* the answer has no valid decision
          NoAnswer,    \* the model process failed, or its output is not JSON
          Missing      \* a part of a payload that is absent or malformed

IncidentClasses ==
  {"dependency_outage", "bad_deploy", "capacity_saturation", "noisy_alert",
   "insufficient_context", "unknown"}

NextActions ==
  {"escalate_owner", "request_rollback_approval", "apply_runbook_step_with_approval",
   "continue_monitoring", "ask_human", "gather_more_context"}

\* lowConfidenceThreshold, in percent.
LowConfidence == 55

Grounded(ids, p) == ids \subseteq p.ids

-----------------------------------------------------------------------------
\* validateDecisionPayload: one defect, and there is no decision.

WellFormed(d) == d # Missing /\ d.class \in IncidentClasses /\ d.action \in NextActions

Confident(d) == LowConfidence <= d.confidence /\ d.confidence <= 100

ValidateDecision(d, p) ==
  IF WellFormed(d) /\ Confident(d) /\ Grounded(d.cites, p) THEN d ELSE NoDecision

-----------------------------------------------------------------------------
\* validateExplanationPayload: a part with a defect is dropped, with a warning.

\* Faulty variant of SoundHypothesis: only what supports it is looked up.
SupportLookedUp(h, p) == h # Missing /\ Grounded(h.supporting, p)

SoundHypothesis(h, p) == h # Missing /\ Grounded(h.supporting \cup h.contradicting, p)

\* A recommendation explains the decision's action; it may not name one itself.
SoundRecommendation(r, p) == r # Missing /\ ~r.namesAction /\ Grounded(r.cites, p)

NoExplanation == [hypotheses |-> {}, summary |-> Missing, recommendation |-> Missing]

Explanation(a, p) ==
  [hypotheses     |-> IF a.hypotheses = Missing THEN {}
                      ELSE {h \in a.hypotheses : SoundHypothesis(h, p)},
   summary        |-> a.summary,
   recommendation |-> IF SoundRecommendation(a.recommendation, p) THEN a.recommendation ELSE Missing]

Claims(e) ==
  UNION ({h.claims : h \in e.hypotheses}
         \cup {part.claims : part \in {e.recommendation} \ {Missing}}
         \cup ({e.summary} \ {Missing}))

\* claimQualityWarnings: a deploy minutes before the incident, an owner of the
\* payment gateway.
Supported(claim, p) ==
  CASE claim = "deploy_minutes_before" -> p.recentChange
    [] claim = "gateway_owner"         -> "service:payment-gateway" \in p.ids

Warned(a, p) ==
  \/ a.hypotheses = Missing
  \/ \E h \in a.hypotheses : ~SoundHypothesis(h, p)
  \/ a.summary = Missing
  \/ ~SoundRecommendation(a.recommendation, p)
  \/ \E claim \in Claims(Explanation(a, p)) : ~Supported(claim, p)

ExplanationStatus(a, p) ==
  CASE ~a.expanded                  -> "not_available"
    [] a.expanded /\ Warned(a, p)   -> "degraded"
    [] a.expanded /\ ~Warned(a, p)  -> "valid"

-----------------------------------------------------------------------------
\* What a run holds of an answer without a decision: no explanation, no status.
Invalid == [decision |-> NoDecision, explanation |-> NoExplanation, status |-> "none"]

\* Faulty variant of Validated: an explanation with a warning fails the answer.
ValidatedAsAWhole(a, p) ==
  IF a = NoAnswer \/ ValidateDecision(a.decision, p) = NoDecision
       \/ ExplanationStatus(a, p) = "degraded"
  THEN Invalid
  ELSE [decision |-> a.decision,
        explanation |-> IF a.expanded THEN Explanation(a, p) ELSE NoExplanation,
        status |-> ExplanationStatus(a, p)]

\* decide of the decision clients, which turns every failure into an answer that
\* is not valid, and validateTriagePayload.
Validated(a, p) ==
  IF a = NoAnswer \/ ValidateDecision(a.decision, p) = NoDecision
  THEN Invalid
  ELSE [decision |-> ValidateDecision(a.decision, p),
        explanation |-> IF a.expanded THEN Explanation(a, p) ELSE NoExplanation,
        status |-> ExplanationStatus(a, p)]
=============================================================================
