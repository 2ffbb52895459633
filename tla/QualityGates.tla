---------------------------- MODULE QualityGates ----------------------------
(***************************************************************************)
(* What a client is told of a run, and what the recorded-triage gates make  *)
(* of that answer: runToResponse of the server (response-mapping.ts) and    *)
(* the six gates of evals/quality-gates.ts, which fail a change whose       *)
(* recorded triage is not what it was.  The gates see the answer only: not  *)
(* the run, the mode or the approval store, which the properties below      *)
(* compare them with.                                                       *)
(*                                                                          *)
(* A part of the answer that is left out is None.  The gates' checks of     *)
(* names and types (a status in the taxonomy, a boolean, an array), which   *)
(* the answer's type settles, are left out.                                 *)
(***************************************************************************)
EXTENDS ApprovalFlow

CONSTANT TierOf   \* the source tier of every evidence id

Tiers == {"current_signal", "operational_context", "guidance", "historical_context"}

Live == {"current_signal", "operational_context"}

ASSUME TierAssumption ==
  /\ \A i \in DOMAIN TierOf : TierOf[i] \in Tiers
  /\ \A p \in Packages : p.ids # {} /\ p.ids \subseteq DOMAIN TierOf

-----------------------------------------------------------------------------
\* response-mapping.ts

\* provenanceSummary: what is cited and is in the package, and its tiers.
Cited(d, p) == IF d = NoDecision THEN {} ELSE d.cites \cap p.ids

CitedTiers(d, p) == {TierOf[i] : i \in Cited(d, p)}

HistoricalOnly(tiers) == tiers = {"historical_context"}

\* Faulty variant of Support: whatever is cited supports.
AnySupport(tiers) == IF tiers = {} THEN "none" ELSE "current_or_operational"

Support(tiers) ==
  CASE HistoricalOnly(tiers) -> "historical_only"
    [] tiers \cap Live # {}  -> "current_or_operational"
    [] OTHER                 -> "none"

ProvenanceToResponse(d, p) ==
  [cited |-> Cited(d, p), tiers |-> CitedTiers(d, p), support |-> Support(CitedTiers(d, p))]

\* The decision behind a control is on the audit event of every sensitive action.
MitigationControlToResponse(d, c) ==
  [approvalRequired |-> c.status = "approval_required",
   catalogMatch |-> c.entry # NoEntry,
   dryRun |-> "dryRun" \in c.artefacts,
   stagedAction |-> "stagedAction" \in c.artefacts,
   auditEvent |-> d.action \in Sensitive]

RunToResponse(r) ==
  LET d == r.decision
      e == r.validation.explanation
  IN  [runStatus  |-> IF d = NoDecision THEN "recoverable_failure" ELSE "completed",
       decision   |-> IF d = NoDecision THEN None ELSE d,
       hypotheses |-> e.hypotheses,
       findingSummary |-> e.summary # Missing,
       recommendation |-> IF e.recommendation = Missing THEN None ELSE e.recommendation,
       evidence   |-> r.package.ids,
       provenance |-> ProvenanceToResponse(d, r.package),
       safety     |-> IF d = NoDecision THEN None ELSE r.safety.status,
       mitigation |-> IF d = NoDecision THEN None ELSE MitigationControlToResponse(d, r.control)]

-----------------------------------------------------------------------------
\* quality-gates.ts

\* knownEvidenceIdSet
KnownEvidence(a) == IF a.evidence # {} THEN a.evidence ELSE a.provenance.cited

EvidenceIds(part) == IF part = None THEN {} ELSE part.cites

SchemaContract(a) ==
  /\ a.runStatus = "completed"
  /\ a.decision # None
  /\ EvidenceIds(a.decision) # {}

EvidenceGrounded(a) ==
  /\ EvidenceIds(a.decision) # {}
  /\ EvidenceIds(a.decision) \subseteq KnownEvidence(a)
  /\ EvidenceIds(a.recommendation) \subseteq KnownEvidence(a) \cap EvidenceIds(a.decision)
  /\ \A h \in a.hypotheses : h.supporting \cup h.contradicting \subseteq KnownEvidence(a)

ProvenanceSupport(a) ==
  /\ a.provenance.cited # {}
  /\ a.provenance.support # "none"
  /\ EvidenceIds(a.decision) \subseteq a.provenance.cited

SafetyContract(a) == a.safety # None

\* Faulty variant of MitigationContract: a catalog match is enough.
MatchIsEnough(a) ==
  a.mitigation # None /\ (a.mitigation.approvalRequired => a.mitigation.catalogMatch)

MitigationContract(a) ==
  /\ a.mitigation # None
  /\ a.mitigation.approvalRequired =>
       /\ a.mitigation.catalogMatch
       /\ a.mitigation.dryRun
       /\ a.mitigation.stagedAction
       /\ a.mitigation.auditEvent

Readability(a) ==
  /\ a.findingSummary
  /\ a.recommendation # None
  /\ a.decision # None /\ a.decision.planned

\* evaluateRecordedTriageQuality: the gates that fail.
Failures(a) ==
  {g \in {<<"schema_contract", SchemaContract(a)>>,
          <<"evidence_grounding", EvidenceGrounded(a)>>,
          <<"provenance_support", ProvenanceSupport(a)>>,
          <<"safety_contract", SafetyContract(a)>>,
          <<"mitigation_contract", MitigationContract(a)>>,
          <<"recorded_triage_readability", Readability(a)>>} : ~g[2]}

Accepted(r) == Failures(RunToResponse(r)) = {}

-----------------------------------------------------------------------------
\* scoring.ts

\* isLowInformationClass
LowInformation == {"insufficient_context", "unknown"}

EvidenceQuality(r) ==
  /\ r.decision # NoDecision
  /\ LET tiers == CitedTiers(r.decision, r.package)
     IN  IF r.decision.class \in LowInformation THEN tiers # {}
         ELSE tiers \cap Live # {} /\ ~HistoricalOnly(tiers)

-----------------------------------------------------------------------------
\* A recorded triage that the gates accept can be acted on: a person finds in it
\* why (a summary and a recommendation that rests on the decision's own evidence)
\* and, when the safety policy asks for approval, the server really files the
\* request, with its dry run.  So no read-only run that needs approval is accepted:
\* the gates see nothing of the mode, but the policy has taken the staged action
\* out of the answer.
AcceptedRunsCanBeActedOn ==
  run # None /\ Accepted(run) =>
    LET e == run.validation.explanation
    IN  /\ e.summary # Missing /\ e.recommendation # Missing
        /\ e.recommendation.cites \subseteq run.decision.cites
        /\ run.safety.status = "approval_required" =>
             AsksForApproval(run) /\ "dryRun" \in run.control.artefacts

\* The two graders, the gates and the scorecard, differ in two ways.  The gates let
\* evidence from earlier incidents support a decision on its own, the scorecard
\* never does outside the low-information classes.  And the scorecard takes
\* guidance, with or without earlier incidents, for a decision of such a class; the
\* gates do not, although they take the earlier incidents alone.
GradersDifferOnHistory ==
  run # None /\ run.decision # NoDecision =>
    LET a == RunToResponse(run)
        tiers == CitedTiers(run.decision, run.package)
    IN  /\ ProvenanceSupport(a) /\ ~EvidenceQuality(run) => HistoricalOnly(tiers)
        /\ EvidenceQuality(run) /\ ~ProvenanceSupport(a) =>
             /\ "guidance" \in tiers /\ tiers \cap Live = {}
             /\ run.decision.class \in LowInformation
        /\ tiers \subseteq {"guidance"} => ~ProvenanceSupport(a)
=============================================================================
