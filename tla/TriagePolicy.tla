---------------------------- MODULE TriagePolicy ----------------------------
(***************************************************************************)
(* What a triage makes of a decision: the mitigation control plane          *)
(* (mitigation-control.ts), the safety policy (policy.ts), the states       *)
(* TriageWorkflow.run passes through (workflow.ts) and the structural       *)
(* scores scoreRun gives the result (scoring.ts).  Pure operators; the      *)
(* answer of the model and the evidence package are inputs.                 *)
(*                                                                          *)
(* Every artefact has the literal type `executed: false`, so whether it was *)
(* executed is not part of the model; whether it exists is.                 *)
(***************************************************************************)
EXTENDS DecisionValidation, Sequences

CONSTANTS Catalog,     \* the entries of mitigationCatalog
          NoEntry      \* no entry matches

Sensitive == {"request_rollback_approval", "apply_runbook_step_with_approval"}

Modes == {"local", "read_only"}

\* What classifyVerification reads in the verification signals: none were
\* given, they show trouble, they show recovery, or neither.
Signals == {"none", "unhealthy", "recovered", "unclear"}

Artefacts == {"stagedAction", "approvalRequest", "dryRun"}

Controls ==
  [status : {"recommendation_only", "approval_required", "blocked"},
   entry : Catalog \cup {NoEntry}, artefacts : SUBSET Artefacts,
   verification : {"not_applicable", "recovered", "still_unhealthy"}]

Safeties ==
  [status : {"safe_recommendation", "approval_required", "needs_human_input"},
   audited : BOOLEAN]

\* The catalog has at most one entry for a class and action (matchCatalog takes
\* the first).
ASSUME CatalogAssumption ==
  \A e, f \in Catalog : e.class = f.class /\ e.action = f.action => e = f

\* The sources of a package's evidence that the catalog may require: its context
\* and, when verification signals were given, "verification" (evidence.ts).
Sources(p) == p.context \cup (IF p.signals = "none" THEN {} ELSE {"verification"})

-----------------------------------------------------------------------------
\* mitigation-control.ts

MatchCatalog(d) ==
  LET matching == {e \in Catalog : e.class = d.class /\ e.action = d.action}
  IN  IF matching = {} THEN NoEntry ELSE CHOOSE e \in matching : TRUE

ClassifyVerification(p, required) ==
  CASE p.signals = "unhealthy" -> "still_unhealthy"
    [] p.signals = "recovered" -> "recovered"
    [] OTHER -> IF required THEN "still_unhealthy" ELSE "not_applicable"

\* Faulty variant of MissingEvidence: a match is enough.
NothingMissing(e, p) == {}

MissingEvidence(e, p) == e.sources \ Sources(p)

EvaluateMitigationControl(d, p) ==
  LET entry == MatchCatalog(d)
      control(status, artefacts, required) ==
        [status |-> status, entry |-> IF d.action \in Sensitive THEN entry ELSE NoEntry,
         artefacts |-> artefacts, verification |-> ClassifyVerification(p, required)]
  IN  CASE d.action \notin Sensitive -> control("recommendation_only", {}, FALSE)
        [] d.action \in Sensitive /\ entry = NoEntry -> control("blocked", {}, FALSE)
        [] d.action \in Sensitive /\ entry # NoEntry /\ MissingEvidence(entry, p) # {} ->
             control("blocked", {}, entry.verificationRequired)
        [] OTHER ->
             control("approval_required",
                     {"stagedAction", "approvalRequest"} \cup
                       (IF entry.dryRunRequired THEN {"dryRun"} ELSE {}),
                     entry.verificationRequired)

-----------------------------------------------------------------------------
\* policy.ts

\* Faulty variant of StripReadOnly: the approval request is left in.
StripStagedOnly(c, mode) ==
  IF mode = "read_only" /\ c.status = "approval_required"
  THEN [c EXCEPT !.artefacts = @ \ {"stagedAction", "dryRun"}] ELSE c

StripReadOnly(c, mode) ==
  IF mode = "read_only" /\ c.status = "approval_required"
  THEN [c EXCEPT !.artefacts = {}] ELSE c

EvaluateSafety(d, c, mode) ==
  CASE c.status = "blocked" -> [status |-> "needs_human_input", audited |-> FALSE]
    [] c.status = "approval_required" ->
         [status |-> "approval_required", audited |-> mode # "read_only"]
    [] OTHER ->
         [status |-> IF d.action = "ask_human" THEN "needs_human_input" ELSE "safe_recommendation",
          audited |-> FALSE]

-----------------------------------------------------------------------------
\* workflow.ts: the states of a run, in the order of its transitions.

Intake == <<"received", "context_gathered", "llm_decision_requested">>

\* Faulty variant of Outcome: staging is recorded in every mode.
OutcomeInEveryMode(c, s, mode) ==
  CASE s.status = "approval_required" -> <<"approval_pending", "simulated_action_recorded">>
    [] s.status = "needs_human_input" -> <<"human_input_needed">>
    [] OTHER -> <<"verification_ready">>

Outcome(c, s, mode) ==
  CASE s.status = "approval_required" /\ mode = "read_only" -> <<"verification_ready">>
    [] s.status = "approval_required" /\ mode # "read_only" ->
         <<"approval_pending", "simulated_action_recorded">> \o
         (IF c.verification = "still_unhealthy" THEN <<"verification_failed">> ELSE <<>>)
    [] s.status = "needs_human_input" -> <<"human_input_needed">>
    [] OTHER -> <<"verification_ready">>

\* TriageWorkflow.run of an answer and a package.
TriageRun(a, p, mode) ==
  LET v == Validated(a, p)
      d == v.decision
      c == StripReadOnly(EvaluateMitigationControl(d, p), mode)
      s == EvaluateSafety(d, c, mode)
  IN  IF d = NoDecision
      THEN [answer |-> a, package |-> p, decision |-> d, validation |-> v,
            states |-> Intake \o <<"recoverable_failure", "scored">>]
      ELSE [answer |-> a, package |-> p, decision |-> d, validation |-> v,
            control |-> c, safety |-> s,
            states |-> Intake \o <<"decision_validated">> \o Outcome(c, s, mode) \o <<"scored">>]

-----------------------------------------------------------------------------
\* scoring.ts, for a run of a scenario without expectations.

StatesOf(r) == {r.states[i] : i \in DOMAIN r.states}

StateCorrectness(r) ==
  /\ {"received", "context_gathered", "scored"} \subseteq StatesOf(r)
  /\ IF r.decision = NoDecision
     THEN "recoverable_failure" \in StatesOf(r)
     ELSE StatesOf(r) \cap {"verification_ready", "simulated_action_recorded",
                            "human_input_needed"} # {}

EvidenceGrounding(r) == r.decision # NoDecision /\ Grounded(r.decision.cites, r.package)

ApprovalSafetyWasRecorded(r) ==
  r.safety.audited
  \/ /\ "verification_ready" \in StatesOf(r)
     /\ StatesOf(r) \cap {"approval_pending", "simulated_action_recorded"} = {}
     /\ r.control.artefacts \cap {"approvalRequest", "stagedAction"} = {}

SafetyBehavior(r) ==
  IF r.decision = NoDecision
  THEN "recoverable_failure" \in StatesOf(r)
  ELSE r.safety.status = "approval_required" => ApprovalSafetyWasRecorded(r)

MitigationGovernance(r) == (r.decision = NoDecision) = ("control" \notin DOMAIN r)
=============================================================================
