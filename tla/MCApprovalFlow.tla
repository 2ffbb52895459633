--------------------------- MODULE MCApprovalFlow ---------------------------
(***************************************************************************)
(* Instances of QualityGates for TLC, and of ApprovalFlow in it: the catalog of the repository;        *)
(* answers whose decisions match it, miss it, need no approval, are not     *)
(* valid, with and without explanations that are whole, partly unusable,    *)
(* ungrounded or unsupported; packages with all, some or none of what the   *)
(* catalog requires and the answers cite.                                   *)
(***************************************************************************)
EXTENDS QualityGates

MCCatalog ==
  {[id |-> "rollback-approval", class |-> "bad_deploy",
    action |-> "request_rollback_approval", sources |-> {"deploy", "runbook", "verification"},
    dryRunRequired |-> TRUE, verificationRequired |-> TRUE],
   [id |-> "capacity-runbook-approval", class |-> "capacity_saturation",
    action |-> "apply_runbook_step_with_approval", sources |-> {"runbook", "verification"},
    dryRunRequired |-> TRUE, verificationRequired |-> TRUE]}

\* Every decision but that of a close call has a verification plan.
Decide(class, action, confidence, cites) ==
  [class |-> class, action |-> action, confidence |-> confidence, cites |-> cites,
   planned |-> confidence > LowConfidence]

Rollback == Decide("bad_deploy", "request_rollback_approval", 90, {"alert:0", "deploy:0"})
Capacity == Decide("capacity_saturation", "apply_runbook_step_with_approval", 83, {"runbook:rollback"})

Bare(d) == [expanded |-> FALSE, decision |-> d]

Explained(d, hypotheses, summary, recommendation) ==
  [expanded |-> TRUE, decision |-> d, hypotheses |-> hypotheses, summary |-> summary,
   recommendation |-> recommendation]

Hypothesis(claims, supporting, contradicting) ==
  [claims |-> claims, supporting |-> supporting, contradicting |-> contradicting]

Recommend(claims, cites, namesAction) ==
  [claims |-> claims, cites |-> cites, namesAction |-> namesAction]

MCAnswers ==
  {NoAnswer,
   Bare(Rollback),
   Explained(Rollback, {Hypothesis({}, {"deploy:0"}, {"runbook:rollback"})},
             {"deploy_minutes_before"}, Recommend({}, {"deploy:0"}, FALSE)),
   Explained(Rollback, {}, {}, Recommend({}, {"deploy:0", "runbook:rollback"}, FALSE)),
   Explained(Decide("unknown", "gather_more_context", 55, {"runbook:rollback"}), {}, {},
             Recommend({}, {"runbook:rollback"}, FALSE)),
   Bare(Decide("insufficient_context", "ask_human", 60, {"runbook:rollback", "prior:INC-1"})),
   Explained(Decide("dependency_outage", "escalate_owner", 80, {"prior:INC-1"}), {}, {},
             Recommend({}, {"prior:INC-1"}, FALSE)),
   Explained(Capacity, {Hypothesis({}, {"alert:0"}, {"deploy:0"})}, {},
             Recommend({"gateway_owner"}, {"alert:0"}, FALSE)),
   Explained(Capacity, Missing, {}, Recommend({}, {}, TRUE)),
   Bare(Decide("unknown", "request_rollback_approval", 55, {})),
   Explained(Decide("unknown", "ask_human", 70, {}), {Missing}, Missing, Missing),
   Bare(Decide("noisy_alert", "continue_monitoring", 54, {"alert:0"})),
   Explained(Decide("noisy_alert", "continue_monitoring", 100, {"alert:0"}), {}, {},
             Recommend({}, {"alert:0"}, FALSE)),
   Bare(Decide("noisy_alert", "close_incident", 90, {"alert:0"}))}

Package(context, signals, recentChange) ==
  [context |-> context, signals |-> signals, recentChange |-> recentChange,
   ids |-> {"alert:0"} \cup (IF "deploy" \in context THEN {"deploy:0"} ELSE {})
             \cup (IF "runbook" \in context THEN {"runbook:rollback"} ELSE {})
             \cup (IF "service" \in context THEN {"service:payment-gateway"} ELSE {})
             \cup (IF "prior_incident" \in context THEN {"prior:INC-1"} ELSE {})]

MCPackages ==
  {Package({}, "none", FALSE),
   Package({"deploy"}, "unclear", FALSE),
   Package({"runbook", "service", "prior_incident"}, "recovered", FALSE),
   Package({"deploy", "runbook"}, "unhealthy", TRUE),
   Package({"deploy", "runbook"}, "unclear", FALSE)}

MCTierOf ==
  [i \in UNION {p.ids : p \in MCPackages} |->
     CASE i = "alert:0" -> "current_signal"
       [] i \in {"deploy:0", "service:payment-gateway"} -> "operational_context"
       [] i = "runbook:rollback" -> "guidance"
       [] i = "prior:INC-1" -> "historical_context"]
=============================================================================
