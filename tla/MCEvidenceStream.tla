-------------------------- MODULE MCEvidenceStream --------------------------
(***************************************************************************)
(* An instance of EvidenceStream for TLC.  A group of latency, errors and   *)
(* queue alerts of one service, which share a symptom; one of them is       *)
(* resolved, listed in another order, or has another severity; and an alert *)
(* without fingerprint, name and links, about a service nobody has listed.  *)
(* Lookups of logs fail, or find one line, or the same line in two          *)
(* spellings and another that is over the limit.                            *)
(***************************************************************************)
EXTENDS EvidenceStream

MCWords == {"checkout", "legacy", "14:07", "SEV1", "SEV2", "Latency", "Latency again",
            "latency-1", "errors-1", "queue-1", "latency", "errors", "queue",
            "slow", "p95", "backlog", "rollback", "unwritten", "panel", "v42",
            "timeout", " timeout", "refused"}
MCOwned == {"checkout"}
MCDeploysOf == [s \in MCWords |-> IF s = "checkout" THEN <<"v42">> ELSE <<>>]
MCRunbooks == {"rollback"}
MCPlaceholders == <<"alert-0", "alert-1", "alert-2">>

FiringAlert(fingerprint, name, symptoms, runbooks) ==
  [fingerprint |-> fingerprint, status |-> "firing", startsAt |-> "14:07",
   service |-> "checkout", severity |-> NoValue, alertname |-> name,
   symptoms |-> symptoms, runbooks |-> runbooks, links |-> <<"panel">>]

Latency == FiringAlert("latency-1", "latency", <<"slow", "p95">>, <<"rollback">>)
Errors  == FiringAlert("errors-1", "errors", <<"slow">>, <<"unwritten">>)
Queue   == FiringAlert("queue-1", "queue", <<"backlog">>, <<>>)
Unnamed == [FiringAlert(NoValue, NoValue, <<"slow">>, <<"unwritten">>)
              EXCEPT !.service = "legacy", !.links = <<>>]

Resolved(a) == [a EXCEPT !.status = "resolved"]

Common(severity, alerts) ==
  [service |-> NoValue, severity |-> severity, title |-> "Latency", alerts |-> alerts]

MCNotifications ==
  {Common("SEV1", <<Latency>>),
   Common("SEV2", <<Latency, Errors, Queue>>), Common("SEV2", <<Latency, Queue, Errors>>),
   [Common("SEV2", <<Resolved(Errors), Latency>>) EXCEPT !.title = "Latency again"],
   Common("SEV2", <<Resolved(Latency), Resolved(Errors)>>),
   Common(NoValue, <<Unnamed>>), Common("SEV2", <<>>)}

MCLogReplies ==
  [streams : {<<>>, << <<"timeout">> >>, << <<" timeout">>, <<"timeout", "refused">> >>}]

MCIncidents == {"latency-1", "unknown"}

MCTexts ==
  UNION {ToSet(BuildPackage(n, r).evidence) :
           n \in {m \in MCNotifications : Accepted(m) /\ Active(m)}, r \in MCLogReplies}
Trimmed(t) == [t EXCEPT !.words = IF @ = " timeout" THEN "timeout" ELSE @]
MCNormal == [t \in MCTexts |-> Trimmed(t)]
MCItems == {t \in MCTexts : Trimmed(t) = t}
MCTierOf == [i \in MCItems |-> SourceTier[i.source]]

MCContexts == {"logs", "service", "runbook", "verification"}
MCFactValues == {"Latency", "Latency again", "SEV1", "SEV2", "UNKNOWN", "active", "checkout", "legacy"}
=============================================================================
