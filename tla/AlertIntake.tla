----------------------------- MODULE AlertIntake -----------------------------
(***************************************************************************)
(* From a Grafana notification to an evidence package: the incident it is   *)
(* about (normalizeGrafanaPayload), the log lookup of its service (loki.ts) *)
(* and the package built of both and of the context on file (evidence.ts,   *)
(* context-sources).  Pure operators.                                       *)
(*                                                                          *)
(* A notification carries what its alerts have in common and the alerts in  *)
(* the order Grafana lists them; labels and annotations are fields, absent  *)
(* ones NoValue.  Texts are words: a symptom is a summary, a description or *)
(* the rendered values; a log line is what redaction left of it.            *)
(* Authentication, prohibited fields and malformed JSON reject a delivery   *)
(* before it counts and are left out.                                       *)
(***************************************************************************)
EXTENDS Naturals, Sequences, SequencesExt

CONSTANTS Words,         \* what labels, annotations, links and log lines are made of
          Placeholders,  \* grafana-alert-0, grafana-alert-1, ...
          LogLimit,      \* LOKI_LIMIT
          Owned,         \* services with an owner in services.json
          DeploysOf,     \* the changes deploys.json has of a service
          Runbooks,      \* references to runbooks on file
          NoValue

ASSUME IntakeAssumption ==
  /\ LogLimit \in Nat \ {0}
  /\ DeploysOf \in [Words -> Seq(Words)]

\* A label or an annotation.  Any status but firing counts as resolved.
Label == Words \cup {NoValue}

Alert == [fingerprint : Label, status : {"firing", "resolved"}, startsAt : Label,
          service : Label, severity : Label, alertname : Label,
          symptoms : Seq(Words), runbooks : Seq(Words), links : Seq(Words)]

Notification == [service : Label, severity : Label, title : Label, alerts : Seq(Alert)]

LogReply == [streams : Seq(Seq(Words))]

\* The first value present, or a default.
FirstOf(values, default) ==
  LET present == {k \in DOMAIN values : values[k] # NoValue}
  IN  IF present = {} THEN default ELSE values[Min(present)]

\* What a sequence has at some of its positions, in order.
Subsequence(s, keep) ==
  LET taken[n \in 0..Len(s)] ==
        IF n = 0 THEN <<>>
        ELSE IF n \in keep THEN Append(taken[n - 1], s[n]) ELSE taken[n - 1]
  IN  taken[Len(s)]

Unique(s) == Subsequence(s, {n \in DOMAIN s : \A m \in 1..(n - 1) : s[m] # s[n]})

-----------------------------------------------------------------------------
\* normalizeGrafanaPayload

ActiveAlerts(n) ==
  Subsequence(n.alerts, {k \in DOMAIN n.alerts : n.alerts[k].status = "firing"})

Active(n) == ActiveAlerts(n) # <<>>

RelevantAlerts(n) == IF Active(n) THEN ActiveAlerts(n) ELSE n.alerts

\* The service is looked for in all alerts, the severity in the relevant ones.
Service(n) ==
  FirstOf(<<n.service>> \o [k \in DOMAIN n.alerts |-> n.alerts[k].service], NoValue)

Severity(n) ==
  LET alerts == RelevantAlerts(n)
  IN  FirstOf(<<n.severity>> \o [k \in DOMAIN alerts |-> alerts[k].severity], "UNKNOWN")

Title(n) == FirstOf(<<n.title>>, "Grafana alert")

Accepted(n) ==
  /\ n.alerts # <<>>
  /\ Service(n) # NoValue
  /\ \E k \in DOMAIN RelevantAlerts(n) : RelevantAlerts(n)[k].startsAt # NoValue

\* firstFingerprint of the firing alerts, or of all when none is firing.
IncidentOf(n) ==
  LET alerts == RelevantAlerts(n)
  IN  FirstOf([k \in DOMAIN alerts |-> alerts[k].fingerprint], "unknown")

\* Faulty variant of AlertNames: all alerts go by the name of the first.
AlertNamesOfFirst(alerts) ==
  [k \in DOMAIN alerts |-> FirstOf(<<alerts[1].alertname>>, Placeholders[k])]

AlertNames(alerts) ==
  [k \in DOMAIN alerts |-> FirstOf(<<alerts[k].alertname>>, Placeholders[k])]

\* Faulty variant of Symptoms: each alert's replace those of the one before.
SymptomsOfLast(alerts) == Unique(Last(alerts).symptoms)

Symptoms(alerts) == Unique(FlattenSeq([k \in DOMAIN alerts |-> alerts[k].symptoms]))

RunbookRefs(alerts) == Unique(FlattenSeq([k \in DOMAIN alerts |-> alerts[k].runbooks]))

\* The fingerprint and the links of an alert.
VerificationSignals(alerts) ==
  LET fingerprint(a) == IF a.fingerprint = NoValue THEN <<>> ELSE <<a.fingerprint>>
  IN  Unique(FlattenSeq([k \in DOMAIN alerts |-> fingerprint(alerts[k]) \o alerts[k].links]))

-----------------------------------------------------------------------------
\* The log lookup.  A reply has streams of lines; what is not a reply (no client,
\* an error status, a timeout, too many bytes) counts as none.
EntriesFromPayload(streams) ==
  LET lines == FlattenSeq(streams)
  IN  SubSeq(lines, 1, IF Len(lines) < LogLimit THEN Len(lines) ELSE LogLimit)

LogLines(reply) == EntriesFromPayload(reply.streams)

-----------------------------------------------------------------------------
\* buildEvidencePackageFromIncident

SourceTier ==
  [alert |-> "current_signal", symptom |-> "current_signal", verification |-> "current_signal",
   deploy |-> "operational_context", log |-> "operational_context",
   service |-> "operational_context", runbook |-> "guidance"]

Found(source, words) == [k \in DOMAIN words |-> [source |-> source, words |-> words[k]]]

\* context-sources: the owner of a service, and the runbooks that are on file.
ServiceEvidence(service) == Found("service", IF service \in Owned THEN <<service>> ELSE <<>>)

RunbookEvidence(refs) ==
  Found("runbook", Subsequence(refs, {k \in DOMAIN refs : refs[k] \in Runbooks}))

\* Context is missing when the tools found nothing of it.  (The entry for an owner
\* names the service, which is among the facts of a package anyway.)
MissingContext(found) == {c \in DOMAIN found : found[c] = <<>>}

BuildPackage(n, reply) ==
  LET active  == ActiveAlerts(n)
      service == Service(n)
      found   == [logs         |-> Found("log", LogLines(reply)),
                  service      |-> ServiceEvidence(service),
                  runbook      |-> RunbookEvidence(RunbookRefs(active)),
                  verification |-> Found("verification", VerificationSignals(active))]
  IN  [facts    |-> [title |-> Title(n), severity |-> Severity(n), status |-> "active",
                     service |-> service],
       evidence |-> Found("alert", AlertNames(active)) \o Found("symptom", Symptoms(active))
                    \o Found("deploy", DeploysOf[service])
                    \o found.logs \o found.service \o found.runbook \o found.verification,
       missing  |-> MissingContext(found)]
=============================================================================
