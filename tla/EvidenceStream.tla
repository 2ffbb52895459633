-------------------------- MODULE EvidenceStream ---------------------------
(***************************************************************************)
(* The evidence incidents get over time: notifications, one after another   *)
(* (the coordinator's doing), each made into a package by AlertIntake,      *)
(* compared by EvidenceDelta with the package of the latest retained run of *)
(* its incident, which it replaces when it is triaged; and the outcome that *)
(* a resolved notification records: handleGrafanaWebhook and                *)
(* handleEvidenceReentry of server/webhook.ts in read-only mode.            *)
(***************************************************************************)
EXTENDS EvidenceDelta, AlertIntake

CONSTANTS Notifications,  \* signed notifications Grafana may send
          LogReplies,     \* what a log lookup may come to
          Incidents,      \* incident ids
          None

ASSUME StreamAssumption ==
  /\ Notifications \subseteq Notification
  /\ LogReplies \subseteq LogReply
  /\ \A n \in Notifications : Accepted(n) => IncidentOf(n) \in Incidents
  /\ None \notin Package \cup Notifications

\* Normalising a text does not change its source, and the source has a tier.
ASSUME SourceAssumption ==
  /\ \A t \in Texts : Normal[t].source = t.source
  /\ \A i \in Items : TierOf[i] = SourceTier[i.source]

\* Accepted notifications, and the packages that may be made of a firing one.
Firing == {n \in Notifications : Accepted(n) /\ Active(n)}
AllResolved == {n \in Notifications : Accepted(n) /\ ~Active(n)}

PackagesOf == [n \in Firing |-> {BuildPackage(n, reply) : reply \in LogReplies}]

Packages == UNION Range(PackagesOf)

ASSUME PackagesAssumption == Packages \subseteq Package

VARIABLES baseline,   \* the package of the latest retained run of an incident
          resolved,   \* incidents Grafana's notifications have recorded as resolved
          subject,    \* the last firing notification that got its answer ...
          latest,     \* ... the package made of it ...
          prior,      \* ... what it was compared with ...
          decision    \* ... and the decision about it

last == <<subject, latest, prior, decision>>
vars == <<baseline, resolved, last>>

TypeOK ==
  /\ baseline \in [Incidents -> Packages \cup {None}]
  /\ resolved \in SUBSET Incidents
  /\ subject \in Notifications \cup {None}
  /\ {latest, prior} \subseteq Packages \cup {None}
  /\ decision \in Decision \cup {None}

Init ==
  /\ baseline = [i \in Incidents |-> None]
  /\ resolved = {}
  /\ subject = None
  /\ latest = None
  /\ prior = None
  /\ decision = None

\* The run of a triaged delivery is the next baseline.
BaselineAfter(i, p, d) == IF d.outcome = "not_material" THEN baseline[i] ELSE p

Deliver(n, p, d) ==
  LET i == IncidentOf(n)
  IN  /\ subject' = n
      /\ latest' = p
      /\ prior' = baseline[i]
      /\ decision' = d
      /\ baseline' = [baseline EXCEPT ![i] = BaselineAfter(i, p, d)]
      /\ UNCHANGED resolved

\* Without a baseline every delivery is triaged.
FirstObservation(n, p) ==
  /\ baseline[IncidentOf(n)] = None
  /\ Deliver(n, p, [outcome |-> "first_observation", basis |-> "no_baseline"])

Redelivery(n, p) ==
  /\ baseline[IncidentOf(n)] # None
  /\ \E d \in Decisions(baseline[IncidentOf(n)], p) : Deliver(n, p, d)

\* A notification with no firing alert records a resolved outcome about the
\* latest retained run, if there is one.
Resolve(n) ==
  /\ baseline[IncidentOf(n)] # None
  /\ resolved' = resolved \cup {IncidentOf(n)}
  /\ UNCHANGED <<baseline, last>>

\* The runs of an incident expire and are swept; so do its outcomes.
ExpireRuns(i) ==
  /\ baseline' = [baseline EXCEPT ![i] = None]
  /\ UNCHANGED <<resolved, last>>

ExpireOutcomes(i) ==
  /\ resolved' = resolved \ {i}
  /\ UNCHANGED <<baseline, last>>

\* A delivery whose triage or transaction fails is answered with an error and
\* leaves nothing behind.
Next ==
  \/ \E n \in Firing : \E p \in PackagesOf[n] : FirstObservation(n, p) \/ Redelivery(n, p)
  \/ \E n \in AllResolved : Resolve(n)
  \/ \E i \in Incidents : ExpireRuns(i) \/ ExpireOutcomes(i)

Spec == Init /\ [][Next]_vars

\* The state buildIncidentLifecycleReview projects from what this module records;
\* operators and recovery, which also change it, are in LifecycleProjection.
LifecycleState(i) == IF i \in resolved THEN "resolved" ELSE "open"

-----------------------------------------------------------------------------
Compared == prior # None

\* The baseline of the last delivery's incident.
OnRecord == IF subject = None THEN None ELSE baseline[IncidentOf(subject)]

\* Nothing that operators must act on is ever suppressed: the run on record has
\* seen all operational evidence of the last delivery, as often as it was there,
\* the severity, status and service it named, and no context has arrived since
\* that the run was missing, whatever the classifier answered.
BaselineCoversLatest ==
  OnRecord # None =>
    /\ \A i \in Items : Operational(i) =>
         Count(ItemsOf(latest), i) <= Count(ItemsOf(OnRecord), i)
    /\ \A f \in Fields \ {"title"} : OnRecord.facts[f] = latest.facts[f]
    /\ OnRecord.missing \subseteq latest.missing

\* Every firing alert of the last notification, with all its symptoms, is in the
\* evidence of the run on record, also when it is not what the run was made for:
\* normalizeGrafanaPayload loses no alert of a group and the gate suppresses none.
FiringAlertsOnRecord ==
  OnRecord # None =>
    LET seen == ToSet(ItemsOf(OnRecord))
        shown(source, word) ==
          \E t \in Texts : t = [source |-> source, words |-> word] /\ Normal[t] \in seen
    IN  \A a \in ToSet(ActiveAlerts(subject)) :
          /\ a.alertname # NoValue => shown("alert", a.alertname)
          /\ \A word \in ToSet(a.symptoms) : shown("symptom", word)

\* An outage of the log store is not taken for a change of the incident: a
\* delivery that differs from the run on record only by the logs it lacks is
\* never material by policy.
LostLogsNotDecisive ==
  Compared =>
    LET others(p) == [i \in {i \in Items : i.source # "log"} |-> Count(ItemsOf(p), i)]
    IN  /\ prior.facts = latest.facts
        /\ others(prior) = others(latest)
        /\ "logs" \in latest.missing
        => decision.basis # "deterministic_policy"

Reorders(s, t) == \E b \in Bijection(DOMAIN s, DOMAIN t) : \A k \in DOMAIN s : s[k] = t[b[k]]

\* The order in which Grafana lists the alerts of a group is immaterial, as long
\* as the same service is found first, each alert has a name, and the severity is
\* common to them (nothing else in normalizeGrafanaPayload is positional but the
\* incident's id): two orders of the same alerts make equivalent packages.
AlertOrderImmaterial ==
  subject # None =>
    \A n \in Notifications \ {subject} :
      /\ [n EXCEPT !.alerts = <<>>] = [subject EXCEPT !.alerts = <<>>]
      /\ Reorders(n.alerts, subject.alerts)
      /\ n.severity # NoValue
      /\ \A a \in ToSet(n.alerts) : a.alertname # NoValue
      /\ Service(n) = Service(subject)
      => \A r \in LogReplies : Digest(BuildPackage(n, r)) = Digest(BuildPackage(subject, r))

\* The delta accounts for every difference in evidence: per item the references
\* to additions and removals make up the difference in number, not both occur,
\* and each reference names one occurrence.  So evidence is equivalent exactly
\* when its delta is empty, whatever its order and spelling, and then it is never
\* triaged again; no change, however small, is dropped without a reference to it.
DeltaIsExact ==
  Compared =>
    LET d == Delta(prior, latest)
        added(i) == {n \in DOMAIN d.added : d.added[n][2] = i}
        removed(i) == {n \in DOMAIN d.removed : d.removed[n][2] = i}
    IN  /\ \A i \in Items :
             /\ Cardinality(added(i)) + Count(ItemsOf(prior), i)
                  = Cardinality(removed(i)) + Count(ItemsOf(latest), i)
             /\ added(i) = {} \/ removed(i) = {}
        /\ IsInjective(d.added) /\ IsInjective(d.removed)
        /\ (Digest(prior) = Digest(latest)) = (DeltaRefs(d) = {})
        /\ decision.outcome = "material" => DeltaRefs(d) # {}

\* A resolved incident reopens when later material evidence is triaged.
MaterialReopens ==
  [][\A i \in Incidents :
       LifecycleState(i) = "resolved" /\ baseline'[i] # None /\ baseline'[i] # baseline[i]
         => LifecycleState(i)' # "resolved"]_vars
=============================================================================
