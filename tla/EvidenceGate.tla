---------------------------- MODULE EvidenceGate ----------------------------
(***************************************************************************)
(* Material-evidence re-entry for one incident: handleEvidenceReentry of    *)
(* server/webhook.ts, run in the turn the coordinator gives a delivery, on  *)
(* top of the run store (persistence/in-memory.ts, persistence/postgres.ts) *)
(* and its retention sweep.                                                 *)
(*                                                                          *)
(* The coordinator is taken at its promise, IncidentSerializer, with one    *)
(* lane per server process.  A delivery carries the digest of its body,     *)
(* which fixes the run id, and the evidence package built from it; packages *)
(* with the same digest are the same value here.                            *)
(*                                                                          *)
(* The clock counts the runs and decisions that were written, so no two     *)
(* writes share an instant.  All records live equally long: `horizon` is    *)
(* the instant up to which they have expired.                               *)
(***************************************************************************)
EXTENDS Naturals

CONSTANTS Deliveries,  \* accepted webhook deliveries about firing alerts
          RunIds,      \* triage-run:<incident>:<body digest>
          RunIdOf,     \* the run id of a delivery's body
          Packages,    \* evidence packages, by digest
          Material,    \* pairs whose delta is material by deterministic policy
          Classifier,  \* a materiality classifier is configured
          Servers,     \* server processes
          Backend,     \* "memory" or "postgres"
          None

ASSUME GateAssumption ==
  /\ RunIdOf \in [Deliveries -> RunIds]
  /\ None \notin RunIds \cup Packages \cup Servers
  /\ Material \subseteq Packages \X Packages
  /\ Classifier \in BOOLEAN
  /\ Backend \in {"memory", "postgres"}
  /\ Backend = "memory" => \E s \in Servers : Servers = {s}

VARIABLES phase, lane, ticket, issued,   \* of IncidentSerializer
          evidence,    \* the package a delivery carries
          baseline,    \* the prior run it was compared with
          verdict,     \* outcome of its MaterialityDecision
          answer,      \* how its request ended
          runs,        \* incident_runs and evidence_snapshots
          decisions,   \* evidence_gate_decisions
          clock, horizon

queue == <<phase, lane, ticket, issued>>
request == <<evidence, baseline, verdict, answer>>
store == <<runs, decisions, clock, horizon>>
vars == <<queue, request, store>>

Coordinator == INSTANCE IncidentSerializer
  WITH Calls <- Deliveries, Lanes <- Servers, NoLane <- None

Run == [evidence : Packages, parent : RunIds \cup {None}, key : RunIds \cup {None},
        createdAt : Nat, keptFrom : Nat]

Decision == [prior : RunIds \cup {None}, digest : Packages, child : RunIds \cup {None},
             createdAt : Nat]

ASSUME NoneIsNoRecord == None \notin Run

Verdicts == {"first_observation", "material", "not_material"}

Answers == {"first_observation", "material_evidence", "non_material_evidence",
            "evidence_already_processed",
            "no_child_run",     \* 500: the stored decision has no child run
            "parent_missing",   \* 500: foreign key of the parent run
            "unacknowledged",   \* 500: the run was stored, but the store's answer was lost
            "failed",           \* 500: an awaited call failed
            "lost"}             \* the process stopped

ASSUME NoneIsNoAnswer == None \notin Answers

TypeOK ==
  /\ Coordinator!TypeOK
  /\ evidence \in [Deliveries -> Packages \cup {None}]
  /\ baseline \in [Deliveries -> RunIds \cup {None}]
  /\ verdict \in [Deliveries -> Verdicts \cup {None}]
  /\ answer \in [Deliveries -> Answers \cup {None}]
  /\ runs \in [RunIds -> Run \cup {None}]
  /\ decisions \in SUBSET Decision
  /\ clock \in Nat
  /\ horizon \in Nat

Init ==
  /\ Coordinator!Init
  /\ evidence = [d \in Deliveries |-> None]
  /\ baseline = [d \in Deliveries |-> None]
  /\ verdict = [d \in Deliveries |-> None]
  /\ answer = [d \in Deliveries |-> None]
  /\ runs = [r \in RunIds |-> None]
  /\ decisions = {}
  /\ clock = 0
  /\ horizon = 0

-----------------------------------------------------------------------------
\* The retained baseline: the newest run that has not expired.
Candidates == {r \in RunIds : runs[r] # None /\ runs[r].keptFrom > horizon}

IsLatest(r) == r \in Candidates /\ \A s \in Candidates : runs[s].createdAt <= runs[r].createdAt

LatestBaseline == IF Candidates = {} THEN {None} ELSE {r \in RunIds : IsLatest(r)}

\* What evaluateEvidenceReentry may answer for evidence p against run r.  The
\* classifier may answer either way, and its failure means material.
PossibleVerdicts(r, p) ==
  CASE r = None -> {"first_observation"}
    [] r # None /\ runs[r].evidence = p -> {"not_material"}
    [] r # None /\ <<runs[r].evidence, p>> \in Material -> {"material"}
    [] OTHER -> IF Classifier THEN {"material", "not_material"} ELSE {"material"}

\* Faulty variant of DecisionsFor: found by run id, not by evidence.
DecisionsByRunId(d) == {x \in decisions : x.child = RunIdOf[d]}

DecisionsFor(d) == {x \in decisions : x.prior = baseline[d] /\ x.digest = evidence[d]}

NewDecision(d, child) ==
  [prior |-> baseline[d], digest |-> evidence[d], child |-> child, createdAt |-> clock + 1]

\* Faulty variants of RunRecord: dated by the first run under the id, dated by
\* its parent.
RecordDatedByFirst(d) ==
  LET old == runs[RunIdOf[d]]
  IN  [evidence |-> evidence[d], parent |-> baseline[d], key |-> baseline[d],
       createdAt |-> IF old # None THEN old.createdAt ELSE clock + 1, keptFrom |-> clock + 1]

RecordDatedByParent(d) ==
  LET parent == runs[baseline[d]]
  IN  [evidence |-> evidence[d], parent |-> baseline[d], key |-> baseline[d],
       createdAt |-> IF baseline[d] # None THEN parent.createdAt ELSE clock + 1,
       keptFrom |-> clock + 1]

\* The run record built for d.  On a run id that is taken the in-memory store
\* replaces the record, Postgres updates all of it but its creation time.
RunRecord(d) ==
  LET old == runs[RunIdOf[d]]
  IN  [evidence |-> evidence[d],
       parent |-> baseline[d],
       key |-> baseline[d],
       createdAt |-> IF Backend = "postgres" /\ old # None THEN old.createdAt ELSE clock + 1,
       keptFrom |-> clock + 1]

\* Postgres refuses a child whose parent row is gone.
ParentAccepted(d) ==
  Backend = "postgres" => baseline[d] \in {None} \cup {r \in RunIds : runs[r] # None}

ChildRuns(d) == {x.child : x \in DecisionsFor(d)} \ {None}

-----------------------------------------------------------------------------
\* handleGrafanaWebhook up to the coordinator: the package is built, the
\* delivery queues up.
Receive(d, s) ==
  /\ Coordinator!Enter(d, s)
  /\ \E p \in Packages : evidence' = [evidence EXCEPT ![d] = p]
  /\ UNCHANGED <<baseline, verdict, answer, store>>

\* Faulty variant of Assess: the work does not wait for its turn.
AssessConcurrently(d) ==
  /\ phase[d] = "queued"
  /\ phase' = [phase EXCEPT ![d] = "running"]
  /\ \E r \in LatestBaseline :
       /\ baseline' = [baseline EXCEPT ![d] = r]
       /\ \E v \in PossibleVerdicts(r, evidence[d]) : verdict' = [verdict EXCEPT ![d] = v]
  /\ UNCHANGED <<lane, ticket, issued, evidence, answer, store>>

\* The turn of d: read the baseline and evaluate the evidence against it.
Assess(d) ==
  /\ Coordinator!Begin(d)
  /\ \E r \in LatestBaseline :
       /\ baseline' = [baseline EXCEPT ![d] = r]
       /\ \E v \in PossibleVerdicts(r, evidence[d]) : verdict' = [verdict EXCEPT ![d] = v]
  /\ UNCHANGED <<evidence, answer, store>>

Reply(d, a) ==
  /\ Coordinator!Leave(d)
  /\ answer' = [answer EXCEPT ![d] = a]
  /\ UNCHANGED <<evidence, baseline, verdict>>

\* recordEvidenceGateDecision: the first decision under a key stays.  The call
\* may fail although the store has written it.
Suppress(d) ==
  /\ verdict[d] = "not_material"
  /\ \E a \in {"non_material_evidence", "failed"} : Reply(d, a)
  /\ IF DecisionsFor(d) = {}
     THEN /\ decisions' = decisions \cup {NewDecision(d, None)}
          /\ clock' = clock + 1
     ELSE UNCHANGED <<decisions, clock>>
  /\ UNCHANGED <<runs, horizon>>

\* executeTriage and recordGatedTriageRun, which writes in one transaction and may
\* fail after it ...
Retriage(d) == phase[d] = "running" /\ verdict[d] \in {"first_observation", "material"}

RecordRun(d) ==
  /\ Retriage(d)
  /\ DecisionsFor(d) = {}
  /\ ParentAccepted(d)
  /\ \E a \in {IF verdict[d] = "material" THEN "material_evidence" ELSE "first_observation",
               "unacknowledged"} : Reply(d, a)
  /\ decisions' = decisions \cup {NewDecision(d, RunIdOf[d])}
  /\ runs' = [runs EXCEPT ![RunIdOf[d]] = RunRecord(d)]
  /\ clock' = clock + 1
  /\ UNCHANGED horizon

\* ... or fails on the parent ...
MissingParent(d) ==
  /\ Retriage(d)
  /\ DecisionsFor(d) = {}
  /\ ~ParentAccepted(d)
  /\ Reply(d, "parent_missing")
  /\ UNCHANGED store

\* ... or returns the run another delivery made of the same evidence ...
AlreadyProcessed(d) ==
  /\ Retriage(d)
  /\ \E r \in ChildRuns(d) : runs[r] # None
  /\ Reply(d, "evidence_already_processed")
  /\ UNCHANGED store

\* ... or throws, because the decision it finds has no child run.
MissingChild(d) ==
  /\ Retriage(d)
  /\ DecisionsFor(d) # {}
  /\ \A r \in ChildRuns(d) : runs[r] = None
  /\ Reply(d, "no_child_run")
  /\ UNCHANGED store

\* An awaited call (query, triage, transaction) rejects.
Fail(d) ==
  /\ phase[d] = "running"
  /\ Reply(d, "failed")
  /\ UNCHANGED store

-----------------------------------------------------------------------------
\* Time passes: the oldest records expire.
Age ==
  /\ horizon < clock
  /\ horizon' = horizon + 1
  /\ UNCHANGED <<queue, request, runs, decisions, clock>>

\* Faulty variant of Swept: runs go one instant before their decisions.
SweptEarly(r) == runs[r] # None /\ runs[r].keptFrom <= horizon + 1

\* The retention sweep.  Postgres clears the parent of a run that outlives it.
Swept(r) == runs[r] # None /\ runs[r].keptFrom <= horizon

ParentAfterSweep(r) ==
  IF Backend = "postgres" /\ runs[r].parent # None /\ Swept(runs[r].parent)
  THEN None ELSE runs[r].parent

CleanupExpired ==
  /\ runs' = [r \in RunIds |->
                IF runs[r] = None \/ Swept(r) THEN None
                ELSE [runs[r] EXCEPT !.parent = ParentAfterSweep(r)]]
  /\ decisions' = {x \in decisions : x.createdAt > horizon}
  /\ UNCHANGED <<queue, request, clock, horizon>>

\* A server process stops, and with it its in-memory store.
Crash(s) ==
  /\ Coordinator!Stop({s})
  /\ answer' = [d \in Deliveries |->
                  IF lane[d] = s /\ phase[d] \in {"queued", "running"} THEN "lost" ELSE answer[d]]
  /\ IF Backend = "memory"
     THEN runs' = [r \in RunIds |-> None] /\ decisions' = {}
     ELSE UNCHANGED <<runs, decisions>>
  /\ UNCHANGED <<evidence, baseline, verdict, clock, horizon>>

Quiet == (\A d \in Deliveries : phase[d] = "done") /\ UNCHANGED vars

Next ==
  \/ \E d \in Deliveries, s \in Servers : Receive(d, s)
  \/ \E d \in Deliveries :
       \/ Assess(d) \/ Suppress(d) \/ RecordRun(d) \/ MissingParent(d)
       \/ AlreadyProcessed(d) \/ MissingChild(d) \/ Fail(d)
  \/ Age
  \/ CleanupExpired
  \/ \E s \in Servers : Crash(s)
  \/ Quiet

Spec == Init /\ [][Next]_vars
-----------------------------------------------------------------------------
\* The run of d was written, whatever its sender was told.
Recorded(d) == answer[d] \in {"first_observation", "material_evidence", "unacknowledged"}

\* With one server process a delivery acts on the baseline it was judged
\* against: from the lookup in handleEvidenceReentry to the write no other
\* delivery replaces the latest retained run; it can at most expire.
VerdictOnCurrentBaseline ==
  \A d \in Deliveries :
    phase[d] = "running" =>
      baseline[d] \in LatestBaseline \cup (RunIds \ Candidates)

\* With one server process the retained baseline is the run of the delivery
\* that queued last among those that were triaged, also when their bodies
\* repeat: evidence is compared with the latest run, never with an older one.
\* (recordGatedTriageRun orders runs by creation time, the coordinator by turn.)
BaselineIsNewestWork ==
  LET triaged == {d \in Deliveries : Recorded(d) /\ RunIdOf[d] \in Candidates}
  IN  \A d \in triaged :
        (\A e \in triaged : ticket[e] <= ticket[d]) => IsLatest(RunIdOf[d])

\* Decisions and runs, two tables written together by recordGatedTriageRun and
\* swept separately by cleanupExpired, stay consistent: a decision that names a
\* child has that child, made of its evidence and parent, and every retained run
\* has the decision that admitted it.
DecisionsAndRunsAgree ==
  /\ \A x \in decisions :
       x.child # None =>
         /\ runs[x.child] # None
         /\ runs[x.child].key = x.prior
         /\ runs[x.child].evidence = x.digest
  /\ \A r \in RunIds :
       runs[r] # None =>
         \E x \in decisions :
           x.child = r /\ x.prior = runs[r].key /\ x.digest = runs[r].evidence

\* The same evidence against the same baseline gets one child run, whichever
\* servers process it and however often it is delivered, as long as the run is
\* kept; the unique key of evidence_gate_decisions decides the race.
OneChildPerEvidence ==
  \A r, s \in RunIds :
    runs[r] # None /\ runs[s] # None
    /\ runs[r].key = runs[s].key /\ runs[r].evidence = runs[s].evidence => r = s

\* Lineage leads back in time: a retained parent was created before its child,
\* so following parent_run_id ends.
LineageAcyclic ==
  \A r \in RunIds :
    runs[r] # None /\ runs[r].parent # None /\ runs[runs[r].parent] # None
      => runs[runs[r].parent].createdAt < runs[r].createdAt

\* A first observation or material change gets its run, or another delivery
\* already got one for the same evidence; the gate's own records never make it
\* an error.
MaterialGetsRun ==
  \A d \in Deliveries : answer[d] \notin {"no_child_run", "parent_missing"}
=============================================================================
