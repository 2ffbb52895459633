------------------------- MODULE EvidenceGateProofs -------------------------
(***************************************************************************)
(* Theorems about EvidenceGate, for every set of deliveries, run ids,       *)
(* packages and servers and both stores.                                    *)
(***************************************************************************)
EXTENDS EvidenceGate, TLAPS

LEMMA VerdictsOfAssess ==
  ASSUME NEW r, NEW p, NEW v \in PossibleVerdicts(r, p)
  PROVE  v \in Verdicts
  BY DEF PossibleVerdicts, Verdicts

LEMMA BaselineRange ==
  ASSUME NEW r \in LatestBaseline
  PROVE  r \in RunIds \cup {None}
  BY DEF LatestBaseline, Candidates

LEMMA RunRecordType ==
  ASSUME TypeOK, NEW d \in Deliveries, evidence[d] \in Packages
  PROVE  RunRecord(d) \in Run /\ RunIdOf[d] \in RunIds
<1>1. RunIdOf[d] \in RunIds /\ clock + 1 \in Nat /\ baseline[d] \in RunIds \cup {None}
  BY GateAssumption DEF TypeOK
<1>2. runs[RunIdOf[d]] \in Run \cup {None}
  BY <1>1 DEF TypeOK
<1>3. runs[RunIdOf[d]] # None => runs[RunIdOf[d]].createdAt \in Nat
  BY <1>2 DEF Run
<1> QED BY <1>1, <1>3 DEF RunRecord, Run

\* Deliveries that queue carry a package.
QueuedCarryEvidence ==
  \A d \in Deliveries : phase[d] # "idle" => evidence[d] \in Packages

\* What the sweep leaves of a run.
LEMMA SweepKeeps ==
  ASSUME TypeOK, CleanupExpired, NEW r \in RunIds
  PROVE  /\ runs'[r] # None <=> runs[r] # None /\ runs[r].keptFrom > horizon
         /\ runs'[r] # None =>
              /\ runs'[r].evidence = runs[r].evidence /\ runs'[r].key = runs[r].key
              /\ runs'[r].createdAt = runs[r].createdAt /\ runs'[r].keptFrom = runs[r].keptFrom
              /\ runs'[r].parent \in {None, runs[r].parent}
<1> DEFINE kept == [runs[r] EXCEPT !.parent = ParentAfterSweep(r)]
<1>1. runs'[r] = IF runs[r] = None \/ Swept(r) THEN None ELSE kept
  BY DEF CleanupExpired
<1>2. CASE runs[r] = None
  BY <1>1, <1>2
<1>3. CASE runs[r] # None
  <2>1. runs[r] \in Run /\ horizon \in Nat
    BY <1>3 DEF TypeOK
  <2>2. ParentAfterSweep(r) \in {None, runs[r].parent}
    BY DEF ParentAfterSweep
  <2>3. kept \in Run
    BY <2>1, <2>2 DEF Run
  <2>4. kept # None
    BY <2>3, NoneIsNoRecord
  <2>5. /\ kept.evidence = runs[r].evidence /\ kept.key = runs[r].key
        /\ kept.createdAt = runs[r].createdAt /\ kept.keptFrom = runs[r].keptFrom
        /\ kept.parent = ParentAfterSweep(r)
    BY <2>1 DEF Run
  <2>6. runs[r].keptFrom > horizon <=> ~Swept(r)
    BY <1>3, <2>1 DEF Swept, Run
  <2> HIDE DEF kept
  <2> QED BY <1>1, <1>3, <2>2, <2>4, <2>5, <2>6
<1> QED BY <1>2, <1>3

LEMMA TypeStep ==
  TypeOK /\ QueuedCarryEvidence /\ [Next]_vars => TypeOK' /\ QueuedCarryEvidence'
<1> SUFFICES ASSUME TypeOK, QueuedCarryEvidence, [Next]_vars
             PROVE  TypeOK' /\ QueuedCarryEvidence'
  OBVIOUS
<1> USE DEF Coordinator!TypeOK, Coordinator!Phases
<1>1. ASSUME NEW d \in Deliveries, NEW s \in Servers, Receive(d, s)
      PROVE  TypeOK' /\ QueuedCarryEvidence'
  BY <1>1 DEF Receive, Coordinator!Enter, TypeOK, QueuedCarryEvidence, store
<1>2. ASSUME NEW d \in Deliveries, Assess(d) PROVE TypeOK' /\ QueuedCarryEvidence'
  <2>1. PICK r \in LatestBaseline :
          /\ baseline' = [baseline EXCEPT ![d] = r]
          /\ \E v \in PossibleVerdicts(r, evidence[d]) : verdict' = [verdict EXCEPT ![d] = v]
    BY <1>2 DEF Assess
  <2>2. baseline' \in [Deliveries -> RunIds \cup {None}]
    BY <2>1, BaselineRange DEF TypeOK
  <2>3. verdict' \in [Deliveries -> Verdicts \cup {None}]
    BY <2>1, VerdictsOfAssess DEF TypeOK
  <2> QED BY <1>2, <2>2, <2>3 DEF Assess, Coordinator!Begin, TypeOK, QueuedCarryEvidence, store
<1>3. ASSUME NEW d \in Deliveries, NEW a \in Answers, Reply(d, a)
      PROVE  /\ Coordinator!TypeOK' /\ answer' \in [Deliveries -> Answers \cup {None}]
             /\ UNCHANGED <<evidence, baseline, verdict>> /\ QueuedCarryEvidence'
             /\ evidence[d] \in Packages
  BY <1>3 DEF Reply, Coordinator!Leave, TypeOK, QueuedCarryEvidence
<1>4. ASSUME NEW d \in Deliveries, evidence[d] \in Packages, NEW r \in RunIds \cup {None}
      PROVE  NewDecision(d, r) \in Decision
  BY <1>4 DEF NewDecision, Decision, TypeOK
<1>5. ASSUME NEW d \in Deliveries, Suppress(d) PROVE TypeOK' /\ QueuedCarryEvidence'
  <2>1. PICK a \in Answers : Reply(d, a)
    BY <1>5 DEF Suppress, Answers
  <2>2. decisions' \in SUBSET Decision /\ clock' \in Nat
    BY <1>3, <1>4, <1>5, <2>1 DEF Suppress, TypeOK
  <2> QED BY <1>3, <1>5, <2>1, <2>2 DEF Suppress, TypeOK
<1>6. ASSUME NEW d \in Deliveries, RecordRun(d) PROVE TypeOK' /\ QueuedCarryEvidence'
  <2>1. PICK a \in Answers : Reply(d, a)
    BY <1>6 DEF RecordRun, Answers
  <2>2. RunRecord(d) \in Run /\ RunIdOf[d] \in RunIds
    BY <1>3, <2>1, RunRecordType
  <2>3. /\ decisions' \in SUBSET Decision
        /\ runs' \in [RunIds -> Run \cup {None}]
        /\ clock' \in Nat
    BY <1>3, <1>4, <1>6, <2>1, <2>2 DEF RecordRun, TypeOK
  <2> QED BY <1>3, <1>6, <2>1, <2>3 DEF RecordRun, TypeOK
<1>7. ASSUME NEW d \in Deliveries, NEW a \in Answers, Reply(d, a), UNCHANGED store
      PROVE  TypeOK' /\ QueuedCarryEvidence'
  BY <1>3, <1>7 DEF TypeOK, store
<1>8. ASSUME NEW d \in Deliveries,
             MissingParent(d) \/ AlreadyProcessed(d) \/ MissingChild(d) \/ Fail(d)
      PROVE  TypeOK' /\ QueuedCarryEvidence'
  BY <1>7, <1>8 DEF MissingParent, AlreadyProcessed, MissingChild, Fail, Answers
<1>9. CASE Age
  BY <1>9 DEF Age, TypeOK, QueuedCarryEvidence, queue, request
<1>10. CASE CleanupExpired
  <2>1. ASSUME NEW r \in RunIds, runs[r] # None
        PROVE  [runs[r] EXCEPT !.parent = ParentAfterSweep(r)] \in Run
    <3>1. runs[r] \in Run
      BY <2>1 DEF TypeOK
    <3>2. ParentAfterSweep(r) \in RunIds \cup {None}
      BY <3>1 DEF ParentAfterSweep, Run
    <3> QED BY <3>1, <3>2 DEF Run
  <2>2. runs' \in [RunIds -> Run \cup {None}]
    BY <1>10, <2>1 DEF CleanupExpired
  <2> QED BY <1>10, <2>2 DEF CleanupExpired, TypeOK, QueuedCarryEvidence, queue, request
<1>11. ASSUME NEW s \in Servers, Crash(s) PROVE TypeOK' /\ QueuedCarryEvidence'
  <2>1. Coordinator!TypeOK' /\ QueuedCarryEvidence'
    BY <1>11 DEF Crash, Coordinator!Stop, TypeOK, QueuedCarryEvidence
  <2>2. answer' \in [Deliveries -> Answers \cup {None}]
    BY <1>11 DEF Crash, TypeOK, Answers
  <2>3. runs' \in [RunIds -> Run \cup {None}] /\ decisions' \in SUBSET Decision
    BY <1>11 DEF Crash, TypeOK
  <2> QED BY <1>11, <2>1, <2>2, <2>3 DEF Crash, TypeOK
<1>12. CASE Quiet \/ UNCHANGED vars
  BY <1>12 DEF Quiet, vars, queue, request, store, TypeOK, QueuedCarryEvidence
<1> QED
  BY <1>1, <1>2, <1>5, <1>6, <1>8, <1>9, <1>10, <1>11, <1>12 DEF Next

(***************************************************************************)
(* Queue, requests and stored records keep their types.                     *)
(***************************************************************************)
THEOREM GateTypes == Spec => []TypeOK
<1>1. Init => TypeOK /\ QueuedCarryEvidence
  BY DEF Init, TypeOK, QueuedCarryEvidence, Coordinator!Init, Coordinator!TypeOK,
         Coordinator!Phases
<1> QED BY <1>1, TypeStep, PTL DEF Spec

-----------------------------------------------------------------------------
(***************************************************************************)
(* The queue: two deliveries never run at the same time in one process.     *)
(***************************************************************************)
QueueInv ==
  /\ \A d \in Deliveries :
       phase[d] # "idle" => lane[d] \in Servers /\ 0 < ticket[d] /\ ticket[d] <= issued
  /\ \A d, e \in Deliveries :
       phase[d] # "idle" /\ phase[e] # "idle" /\ ticket[d] = ticket[e] => d = e
  /\ \A d, e \in Deliveries :
       phase[d] = "running" /\ phase[e] \in {"queued", "running"} /\ lane[e] = lane[d]
         => ticket[d] <= ticket[e]

LEMMA QueueInvStep == TypeOK /\ QueueInv /\ [Next]_vars => QueueInv'
<1> SUFFICES ASSUME TypeOK, QueueInv, [Next]_vars PROVE QueueInv'
  OBVIOUS
<1>a. /\ phase \in [Deliveries -> {"idle", "queued", "running", "done"}]
      /\ lane \in [Deliveries -> Servers \cup {None}]
      /\ ticket \in [Deliveries -> Nat] /\ issued \in Nat
  BY DEF TypeOK, Coordinator!TypeOK, Coordinator!Phases
<1>1. ASSUME NEW d \in Deliveries, NEW s \in Servers, Coordinator!Enter(d, s) PROVE QueueInv'
  BY <1>a, <1>1 DEF Coordinator!Enter, QueueInv
<1>2. ASSUME NEW d \in Deliveries, Coordinator!Begin(d) PROVE QueueInv'
  <2>1. \A e \in Deliveries :
          lane[e] = lane[d] /\ ticket[e] < ticket[d] => phase[e] = "done"
    BY <1>2 DEF Coordinator!Begin, Coordinator!Earlier
  <2>2. \A e \in Deliveries :
          phase[e] \in {"queued", "running"} /\ lane[e] = lane[d] => ticket[d] <= ticket[e]
    BY <1>a, <2>1
  <2> QED BY <1>a, <1>2, <2>2 DEF Coordinator!Begin, QueueInv
<1>3. ASSUME NEW d \in Deliveries, Coordinator!Leave(d) PROVE QueueInv'
  BY <1>a, <1>3 DEF Coordinator!Leave, QueueInv
<1>4. ASSUME NEW s \in Servers, Coordinator!Stop({s}) PROVE QueueInv'
  BY <1>a, <1>4 DEF Coordinator!Stop, QueueInv
<1>5. ASSUME UNCHANGED queue PROVE QueueInv'
  BY <1>5 DEF queue, QueueInv
<1> QED
  BY <1>1, <1>2, <1>3, <1>4, <1>5
  DEF Next, Receive, Assess, Suppress, RecordRun, MissingParent, AlreadyProcessed, MissingChild,
      Fail, Reply, Age, CleanupExpired, Crash, Quiet, vars

LEMMA OneRuns ==
  ASSUME TypeOK, QueueInv, NEW d \in Deliveries, NEW e \in Deliveries,
         phase[d] = "running", phase[e] = "running", lane[d] = lane[e]
  PROVE  d = e
<1>1. ticket[d] \in Nat /\ ticket[e] \in Nat
  BY DEF TypeOK, Coordinator!TypeOK
<1>2. ticket[d] <= ticket[e] /\ ticket[e] <= ticket[d]
  BY DEF QueueInv
<1> QED BY <1>1, <1>2 DEF QueueInv

(***************************************************************************)
(* What a running delivery was judged against is still the latest baseline: *)
(* the sweep only removes expired runs, ageing only shrinks the candidates, *)
(* and no other delivery of the process can write.                          *)
(***************************************************************************)
OneServer == \A s, t \in Servers : s = t

LEMMA VerdictStep ==
  OneServer /\ TypeOK /\ QueueInv /\ VerdictOnCurrentBaseline /\ [Next]_vars
    => VerdictOnCurrentBaseline'
<1> SUFFICES ASSUME OneServer, TypeOK, QueueInv, VerdictOnCurrentBaseline, [Next]_vars,
                    NEW d \in Deliveries, phase'[d] = "running"
             PROVE  baseline'[d] \in LatestBaseline' \cup (RunIds \ Candidates')
  BY DEF VerdictOnCurrentBaseline
<1>a. phase \in [Deliveries -> {"idle", "queued", "running", "done"}]
  BY DEF TypeOK, Coordinator!TypeOK, Coordinator!Phases
<1>b. UNCHANGED <<runs, horizon>> => LatestBaseline' = LatestBaseline /\ Candidates' = Candidates
  BY DEF LatestBaseline, Candidates, IsLatest
<1>1. ASSUME phase[d] = "running", UNCHANGED <<runs, horizon, baseline>>
      PROVE  baseline'[d] \in LatestBaseline' \cup (RunIds \ Candidates')
  BY <1>b, <1>1 DEF VerdictOnCurrentBaseline
<1>2. ASSUME NEW e \in Deliveries, Reply(e, answer'[e])
      PROVE  phase[d] = "running" /\ phase[e] = "running" /\ d # e /\ UNCHANGED baseline
  BY <1>a, <1>2 DEF Reply, Coordinator!Leave
<1>3. ASSUME NEW e \in Deliveries, NEW s \in Servers, Receive(e, s)
      PROVE  baseline'[d] \in LatestBaseline' \cup (RunIds \ Candidates')
  BY <1>a, <1>1, <1>3 DEF Receive, Coordinator!Enter, store
<1>4. ASSUME NEW e \in Deliveries, Assess(e)
      PROVE  baseline'[d] \in LatestBaseline' \cup (RunIds \ Candidates')
  <2>1. CASE e = d
    BY <1>b, <1>4, <2>1 DEF Assess, TypeOK, store
  <2>2. CASE e # d
    <3>1. phase[d] = "running"
      BY <1>a, <1>4, <2>2 DEF Assess, Coordinator!Begin
    <3>2. baseline'[d] = baseline[d]
      BY <1>4, <2>2 DEF Assess, TypeOK
    <3>3. UNCHANGED <<runs, horizon>>
      BY <1>4 DEF Assess, store
    <3> QED BY <1>b, <3>1, <3>2, <3>3 DEF VerdictOnCurrentBaseline
  <2> QED BY <2>1, <2>2
<1>5. ASSUME NEW e \in Deliveries, NEW a \in Answers, Reply(e, a), UNCHANGED <<runs, horizon>>
      PROVE  baseline'[d] \in LatestBaseline' \cup (RunIds \ Candidates')
  BY <1>a, <1>1, <1>5 DEF Reply, Coordinator!Leave
<1>6. ASSUME NEW e \in Deliveries, RecordRun(e) PROVE FALSE
  <2>1. phase[d] = "running" /\ phase[e] = "running" /\ d # e
    BY <1>a, <1>6 DEF RecordRun, Reply, Coordinator!Leave
  <2>2. lane[d] \in Servers /\ lane[e] \in Servers
    BY <2>1 DEF QueueInv
  <2> QED BY <2>1, <2>2, OneRuns DEF OneServer
<1>7. CASE Age
  <2>1. phase[d] = "running" /\ UNCHANGED <<runs, baseline>>
    BY <1>7 DEF Age, queue, request
  <2>2. horizon \in Nat /\ horizon' = horizon + 1
    BY <1>7 DEF Age, TypeOK
  <2>3. \A r \in RunIds : runs[r] # None => runs[r].keptFrom \in Nat
    BY DEF TypeOK, Run
  <2>4. Candidates' \subseteq Candidates
    BY <2>1, <2>2, <2>3 DEF Candidates
  <2>5. baseline[d] \in LatestBaseline \cup (RunIds \ Candidates)
    BY <2>1 DEF VerdictOnCurrentBaseline
  <2>6. CASE Candidates = {}
    BY <2>1, <2>4, <2>5, <2>6 DEF LatestBaseline
  <2>7. CASE Candidates # {}
    <3>1. baseline[d] \in RunIds
      BY <2>5, <2>7 DEF LatestBaseline
    <3>2. baseline[d] \in Candidates' => IsLatest(baseline[d])
      BY <2>4, <2>5, <2>7 DEF LatestBaseline
    <3>3. baseline[d] \in Candidates' => IsLatest(baseline[d])'
      BY <2>1, <2>4, <3>2 DEF IsLatest
    <3>4. baseline[d] \in Candidates' => baseline[d] \in LatestBaseline'
      BY <2>1, <3>1, <3>3 DEF LatestBaseline, IsLatest
    <3> QED BY <2>1, <3>1, <3>4
  <2> QED BY <2>6, <2>7
<1>8. CASE CleanupExpired
  <2>1. phase[d] = "running" /\ UNCHANGED <<horizon, baseline>>
    BY <1>8 DEF CleanupExpired, queue, request
  <2>2. \A r \in RunIds : runs[r] # None => runs[r] \in Run /\ runs[r].keptFrom \in Nat /\ horizon \in Nat
    BY DEF TypeOK, Run
  <2>3. \A r \in RunIds :
          /\ runs'[r] # None => runs[r] # None /\ runs'[r].keptFrom = runs[r].keptFrom
                                 /\ runs'[r].createdAt = runs[r].createdAt
          /\ runs[r] # None /\ runs[r].keptFrom > horizon => runs'[r] # None
    BY <1>8, SweepKeeps
  <2>4. Candidates' = Candidates
    BY <2>1, <2>3 DEF Candidates
  <2>5. LatestBaseline' = LatestBaseline
    BY <2>3, <2>4 DEF LatestBaseline, IsLatest, Candidates
  <2> QED BY <2>1, <2>4, <2>5 DEF VerdictOnCurrentBaseline
<1>9. ASSUME NEW s \in Servers, Crash(s) PROVE FALSE
  <2>1. phase[d] = "running" /\ lane[d] \in Servers /\ lane[d] # s
    BY <1>a, <1>9 DEF Crash, Coordinator!Stop, QueueInv
  <2> QED BY <2>1 DEF OneServer
<1>10. CASE Quiet \/ UNCHANGED vars
  BY <1>1, <1>10 DEF Quiet, vars, queue, request, store
<1>11. ASSUME NEW e \in Deliveries,
              Suppress(e) \/ MissingParent(e) \/ AlreadyProcessed(e) \/ MissingChild(e) \/ Fail(e)
       PROVE  baseline'[d] \in LatestBaseline' \cup (RunIds \ Candidates')
  BY <1>5, <1>11 DEF Suppress, MissingParent, AlreadyProcessed, MissingChild, Fail, Answers, store
<1> QED
  BY <1>3, <1>4, <1>6, <1>7, <1>8, <1>9, <1>10, <1>11 DEF Next

(***************************************************************************)
(* With one server process the verdict of a running delivery is about the   *)
(* current baseline, in either store, with any number of deliveries.        *)
(***************************************************************************)
THEOREM VerdictCurrent ==
  ASSUME OneServer
  PROVE  Spec => []VerdictOnCurrentBaseline
<1>1. Init => TypeOK /\ QueuedCarryEvidence /\ QueueInv /\ VerdictOnCurrentBaseline
  BY DEF Init, TypeOK, QueuedCarryEvidence, QueueInv, VerdictOnCurrentBaseline,
         Coordinator!Init, Coordinator!TypeOK, Coordinator!Phases
<1> QED BY <1>1, TypeStep, QueueInvStep, VerdictStep, PTL DEF Spec

-----------------------------------------------------------------------------
(***************************************************************************)
(* Decisions and runs, when every delivery has a body of its own.  The      *)
(* strengthening: a run on record, a parent and a baseline each belong to a *)
(* delivery that is over, so the run id of a running delivery is fresh; and *)
(* a decision expires together with its child.                              *)
(***************************************************************************)
OwnRunIds == \A d, e \in Deliveries : RunIdOf[d] = RunIdOf[e] => d = e

MadeBefore(r) == \E d \in Deliveries : RunIdOf[d] = r /\ phase[d] = "done"

ChildrenOnRecord ==
  \A x \in decisions :
    x.child # None =>
      /\ runs[x.child] # None
      /\ runs[x.child].key = x.prior /\ runs[x.child].evidence = x.digest
      /\ runs[x.child].keptFrom = x.createdAt

RunsAdmitted ==
  \A r \in RunIds :
    runs[r] # None =>
      /\ MadeBefore(r)
      /\ runs[r].createdAt <= clock
      /\ \E x \in decisions : x.child = r /\ x.prior = runs[r].key /\ x.digest = runs[r].evidence

OneDecisionPerKey ==
  \A x, y \in decisions : x.prior = y.prior /\ x.digest = y.digest => x = y

ParentsBefore ==
  \A r \in RunIds :
    runs[r] # None /\ runs[r].parent # None =>
      /\ MadeBefore(runs[r].parent)
      /\ runs[runs[r].parent] # None => runs[runs[r].parent].createdAt < runs[r].createdAt

BaselinesBefore == \A d \in Deliveries : baseline[d] # None => MadeBefore(baseline[d])

RecordInv ==
  /\ ChildrenOnRecord
  /\ RunsAdmitted
  /\ OneDecisionPerKey
  /\ ParentsBefore
  /\ BaselinesBefore

LEMMA DoneRemains ==
  ASSUME TypeOK, [Next]_vars, NEW d \in Deliveries, phase[d] = "done"
  PROVE  phase'[d] = "done"
BY DEF Next, Receive, Assess, Suppress, RecordRun, MissingParent, AlreadyProcessed, MissingChild,
      Fail, Reply, Age, CleanupExpired, Crash, Quiet, vars, queue, TypeOK, Coordinator!TypeOK,
      Coordinator!Enter, Coordinator!Begin, Coordinator!Leave, Coordinator!Stop

LEMMA DoneStays ==
  ASSUME TypeOK, [Next]_vars, NEW r, MadeBefore(r)
  PROVE  MadeBefore(r)'
BY DoneRemains DEF MadeBefore

\* Steps that write neither table.
LEMMA SameRecords ==
  ASSUME TypeOK, RecordInv, [Next]_vars, UNCHANGED <<runs, decisions, clock>>, BaselinesBefore'
  PROVE  RecordInv'
<1>1. ChildrenOnRecord' /\ OneDecisionPerKey'
  BY DEF RecordInv, ChildrenOnRecord, OneDecisionPerKey
<1>2. RunsAdmitted' /\ ParentsBefore'
  BY DoneStays DEF RecordInv, RunsAdmitted, ParentsBefore
<1> QED BY <1>1, <1>2 DEF RecordInv

LEMMA RecordRunKeepsInv ==
  ASSUME OwnRunIds, TypeOK, QueuedCarryEvidence, RecordInv, [Next]_vars,
         NEW d \in Deliveries, RecordRun(d)
  PROVE  RecordInv'
<1> DEFINE n == RunIdOf[d]
           x == NewDecision(d, n)
<1>1. /\ decisions' = decisions \cup {x} /\ clock' = clock + 1 /\ clock \in Nat
      /\ n \in RunIds /\ runs'[n] = RunRecord(d) /\ UNCHANGED baseline
      /\ \A r \in RunIds \ {n} : runs'[r] = runs[r]
  BY GateAssumption DEF RecordRun, Reply, TypeOK
<1>2. phase[d] = "running" /\ phase'[d] = "done" /\ evidence[d] \in Packages
  BY DEF RecordRun, Retriage, Reply, Coordinator!Leave, TypeOK, Coordinator!TypeOK,
         QueuedCarryEvidence
<1>3. ~MadeBefore(n)
  BY <1>2 DEF MadeBefore, OwnRunIds
<1>4. runs[n] = None
  BY <1>1, <1>3 DEF RecordInv, RunsAdmitted
<1>5. /\ RunRecord(d).evidence = evidence[d] /\ RunRecord(d).parent = baseline[d]
      /\ RunRecord(d).key = baseline[d] /\ RunRecord(d).createdAt = clock + 1
      /\ RunRecord(d).keptFrom = clock + 1
  BY <1>4 DEF RunRecord
<1>6. RunRecord(d) # None
  BY <1>2, RunRecordType, NoneIsNoRecord
<1>7. x.prior = baseline[d] /\ x.digest = evidence[d] /\ x.child = n /\ x.createdAt = clock + 1
  BY DEF NewDecision
<1>8. MadeBefore(n)'
  BY <1>2 DEF MadeBefore
<1>s. \A r \in RunIds : MadeBefore(r) => MadeBefore(r)'
  BY DoneStays
<1>9. ChildrenOnRecord'
  <2> SUFFICES ASSUME NEW y \in decisions', y.child # None
               PROVE  /\ runs'[y.child] # None
                      /\ runs'[y.child].key = y.prior /\ runs'[y.child].evidence = y.digest
                      /\ runs'[y.child].keptFrom = y.createdAt
    BY DEF ChildrenOnRecord
  <2>1. CASE y = x
    BY <1>1, <1>5, <1>6, <1>7, <2>1
  <2>2. CASE y \in decisions
    <3>1. y.child \in RunIds
      BY <2>2 DEF TypeOK, Decision
    <3>2. y.child # n
      BY <1>4, <2>2 DEF RecordInv, ChildrenOnRecord
    <3> QED BY <1>1, <2>2, <3>1, <3>2 DEF RecordInv, ChildrenOnRecord
  <2> QED BY <1>1, <2>1, <2>2
<1>10. RunsAdmitted'
  <2> SUFFICES ASSUME NEW r \in RunIds, runs'[r] # None
               PROVE  /\ MadeBefore(r)'
                      /\ runs'[r].createdAt <= clock'
                      /\ \E y \in decisions' :
                           y.child = r /\ y.prior = runs'[r].key /\ y.digest = runs'[r].evidence
    BY DEF RunsAdmitted
  <2>1. CASE r = n
    BY <1>1, <1>5, <1>7, <1>8, <2>1
  <2>2. CASE r # n
    <3>1. runs'[r] = runs[r] /\ runs[r] # None
      BY <1>1, <2>2
    <3>2. runs[r].createdAt \in Nat
      BY <3>1 DEF TypeOK, Run
    <3>3. MadeBefore(r)'
      BY <1>s, <3>1 DEF RecordInv, RunsAdmitted
    <3> QED BY <1>1, <3>1, <3>2, <3>3 DEF RecordInv, RunsAdmitted
  <2> QED BY <2>1, <2>2
<1>11. OneDecisionPerKey'
  <2>1. \A y \in decisions : ~(y.prior = x.prior /\ y.digest = x.digest)
    BY <1>7 DEF RecordRun, DecisionsFor
  <2> QED BY <1>1, <2>1 DEF RecordInv, OneDecisionPerKey
<1>12. ParentsBefore'
  <2> SUFFICES ASSUME NEW r \in RunIds, runs'[r] # None, runs'[r].parent # None
               PROVE  /\ MadeBefore(runs[r].parent)'
                      /\ runs'[runs'[r].parent] # None =>
                           runs'[runs'[r].parent].createdAt < runs'[r].createdAt
    BY DEF ParentsBefore
  <2>1. CASE r = n
    <3>1. runs'[r].parent = baseline[d] /\ MadeBefore(baseline[d]) /\ baseline[d] \in RunIds
      BY <1>1, <1>5, <2>1 DEF RecordInv, BaselinesBefore, TypeOK
    <3>2. baseline[d] # n
      BY <1>3, <3>1
    <3>3. runs[baseline[d]] # None =>
            runs[baseline[d]].createdAt <= clock /\ runs[baseline[d]].createdAt \in Nat
      BY <3>1 DEF RecordInv, RunsAdmitted, TypeOK, Run
    <3>4. MadeBefore(baseline[d])'
      <4>1. PICK e \in Deliveries : RunIdOf[e] = baseline[d] /\ phase'[e] = "done"
        <5>1. PICK e \in Deliveries : RunIdOf[e] = baseline[d] /\ phase[e] = "done"
          BY <3>1 DEF MadeBefore
        <5>2. phase'[e] = "done"
          BY <5>1, DoneRemains
        <5> QED BY <5>1, <5>2
      <4> QED BY <1>1, <4>1 DEF MadeBefore
    <3>5. MadeBefore(runs[r].parent)'
      BY <1>1, <2>1, <3>1, <3>4 DEF MadeBefore
    <3> QED BY <1>1, <1>5, <2>1, <3>1, <3>2, <3>3, <3>5
  <2>2. CASE r # n
    <3>1. runs'[r] = runs[r] /\ runs[r].parent \in RunIds
      BY <1>1, <2>2 DEF TypeOK, Run
    <3>2. MadeBefore(runs[r].parent)
      BY <3>1 DEF RecordInv, ParentsBefore
    <3>3. runs[r].parent # n
      BY <1>3, <3>2
    <3>4. runs'[runs[r].parent] = runs[runs[r].parent]
      BY <1>1, <3>1, <3>3
    <3>5. PICK e \in Deliveries : RunIdOf[e] = runs[r].parent /\ phase[e] = "done"
      BY <3>2 DEF MadeBefore
    <3>6. phase'[e] = "done"
      BY <3>5, DoneRemains
    <3>7. MadeBefore(runs[r].parent)'
      BY <3>1, <3>5, <3>6 DEF MadeBefore
    <3> QED BY <3>1, <3>4, <3>7 DEF RecordInv, ParentsBefore
  <2> QED BY <2>1, <2>2
<1>13. BaselinesBefore'
  BY <1>1, DoneStays DEF RecordInv, BaselinesBefore
<1> QED BY <1>9, <1>10, <1>11, <1>12, <1>13 DEF RecordInv

LEMMA SuppressKeepsInv ==
  ASSUME TypeOK, RecordInv, [Next]_vars, NEW d \in Deliveries, Suppress(d)
  PROVE  RecordInv'
<1>1. UNCHANGED <<runs, baseline>> /\ clock' \in Nat /\ clock <= clock' /\ clock \in Nat
  BY DEF Suppress, Reply, TypeOK
<1>2. BaselinesBefore'
  BY <1>1, DoneStays DEF RecordInv, BaselinesBefore
<1>3. CASE UNCHANGED <<decisions, clock>>
  BY <1>1, <1>2, <1>3, SameRecords
<1>4. CASE DecisionsFor(d) = {} /\ decisions' = decisions \cup {NewDecision(d, None)}
  <2>1. /\ NewDecision(d, None).child = None /\ NewDecision(d, None).prior = baseline[d]
        /\ NewDecision(d, None).digest = evidence[d]
    BY DEF NewDecision
  <2>2. ChildrenOnRecord'
    BY <1>1, <1>4, <2>1 DEF RecordInv, ChildrenOnRecord
  <2>3. RunsAdmitted'
    <3> SUFFICES ASSUME NEW r \in RunIds, runs[r] # None
                 PROVE  /\ MadeBefore(r)'
                        /\ runs[r].createdAt <= clock'
                        /\ \E y \in decisions' :
                             y.child = r /\ y.prior = runs[r].key /\ y.digest = runs[r].evidence
      BY <1>1 DEF RunsAdmitted
    <3>1. runs[r].createdAt \in Nat
      BY DEF TypeOK, Run
    <3>2. MadeBefore(r)'
      BY DoneStays DEF RecordInv, RunsAdmitted
    <3> QED BY <1>1, <1>4, <3>1, <3>2 DEF RecordInv, RunsAdmitted
  <2>4. OneDecisionPerKey'
    <3>1. \A y \in decisions : ~(y.prior = baseline[d] /\ y.digest = evidence[d])
      BY <1>4 DEF DecisionsFor
    <3> QED BY <1>4, <2>1, <3>1 DEF RecordInv, OneDecisionPerKey
  <2>5. ParentsBefore'
    BY <1>1, DoneStays DEF RecordInv, ParentsBefore
  <2> QED BY <1>2, <2>2, <2>3, <2>4, <2>5 DEF RecordInv
<1> QED BY <1>3, <1>4 DEF Suppress

\* A decision and its child expire at the same instant.
LEMMA CleanupKeepsInv ==
  ASSUME TypeOK, RecordInv, [Next]_vars, CleanupExpired
  PROVE  RecordInv'
<1>1. UNCHANGED <<baseline, phase, clock>> /\ decisions' = {x \in decisions : x.createdAt > horizon}
  BY DEF CleanupExpired, request, queue
<1>2. ChildrenOnRecord'
  <2> SUFFICES ASSUME NEW x \in decisions, x.createdAt > horizon, x.child # None
               PROVE  /\ runs'[x.child] # None
                      /\ runs'[x.child].key = x.prior /\ runs'[x.child].evidence = x.digest
                      /\ runs'[x.child].keptFrom = x.createdAt
    BY <1>1 DEF ChildrenOnRecord
  <2>1. x.child \in RunIds
    BY DEF TypeOK, Decision
  <2> QED BY <2>1, SweepKeeps DEF RecordInv, ChildrenOnRecord
<1>3. RunsAdmitted'
  <2> SUFFICES ASSUME NEW r \in RunIds, runs'[r] # None
               PROVE  /\ MadeBefore(r)'
                      /\ runs'[r].createdAt <= clock'
                      /\ \E y \in decisions' :
                           y.child = r /\ y.prior = runs'[r].key /\ y.digest = runs'[r].evidence
    BY DEF RunsAdmitted
  <2>1. /\ runs[r] # None /\ runs[r].keptFrom > horizon
        /\ runs'[r].evidence = runs[r].evidence /\ runs'[r].key = runs[r].key
        /\ runs'[r].createdAt = runs[r].createdAt
    BY SweepKeeps
  <2>2. PICK y \in decisions : y.child = r /\ y.prior = runs[r].key /\ y.digest = runs[r].evidence
    BY <2>1 DEF RecordInv, RunsAdmitted
  <2>3. y.createdAt = runs[r].keptFrom
    BY <2>2, GateAssumption DEF RecordInv, ChildrenOnRecord
  <2>4. MadeBefore(r)' /\ runs[r].createdAt <= clock
    BY <2>1, DoneStays DEF RecordInv, RunsAdmitted
  <2> QED BY <1>1, <2>1, <2>2, <2>3, <2>4
<1>4. OneDecisionPerKey'
  BY <1>1 DEF RecordInv, OneDecisionPerKey
<1>5. ParentsBefore'
  <2> SUFFICES ASSUME NEW r \in RunIds, runs'[r] # None, runs'[r].parent # None
               PROVE  /\ MadeBefore(runs[r].parent)'
                      /\ runs'[runs'[r].parent] # None =>
                           runs'[runs'[r].parent].createdAt < runs'[r].createdAt
    BY DEF ParentsBefore
  <2>1. /\ runs[r] # None /\ runs'[r].parent = runs[r].parent
        /\ runs'[r].createdAt = runs[r].createdAt
    BY SweepKeeps
  <2>2. runs[r].parent \in RunIds
    BY <2>1 DEF TypeOK, Run
  <2>3. MadeBefore(runs[r].parent)
    BY <2>1 DEF RecordInv, ParentsBefore
  <2>4. MadeBefore(runs[r].parent)'
    BY <1>1, <2>1, <2>3 DEF MadeBefore
  <2>5. runs'[runs[r].parent] # None =>
          /\ runs[runs[r].parent] # None
          /\ runs'[runs[r].parent].createdAt = runs[runs[r].parent].createdAt
    BY <2>2, SweepKeeps
  <2> QED BY <2>1, <2>4, <2>5 DEF RecordInv, ParentsBefore
<1>6. BaselinesBefore'
  BY <1>1, DoneStays DEF RecordInv, BaselinesBefore
<1> QED BY <1>2, <1>3, <1>4, <1>5, <1>6 DEF RecordInv

\* A baseline is a run on record.
LEMMA AssessKeepsInv ==
  ASSUME TypeOK, RecordInv, [Next]_vars, NEW d \in Deliveries, Assess(d)
  PROVE  RecordInv'
<1>1. PICK r \in LatestBaseline : baseline' = [baseline EXCEPT ![d] = r]
  BY DEF Assess
<1>2. r # None => MadeBefore(r)'
  <2>1. r # None => r \in RunIds /\ runs[r] # None
    BY DEF LatestBaseline, IsLatest, Candidates
  <2> QED BY <2>1, DoneStays DEF RecordInv, RunsAdmitted
<1>3. BaselinesBefore'
  <2> SUFFICES ASSUME NEW e \in Deliveries, baseline'[e] # None
               PROVE  MadeBefore(baseline[e])'
    BY DEF BaselinesBefore
  <2>1. CASE e = d
    BY <1>1, <1>2, <2>1 DEF TypeOK, MadeBefore
  <2>2. CASE e # d
    <3>1. baseline'[e] = baseline[e] /\ MadeBefore(baseline[e])
      BY <1>1, <2>2 DEF TypeOK, RecordInv, BaselinesBefore
    <3>2. PICK f \in Deliveries : RunIdOf[f] = baseline[e] /\ phase[f] = "done"
      BY <3>1 DEF MadeBefore
    <3>3. phase'[f] = "done"
      BY <3>2, DoneRemains
    <3> QED BY <3>1, <3>2, <3>3 DEF MadeBefore
  <2> QED BY <2>1, <2>2
<1> QED BY <1>3, SameRecords DEF Assess, store

LEMMA RecordStep ==
  ASSUME OwnRunIds, TypeOK, QueuedCarryEvidence, RecordInv, [Next]_vars
  PROVE  RecordInv'
<1>1. ASSUME NEW s \in Servers, Crash(s) PROVE RecordInv'
  <2>1. BaselinesBefore'
    BY <1>1, DoneStays DEF Crash, RecordInv, BaselinesBefore
  <2>2. CASE UNCHANGED <<runs, decisions>>
    BY <1>1, <2>1, <2>2, SameRecords DEF Crash
  <2>3. CASE runs' = [r \in RunIds |-> None] /\ decisions' = {}
    BY <2>1, <2>3
    DEF RecordInv, ChildrenOnRecord, RunsAdmitted, OneDecisionPerKey, ParentsBefore
  <2> QED BY <1>1, <2>2, <2>3 DEF Crash
<1>2. ASSUME UNCHANGED <<runs, decisions, clock, baseline>> PROVE RecordInv'
  <2>1. BaselinesBefore'
    BY <1>2, DoneStays DEF RecordInv, BaselinesBefore
  <2> QED BY <1>2, <2>1, SameRecords
<1>3. ASSUME NEW d \in Deliveries, NEW s \in Servers, Receive(d, s) PROVE RecordInv'
  BY <1>2, <1>3 DEF Receive, store
<1>4. ASSUME NEW d \in Deliveries,
             MissingParent(d) \/ AlreadyProcessed(d) \/ MissingChild(d) \/ Fail(d)
      PROVE  RecordInv'
  BY <1>2, <1>4 DEF MissingParent, AlreadyProcessed, MissingChild, Fail, Reply, store
<1>5. CASE Age \/ Quiet \/ UNCHANGED vars
  BY <1>2, <1>5 DEF Age, Quiet, vars, request, store
<1> QED
  BY <1>1, <1>3, <1>4, <1>5, RecordRunKeepsInv, SuppressKeepsInv, CleanupKeepsInv, AssessKeepsInv
  DEF Next

(***************************************************************************)
(* The invariant of the two tables, for deliveries with bodies of their own.*)
(***************************************************************************)
THEOREM RecordsInvariant ==
  ASSUME OwnRunIds
  PROVE  Spec => [](TypeOK /\ QueuedCarryEvidence /\ RecordInv)
<1>1. Init => TypeOK /\ QueuedCarryEvidence /\ RecordInv
  BY DEF Init, TypeOK, QueuedCarryEvidence, Coordinator!Init, Coordinator!TypeOK,
         Coordinator!Phases, RecordInv, ChildrenOnRecord, RunsAdmitted, OneDecisionPerKey,
         ParentsBefore, BaselinesBefore
<1> QED BY <1>1, TypeStep, RecordStep, PTL DEF Spec

(***************************************************************************)
(* recordGatedTriageRun and cleanupExpired keep the decisions and the runs  *)
(* in agreement, in either store and with any number of servers.            *)
(***************************************************************************)
THEOREM RecordsAgree ==
  ASSUME OwnRunIds
  PROVE  Spec => []DecisionsAndRunsAgree
<1>1. RecordInv => DecisionsAndRunsAgree
  BY DEF RecordInv, ChildrenOnRecord, RunsAdmitted, DecisionsAndRunsAgree
<1> QED BY <1>1, RecordsInvariant, PTL

(***************************************************************************)
(* The same evidence against the same baseline never has two child runs.    *)
(***************************************************************************)
THEOREM OneChild ==
  ASSUME OwnRunIds
  PROVE  Spec => []OneChildPerEvidence
<1>1. RecordInv => OneChildPerEvidence
  BY DEF RecordInv, RunsAdmitted, OneDecisionPerKey, OneChildPerEvidence
<1> QED BY <1>1, RecordsInvariant, PTL

(***************************************************************************)
(* A retained parent was created before its child.                          *)
(***************************************************************************)
THEOREM Lineage ==
  ASSUME OwnRunIds
  PROVE  Spec => []LineageAcyclic
<1>1. RecordInv => LineageAcyclic
  BY DEF RecordInv, ParentsBefore, LineageAcyclic
<1> QED BY <1>1, RecordsInvariant, PTL

-----------------------------------------------------------------------------
(***************************************************************************)
(* In one process the newest retained run is that of the newest delivery    *)
(* that made one.                                                           *)
(***************************************************************************)
\* Deliveries that were recorded are over, and whatever is still to be done was
\* queued after them; a run is no older than the runs of deliveries before one
\* that made it.
NewestInv ==
  /\ \A d \in Deliveries : Recorded(d) => phase[d] = "done"
  /\ \A d, e \in Deliveries :
       Recorded(d) /\ phase[e] \in {"queued", "running"} => ticket[d] < ticket[e]
  /\ \A r \in RunIds : runs[r] # None => runs[r].createdAt <= clock
  /\ \A s \in RunIds :
       runs[s] # None =>
         \E e \in Deliveries :
           /\ Recorded(e) /\ RunIdOf[e] = s
           /\ \A d \in Deliveries :
                Recorded(d) /\ runs[RunIdOf[d]] # None
                /\ runs[RunIdOf[d]].createdAt < runs[s].createdAt => ticket[d] < ticket[e]

\* Steps that record nothing and keep the dates of what they keep.
LEMMA NewestStays ==
  ASSUME TypeOK, NewestInv, clock' \in Nat, clock <= clock', UNCHANGED ticket,
         \A d \in Deliveries : Recorded(d)' <=> Recorded(d),
         \A d \in Deliveries : phase[d] = "done" => phase'[d] = "done",
         \A d \in Deliveries :
           phase'[d] \in {"queued", "running"} => phase[d] \in {"queued", "running"},
         \A r \in RunIds :
           runs'[r] # None => runs[r] # None /\ runs'[r].createdAt = runs[r].createdAt
  PROVE  NewestInv'
<1>1. /\ \A d \in Deliveries : RunIdOf[d] \in RunIds
      /\ clock \in Nat
      /\ \A r \in RunIds : runs[r] # None => runs[r].createdAt \in Nat
  BY GateAssumption DEF TypeOK, Run
<1>2. \A r \in RunIds : runs'[r] # None => runs'[r].createdAt <= clock'
  BY <1>1 DEF NewestInv
<1>3. ASSUME NEW s \in RunIds, runs'[s] # None
      PROVE  \E e \in Deliveries :
               /\ Recorded(e)' /\ RunIdOf[e] = s
               /\ \A d \in Deliveries :
                    Recorded(d)' /\ runs'[RunIdOf[d]] # None
                    /\ runs'[RunIdOf[d]].createdAt < runs'[s].createdAt => ticket'[d] < ticket'[e]
  <2>1. PICK e \in Deliveries :
          /\ Recorded(e) /\ RunIdOf[e] = s
          /\ \A d \in Deliveries :
               Recorded(d) /\ runs[RunIdOf[d]] # None
               /\ runs[RunIdOf[d]].createdAt < runs[s].createdAt => ticket[d] < ticket[e]
    BY <1>3 DEF NewestInv
  <2> WITNESS e \in Deliveries
  <2> QED BY <1>1, <1>3, <2>1
<1>4. \A d \in Deliveries : Recorded(d)' => phase'[d] = "done"
  BY DEF NewestInv
<1>5. \A d, e \in Deliveries :
        Recorded(d)' /\ phase'[e] \in {"queued", "running"} => ticket'[d] < ticket'[e]
  BY DEF NewestInv
<1> QED BY <1>2, <1>3, <1>4, <1>5 DEF NewestInv

\* A delivery that was recorded keeps its turn while another one queues up.
LEMMA NewestReceived ==
  ASSUME TypeOK, QueueInv, NewestInv, NEW d \in Deliveries, NEW s \in Servers, Receive(d, s)
  PROVE  NewestInv'
<1>1. /\ phase[d] = "idle" /\ phase' = [phase EXCEPT ![d] = "queued"]
      /\ ticket' = [ticket EXCEPT ![d] = issued + 1]
      /\ UNCHANGED <<answer, runs, clock>>
  BY DEF Receive, Coordinator!Enter, store
<1>2. /\ phase \in [Deliveries -> {"idle", "queued", "running", "done"}]
      /\ ticket \in [Deliveries -> Nat] /\ issued \in Nat
  BY DEF TypeOK, Coordinator!TypeOK, Coordinator!Phases
<1>3. \A e \in Deliveries : Recorded(e)' <=> Recorded(e)
  BY <1>1 DEF Recorded
<1>4. \A e \in Deliveries : Recorded(e) => e # d /\ ticket'[e] = ticket[e] /\ ticket[e] <= issued
  BY <1>1, <1>2 DEF NewestInv, QueueInv
<1>5. \A e, f \in Deliveries :
        Recorded(e)' /\ phase'[f] \in {"queued", "running"} => ticket'[e] < ticket'[f]
  BY <1>1, <1>2, <1>3, <1>4 DEF NewestInv
<1>6. \A e \in Deliveries : Recorded(e)' => phase'[e] = "done"
  BY <1>1, <1>2, <1>3, <1>4 DEF NewestInv
<1>7. \A r \in RunIds : runs'[r] # None => runs'[r].createdAt <= clock'
  BY <1>1 DEF NewestInv
<1>8. ASSUME NEW r \in RunIds, runs'[r] # None
      PROVE  \E e \in Deliveries :
               /\ Recorded(e)' /\ RunIdOf[e] = r
               /\ \A f \in Deliveries :
                    Recorded(f)' /\ runs'[RunIdOf[f]] # None
                    /\ runs'[RunIdOf[f]].createdAt < runs'[r].createdAt => ticket'[f] < ticket'[e]
  <2>1. PICK e \in Deliveries :
          /\ Recorded(e) /\ RunIdOf[e] = r
          /\ \A f \in Deliveries :
               Recorded(f) /\ runs[RunIdOf[f]] # None
               /\ runs[RunIdOf[f]].createdAt < runs[r].createdAt => ticket[f] < ticket[e]
    BY <1>1, <1>8 DEF NewestInv
  <2> WITNESS e \in Deliveries
  <2> QED BY <1>1, <1>3, <1>4, <2>1
<1> QED BY <1>5, <1>6, <1>7, <1>8 DEF NewestInv

\* The delivery whose turn it is makes the newest run.
LEMMA NewestRecorded ==
  ASSUME Backend = "memory", TypeOK, QueuedCarryEvidence, QueueInv, NewestInv,
         NEW d \in Deliveries, RecordRun(d)
  PROVE  NewestInv'
<1> DEFINE n == RunIdOf[d]
<1>1. /\ phase[d] = "running" /\ phase' = [phase EXCEPT ![d] = "done"]
      /\ UNCHANGED <<lane, ticket>> /\ clock' = clock + 1
      /\ runs' = [runs EXCEPT ![n] = RunRecord(d)]
  BY DEF RecordRun, Retriage, Reply, Coordinator!Leave
<1>2. /\ \A e \in Deliveries : RunIdOf[e] \in RunIds
      /\ clock \in Nat /\ runs \in [RunIds -> Run \cup {None}]
      /\ phase \in [Deliveries -> {"idle", "queued", "running", "done"}]
      /\ ticket \in [Deliveries -> Nat]
      /\ \A r \in RunIds : runs[r] # None => runs[r].createdAt \in Nat
  BY GateAssumption DEF TypeOK, Run, Coordinator!TypeOK, Coordinator!Phases
<1>3. Recorded(d)' /\ \A e \in Deliveries : e # d => (Recorded(e)' <=> Recorded(e))
  <2>1. PICK a \in {"first_observation", "material_evidence", "unacknowledged"} : Reply(d, a)
    BY DEF RecordRun
  <2> QED BY <2>1 DEF Reply, Recorded, TypeOK
<1>4. /\ runs'[n] # None /\ runs'[n].createdAt = clock + 1
      /\ \A r \in RunIds : r # n => runs'[r] = runs[r]
  <2>1. RunRecord(d) \in Run
    BY <1>1, <1>2, RunRecordType DEF QueuedCarryEvidence
  <2>2. RunRecord(d).createdAt = clock + 1
    BY DEF RunRecord
  <2> QED BY <1>1, <1>2, <2>1, <2>2, NoneIsNoRecord
<1>5. \A e \in Deliveries : Recorded(e)' /\ e # d => ticket[e] < ticket[d]
  BY <1>1, <1>3 DEF NewestInv
<1>6. \A e \in Deliveries : phase'[e] \in {"queued", "running"} => ticket[d] < ticket[e]
  <2> SUFFICES ASSUME NEW e \in Deliveries, phase'[e] \in {"queued", "running"}
               PROVE  ticket[d] < ticket[e]
    OBVIOUS
  <2>1. e # d /\ phase[e] \in {"queued", "running"}
    BY <1>1, <1>2
  <2>2. lane[e] = lane[d]
    BY <1>1, <2>1, GateAssumption DEF QueueInv
  <2>3. ticket[d] <= ticket[e] /\ ticket[d] # ticket[e]
    BY <1>1, <2>1, <2>2 DEF QueueInv
  <2> QED BY <1>2, <2>3
<1>7. \A e, f \in Deliveries :
        Recorded(e)' /\ phase'[f] \in {"queued", "running"} => ticket'[e] < ticket'[f]
  BY <1>1, <1>2, <1>3, <1>5, <1>6
<1>8. \A e \in Deliveries : Recorded(e)' => phase'[e] = "done"
  BY <1>1, <1>2, <1>3 DEF NewestInv
<1>9. \A r \in RunIds : runs'[r] # None => runs'[r].createdAt <= clock'
  BY <1>1, <1>2, <1>4 DEF NewestInv
<1>10. ASSUME NEW s \in RunIds, runs'[s] # None
       PROVE  \E e \in Deliveries :
                /\ Recorded(e)' /\ RunIdOf[e] = s
                /\ \A f \in Deliveries :
                     Recorded(f)' /\ runs'[RunIdOf[f]] # None
                     /\ runs'[RunIdOf[f]].createdAt < runs'[s].createdAt => ticket'[f] < ticket'[e]
  <2>1. CASE s = n
    <3> WITNESS d \in Deliveries
    <3> QED BY <1>1, <1>2, <1>3, <1>4, <1>5, <2>1
  <2>2. CASE s # n
    <3>1. PICK e \in Deliveries :
            /\ Recorded(e) /\ RunIdOf[e] = s
            /\ \A f \in Deliveries :
                 Recorded(f) /\ runs[RunIdOf[f]] # None
                 /\ runs[RunIdOf[f]].createdAt < runs[s].createdAt => ticket[f] < ticket[e]
      BY <1>4, <1>10, <2>2 DEF NewestInv
    <3>2. runs'[s] = runs[s] /\ runs[s].createdAt <= clock /\ runs[s].createdAt \in Nat
      BY <1>2, <1>4, <1>10, <2>2 DEF NewestInv
    <3>3. ASSUME NEW f \in Deliveries, Recorded(f)', runs'[RunIdOf[f]] # None,
                 runs'[RunIdOf[f]].createdAt < runs'[s].createdAt
          PROVE  ticket'[f] < ticket'[e]
      <4>1. RunIdOf[f] # n
        BY <1>2, <1>4, <3>2, <3>3
      <4>2. f # d /\ Recorded(f) /\ runs'[RunIdOf[f]] = runs[RunIdOf[f]]
        BY <1>2, <1>3, <1>4, <3>3, <4>1
      <4> QED BY <1>1, <3>1, <3>2, <3>3, <4>2
    <3>4. Recorded(e)'
      BY <1>3, <3>1
    <3> QED BY <3>1, <3>3, <3>4
  <2> QED BY <2>1, <2>2
<1> QED BY <1>7, <1>8, <1>9, <1>10 DEF NewestInv

LEMMA NewestStep ==
  ASSUME Backend = "memory", TypeOK, QueuedCarryEvidence, QueueInv, NewestInv, [Next]_vars
  PROVE  NewestInv'
<1>a. /\ phase \in [Deliveries -> {"idle", "queued", "running", "done"}]
      /\ clock \in Nat
  BY DEF TypeOK, Coordinator!TypeOK, Coordinator!Phases
<1>1. ASSUME NEW d \in Deliveries, Assess(d) PROVE NewestInv'
  BY <1>a, <1>1, NewestStays DEF Assess, Coordinator!Begin, Recorded, store
<1>2. ASSUME NEW d \in Deliveries, NEW a \in Answers,
             a \notin {"first_observation", "material_evidence", "unacknowledged"},
             Reply(d, a), UNCHANGED runs, clock' \in Nat, clock <= clock'
      PROVE  NewestInv'
  <2>1. phase[d] = "running" /\ ~Recorded(d)
    BY <1>2 DEF Reply, Coordinator!Leave, NewestInv
  <2>2. ~Recorded(d)' /\ \A e \in Deliveries : e # d => (Recorded(e)' <=> Recorded(e))
    BY <1>2 DEF Reply, Recorded, TypeOK
  <2>3. /\ UNCHANGED ticket /\ phase' = [phase EXCEPT ![d] = "done"]
    BY <1>2 DEF Reply, Coordinator!Leave
  <2> QED BY <1>a, <1>2, <2>1, <2>2, <2>3, NewestStays
<1>3. ASSUME NEW d \in Deliveries, Suppress(d) PROVE NewestInv'
  <2>1. PICK a \in {"non_material_evidence", "failed"} : Reply(d, a)
    BY <1>3 DEF Suppress
  <2>2. UNCHANGED runs /\ clock' \in Nat /\ clock <= clock'
    BY <1>a, <1>3 DEF Suppress
  <2> QED BY <1>2, <2>1, <2>2 DEF Answers
<1>4. ASSUME NEW d \in Deliveries,
             MissingParent(d) \/ AlreadyProcessed(d) \/ MissingChild(d) \/ Fail(d)
      PROVE  NewestInv'
  BY <1>a, <1>2, <1>4 DEF MissingParent, AlreadyProcessed, MissingChild, Fail, Answers, store
<1>5. CASE Age
  BY <1>a, <1>5, NewestStays DEF Age, Recorded, queue, request
<1>6. CASE CleanupExpired
  <2>1. \A r \in RunIds :
          runs'[r] # None => runs[r] # None /\ runs'[r].createdAt = runs[r].createdAt
    BY <1>6, SweepKeeps
  <2> QED BY <1>a, <1>6, <2>1, NewestStays DEF CleanupExpired, Recorded, queue, request
<1>7. ASSUME NEW s \in Servers, Crash(s) PROVE NewestInv'
  <2>1. UNCHANGED <<ticket, clock>> /\ \A r \in RunIds : runs'[r] = None
    BY <1>7 DEF Crash, Coordinator!Stop
  <2>2. \A d \in Deliveries :
          phase'[d] = IF lane[d] = s /\ phase[d] # "idle" THEN "done" ELSE phase[d]
    BY <1>7 DEF Crash, Coordinator!Stop
  <2>3. \A d \in Deliveries : Recorded(d)' <=> Recorded(d)
    BY <1>7 DEF Crash, Recorded, NewestInv
  <2> QED BY <1>a, <2>1, <2>2, <2>3, NewestStays
<1>8. CASE Quiet \/ UNCHANGED vars
  BY <1>a, <1>8, NewestStays DEF Quiet, vars, queue, request, store, Recorded
<1> QED
  BY <1>1, <1>3, <1>4, <1>5, <1>6, <1>7, <1>8, NewestReceived, NewestRecorded DEF Next

\* In one process the run that new evidence is compared with is that of the delivery
\* that queued last among those that were triaged and are retained, also when their
\* bodies repeat (handleEvidenceReentry, recordGatedTriageRun of in-memory.ts).
THEOREM BaselineNewest ==
  ASSUME Backend = "memory"
  PROVE  Spec => []BaselineIsNewestWork
<1>1. Init => TypeOK /\ QueuedCarryEvidence /\ QueueInv /\ NewestInv
  <2>1. Init => \A d \in Deliveries : ~Recorded(d)
    BY NoneIsNoAnswer DEF Init, Recorded, Answers
  <2>2. Init => TypeOK /\ QueuedCarryEvidence /\ QueueInv
    BY DEF Init, TypeOK, QueuedCarryEvidence, QueueInv,
       Coordinator!Init, Coordinator!TypeOK, Coordinator!Phases
  <2> QED BY <2>1, <2>2 DEF Init, NewestInv
<1>2. TypeOK /\ QueuedCarryEvidence /\ QueueInv /\ NewestInv /\ [Next]_vars
        => (TypeOK /\ QueuedCarryEvidence /\ QueueInv /\ NewestInv)'
  BY TypeStep, QueueInvStep, NewestStep
<1>3. ASSUME TypeOK, NewestInv PROVE BaselineIsNewestWork
  <2> DEFINE triaged == {d \in Deliveries : Recorded(d) /\ RunIdOf[d] \in Candidates}
  <2> SUFFICES ASSUME NEW d \in triaged, \A e \in triaged : ticket[e] <= ticket[d],
                      NEW s \in Candidates, ~(runs[s].createdAt <= runs[RunIdOf[d]].createdAt)
               PROVE  FALSE
    BY DEF BaselineIsNewestWork, IsLatest
  <2>1. /\ \A r \in RunIds : runs[r] # None => runs[r].createdAt \in Nat
        /\ \A e \in Deliveries : ticket[e] \in Nat
    BY <1>3 DEF TypeOK, Run, Coordinator!TypeOK
  <2>2. runs[RunIdOf[d]] # None /\ RunIdOf[d] \in RunIds /\ s \in RunIds /\ runs[s] # None
    BY DEF Candidates
  <2>3. runs[RunIdOf[d]].createdAt < runs[s].createdAt
    BY <2>1, <2>2
  <2>4. PICK e \in Deliveries : Recorded(e) /\ RunIdOf[e] = s /\ ticket[d] < ticket[e]
    BY <1>3, <2>2, <2>3 DEF NewestInv
  <2>5. e \in triaged
    BY <2>4
  <2> QED BY <2>1, <2>4, <2>5
<1> QED BY <1>1, <1>2, <1>3, PTL DEF Spec
=============================================================================
