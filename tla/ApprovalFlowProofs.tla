------------------------- MODULE ApprovalFlowProofs -------------------------
(***************************************************************************)
(* Theorems about ApprovalFlow, for every catalog, every set of decisions   *)
(* and packages and any number of approval commands; and about the gates    *)
(* and the scorecard that judge its runs (QualityGates).                    *)
(***************************************************************************)
EXTENDS QualityGates, SequenceTheorems, TLAPS

\* A control that asks for approval has matched an entry of the catalog.
LEMMA RequestHasEntry ==
  ASSUME NEW d, NEW p, NEW m,
         "approvalRequest" \in StripReadOnly(EvaluateMitigationControl(d, p), m).artefacts
  PROVE  StripReadOnly(EvaluateMitigationControl(d, p), m).entry \in Catalog
<1> DEFINE c == EvaluateMitigationControl(d, p)
           entry == MatchCatalog(d)
<1>1. "approvalRequest" \in c.artefacts /\ StripReadOnly(c, m).entry = c.entry
  <2>1. CASE m = "read_only" /\ c.status = "approval_required"
    <3>1. DOMAIN c = {"status", "entry", "artefacts", "verification"}
      BY DEF EvaluateMitigationControl
    <3>2. StripReadOnly(c, m) = [c EXCEPT !.artefacts = {}]
      BY <2>1 DEF StripReadOnly
    <3> QED BY <3>1, <3>2
  <2>2. CASE ~(m = "read_only" /\ c.status = "approval_required")
    BY <2>2 DEF StripReadOnly
  <2> QED BY <2>1, <2>2
<1>2. d.action \in Sensitive /\ entry # NoEntry /\ c.entry = entry
  BY <1>1 DEF EvaluateMitigationControl
<1>3. entry \in Catalog
  BY <1>2 DEF MatchCatalog
<1> QED BY <1>1, <1>2, <1>3

\* The fields of a run.
LEMMA TriageRunFields ==
  ASSUME NEW a, NEW p, NEW m
  PROVE  LET r == TriageRun(a, p, m)
             v == Validated(a, p)
             c == StripReadOnly(EvaluateMitigationControl(v.decision, p), m)
             s == EvaluateSafety(v.decision, c, m)
         IN  /\ r.decision = v.decision /\ r.validation = v
             /\ r.answer = a /\ r.package = p
             /\ v.decision = NoDecision =>
                  /\ DOMAIN r = {"answer", "package", "decision", "validation", "states"}
                  /\ r.states = Intake \o <<"recoverable_failure", "scored">>
             /\ v.decision # NoDecision =>
                  /\ DOMAIN r = {"answer", "package", "decision", "validation", "states",
                                 "control", "safety"}
                  /\ r.control = c /\ r.safety = s
                  /\ r.states = Intake \o <<"decision_validated">> \o Outcome(c, s, m) \o <<"scored">>
<1> DEFINE v == Validated(a, p)
           c == StripReadOnly(EvaluateMitigationControl(v.decision, p), m)
           s == EvaluateSafety(v.decision, c, m)
           failed == Intake \o <<"recoverable_failure", "scored">>
           done == Intake \o <<"decision_validated">> \o Outcome(c, s, m) \o <<"scored">>
<1>1. TriageRun(a, p, m) =
        IF v.decision = NoDecision
        THEN [answer |-> a, package |-> p, decision |-> v.decision, validation |-> v,
              states |-> failed]
        ELSE [answer |-> a, package |-> p, decision |-> v.decision, validation |-> v,
              control |-> c, safety |-> s, states |-> done]
  BY DEF TriageRun
<1> HIDE DEF v, c, s, failed, done
<1>2. CASE v.decision = NoDecision
  BY <1>1, <1>2 DEF v, c, s, failed, done
<1>3. CASE v.decision # NoDecision
  BY <1>1, <1>3 DEF v, c, s, failed, done
<1> QED BY <1>2, <1>3

\* The request of a run that asks for approval is about an entry of the catalog.
LEMMA RequestOfRun ==
  ASSUME TypeOK, run # None, AsksForApproval(run)
  PROVE  run.control.entry.id \in Ids
<1> DEFINE d == Validated(run.answer, run.package).decision
           c == StripReadOnly(EvaluateMitigationControl(d, run.package), mode)
<1>1. run = TriageRun(run.answer, run.package, mode)
  BY DEF TypeOK
<1>2. run.decision = d
  BY <1>1, TriageRunFields
<1>3. d # NoDecision
  BY <1>2 DEF AsksForApproval
<1>4. run.control = c
  BY <1>1, <1>3, TriageRunFields
<1>5. c.entry \in Catalog
  BY <1>4, RequestHasEntry DEF AsksForApproval
<1> QED BY <1>4, <1>5 DEF Ids

-----------------------------------------------------------------------------
(***************************************************************************)
(* Mode, run, file and the operations on it keep their types.               *)
(***************************************************************************)

\* What is loaded is a change of the file.
LEMMA LoadTypes ==
  ASSUME TypeOK, NEW w \in Writers, NEW k \in Kinds, NEW i \in Ids,
         Load(w, k, i) \/ NothingToDo(w, k, i)
  PROVE  op' \in [Writers -> Operation] /\ UNCHANGED <<file, known, disturbed>>
<1>1. CASE NothingToDo(w, k, i)
  BY <1>1 DEF NothingToDo, TypeOK, Operation
<1>2. CASE Load(w, k, i)
  <2>1. file \in Approvals
    BY <1>2 DEF Load, Readable, TypeOK
  <2>2. StatusOf(k) \in Status
    BY DEF StatusOf, Kinds, Status
  <2>3. Changed(i, StatusOf(k)) \in Approvals
    BY <2>1, <2>2 DEF Changed, Approvals
  <2>4. [step |-> "loaded", kind |-> k, id |-> i, view |-> Changed(i, StatusOf(k))] \in Operation
    BY <2>3 DEF Operation
  <2> QED BY <1>2, <2>4 DEF Load, TypeOK
<1> QED BY <1>1, <1>2

\* A writer with changed records in hand has an operation with a view.
LEMMA ViewTypes ==
  ASSUME TypeOK, NEW w \in Writers, op[w].step \in {"loaded", "truncated"}
  PROVE  op[w] \in [step : {"loaded", "truncated"}, kind : Kinds, id : Ids, view : Approvals]
BY DEF TypeOK, Operation, Idle

LEMMA TypeStep == TypeOK /\ [Next]_vars => TypeOK'
<1> SUFFICES ASSUME TypeOK, [Next]_vars PROVE TypeOK'
  OBVIOUS
<1>s. Server \in Writers
  BY DEF Writers
<1>d. disturbed \in BOOLEAN /\ known \in Approvals /\ Nothing \in Approvals
  BY DEF TypeOK, Nothing, Approvals
<1>c. ASSUME NEW cause \in BOOLEAN, Disturbing(cause)
      PROVE  disturbed' \in BOOLEAN /\ known' \in Approvals
  BY <1>c, <1>d DEF Disturbing
<1>1. CASE Triage
  <2>1. PICK a \in Answers, p \in Packages : run' = TriageRun(a, p, mode)
    BY <1>1 DEF Triage
  <2>2. run'.answer = a /\ run'.package = p
    BY <2>1, TriageRunFields
  <2> QED BY <1>1, <2>1, <2>2 DEF Triage, TypeOK
<1>2. CASE FileRequest
  <2>1. run.control.entry.id \in Ids /\ "request" \in Kinds
    BY <1>2, RequestOfRun DEF FileRequest, Kinds
  <2>2. op' \in [Writers -> Operation] /\ UNCHANGED <<file, known, disturbed>>
    BY <1>2, <1>s, <2>1, LoadTypes DEF FileRequest
  <2> QED BY <1>2, <2>2 DEF FileRequest, TypeOK
<1>3. CASE Answer
  BY <1>3 DEF Answer, TypeOK
<1>4. CASE DecideFound
  <2>1. op[Server].kind \in Kinds /\ op[Server].id \in Ids
    BY <1>4, <1>s DEF DecideFound, TypeOK, Operation, Idle
  <2>2. op' \in [Writers -> Operation] /\ UNCHANGED <<file, known, disturbed>>
    BY <1>4, <1>s, <2>1, LoadTypes DEF DecideFound
  <2> QED BY <1>4, <2>2 DEF DecideFound, TypeOK
<1>5. ASSUME NEW k \in Kinds, NEW i \in Ids, ConsoleDecision(k, i) PROVE TypeOK'
  <2>1. [step |-> "found", kind |-> k, id |-> i] \in Operation
    BY DEF Operation
  <2> QED BY <1>5, <1>s, <2>1 DEF ConsoleDecision, TypeOK
<1>6. ASSUME NEW k \in Kinds, NEW i \in Ids, NEW w \in Clis, Command(w, k, i) PROVE TypeOK'
  <2>1. op' \in [Writers -> Operation] /\ UNCHANGED <<file, known, disturbed>>
    BY <1>6, LoadTypes DEF Command, Writers
  <2> QED BY <1>6, <2>1 DEF Command, TypeOK
<1>7. ASSUME NEW w \in Writers, Truncate(w) PROVE TypeOK'
  <2>1. [op[w] EXCEPT !.step = "truncated"] \in Operation
    BY <1>7, ViewTypes DEF Truncate, Operation
  <2>2. op' \in [Writers -> Operation]
    BY <1>7, <2>1 DEF Truncate, TypeOK
  <2>3. disturbed' \in BOOLEAN /\ known' \in Approvals
    BY <1>7, <1>c DEF Truncate
  <2> QED BY <1>7, <2>2, <2>3 DEF Truncate, TypeOK
<1>8. ASSUME NEW w \in Writers, Write(w) PROVE TypeOK'
  <2>1. op[w].kind \in Kinds /\ op[w].id \in Ids /\ op[w].view \in Approvals
    BY <1>8, ViewTypes DEF Write
  <2>2. op' \in [Writers -> Operation]
    BY <1>8 DEF Write, TypeOK, Operation
  <2>3. file' \in Approvals \cup {Empty, Garbage}
    BY <1>8, <2>1 DEF Write
  <2>4. Acknowledged(known[op[w].id], op[w].kind) \in Status \cup {None}
    BY <1>d, <2>1 DEF Acknowledged, StatusOf, Kinds, Status, Approvals
  <2>5. known' \in Approvals
    BY <1>8, <1>d, <2>4 DEF Write, Approvals
  <2> QED BY <1>8, <1>d, <2>2, <2>3, <2>5 DEF Write, TypeOK
<1>9. ASSUME NEW w \in Writers, Stopped(w)
      PROVE  /\ op' \in [Writers -> Operation] /\ UNCHANGED file
             /\ disturbed' \in BOOLEAN /\ known' \in Approvals
  <2>1. Idle \in Operation
    BY DEF Operation
  <2>2. op' \in [Writers -> Operation] /\ UNCHANGED file
    BY <1>9, <2>1 DEF Stopped, TypeOK
  <2>3. disturbed' \in BOOLEAN /\ known' \in Approvals
    BY <1>9, <1>d DEF Stopped, Disturbing
  <2> QED BY <2>2, <2>3
<1>10. ASSUME NEW w \in Writers, StopCommand(w) PROVE TypeOK'
  BY <1>9, <1>10 DEF StopCommand, TypeOK
<1>11. CASE RestartServer
  BY <1>9, <1>11, <1>s DEF RestartServer, TypeOK
<1>12. CASE UNCHANGED vars
  BY <1>12 DEF vars, TypeOK
<1> QED BY <1>1, <1>2, <1>3, <1>4, <1>5, <1>6, <1>7, <1>8, <1>10, <1>11, <1>12 DEF Next

\* The records of the approval flow keep their types, whatever the catalog.
THEOREM ApprovalTypes == Spec => []TypeOK
<1>1. Init => TypeOK
  <2> SUFFICES ASSUME Init PROVE TypeOK
    OBVIOUS
  <2>1. Nothing \in Approvals
    BY DEF Nothing, Approvals
  <2>2. [w \in Writers |-> Idle] \in [Writers -> Operation]
    BY DEF Operation
  <2>3. op \in [Writers -> Operation] /\ file \in Approvals /\ known \in Approvals
    BY <2>1, <2>2 DEF Init
  <2>4. mode \in Modes /\ run = None /\ disturbed \in BOOLEAN
    BY DEF Init
  <2> QED BY <2>3, <2>4 DEF TypeOK
<1> QED BY <1>1, TypeStep, PTL DEF Spec

-----------------------------------------------------------------------------
(***************************************************************************)
(* The store, as long as no two calls overlapped and none stopped in the    *)
(* middle of a save: a writer that truncated the file is alone, otherwise   *)
(* the file is what was acknowledged; and what a writer has in hand is that *)
(* with its own change.                                                     *)
(***************************************************************************)

InHand(w) == op[w].step \in {"loaded", "truncated"}

FileIsKnown == (\A w \in Writers : op[w].step # "truncated") => file = known

SaverIsAlone ==
  \A w \in Writers : op[w].step = "truncated" =>
    file = Empty /\ \A v \in Writers : InHand(v) => v = w

ViewsAreFresh ==
  \A w \in Writers : InHand(w) =>
    /\ op[w].view = [known EXCEPT ![op[w].id] = StatusOf(op[w].kind)]
    /\ op[w].kind = "request" => known[op[w].id] = None

StoreInv == ~disturbed => FileIsKnown /\ SaverIsAlone /\ ViewsAreFresh

\* A call that begins finds the acknowledged records, or an unreadable file.
LEMMA LoadKeepsInv ==
  ASSUME TypeOK, StoreInv, NEW w \in Writers, NEW k \in Kinds, NEW i \in Ids,
         op[w].step # "truncated",
         Load(w, k, i) \/ NothingToDo(w, k, i)
  PROVE  StoreInv'
<1> SUFFICES ASSUME ~disturbed PROVE FileIsKnown' /\ SaverIsAlone' /\ ViewsAreFresh'
  BY DEF StoreInv, Load, NothingToDo
<1>1. FileIsKnown /\ SaverIsAlone /\ ViewsAreFresh /\ op \in [Writers -> Operation]
  BY DEF StoreInv, TypeOK
<1>2. CASE NothingToDo(w, k, i)
  <2>1. /\ UNCHANGED <<file, known>> /\ op'[w].step = "idle"
        /\ \A v \in Writers : v # w => op'[v] = op[v]
    BY <1>1, <1>2 DEF NothingToDo, Idle
  <2> QED BY <1>1, <2>1 DEF FileIsKnown, SaverIsAlone, ViewsAreFresh, InHand
<1>3. CASE Load(w, k, i)
  <2> DEFINE new == [step |-> "loaded", kind |-> k, id |-> i, view |-> Changed(i, StatusOf(k))]
  <2>1. /\ UNCHANGED <<file, known>> /\ op'[w] = new
        /\ \A v \in Writers : v # w => op'[v] = op[v]
    BY <1>1, <1>3 DEF Load
  <2>2. \A v \in Writers : op[v].step # "truncated"
    BY <1>1, <1>3 DEF Load, Readable, SaverIsAlone
  <2>3. file = known
    BY <1>1, <2>2 DEF FileIsKnown
  <2>4. /\ new.view = [known EXCEPT ![i] = StatusOf(k)]
        /\ k = "request" => known[i] = None
    BY <1>3, <2>3 DEF Load, Existing, Changed
  <2>5. FileIsKnown'
    BY <2>1, <2>3 DEF FileIsKnown
  <2>6. SaverIsAlone'
    BY <2>1, <2>2 DEF SaverIsAlone
  <2>7. ViewsAreFresh'
    <3> SUFFICES ASSUME NEW v \in Writers, InHand(v)'
                 PROVE  /\ op'[v].view = [known EXCEPT ![op'[v].id] = StatusOf(op'[v].kind)]
                        /\ op'[v].kind = "request" => known[op'[v].id] = None
      BY <2>1 DEF ViewsAreFresh
    <3>0. new.id = i /\ new.kind = k
      OBVIOUS
    <3>1. CASE v = w
      <4> HIDE DEF new
      <4>1. op'[v] = new
        BY <2>1, <3>1
      <4> QED BY <2>4, <3>0, <4>1
    <3>2. CASE v # w
      BY <1>1, <2>1, <3>2 DEF ViewsAreFresh, InHand
    <3> QED BY <3>1, <3>2
  <2> QED BY <2>5, <2>6, <2>7
<1> QED BY <1>2, <1>3

LEMMA TruncateKeepsInv ==
  ASSUME TypeOK, StoreInv, NEW w \in Writers, Truncate(w)
  PROVE  StoreInv'
<1> SUFFICES ASSUME ~disturbed' PROVE FileIsKnown' /\ SaverIsAlone' /\ ViewsAreFresh'
  BY DEF StoreInv
<1>1. /\ ~disturbed /\ known' = known /\ file' = Empty
      /\ \A v \in Writers : InHand(v) => v = w
  BY DEF Truncate, Disturbing, InHand, TypeOK
<1>2. FileIsKnown /\ SaverIsAlone /\ ViewsAreFresh
  BY <1>1 DEF StoreInv
<1>3. op[w] \in [step : {"loaded", "truncated"}, kind : Kinds, id : Ids, view : Approvals]
  BY ViewTypes DEF Truncate
<1>4. /\ op'[w].step = "truncated" /\ op'[w].view = op[w].view
      /\ op'[w].kind = op[w].kind /\ op'[w].id = op[w].id
      /\ \A v \in Writers : v # w => op'[v] = op[v]
  BY <1>3 DEF Truncate, TypeOK
<1>5. ViewsAreFresh'
  BY <1>1, <1>2, <1>3, <1>4 DEF ViewsAreFresh, InHand
<1> QED BY <1>1, <1>4, <1>5 DEF FileIsKnown, SaverIsAlone, InHand

LEMMA WriteKeepsInv ==
  ASSUME TypeOK, StoreInv, NEW w \in Writers, Write(w)
  PROVE  StoreInv'
<1> SUFFICES ASSUME ~disturbed PROVE FileIsKnown' /\ SaverIsAlone' /\ ViewsAreFresh'
  BY DEF StoreInv, Write
<1>1. FileIsKnown /\ SaverIsAlone /\ ViewsAreFresh
  BY DEF StoreInv
<1>2. op[w].step = "truncated" /\ InHand(w)
  BY DEF Write, InHand
<1>3. file = Empty /\ \A v \in Writers : InHand(v) => v = w
  BY <1>1, <1>2 DEF SaverIsAlone
<1>4. /\ op[w].view = [known EXCEPT ![op[w].id] = StatusOf(op[w].kind)]
      /\ op[w].kind = "request" => known[op[w].id] = None
  BY <1>1, <1>2 DEF ViewsAreFresh
<1>5. Acknowledged(known[op[w].id], op[w].kind) = StatusOf(op[w].kind)
  BY <1>4 DEF Acknowledged
<1>6. file' = op[w].view
  BY <1>3 DEF Write
<1>7. known' = [known EXCEPT ![op[w].id] = StatusOf(op[w].kind)]
  BY <1>5 DEF Write
<1>8. op'[w].step = "idle" /\ \A v \in Writers : v # w => op'[v] = op[v]
  BY DEF Write, Idle, TypeOK
<1>9. \A v \in Writers : ~InHand(v)'
  BY <1>3, <1>8 DEF InHand
<1> QED BY <1>4, <1>6, <1>7, <1>9 DEF FileIsKnown, SaverIsAlone, ViewsAreFresh, InHand

LEMMA StopKeepsInv ==
  ASSUME TypeOK, StoreInv, NEW w \in Writers, Stopped(w)
  PROVE  StoreInv'
<1> SUFFICES ASSUME ~disturbed' PROVE FileIsKnown' /\ SaverIsAlone' /\ ViewsAreFresh'
  BY DEF StoreInv
<1>1. ~disturbed /\ UNCHANGED <<known, file>> /\ op[w].step # "truncated"
  BY DEF Stopped, Disturbing, TypeOK
<1>2. FileIsKnown /\ SaverIsAlone /\ ViewsAreFresh
  BY <1>1 DEF StoreInv
<1>3. op'[w].step = "idle" /\ \A v \in Writers : v # w => op'[v] = op[v]
  BY DEF Stopped, Idle, TypeOK
<1> QED BY <1>1, <1>2, <1>3 DEF FileIsKnown, SaverIsAlone, ViewsAreFresh, InHand

LEMMA StoreStep == TypeOK /\ StoreInv /\ [Next]_vars => StoreInv'
<1> SUFFICES ASSUME TypeOK, StoreInv, [Next]_vars PROVE StoreInv'
  OBVIOUS
<1>s. Server \in Writers
  BY DEF Writers
<1>u. ASSUME UNCHANGED <<file, op, known, disturbed>> PROVE StoreInv'
  BY <1>u DEF StoreInv, FileIsKnown, SaverIsAlone, ViewsAreFresh, InHand
<1>1. CASE Triage \/ Answer
  BY <1>1, <1>u DEF Triage, Answer
<1>2. CASE FileRequest
  <2>1. run.control.entry.id \in Ids /\ "request" \in Kinds /\ op[Server].step = "idle"
    BY <1>2, RequestOfRun DEF FileRequest, Kinds, IdleWriter, Idle
  <2> QED BY <1>2, <1>s, <2>1, LoadKeepsInv DEF FileRequest
<1>3. CASE DecideFound
  <2>1. op[Server].kind \in Kinds /\ op[Server].id \in Ids /\ op[Server].step = "found"
    BY <1>3, <1>s DEF DecideFound, TypeOK, Operation, Idle
  <2> QED BY <1>3, <1>s, <2>1, LoadKeepsInv DEF DecideFound
<1>4. ASSUME NEW k \in Kinds, NEW i \in Ids, ConsoleDecision(k, i) PROVE StoreInv'
  <2>1. /\ UNCHANGED <<file, known, disturbed>> /\ op[Server].step = "idle"
        /\ op'[Server].step = "found" /\ \A v \in Writers : v # Server => op'[v] = op[v]
    BY <1>4, <1>s DEF ConsoleDecision, IdleWriter, Idle, TypeOK
  <2> QED BY <2>1 DEF StoreInv, FileIsKnown, SaverIsAlone, ViewsAreFresh, InHand
<1>5. ASSUME NEW k \in Kinds, NEW i \in Ids, NEW w \in Clis, Command(w, k, i) PROVE StoreInv'
  <2>1. w \in Writers /\ op[w].step = "idle"
    BY <1>5 DEF Command, IdleWriter, Idle, Writers
  <2> QED BY <1>5, <2>1, LoadKeepsInv DEF Command
<1>6. ASSUME NEW w \in Writers, StopCommand(w) PROVE StoreInv'
  BY <1>6, StopKeepsInv DEF StopCommand
<1>7. CASE RestartServer
  BY <1>7, <1>s, StopKeepsInv DEF RestartServer
<1>8. CASE UNCHANGED vars
  BY <1>8, <1>u DEF vars
<1> QED BY <1>1, <1>2, <1>3, <1>4, <1>5, <1>6, <1>7, <1>8, TruncateKeepsInv, WriteKeepsInv DEF Next

(***************************************************************************)
(* With any number of approval commands beside the server: unless two calls *)
(* overlapped or one stopped in the middle of saveApprovalStore, the file   *)
(* shows of every approval what the last call about it acknowledged.        *)
(***************************************************************************)
THEOREM ApprovalsKept == Spec => []AcknowledgedOnFile
<1>1. Init => StoreInv
  BY DEF Init, StoreInv, FileIsKnown, SaverIsAlone, ViewsAreFresh, InHand, Idle
<1>2. StoreInv => AcknowledgedOnFile
  BY DEF StoreInv, FileIsKnown, AcknowledgedOnFile, AllIdle, IdleWriter, Idle
<1> QED BY <1>1, <1>2, StoreStep, ApprovalTypes, PTL DEF Spec

-----------------------------------------------------------------------------
(***************************************************************************)
(* What a triage makes of a decision, for every decision, package and mode. *)
(***************************************************************************)

\* The states of a run (workflow.ts).
StateNames ==
  {"recoverable_failure", "received", "context_gathered", "llm_decision_requested", "decision_validated", "scored",
   "approval_pending", "simulated_action_recorded", "verification_failed",
   "human_input_needed", "verification_ready"}

LEMMA OutcomeTypes ==
  ASSUME NEW c, NEW s, NEW m
  PROVE  Outcome(c, s, m) \in Seq(StateNames)
<1> DEFINE staged == <<"approval_pending", "simulated_action_recorded">>
<1>1. /\ staged \in Seq(StateNames) /\ <<"verification_failed">> \in Seq(StateNames)
      /\ <<"verification_ready">> \in Seq(StateNames)
      /\ <<"human_input_needed">> \in Seq(StateNames)
      /\ << >> \in Seq(StateNames)
  BY DEF StateNames
<1> HIDE DEF staged
<1>2. /\ staged \o <<"verification_failed">> \in Seq(StateNames)
      /\ staged \o << >> \in Seq(StateNames)
  BY <1>1
<1> QED BY <1>1, <1>2 DEF Outcome, staged

\* The states of a run with a valid decision are those every run passes through
\* and those of its outcome.
LEMMA StatesOfTriage ==
  ASSUME NEW c, NEW s, NEW m, NEW r,
         r.states = Intake \o <<"decision_validated">> \o Outcome(c, s, m) \o <<"scored">>
  PROVE  StatesOf(r) = {"received", "context_gathered", "llm_decision_requested",
                        "decision_validated", "scored"} \cup Range(Outcome(c, s, m))
<1> DEFINE before == Intake \o <<"decision_validated">>
           outcome == Outcome(c, s, m)
           decided == before \o outcome
           last == <<"scored">>
<1>1. /\ Intake \in Seq(StateNames)
      /\ <<"decision_validated">> \in Seq(StateNames)
      /\ last \in Seq(StateNames)
  BY DEF Intake, StateNames
<1>2. outcome \in Seq(StateNames)
  BY OutcomeTypes
<1>3. before \in Seq(StateNames) /\ decided \in Seq(StateNames)
  BY <1>1, <1>2
<1>4. StatesOf(r) = Range(decided \o last)
  BY DEF StatesOf, Range
<1>5. Range(before) = Range(Intake) \cup Range(<<"decision_validated">>)
  BY <1>1, RangeConcatenation
<1> HIDE DEF before, outcome
<1>6. Range(decided) = Range(before) \cup Range(outcome)
  BY <1>2, <1>3, RangeConcatenation
<1> HIDE DEF decided, last
<1>7. Range(decided \o last) = Range(decided) \cup Range(last)
  BY <1>1, <1>3, RangeConcatenation
<1>8. /\ Range(Intake) = {"received", "context_gathered", "llm_decision_requested"}
      /\ Range(<<"decision_validated">>) = {"decision_validated"}
      /\ Range(last) = {"scored"}
  BY DEF Intake, Range, last
<1>9. StatesOf(r) = Range(Intake) \cup {"decision_validated"} \cup Range(outcome) \cup {"scored"}
  BY <1>4, <1>5, <1>6, <1>7, <1>8
<1> QED BY <1>8, <1>9 DEF outcome

\* The states of an outcome, by the result of the safety policy and the mode.
LEMMA OutcomeStates ==
  ASSUME NEW c, NEW s, NEW m
  PROVE  /\ s.status = "approval_required" /\ m = "read_only" =>
              Range(Outcome(c, s, m)) = {"verification_ready"}
         /\ s.status = "approval_required" /\ m # "read_only" =>
              /\ {"approval_pending", "simulated_action_recorded"} \subseteq Range(Outcome(c, s, m))
         /\ s.status = "needs_human_input" => Range(Outcome(c, s, m)) = {"human_input_needed"}
         /\ s.status \notin {"approval_required", "needs_human_input"} =>
              Range(Outcome(c, s, m)) = {"verification_ready"}
<1>1. CASE s.status = "approval_required" /\ m = "read_only"
  <2>1. Outcome(c, s, m) = <<"verification_ready">>
    BY <1>1 DEF Outcome
  <2> QED BY <1>1, <2>1 DEF Range
<1>2. CASE s.status = "approval_required" /\ m # "read_only"
  <2> DEFINE failed == IF c.verification = "still_unhealthy" THEN <<"verification_failed">> ELSE <<>>
             staged == <<"approval_pending", "simulated_action_recorded">>
  <2>1. Outcome(c, s, m) = staged \o failed
    BY <1>2 DEF Outcome
  <2>2. staged \in Seq(StateNames) /\ failed \in Seq(StateNames)
    <3>1. << >> \in Seq(StateNames) /\ <<"verification_failed">> \in Seq(StateNames)
      BY DEF StateNames
    <3>2. staged \in Seq(StateNames)
      BY DEF StateNames
    <3>3. failed \in {<< >>, <<"verification_failed">>}
      OBVIOUS
    <3> QED BY <3>1, <3>2, <3>3
  <2>3. Range(staged \o failed) = Range(staged) \cup Range(failed)
    BY <2>2, RangeConcatenation
  <2>4. Range(staged) = {"approval_pending", "simulated_action_recorded"}
    BY DEF Range
  <2> HIDE DEF staged, failed
  <2> QED BY <1>2, <2>1, <2>3, <2>4
<1>3. CASE s.status = "needs_human_input"
  <2>1. Outcome(c, s, m) = <<"human_input_needed">>
    BY <1>3 DEF Outcome
  <2> QED BY <1>3, <2>1 DEF Range
<1>4. CASE s.status \notin {"approval_required", "needs_human_input"}
  <2>1. Outcome(c, s, m) = <<"verification_ready">>
    BY <1>4 DEF Outcome
  <2> QED BY <1>4, <2>1 DEF Range
<1> QED BY <1>1, <1>2, <1>3, <1>4

\* The control of a run with a valid decision d and package p in mode m.
LEMMA ControlFacts ==
  ASSUME NEW d, NEW p, NEW m, NEW c, NEW s,
         c = StripReadOnly(EvaluateMitigationControl(d, p), m),
         s = EvaluateSafety(d, c, m)
  PROVE  /\ s.status = "approval_required" <=> c.status = "approval_required"
         /\ s.status = "approval_required" => s.audited = (m # "read_only")
         /\ d.action \in Sensitive => c.status \in {"approval_required", "blocked"}
         /\ c.status = "blocked" => s.status = "needs_human_input"
         /\ c.status # "approval_required" \/ m = "read_only" => c.artefacts = {}
         /\ c.status = "approval_required" =>
              /\ c.entry # NoEntry /\ c.entry.sources \subseteq Sources(p)
              /\ m # "read_only" => "approvalRequest" \in c.artefacts
<1> DEFINE made == EvaluateMitigationControl(d, p)
           entry == MatchCatalog(d)
<1>1. /\ d.action \in Sensitive => made.status \in {"approval_required", "blocked"}
      /\ made.status # "approval_required" => made.artefacts = {}
      /\ made.status \in {"recommendation_only", "approval_required", "blocked"}
      /\ made.status = "approval_required" =>
           /\ "approvalRequest" \in made.artefacts
           /\ made.entry = entry /\ entry # NoEntry /\ MissingEvidence(entry, p) = {}
  BY DEF EvaluateMitigationControl
<1>2. /\ c.status = made.status /\ c.entry = made.entry
      /\ c.artefacts = IF m = "read_only" /\ made.status = "approval_required"
                       THEN {} ELSE made.artefacts
  <2>1. DOMAIN made = {"status", "entry", "artefacts", "verification"}
    BY DEF EvaluateMitigationControl
  <2>2. CASE m = "read_only" /\ made.status = "approval_required"
    BY <2>1, <2>2 DEF StripReadOnly
  <2>3. CASE ~(m = "read_only" /\ made.status = "approval_required")
    BY <2>3 DEF StripReadOnly
  <2> QED BY <2>2, <2>3
<1> HIDE DEF made, entry
<1>3. /\ s.status = "approval_required" <=> c.status = "approval_required"
      /\ s.status = "approval_required" => s.audited = (m # "read_only")
      /\ c.status = "blocked" => s.status = "needs_human_input"
  BY DEF EvaluateSafety
<1>4. MissingEvidence(entry, p) = {} => entry.sources \subseteq Sources(p)
  BY DEF MissingEvidence
<1> QED BY <1>1, <1>2, <1>3, <1>4

\* The run between its end and its answer, when its decision was valid.
LEMMA ValidRun ==
  ASSUME TypeOK, run # None, run.decision # NoDecision
  PROVE  /\ run.control = StripReadOnly(EvaluateMitigationControl(run.decision, run.package), mode)
         /\ run.safety = EvaluateSafety(run.decision, run.control, mode)
         /\ run.states = Intake \o <<"decision_validated">>
                           \o Outcome(run.control, run.safety, mode) \o <<"scored">>
         /\ "control" \in DOMAIN run
<1>1. run = TriageRun(run.answer, run.package, mode)
  BY DEF TypeOK
<1> DEFINE v == Validated(run.answer, run.package)
           c == StripReadOnly(EvaluateMitigationControl(v.decision, run.package), mode)
<1>2. /\ run.decision = v.decision
      /\ v.decision # NoDecision =>
           /\ DOMAIN run = {"answer", "package", "decision", "validation", "states",
                            "control", "safety"}
           /\ run.control = c /\ run.safety = EvaluateSafety(v.decision, c, mode)
           /\ run.states = Intake \o <<"decision_validated">>
                             \o Outcome(c, EvaluateSafety(v.decision, c, mode), mode) \o <<"scored">>
  BY <1>1, TriageRunFields
<1> HIDE DEF v
<1> QED BY <1>2

\* The states of a run with a valid decision, by its safety status and the mode.
LEMMA ValidRunStates ==
  ASSUME TypeOK, run # None, run.decision # NoDecision
  PROVE  \E outcome \in SUBSET StateNames :
           /\ StatesOf(run) = {"received", "context_gathered", "llm_decision_requested",
                               "decision_validated", "scored"} \cup outcome
           /\ run.safety.status = "approval_required" /\ mode = "read_only" =>
                outcome = {"verification_ready"}
           /\ run.safety.status = "approval_required" /\ mode # "read_only" =>
                {"approval_pending", "simulated_action_recorded"} \subseteq outcome
           /\ run.safety.status = "needs_human_input" => outcome = {"human_input_needed"}
           /\ run.safety.status \notin {"approval_required", "needs_human_input"} =>
                outcome = {"verification_ready"}
<1> DEFINE outcome == Range(Outcome(run.control, run.safety, mode))
<1>1. outcome \in SUBSET StateNames
  BY OutcomeTypes, RangeOfSeq
<1>2. StatesOf(run) = {"received", "context_gathered", "llm_decision_requested",
                       "decision_validated", "scored"} \cup outcome
  BY ValidRun, StatesOfTriage
<1> WITNESS outcome \in SUBSET StateNames
<1> QED BY <1>2, OutcomeStates

(***************************************************************************)
(* For every catalog, decision, package and mode: a sensitive action needs  *)
(* an approval, with the evidence its entry requires, or a human.           *)
(***************************************************************************)
THEOREM SensitiveActions == Spec => []SensitiveNeedsHuman
<1>1. TypeOK => SensitiveNeedsHuman
  <2> SUFFICES ASSUME TypeOK, run # None, run.decision # NoDecision
               PROVE  LET asked == "approval_pending" \in StatesOf(run)
                      IN  /\ run.decision.action \in Sensitive => run.safety.status # "safe_recommendation"
                          /\ asked <=> "approvalRequest" \in run.control.artefacts
                          /\ asked => run.control.entry # NoEntry
                               /\ run.control.entry.sources \subseteq Sources(run.package)
    BY DEF SensitiveNeedsHuman
  <2> DEFINE c == run.control
             s == run.safety
             asked == "approval_pending" \in StatesOf(run)
  <2>1. /\ s.status = "approval_required" <=> c.status = "approval_required"
        /\ run.decision.action \in Sensitive => c.status \in {"approval_required", "blocked"}
        /\ c.status = "blocked" => s.status = "needs_human_input"
        /\ c.status # "approval_required" \/ mode = "read_only" => c.artefacts = {}
        /\ c.status = "approval_required" =>
             /\ c.entry # NoEntry /\ c.entry.sources \subseteq Sources(run.package)
             /\ mode # "read_only" => "approvalRequest" \in c.artefacts
    BY ValidRun, ControlFacts
  <2>2. asked <=> s.status = "approval_required" /\ mode # "read_only"
    BY ValidRunStates
  <2> HIDE DEF c, s, asked
  <2> QED BY <2>1, <2>2 DEF c, s, asked
<1> QED BY <1>1, ApprovalTypes, PTL

\* The server of a read-only deployment does nothing to the approval store.
ServerReadsOnly == mode = "read_only" => IdleWriter(Server)

LEMMA ReadOnlyStep == TypeOK /\ ServerReadsOnly /\ [Next]_vars => ServerReadsOnly'
<1> SUFFICES ASSUME TypeOK, ServerReadsOnly, [Next]_vars, mode' = "read_only"
             PROVE  op'[Server] = Idle
  BY DEF ServerReadsOnly, IdleWriter
<1>s. Server \in Writers /\ op \in [Writers -> Operation]
  BY DEF Writers, TypeOK
<1>m. ASSUME mode' = mode PROVE op[Server] = Idle /\ op[Server].step = "idle"
  BY <1>m DEF ServerReadsOnly, IdleWriter, Idle
<1>1. CASE Triage \/ Answer \/ UNCHANGED vars
  BY <1>1, <1>m DEF Triage, Answer, vars
<1>2. CASE FileRequest
  BY <1>2 DEF FileRequest, AsksForApproval
<1>3. CASE DecideFound
  BY <1>3, <1>m DEF DecideFound
<1>4. ASSUME NEW k \in Kinds, NEW i \in Ids, ConsoleDecision(k, i) PROVE FALSE
  BY <1>4 DEF ConsoleDecision
<1>5. ASSUME NEW k \in Kinds, NEW i \in Ids, NEW w \in Clis, Command(w, k, i)
      PROVE  op'[Server] = Idle
  <2>1. w # Server
    BY ApprovalAssumption
  <2> QED BY <1>5, <1>m, <1>s, <2>1 DEF Command, Load
<1>6. ASSUME NEW w \in Writers, Truncate(w) \/ Write(w) PROVE op'[Server] = Idle
  <2>1. w # Server
    BY <1>6, <1>m DEF Truncate, Write
  <2> QED BY <1>6, <1>m, <1>s, <2>1 DEF Truncate, Write
<1>7. ASSUME NEW w \in Writers, StopCommand(w) PROVE op'[Server] = Idle
  BY <1>7, <1>m, <1>s DEF StopCommand, Stopped
<1>8. CASE RestartServer
  BY <1>8, <1>s DEF RestartServer, Stopped
<1> QED BY <1>1, <1>2, <1>3, <1>4, <1>5, <1>6, <1>7, <1>8 DEF Next

(***************************************************************************)
(* Whatever the catalog, the decision and the package, and across restarts  *)
(* in other modes: a read-only deployment stages nothing and files nothing. *)
(***************************************************************************)
THEOREM ReadOnlySafe == Spec => []ReadOnlyStagesNothing
<1>1. Init => ServerReadsOnly
  BY DEF Init, ServerReadsOnly, IdleWriter, Writers
<1>2. TypeOK /\ ServerReadsOnly => ReadOnlyStagesNothing
  <2> SUFFICES ASSUME TypeOK, mode = "read_only", run # None, run.decision # NoDecision
               PROVE  /\ run.control.artefacts = {}
                      /\ StatesOf(run) \cap {"approval_pending", "simulated_action_recorded"} = {}
    BY DEF ReadOnlyStagesNothing, ServerReadsOnly
  <2>1. run.control.artefacts = {}
    BY ValidRun, ControlFacts
  <2>2. StatesOf(run) \cap {"approval_pending", "simulated_action_recorded"} = {}
    BY ValidRunStates
  <2> QED BY <2>1, <2>2
<1> QED BY <1>1, <1>2, ReadOnlyStep, ApprovalTypes, PTL DEF Spec

(***************************************************************************)
(* What validation leaves of an answer.                                     *)
(***************************************************************************)

LEMMA DecisionIsGrounded ==
  ASSUME TypeOK, run # None, run.decision # NoDecision
  PROVE  run.decision.cites \subseteq run.package.ids
<1>1. run.decision = Validated(run.answer, run.package).decision
  BY TriageRunFields DEF TypeOK
<1>2. run.decision = ValidateDecision(run.answer.decision, run.package)
  BY <1>1 DEF Validated, Invalid
<1> QED BY <1>2 DEF ValidateDecision, Grounded

LEMMA ExplanationIsGrounded ==
  ASSUME NEW a, NEW p
  PROVE  LET e == Explanation(a, p)
         IN  /\ \A h \in e.hypotheses : h.supporting \cup h.contradicting \subseteq p.ids
             /\ e.recommendation # Missing =>
                  e.recommendation.cites \subseteq p.ids /\ ~e.recommendation.namesAction
BY DEF Explanation, SoundHypothesis, SoundRecommendation, Grounded

(***************************************************************************)
(* Whatever the model answers, nothing in a run rests on evidence that its  *)
(* package does not have.                                                   *)
(***************************************************************************)
THEOREM NothingUngrounded == Spec => []RunsAreGrounded
<1>1. TypeOK => RunsAreGrounded
  <2> SUFFICES ASSUME TypeOK, run # None
               PROVE  LET e == run.validation.explanation
                          cited == UNION ({h.supporting \cup h.contradicting : h \in e.hypotheses}
                                          \cup {r.cites : r \in {e.recommendation} \ {Missing}})
                      IN  /\ cited \subseteq run.package.ids
                          /\ e.recommendation # Missing => ~e.recommendation.namesAction
                          /\ run.decision = NoDecision => e = NoExplanation
                          /\ run.decision # NoDecision => run.decision.cites \subseteq run.package.ids
    BY DEF RunsAreGrounded
  <2> DEFINE v == Validated(run.answer, run.package)
             e == run.validation.explanation
  <2>1. run.validation = v /\ run.decision = v.decision
    BY TriageRunFields DEF TypeOK
  <2>2. /\ e = NoExplanation \/ e = Explanation(run.answer, run.package)
        /\ v.decision = NoDecision => e = NoExplanation
    BY <2>1 DEF Validated, Invalid
  <2>3. /\ \A h \in e.hypotheses : h.supporting \cup h.contradicting \subseteq run.package.ids
        /\ e.recommendation # Missing =>
             e.recommendation.cites \subseteq run.package.ids /\ ~e.recommendation.namesAction
    <3>1. CASE e = NoExplanation
      BY <3>1 DEF NoExplanation
    <3>2. CASE e = Explanation(run.answer, run.package)
      BY <3>2, ExplanationIsGrounded
    <3> QED BY <2>2, <3>1, <3>2
  <2> HIDE DEF e
  <2> QED BY <2>1, <2>2, <2>3, DecisionIsGrounded DEF e
<1> QED BY <1>1, ApprovalTypes, PTL

\* The decision of an answer is valid, or not, whatever surrounds it.
LEMMA SameDecision ==
  ASSUME NEW a, NEW b, NEW p, a # NoAnswer, b # NoAnswer, a.decision = b.decision
  PROVE  Validated(a, p).decision = Validated(b, p).decision
BY DEF Validated, Invalid

(***************************************************************************)
(* Whatever surrounds a decision in an answer, the run it leads to is the   *)
(* same in everything that is acted on.                                     *)
(***************************************************************************)
THEOREM ExplanationImmaterial == Spec => []ExplanationDecidesNothing
<1> DEFINE Kept(r) == DOMAIN r \ {"answer", "validation"}
           Operative(r) == [f \in Kept(r) |-> r[f]]
<1>1. ASSUME NEW a, NEW b, NEW p, NEW m,
             Validated(a, p).decision = Validated(b, p).decision
      PROVE  Operative(TriageRun(a, p, m)) = Operative(TriageRun(b, p, m))
  <2> DEFINE d == Validated(a, p).decision
             c == StripReadOnly(EvaluateMitigationControl(d, p), m)
             s == EvaluateSafety(d, c, m)
             Fields(r) ==
               /\ r.decision = d /\ r.package = p
               /\ d = NoDecision =>
                    /\ DOMAIN r = {"answer", "package", "decision", "validation", "states"}
                    /\ r.states = Intake \o <<"recoverable_failure", "scored">>
               /\ d # NoDecision =>
                    /\ DOMAIN r = {"answer", "package", "decision", "validation", "states",
                                   "control", "safety"}
                    /\ r.control = c /\ r.safety = s
                    /\ r.states = Intake \o <<"decision_validated">> \o Outcome(c, s, m)
                                    \o <<"scored">>
             r == TriageRun(a, p, m)
             q == TriageRun(b, p, m)
  <2>a. Fields(r)
    BY TriageRunFields
  <2>b. Fields(q)
    BY <1>1, TriageRunFields
  <2> HIDE DEF d, c, s, r, q
  <2>1. /\ r.package = q.package /\ r.decision = q.decision /\ r.states = q.states
        /\ DOMAIN r = DOMAIN q
        /\ "control" \in DOMAIN r => r.control = q.control /\ r.safety = q.safety
        /\ DOMAIN r \subseteq {"answer", "package", "decision", "validation", "states",
                               "control", "safety"}
        /\ "control" \in DOMAIN r <=> "safety" \in DOMAIN r
    BY <2>a, <2>b
  <2>2. Kept(r) = Kept(q)
    BY <2>1
  <2>3. ASSUME NEW f \in Kept(r) PROVE r[f] = q[f]
    BY <2>1
  <2>4. Operative(r) = Operative(q)
    BY <2>2, <2>3
  <2> QED BY <2>4 DEF r, q
<1> HIDE DEF Operative
<1>2. TypeOK => ExplanationDecidesNothing
  <2> SUFFICES ASSUME TypeOK, run # None, NEW a \in Answers \ {NoAnswer},
                      run.answer # NoAnswer, a.decision = run.answer.decision
               PROVE  Operative(TriageRun(a, run.package, mode)) = Operative(run)
    BY DEF ExplanationDecidesNothing, Operative
  <2>1. run = TriageRun(run.answer, run.package, mode)
    BY DEF TypeOK
  <2>2. Operative(TriageRun(a, run.package, mode))
          = Operative(TriageRun(run.answer, run.package, mode))
    BY SameDecision, <1>1
  <2> QED BY <2>1, <2>2
<1> QED BY <1>2, ApprovalTypes, PTL

\* A run whose decision was not valid says so and ends scored.
LEMMA FailedRun ==
  ASSUME TypeOK, run # None, run.decision = NoDecision
  PROVE  /\ {"received", "context_gathered", "scored", "recoverable_failure"} \subseteq StatesOf(run)
         /\ "control" \notin DOMAIN run
<1>1. run = TriageRun(run.answer, run.package, mode)
  BY DEF TypeOK
<1>2. Validated(run.answer, run.package).decision = NoDecision
  BY <1>1, TriageRunFields
<1>3. /\ run.states = Intake \o <<"recoverable_failure", "scored">>
      /\ DOMAIN run = {"answer", "package", "decision", "validation", "states"}
  BY <1>1, <1>2, TriageRunFields
<1> DEFINE failed == <<"recoverable_failure", "scored">>
<1>4. Intake \in Seq(StateNames) /\ failed \in Seq(StateNames)
  BY DEF Intake, StateNames
<1>5. StatesOf(run) = Range(Intake \o failed)
  BY <1>3 DEF StatesOf, Range
<1>6. /\ Range(Intake) = {"received", "context_gathered", "llm_decision_requested"}
      /\ Range(failed) = {"recoverable_failure", "scored"}
  BY DEF Intake, Range
<1> HIDE DEF failed
<1>7. Range(Intake \o failed) = Range(Intake) \cup Range(failed)
  BY <1>4, RangeConcatenation
<1> QED BY <1>3, <1>5, <1>6, <1>7

(***************************************************************************)
(* The workflow and the scorecard agree for every decision, package and     *)
(* mode: no run the workflow can make is scored as unsafe or incomplete.    *)
(***************************************************************************)
THEOREM ScorecardAgrees == Spec => []RunsScoreWell
<1>1. TypeOK => RunsScoreWell
  <2> SUFFICES ASSUME TypeOK, run # None
               PROVE  /\ StateCorrectness(run) /\ SafetyBehavior(run) /\ MitigationGovernance(run)
                      /\ run.decision # NoDecision => EvidenceGrounding(run)
    BY DEF RunsScoreWell
  <2>1. CASE run.decision = NoDecision
    BY <2>1, FailedRun DEF StateCorrectness, SafetyBehavior, MitigationGovernance
  <2>2. CASE run.decision # NoDecision
    <3>1. StateCorrectness(run)
      BY <2>2, ValidRunStates DEF StateCorrectness
    <3>2. ASSUME run.safety.status = "approval_required" PROVE ApprovalSafetyWasRecorded(run)
      <4>1. run.safety.audited = (mode # "read_only")
        BY <2>2, <3>2, ValidRun, ControlFacts
      <4>2. CASE mode # "read_only"
        BY <4>1, <4>2 DEF ApprovalSafetyWasRecorded
      <4>3. CASE mode = "read_only"
        <5>1. run.control.artefacts = {}
          BY <2>2, <4>3, ValidRun, ControlFacts
        <5>2. /\ "verification_ready" \in StatesOf(run)
              /\ StatesOf(run) \cap {"approval_pending", "simulated_action_recorded"} = {}
          BY <2>2, <3>2, <4>3, ValidRunStates
        <5> QED BY <5>1, <5>2 DEF ApprovalSafetyWasRecorded
      <4> QED BY <4>2, <4>3
    <3>3. SafetyBehavior(run) /\ MitigationGovernance(run)
      BY <2>2, <3>2, ValidRun DEF SafetyBehavior, MitigationGovernance
    <3>4. EvidenceGrounding(run)
      BY <2>2, DecisionIsGrounded DEF EvidenceGrounding, Grounded
    <3> QED BY <3>1, <3>3, <3>4
  <2> QED BY <2>1, <2>2
<1> QED BY <1>1, ApprovalTypes, PTL
-----------------------------------------------------------------------------
(***************************************************************************)
(* What the gates of the recorded triage see of a run.                      *)
(***************************************************************************)

\* The answer to a client who asks for a run with a valid decision.
LEMMA ResponseFields ==
  ASSUME run.decision # NoDecision
  PROVE  LET a == RunToResponse(run)
             e == run.validation.explanation
             tiers == CitedTiers(run.decision, run.package)
         IN  /\ a.decision = run.decision
             /\ a.findingSummary = (e.summary # Missing)
             /\ a.recommendation = IF e.recommendation = Missing THEN None ELSE e.recommendation
             /\ a.provenance.cited = Cited(run.decision, run.package)
             /\ a.provenance.support = Support(tiers)
             /\ a.mitigation = MitigationControlToResponse(run.decision, run.control)
BY DEF RunToResponse, ProvenanceToResponse

\* A gate of an accepted answer does not fail.
LEMMA AcceptedMeans ==
  ASSUME NEW a, Failures(a) = {}
  PROVE  /\ SchemaContract(a) /\ EvidenceGrounded(a)
         /\ MitigationContract(a) /\ Readability(a)
<1>1. /\ <<"schema_contract", SchemaContract(a)>> \notin Failures(a)
      /\ <<"evidence_grounding", EvidenceGrounded(a)>> \notin Failures(a)
      /\ <<"mitigation_contract", MitigationContract(a)>> \notin Failures(a)
      /\ <<"recorded_triage_readability", Readability(a)>> \notin Failures(a)
  OBVIOUS
<1> QED BY <1>1 DEF Failures

(***************************************************************************)
(* For every catalog, decision, package and mode: what the recorded-triage  *)
(* gates accept, a person can act on.  The gates do not see the mode; that  *)
(* they accept no read-only run that needs approval follows from the dry    *)
(* run they ask for, which the safety policy has taken out of such a run.   *)
(***************************************************************************)
THEOREM AcceptedRunsActionable == Spec => []AcceptedRunsCanBeActedOn
<1>1. TypeOK => AcceptedRunsCanBeActedOn
  <2> SUFFICES ASSUME TypeOK, run # None, Accepted(run)
               PROVE  LET e == run.validation.explanation
                      IN  /\ e.summary # Missing /\ e.recommendation # Missing
                          /\ e.recommendation.cites \subseteq run.decision.cites
                          /\ run.safety.status = "approval_required" =>
                               AsksForApproval(run) /\ "dryRun" \in run.control.artefacts
    BY DEF AcceptedRunsCanBeActedOn
  <2> DEFINE a == RunToResponse(run)
             e == run.validation.explanation
  <2>1. /\ SchemaContract(a) /\ EvidenceGrounded(a)
        /\ MitigationContract(a) /\ Readability(a)
    BY AcceptedMeans DEF Accepted
  <2>2. run.decision # NoDecision
    <3>1. a.decision = IF run.decision = NoDecision THEN None ELSE run.decision
      BY DEF RunToResponse
    <3> QED BY <2>1, <3>1 DEF SchemaContract
  <2>3. /\ a.decision = run.decision
        /\ a.findingSummary = (e.summary # Missing)
        /\ a.recommendation = IF e.recommendation = Missing THEN None ELSE e.recommendation
        /\ a.mitigation = MitigationControlToResponse(run.decision, run.control)
    BY <2>2, ResponseFields
  <2> HIDE DEF a, e
  <2>4. e.summary # Missing /\ e.recommendation # Missing
    BY <2>1, <2>3 DEF Readability
  <2>5. e.recommendation.cites \subseteq run.decision.cites
    <3>1. a.recommendation # None /\ a.decision # None
      BY <2>1 DEF Readability
    <3>2. a.recommendation = e.recommendation
      BY <2>3, <2>4
    <3> QED BY <2>1, <2>3, <3>1, <3>2 DEF EvidenceGrounded, EvidenceIds
  <2>6. ASSUME run.safety.status = "approval_required"
        PROVE  AsksForApproval(run) /\ "dryRun" \in run.control.artefacts
    <3>1. /\ run.control.status = "approval_required"
          /\ mode = "read_only" => run.control.artefacts = {}
          /\ mode # "read_only" => "approvalRequest" \in run.control.artefacts
      BY <2>2, <2>6, ValidRun, ControlFacts
    <3>2. /\ a.mitigation.approvalRequired = (run.control.status = "approval_required")
          /\ a.mitigation.dryRun = ("dryRun" \in run.control.artefacts)
      BY <2>3 DEF MitigationControlToResponse
    <3>3. "dryRun" \in run.control.artefacts
      BY <2>1, <3>1, <3>2 DEF MitigationContract
    <3> QED BY <2>2, <3>1, <3>3 DEF AsksForApproval
  <2> QED BY <2>4, <2>5, <2>6 DEF e
<1> QED BY <1>1, ApprovalTypes, PTL

(***************************************************************************)
(* For every decision, package and assignment of tiers: where the gates and *)
(* the scorecard disagree about the evidence of a decision, and that they   *)
(* agree everywhere else.                                                   *)
(***************************************************************************)
THEOREM GradersDiffer == Spec => []GradersDifferOnHistory
<1>1. TypeOK => GradersDifferOnHistory
  <2> SUFFICES ASSUME TypeOK, run # None, run.decision # NoDecision
               PROVE  LET a == RunToResponse(run)
                          tiers == CitedTiers(run.decision, run.package)
                      IN  /\ ProvenanceSupport(a) /\ ~EvidenceQuality(run) => HistoricalOnly(tiers)
                          /\ EvidenceQuality(run) /\ ~ProvenanceSupport(a) =>
                               /\ "guidance" \in tiers /\ tiers \cap Live = {}
                               /\ run.decision.class \in LowInformation
                          /\ tiers \subseteq {"guidance"} => ~ProvenanceSupport(a)
    BY DEF GradersDifferOnHistory
  <2> DEFINE a == RunToResponse(run)
             cited == Cited(run.decision, run.package)
             tiers == CitedTiers(run.decision, run.package)
             low == run.decision.class \in LowInformation
  <2>1. /\ a.decision = run.decision /\ a.provenance.cited = cited
        /\ a.provenance.support = Support(tiers)
    BY ResponseFields
  <2>2. cited = run.decision.cites
    BY DecisionIsGrounded DEF Cited
  <2>3. tiers \subseteq Tiers /\ (tiers = {} <=> cited = {})
    <3>1. cited \subseteq DOMAIN TierOf
      BY TierAssumption DEF Cited, TypeOK
    <3> QED BY <3>1, TierAssumption DEF CitedTiers
  <2>4. EvidenceQuality(run) <=>
          IF low THEN tiers # {} ELSE tiers \cap Live # {} /\ ~HistoricalOnly(tiers)
    BY DEF EvidenceQuality
  <2>5. ProvenanceSupport(a) <=> cited # {} /\ Support(tiers) # "none"
    <3>1. a.decision # None => EvidenceIds(a.decision) \subseteq cited
      BY <2>1, <2>2 DEF EvidenceIds
    <3>2. EvidenceIds(a.decision) \subseteq cited
      BY <3>1 DEF EvidenceIds
    <3> QED BY <2>1, <3>2 DEF ProvenanceSupport
  <2> HIDE DEF a, cited, tiers, low
  <2>6. Support(tiers) # "none" <=> HistoricalOnly(tiers) \/ tiers \cap Live # {}
    BY DEF Support
  <2>7. ProvenanceSupport(a) <=> HistoricalOnly(tiers) \/ tiers \cap Live # {}
    BY <2>3, <2>5, <2>6 DEF HistoricalOnly
  <2>8. ProvenanceSupport(a) /\ ~EvidenceQuality(run) => HistoricalOnly(tiers)
    BY <2>4, <2>7
  <2>9. EvidenceQuality(run) /\ ~ProvenanceSupport(a) =>
          "guidance" \in tiers /\ tiers \cap Live = {} /\ low
    BY <2>3, <2>4, <2>7 DEF HistoricalOnly, Tiers, Live
  <2>10. tiers \subseteq {"guidance"} => ~ProvenanceSupport(a)
    BY <2>7 DEF HistoricalOnly, Live
  <2> QED BY <2>8, <2>9, <2>10 DEF a, tiers, low
<1> QED BY <1>1, ApprovalTypes, PTL
=============================================================================
