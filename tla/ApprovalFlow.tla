---------------------------- MODULE ApprovalFlow ----------------------------
(***************************************************************************)
(* Human approval of mitigations: a triage stages a request, a person       *)
(* decides it in the console (the server) or with the approval command, and *)
(* both keep the records in one JSON file (approval-store.ts) without a     *)
(* lock.  Every change of the file is read, change, truncate, write; inside *)
(* a process that is one synchronous piece of code, but processes           *)
(* interleave between the system calls and may stop between them.           *)
(*                                                                          *)
(* A record is its status here.  An approved record always carries the      *)
(* simulated execution, the others never do, and the remaining fields come  *)
(* from the catalog entry.                                                  *)
(***************************************************************************)
EXTENDS TriagePolicy

CONSTANTS Server,     \* the server process
          Clis,       \* processes running the approval command
          Answers,    \* answers the model may give
          Packages,   \* evidence packages of the incident
          Empty,      \* the file after it was truncated
          Garbage,    \* the file after two writers wrote over each other
          None

Writers == {Server} \cup Clis

\* The approvals of the incident: the approval id is made of incident and entry.
Ids == {e.id : e \in Catalog}

ASSUME ApprovalAssumption ==
  /\ Server \notin Clis
  /\ Empty # Garbage

VARIABLES mode,       \* the operator mode the server was started in
          run,        \* the triage between its end and its answer, if any
          file,       \* what the store file holds: a status per approval, or not JSON
          op,         \* what each process is doing to the store
          known,      \* history: the last acknowledged status of every approval ...
          disturbed   \* ... until two calls overlapped or a stop left the file empty

vars == <<mode, run, file, op, known, disturbed>>

Status == {"pending_human_approval", "human_approved", "human_rejected"}
Approvals == [Ids -> Status \cup {None}]

Kinds == {"request", "human_approved", "human_rejected"}

\* found: the console handler saw the record; loaded: the file was read and
\* changed in memory to `view`; truncated: opened for writing.
Idle == [step |-> "idle"]

Operation ==
       {Idle}
  \cup [step : {"found"}, kind : Kinds, id : Ids]
  \cup [step : {"loaded", "truncated"}, kind : Kinds, id : Ids, view : Approvals]

TypeOK ==
  /\ mode \in Modes
  /\ run # None => /\ run.answer \in Answers /\ run.package \in Packages
                   /\ run = TriageRun(run.answer, run.package, mode)
  /\ file \in Approvals \cup {Empty, Garbage}
  /\ op \in [Writers -> Operation]
  /\ known \in Approvals
  /\ disturbed \in BOOLEAN

Nothing == [i \in Ids |-> None]

Init ==
  /\ mode \in Modes
  /\ run = None
  /\ file = Nothing
  /\ op = [w \in Writers |-> Idle]
  /\ known = Nothing
  /\ disturbed = FALSE

Readable == file \notin {Empty, Garbage}
IdleWriter(w) == op[w] = Idle

-----------------------------------------------------------------------------
\* approval-store.ts

\* Faulty variant of Existing: every request makes a new record.
NothingExists(k, i) == FALSE

\* requestApproval finds the record and leaves it as it is.
Existing(k, i) == k = "request" /\ file[i] # None

StatusOf(k) == IF k = "request" THEN "pending_human_approval" ELSE k

Changed(i, s) == [file EXCEPT ![i] = s]

\* What a call's answer says of the record: a request leaves one that exists.
Acknowledged(old, k) == IF k = "request" /\ old # None THEN old ELSE StatusOf(k)

\* loadApprovalStore and the change in memory.  A file that cannot be parsed
\* throws, and nothing is written.
Load(w, k, i) ==
  /\ Readable
  /\ ~Existing(k, i)
  /\ op' = [op EXCEPT ![w] = [step |-> "loaded", kind |-> k, id |-> i,
                              view |-> Changed(i, StatusOf(k))]]
  /\ UNCHANGED <<file, known, disturbed>>

\* The record exists, or the file cannot be read: the call is over.
NothingToDo(w, k, i) ==
  /\ Readable => Existing(k, i)
  /\ op' = [op EXCEPT ![w] = Idle]
  /\ UNCHANGED <<file, known, disturbed>>

Disturbing(cause) ==
  /\ disturbed' = (disturbed \/ cause)
  /\ known' = IF disturbed' THEN Nothing ELSE known

\* saveApprovalStore: opening the file truncates it ...
Truncate(w) ==
  /\ op[w].step = "loaded"
  /\ op' = [op EXCEPT ![w].step = "truncated"]
  /\ file' = Empty
  /\ Disturbing(\E v \in Writers \ {w} : op[v].step \in {"loaded", "truncated"})
  /\ UNCHANGED <<mode, run>>

\* ... and the text is written from the start of the file, over what another
\* writer may have put there since, whose end then stays if it was longer.
Write(w) ==
  /\ op[w].step = "truncated"
  /\ file' \in IF file = Empty THEN {op[w].view} ELSE {op[w].view, Garbage}
  /\ op' = [op EXCEPT ![w] = Idle]
  /\ known' = IF disturbed THEN known
              ELSE [known EXCEPT ![op[w].id] = Acknowledged(@, op[w].kind)]
  /\ UNCHANGED <<mode, run, disturbed>>

-----------------------------------------------------------------------------
\* The server.

\* A triage ends (in any mode); persistTriageRun is awaited before the approval
\* is filed.
Triage ==
  /\ run = None
  /\ \E a \in Answers, p \in Packages : run' = TriageRun(a, p, mode)
  /\ UNCHANGED <<mode, file, op, known, disturbed>>

AsksForApproval(r) ==
  /\ r.decision # NoDecision
  /\ "approvalRequest" \in r.control.artefacts
  /\ mode # "read_only"

\* persistApprovalRequest
FileRequest ==
  /\ run # None
  /\ IdleWriter(Server)
  /\ AsksForApproval(run)
  /\ Load(Server, "request", run.control.entry.id)
       \/ NothingToDo(Server, "request", run.control.entry.id)
  /\ run' = None
  /\ UNCHANGED mode

\* The run asks for nothing, or storing it failed and the request ends in an error.
Answer ==
  /\ run # None
  /\ run' = None
  /\ UNCHANGED <<mode, file, op, known, disturbed>>

\* POST /api/approvals/<id>/approve|reject: the record must exist ...
ConsoleDecision(k, i) ==
  /\ mode # "read_only"
  /\ IdleWriter(Server)
  /\ Readable
  /\ file[i] # None
  /\ op' = [op EXCEPT ![Server] = [step |-> "found", kind |-> k, id |-> i]]
  /\ UNCHANGED <<mode, run, file, known, disturbed>>

\* ... and decideApproval reads the file once more.
DecideFound ==
  /\ op[Server].step = "found"
  /\ \/ Load(Server, op[Server].kind, op[Server].id)
     \/ NothingToDo(Server, op[Server].kind, op[Server].id)
  /\ UNCHANGED <<mode, run>>

\* The approval command decides without looking for a request first.
Command(w, k, i) ==
  /\ w \in Clis
  /\ IdleWriter(w)
  /\ Load(w, k, i)
  /\ UNCHANGED <<mode, run>>

\* A process stops; the text it had not written yet is lost.  The server may be
\* started again in another mode.
Stopped(w) ==
  /\ op' = [op EXCEPT ![w] = Idle]
  /\ Disturbing(op[w].step = "truncated")
  /\ UNCHANGED file

StopCommand(w) ==
  /\ w \in Clis
  /\ ~IdleWriter(w)
  /\ Stopped(w)
  /\ UNCHANGED <<mode, run>>

RestartServer ==
  /\ Stopped(Server)
  /\ mode' \in Modes
  /\ run' = None

Next ==
  \/ Triage \/ FileRequest \/ Answer \/ DecideFound
  \/ \E k \in Kinds, i \in Ids : \/ k # "request" /\ ConsoleDecision(k, i)
                                 \/ \E w \in Clis : Command(w, k, i)
  \/ \E w \in Writers : Truncate(w) \/ Write(w) \/ StopCommand(w)
  \/ RestartServer

Spec == Init /\ [][Next]_vars

-----------------------------------------------------------------------------
AllIdle == \A w \in Writers : IdleWriter(w)

\* As long as no two calls of different processes overlapped and none stopped in
\* the middle of a save, the file shows of every approval what the last call
\* about it acknowledged, whichever process made it: a request changes no
\* decision, and a decision no other record.
AcknowledgedOnFile == AllIdle /\ ~disturbed => file = known

\* In read-only mode a run shows that approval would be required and nothing
\* more: no artefact, no staging state, no write to the approval store.
ReadOnlyStagesNothing ==
  mode = "read_only" =>
    /\ IdleWriter(Server)
    /\ run # None /\ run.decision # NoDecision =>
         /\ run.control.artefacts = {}
         /\ StatesOf(run) \cap {"approval_pending", "simulated_action_recorded"} = {}

\* A sensitive action is never presented as safe: it goes to approval, with the
\* evidence its catalog entry requires, or to a human, and the states say that an
\* approval is pending exactly when one was asked for.
SensitiveNeedsHuman ==
  run # None /\ run.decision # NoDecision =>
    LET asked == "approval_pending" \in StatesOf(run)
    IN  /\ run.decision.action \in Sensitive => run.safety.status # "safe_recommendation"
        /\ asked <=> "approvalRequest" \in run.control.artefacts
        /\ asked => run.control.entry # NoEntry
                     /\ run.control.entry.sources \subseteq Sources(run.package)

\* The workflow and the scorecard, written apart, agree on what a correct run
\* looks like: whatever the answer, the evidence and the mode, a run scores in
\* state_correctness, safety_behavior and mitigation_governance, and, if it has a
\* decision, in evidence_grounding.
RunsScoreWell ==
  run # None =>
    /\ StateCorrectness(run) /\ SafetyBehavior(run) /\ MitigationGovernance(run)
    /\ run.decision # NoDecision => EvidenceGrounding(run)

\* Nothing a run says rests on evidence it does not have: the decision and every
\* hypothesis and recommendation that validation leaves cite only its package, and
\* no recommendation introduces an action beside the decision's; a run without a
\* decision explains nothing.
RunsAreGrounded ==
  run # None =>
    LET e == run.validation.explanation
        cited == UNION ({h.supporting \cup h.contradicting : h \in e.hypotheses}
                        \cup {r.cites : r \in {e.recommendation} \ {Missing}})
    IN  /\ cited \subseteq run.package.ids
        /\ e.recommendation # Missing => ~e.recommendation.namesAction
        /\ run.decision = NoDecision => e = NoExplanation
        /\ run.decision # NoDecision => run.decision.cites \subseteq run.package.ids

\* The explanation decides nothing: whatever surrounds a decision in an answer,
\* well formed or not, the run has the same states, control and safety
\* (invalid explanations are degraded, invalid decisions fail closed).
ExplanationDecidesNothing ==
  run # None =>
    LET Operative(r) == [f \in DOMAIN r \ {"answer", "validation"} |-> r[f]]
    IN  \A a \in Answers \ {NoAnswer} :
          run.answer # NoAnswer /\ a.decision = run.answer.decision
            => Operative(TriageRun(a, run.package, mode)) = Operative(run)

=============================================================================
