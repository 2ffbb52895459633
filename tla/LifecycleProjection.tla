------------------------- MODULE LifecycleProjection -------------------------
(***************************************************************************)
(* The lifecycle state of an incident as GET /api/incidents/<id>/lifecycle  *)
(* reports it: buildIncidentLifecycleReview sorts the retained verification *)
(* and recovery events (compareLifecycleEvents) and folds                   *)
(* applyLifecycleEvent over them.  It is computed on every read from the    *)
(* records of RecoveryLedger, whose steps are all the steps there are.      *)
(*                                                                          *)
(* All records live equally long, so the order of their expiry is the order *)
(* of their creation.  Events of one millisecond are ordered by type; what  *)
(* that leaves open depends on the order of insertion and is not decided    *)
(* here.  No code path emits `reentry_recorded`, and no caller passes a     *)
(* seed other than the incident id.                                         *)
(***************************************************************************)
EXTENDS RecoveryLedger

States == {"open", "awaiting_verification", "recovering", "needs_human", "resolved"}

\* verificationState
VerificationState(outcome) ==
  CASE outcome = "resolved" -> "resolved"
    [] outcome = "unresolved" -> "recovering"
    [] outcome = "inconclusive" -> "awaiting_verification"

\* The records as IncidentLifecycleEvents: recoveryLifecycleEvent and
\* verificationLifecycleEvent, with the state applyLifecycleEvent gives them.
RecoveryState(type) ==
  CASE type = "attempt" -> "recovering"
    [] type = "exhausted" -> "needs_human"
    [] type = "reset" -> "open"

LifecycleEvents ==
  {[type |-> e.type, at |-> e.expiresAt, state |-> RecoveryState(e.type)] : e \in events}
  \cup {[type |-> "verification", at |-> v.expiresAt, state |-> VerificationState(v.outcome)] :
          v \in verified}

\* Faulty variant of Priority: a verification yields to recovery events.
VerificationFirst(type) ==
  CASE type = "verification" -> 0 [] type = "attempt" -> 1 [] type = "exhausted" -> 2
    [] type = "reset" -> 3

\* The priority of event types within a millisecond.
Priority(type) ==
  CASE type = "attempt" -> 0 [] type = "exhausted" -> 1 [] type = "reset" -> 2
    [] type = "verification" -> 4

\* compareLifecycleEvents
NotAfter(x, y) == x.at < y.at \/ (x.at = y.at /\ Priority(x.type) <= Priority(y.type))

LastEvents == {x \in LifecycleEvents : \A y \in LifecycleEvents : NotAfter(y, x)}

\* Every event sets the state, whatever it was, so the fold ends in the state of
\* the last event.
ProjectedStates ==
  IF LifecycleEvents = {} THEN {"open"} ELSE {x.state : x \in LastEvents}

-----------------------------------------------------------------------------
\* A verification shows in the lifecycle its own request answers with, also when
\* recovery events of the same millisecond are on record.
OutcomeShows ==
  [][\A v \in verified' \ verified : VerificationState(v.outcome) \in ProjectedStates']_vars

\* Retention forgets an incident, it never rewrites it: a sweep leaves the state
\* as it is until the last event is gone.  (The events are in two tables, and
\* the state is that of whichever record is newest.)
SweepKeepsState ==
  [][events' \subseteq events /\ verified' \subseteq verified =>
       ProjectedStates' = ProjectedStates \/ LifecycleEvents' = {}]_vars

\* An incident that needs a human has an exhausted class and a candidate to
\* review that cites the exhaustion on record.
HumanHasWork ==
  "needs_human" \in ProjectedStates =>
    \E c \in Classes :
      /\ BudgetOf(c).exhausted
      /\ \E e \in events, d \in candidates :
           /\ e.class = c /\ e.type = "exhausted"
           /\ d.category = "recovery_exhausted" /\ d.source = e.id
=============================================================================
