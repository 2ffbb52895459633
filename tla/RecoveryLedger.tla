--------------------------- MODULE RecoveryLedger ---------------------------
(***************************************************************************)
(* The post-triage records of one incident: verification outcomes, the      *)
(* recovery budget of every failure class, the recovery events behind it,   *)
(* and the outcome candidates handed to human review, as the two stores     *)
(* (persistence/in-memory.ts, persistence/postgres.ts) write them and the   *)
(* lifecycle API (server/lifecycle.ts) calls them.  Records of different    *)
(* incidents never meet (every key starts with the incident id), so one     *)
(* incident is modelled.                                                    *)
(*                                                                          *)
(* A store call is one action: the in-memory store never yields inside a    *)
(* call, and Postgres runs it in a transaction under an advisory lock of    *)
(* the budget.  The verification endpoint makes two calls; between them     *)
(* other requests run and the process may stop.                             *)
(*                                                                          *)
(* All records written by one call carry the same instant here; the code    *)
(* reads the clock once per record, a few microseconds apart.               *)
(***************************************************************************)
EXTENDS Naturals, FiniteSets

CONSTANTS Classes,     \* recoveryFailureClasses
          Unresolved,  \* the class an unresolved verification is charged to
          Keys,        \* values of the Idempotency-Key header
          KeysOf,      \* the keys clients use to recover and reset each class
          VerifyKeys,  \* the keys of verification requests
          FeedbackKeys,\* the keys of feedback requests
          Limit,       \* recoveryAttemptLimit
          TTL,         \* the retention of every record
          Backend,     \* "memory" or "postgres"
          NoBudget,    \* no budget record
          MaxTime      \* bound: the clock stops here

ASSUME LedgerAssumption ==
  /\ Unresolved \in Classes
  /\ KeysOf \in [Classes -> SUBSET Keys]
  /\ VerifyKeys \subseteq Keys /\ FeedbackKeys \subseteq Keys
  /\ Limit \in Nat \ {0}
  /\ TTL \in Nat \ {0}
  /\ Backend \in {"memory", "postgres"}

VARIABLES now,         \* the clock
          events,      \* recovery events; eventId is a hash of the source key only
          eventKeys,   \* the idempotency index on (class, source key)
          budgets,     \* recovery budget per class
          verified,    \* verification outcomes
          candidates,  \* outcome review candidates
          pending,     \* verification requests between their two store calls
          spent,       \* history: attempts per class since the last operator reset
          refused      \* history: (class, key) turned away by an exhausted budget

ledger == <<events, eventKeys, budgets>>
vars == <<now, events, eventKeys, budgets, verified, candidates, pending, spent, refused>>

(***************************************************************************)
(* Source event keys: the client's key, the key the verification endpoint   *)
(* derives from it, and the ":exhausted" key of either.                     *)
(***************************************************************************)
SourceKey == [key : Keys, via : {"recovery", "verification"}, exhaustion : BOOLEAN]

DirectKey(k) == [key |-> k, via |-> "recovery", exhaustion |-> FALSE]
VerificationKey(k) == [key |-> k, via |-> "verification", exhaustion |-> FALSE]
ExhaustionKey(s) == [s EXCEPT !.exhaustion = TRUE]

RecoveryEvent ==
  [id : SourceKey, class : Classes, type : {"attempt", "exhausted", "reset"},
   generation : Nat, attempt : Nat, expiresAt : Nat]

Budget == [attempts : Nat, exhausted : BOOLEAN, generation : Nat, expiresAt : Nat]

ASSUME NoBudgetAssumption == NoBudget \notin Budget

Outcomes == {"resolved", "unresolved", "inconclusive"}

Verification == [key : Keys, outcome : Outcomes, expiresAt : Nat]

\* A candidate's identity is its category and source event: a recovery event,
\* a verification event or the key of an operator's feedback.
Candidate ==
       [category : {"recovery_exhausted"}, source : SourceKey,
        status : {"pending", "imported"}, expiresAt : Nat]
  \cup [category : {"unresolved_mitigation", "corrected_finding", "reasoned_rejection"},
        source : Keys, status : {"pending", "imported"}, expiresAt : Nat]

TypeOK ==
  /\ now \in Nat
  /\ events \in SUBSET RecoveryEvent
  /\ eventKeys \in SUBSET (Classes \X SourceKey)
  /\ budgets \in [Classes -> Budget \cup {NoBudget}]
  /\ verified \in SUBSET Verification
  /\ candidates \in SUBSET Candidate
  /\ pending \in SUBSET Keys
  /\ spent \in [Classes -> Nat]
  /\ refused \in SUBSET (Classes \X SourceKey)

Init ==
  /\ now = 0
  /\ events = {}
  /\ eventKeys = {}
  /\ budgets = [c \in Classes |-> NoBudget]
  /\ verified = {}
  /\ candidates = {}
  /\ pending = {}
  /\ spent = [c \in Classes |-> 0]
  /\ refused = {}

Expiry == now + TTL

\* The budget a call starts from.
BudgetOf(c) ==
  IF budgets[c] = NoBudget
  THEN [attempts |-> 0, exhausted |-> FALSE, generation |-> 0, expiresAt |-> Expiry]
  ELSE budgets[c]

\* An event id already in the ledger: the id leaves the class out.
IdTaken(ids) == \E e \in events : e.id \in ids

\* In memory a record with the id of another replaces it; in Postgres the
\* primary key rejects it before this is reached.
EventsWith(new) == {e \in events : \A n \in new : n.id # e.id} \cup new

\* Faulty variant of CandidatesWith: a repeated hand-over replaces the candidate.
CandidatesUpserted(new) ==
  {d \in candidates : ~ \E n \in new : n.category = d.category /\ n.source = d.source} \cup new

CandidatesWith(new) ==
  candidates \cup {n \in new : ~ \E d \in candidates : d.category = n.category /\ d.source = n.source}

NewCandidate(category, source) ==
  [category |-> category, source |-> source, status |-> "pending", expiresAt |-> Expiry]

\* Faulty variant of Recorded: the ledger is not searched for the key.
NeverRecorded(c, s) == FALSE

\* The lookup of a class's event by its source key.
Recorded(c, s) == <<c, s>> \in eventKeys

-----------------------------------------------------------------------------
\* What recordRecoveryFailure(class, key) does to the ledger.

\* The key was seen for this class: the recorded event is returned.
RepeatedCall(c, s) ==
  /\ Recorded(c, s)
  /\ UNCHANGED <<ledger, candidates, spent, refused>>

\* The class is exhausted: nothing is recorded.
RefusedCall(c, s) ==
  /\ ~Recorded(c, s)
  /\ BudgetOf(c).exhausted
  /\ refused' = refused \cup {<<c, s>>}
  /\ UNCHANGED <<ledger, candidates, spent>>

\* Faulty variant of CollidingIds: no key on the event id.
NoCollidingIds(c, s) == {}

\* The event ids a reserved attempt inserts.
CollidingIds(c, s) ==
  IF BudgetOf(c).attempts + 1 >= Limit THEN {s, ExhaustionKey(s)} ELSE {s}

\* Postgres: the insert meets the id of another class's event and rolls back.
RolledBackCall(c, s) ==
  /\ Backend = "postgres"
  /\ ~Recorded(c, s)
  /\ ~BudgetOf(c).exhausted
  /\ IdTaken(CollidingIds(c, s))
  /\ UNCHANGED <<ledger, candidates, spent, refused>>

AttemptEvent(c, s) ==
  [id |-> s, class |-> c, type |-> "attempt", generation |-> BudgetOf(c).generation,
   attempt |-> BudgetOf(c).attempts + 1, expiresAt |-> Expiry]

\* Faulty variant of BudgetAfterAttempt: the retention of the first attempt.
RetentionOfFirstAttempt(c) ==
  [BudgetOf(c) EXCEPT !.attempts = @ + 1, !.exhausted = BudgetOf(c).attempts + 1 >= Limit]

BudgetAfterAttempt(c) ==
  [BudgetOf(c) EXCEPT !.attempts = @ + 1,
                      !.exhausted = BudgetOf(c).attempts + 1 >= Limit,
                      !.expiresAt = Expiry]

ExhaustedEvent(c, s) ==
  [AttemptEvent(c, s) EXCEPT !.id = ExhaustionKey(s), !.type = "exhausted"]

\* The events of one reserved attempt: the attempt, and the exhaustion of the
\* class when the limit is met.
EventsOfAttempt(c, s) ==
  {AttemptEvent(c, s)} \cup
  (IF BudgetAfterAttempt(c).exhausted THEN {ExhaustedEvent(c, s)} ELSE {})

\* Faulty variant of CandidatesOfAttempt: nobody is told of the exhaustion.
NoCandidate(c, s) == {}

CandidatesOfAttempt(c, s) ==
  IF BudgetAfterAttempt(c).exhausted
  THEN {NewCandidate("recovery_exhausted", ExhaustionKey(s))}
  ELSE {}

ReservedCall(c, s) ==
  /\ ~Recorded(c, s)
  /\ ~BudgetOf(c).exhausted
  /\ Backend = "memory" \/ ~IdTaken(CollidingIds(c, s))
  /\ events' = EventsWith(EventsOfAttempt(c, s))
  /\ eventKeys' = eventKeys \cup {<<c, e.id>> : e \in EventsOfAttempt(c, s)}
  /\ budgets' = [budgets EXCEPT ![c] = BudgetAfterAttempt(c)]
  /\ candidates' = CandidatesWith(CandidatesOfAttempt(c, s))
  /\ spent' = [spent EXCEPT ![c] = @ + 1]
  /\ UNCHANGED refused

RecordRecoveryFailure(c, s) ==
  RepeatedCall(c, s) \/ RefusedCall(c, s) \/ RolledBackCall(c, s) \/ ReservedCall(c, s)

-----------------------------------------------------------------------------
\* POST /api/incidents/<id>/recovery/<class>

Recover(c, k) ==
  /\ RecordRecoveryFailure(c, DirectKey(k))
  /\ UNCHANGED <<now, verified, pending>>

\* POST /api/incidents/<id>/recovery/<class>/reset

ResetEvent(c, s) ==
  [id |-> s, class |-> c, type |-> "reset", generation |-> BudgetOf(c).generation + 1,
   attempt |-> 0, expiresAt |-> Expiry]

BudgetAfterReset(c) ==
  [attempts |-> 0, exhausted |-> FALSE, generation |-> BudgetOf(c).generation + 1,
   expiresAt |-> Expiry]

\* Faulty variant of ResetRecoveryBudget: without its audit event.
ResetUnaudited(c, k) ==
  /\ budgets' = [budgets EXCEPT ![c] = BudgetAfterReset(c)]
  /\ spent' = [spent EXCEPT ![c] = 0]
  /\ UNCHANGED <<now, events, eventKeys, verified, candidates, pending, refused>>

ResetRecoveryBudget(c, k) ==
  LET s == DirectKey(k)
  IN  /\ ~Recorded(c, s)
      /\ Backend = "memory" \/ ~IdTaken({s})
      /\ events' = EventsWith({ResetEvent(c, s)})
      /\ eventKeys' = eventKeys \cup {<<c, s>>}
      /\ budgets' = [budgets EXCEPT ![c] = BudgetAfterReset(c)]
      /\ spent' = [spent EXCEPT ![c] = 0]
      /\ UNCHANGED <<now, verified, candidates, pending, refused>>

\* POST /api/incidents/<id>/verification: the first store call (also made, with
\* outcome "resolved", for a signed notification that the alerts resolved).  The
\* request names a retained run of the incident; which one, nothing here depends
\* on ...

\* Faulty variant of RecordVerificationOutcome: the request never goes on to
\* charge the budget.
VerificationUncharged(k, outcome) ==
  /\ \A v \in verified : v.key # k
  /\ verified' = verified \cup {[key |-> k, outcome |-> outcome, expiresAt |-> Expiry]}
  /\ UNCHANGED <<now, ledger, candidates, pending, spent, refused>>

RecordVerificationOutcome(k, outcome) ==
  /\ \A v \in verified : v.key # k
  /\ verified' = verified \cup {[key |-> k, outcome |-> outcome, expiresAt |-> Expiry]}
  /\ candidates' = IF outcome = "unresolved"
                   THEN CandidatesWith({NewCandidate("unresolved_mitigation", k)})
                   ELSE candidates
  /\ pending' = IF outcome = "unresolved" THEN pending \cup {k} ELSE pending
  /\ UNCHANGED <<now, ledger, spent, refused>>

\* ... and the second, made only by the request that created the record.

ChargeUnresolved(k) ==
  /\ k \in pending
  /\ RecordRecoveryFailure(Unresolved, VerificationKey(k))
  /\ pending' = pending \ {k}
  /\ UNCHANGED <<now, verified>>

\* POST /api/incidents/<id>/feedback

RecordFeedback(k, category) ==
  /\ candidates' = CandidatesWith({NewCandidate(category, k)})
  /\ UNCHANGED <<now, ledger, verified, pending, spent, refused>>

\* POST /api/outcome-candidates/<id>/import

MarkImported(d) ==
  /\ d \in candidates
  /\ d.status = "pending"
  /\ candidates' = (candidates \ {d}) \cup {[d EXCEPT !.status = "imported"]}
  /\ UNCHANGED <<now, ledger, verified, pending, spent, refused>>

-----------------------------------------------------------------------------
\* The retention sweep of composition.ts, for the records of this module.

Alive(r) == r.expiresAt > now

\* Faulty variant of CleanupExpired: the table of verifications is left out.
SweepWithoutVerifications ==
  /\ events' = {e \in events : Alive(e)}
  /\ eventKeys' = eventKeys \ {<<e.class, e.id>> : e \in {e \in events : ~Alive(e)}}
  /\ budgets' = [c \in Classes |->
                   IF budgets[c] # NoBudget /\ ~Alive(budgets[c]) THEN NoBudget ELSE budgets[c]]
  /\ candidates' = {d \in candidates : Alive(d)}
  /\ UNCHANGED <<now, verified, pending, spent, refused>>

CleanupExpired ==
  /\ events' = {e \in events : Alive(e)}
  /\ eventKeys' = eventKeys \ {<<e.class, e.id>> : e \in {e \in events : ~Alive(e)}}
  /\ budgets' = [c \in Classes |->
                   IF budgets[c] # NoBudget /\ ~Alive(budgets[c]) THEN NoBudget ELSE budgets[c]]
  /\ verified' = {v \in verified : Alive(v)}
  /\ candidates' = {d \in candidates : Alive(d)}
  /\ UNCHANGED <<now, pending, spent, refused>>

Tick ==
  /\ now < MaxTime
  /\ now' = now + 1
  /\ UNCHANGED <<ledger, verified, candidates, pending, spent, refused>>

\* The server stops: requests between two store calls are gone.  Only the
\* Postgres store outlives the process.
Stop ==
  /\ Backend = "postgres"
  /\ pending' = {}
  /\ UNCHANGED <<now, ledger, verified, candidates, spent, refused>>

Next ==
  \/ \E c \in Classes : \E k \in KeysOf[c] : Recover(c, k) \/ ResetRecoveryBudget(c, k)
  \/ \E k \in VerifyKeys, outcome \in Outcomes : RecordVerificationOutcome(k, outcome)
  \/ \E k \in VerifyKeys : ChargeUnresolved(k)
  \/ \E k \in FeedbackKeys, category \in {"corrected_finding", "reasoned_rejection"} :
       RecordFeedback(k, category)
  \/ \E d \in candidates : MarkImported(d)
  \/ CleanupExpired
  \/ Tick
  \/ Stop

Spec == Init /\ [][Next]_vars

-----------------------------------------------------------------------------
\* The attempts of the current generation of a class that are still on record.
CurrentAttempts(c) ==
  {e \in events : e.class = c /\ e.type = "attempt" /\ e.generation = BudgetOf(c).generation}

\* Budget and ledger tell the same story, also across retention sweeps: the
\* retained attempts of a class are distinct attempts of its budget, the latest
\* one is retained as long as the budget is, and no attempt outlives the budget.
\* (recordRecoveryFailure writes both; cleanupExpired removes them separately.)
LedgerBacksBudget ==
  \A c \in Classes :
    /\ \A e, f \in CurrentAttempts(c) : e.attempt = f.attempt => e = f
    /\ \A e \in CurrentAttempts(c) : e.attempt \in 1..BudgetOf(c).attempts
    /\ BudgetOf(c).attempts > 0 =>
         \E e \in CurrentAttempts(c) : e.attempt = BudgetOf(c).attempts

\* A class is exhausted exactly at its limit, and an exhausted class has its
\* exhaustion event and a candidate for human review that cites it.
ExhaustionHandedToHuman ==
  \A c \in Classes :
    /\ BudgetOf(c).exhausted <=> BudgetOf(c).attempts >= Limit
    /\ BudgetOf(c).exhausted =>
         \E e \in events, d \in candidates :
           /\ e.class = c /\ e.type = "exhausted" /\ e.generation = BudgetOf(c).generation
           /\ d.category = "recovery_exhausted" /\ d.source = e.id

\* While nothing expires every attempt granted since the last operator reset is on
\* record and counted once, and there are never more of them than the limit,
\* however often and with whatever keys recovery is requested.
EveryAttemptOnRecord ==
  \A c \in Classes :
    /\ spent[c] = BudgetOf(c).attempts
    /\ spent[c] = Cardinality(CurrentAttempts(c))
    /\ spent[c] <= Limit

\* Every unresolved verification whose request ended was charged to the budget
\* of unresolved_mitigation or turned away because that class is exhausted.
UnresolvedCharged ==
  \A v \in verified :
    v.outcome = "unresolved" /\ v.key \notin pending
      => <<Unresolved, VerificationKey(v.key)>> \in eventKeys \cup refused

\* A budget gives attempts back, or leaves exhaustion, only in a step that
\* records an operator reset of that class.
BudgetFallsOnlyByReset ==
  [][\A c \in Classes :
       (BudgetOf(c)'.attempts < BudgetOf(c).attempts \/ (BudgetOf(c).exhausted /\ ~BudgetOf(c)'.exhausted))
         => \E e \in events' \ events : e.class = c /\ e.type = "reset"]_vars

\* Recovery events are append-only: one disappears only when it has expired.
LedgerAppendOnly ==
  [][\A e \in events : e \notin events' => ~Alive(e)]_vars

\* The review of a candidate is final: no repeated feedback, verification or
\* exhaustion makes an imported candidate pending again or drops it early.
ImportIsFinal ==
  [][\A d \in candidates : d.status = "imported" /\ Alive(d) =>
       /\ d \in candidates'
       /\ \A n \in candidates' : n.category = d.category /\ n.source = d.source => n = d]_vars
=============================================================================
