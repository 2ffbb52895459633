------------------------ MODULE RecoveryLedgerProofs ------------------------
(***************************************************************************)
(* Theorems about RecoveryLedger and about LifecycleProjection over it, for *)
(* every set of classes and keys, every limit and every retention time.     *)
(***************************************************************************)
EXTENDS LifecycleProjection, FiniteSetTheorems, TLAPS

LEMMA SourceKeys ==
  ASSUME NEW k \in Keys
  PROVE  /\ DirectKey(k) \in SourceKey
         /\ VerificationKey(k) \in SourceKey
         /\ ~DirectKey(k).exhaustion /\ ~VerificationKey(k).exhaustion
  BY DEF DirectKey, VerificationKey, SourceKey

LEMMA ExhaustionKeys ==
  ASSUME NEW s \in SourceKey
  PROVE  ExhaustionKey(s) \in SourceKey
  BY DEF ExhaustionKey, SourceKey

LEMMA BudgetOfType ==
  ASSUME TypeOK, NEW c \in Classes
  PROVE  BudgetOf(c) \in Budget /\ Expiry \in Nat
  BY LedgerAssumption DEF TypeOK, BudgetOf, Budget, Expiry

LEMMA NewEventTypes ==
  ASSUME TypeOK, NEW c \in Classes, NEW s \in SourceKey
  PROVE  /\ BudgetAfterAttempt(c) \in Budget
         /\ BudgetAfterReset(c) \in Budget
         /\ EventsOfAttempt(c, s) \subseteq RecoveryEvent
         /\ ResetEvent(c, s) \in RecoveryEvent
<1>1. BudgetOf(c) \in Budget /\ Expiry \in Nat /\ Limit \in Nat
  BY BudgetOfType, LedgerAssumption
<1>2. BudgetAfterAttempt(c) \in Budget
  <2>1. BudgetOf(c).attempts + 1 \in Nat
    BY <1>1 DEF Budget
  <2>2. (BudgetOf(c).attempts + 1 >= Limit) \in BOOLEAN
    OBVIOUS
  <2> QED BY <1>1, <2>1, <2>2 DEF BudgetAfterAttempt, Budget
<1>3. BudgetAfterReset(c) \in Budget
  BY <1>1 DEF BudgetAfterReset, Budget
<1>4. AttemptEvent(c, s) \in RecoveryEvent
  BY <1>1 DEF AttemptEvent, RecoveryEvent, Budget
<1>5. ExhaustedEvent(c, s) \in RecoveryEvent
  BY <1>4, ExhaustionKeys DEF ExhaustedEvent, RecoveryEvent
<1>6. EventsOfAttempt(c, s) \subseteq RecoveryEvent
  BY <1>4, <1>5 DEF EventsOfAttempt
<1>7. ResetEvent(c, s) \in RecoveryEvent
  BY <1>1 DEF ResetEvent, RecoveryEvent, Budget
<1> QED BY <1>2, <1>3, <1>6, <1>7

LEMMA RecordRecoveryFailureTypes ==
  ASSUME TypeOK, NEW c \in Classes, NEW s \in SourceKey, RecordRecoveryFailure(c, s)
  PROVE  /\ events' \in SUBSET RecoveryEvent
         /\ eventKeys' \in SUBSET (Classes \X SourceKey)
         /\ budgets' \in [Classes -> Budget \cup {NoBudget}]
         /\ candidates' \in SUBSET Candidate
         /\ spent' \in [Classes -> Nat]
         /\ refused' \in SUBSET (Classes \X SourceKey)
<1>1. CASE RepeatedCall(c, s)
  BY <1>1 DEF RepeatedCall, TypeOK, ledger
<1>2. CASE RefusedCall(c, s)
  BY <1>2 DEF RefusedCall, TypeOK, ledger
<1>3. CASE RolledBackCall(c, s)
  BY <1>3 DEF RolledBackCall, TypeOK, ledger
<1>4. CASE ReservedCall(c, s)
  <2>1. events' \in SUBSET RecoveryEvent
    BY <1>4, NewEventTypes DEF ReservedCall, EventsWith, TypeOK
  <2>2. \A e \in EventsOfAttempt(c, s) : e.id \in SourceKey
    BY NewEventTypes DEF RecoveryEvent
  <2>3. eventKeys' \in SUBSET (Classes \X SourceKey)
    BY <1>4, <2>2 DEF ReservedCall, TypeOK
  <2>4. budgets' \in [Classes -> Budget \cup {NoBudget}]
    BY <1>4, NewEventTypes DEF ReservedCall, TypeOK
  <2>5. CandidatesOfAttempt(c, s) \subseteq Candidate
    BY BudgetOfType, ExhaustionKeys DEF CandidatesOfAttempt, NewCandidate, Candidate
  <2>6. candidates' \in SUBSET Candidate
    BY <1>4, <2>5 DEF ReservedCall, CandidatesWith, TypeOK
  <2>7. spent' \in [Classes -> Nat] /\ refused' \in SUBSET (Classes \X SourceKey)
    BY <1>4 DEF ReservedCall, TypeOK
  <2> QED BY <2>1, <2>3, <2>4, <2>6, <2>7
<1> QED BY <1>1, <1>2, <1>3, <1>4 DEF RecordRecoveryFailure

LEMMA TypeStep == TypeOK /\ [Next]_vars => TypeOK'
<1> SUFFICES ASSUME TypeOK, [Next]_vars PROVE TypeOK'
  OBVIOUS
<1>a. Expiry \in Nat
  BY LedgerAssumption DEF TypeOK, Expiry
<1>1. ASSUME NEW c \in Classes, NEW k \in KeysOf[c], Recover(c, k) PROVE TypeOK'
  <2>1. k \in Keys
    BY LedgerAssumption
  <2> QED BY <1>1, <2>1, SourceKeys, RecordRecoveryFailureTypes DEF Recover, TypeOK
<1>2. ASSUME NEW c \in Classes, NEW k \in KeysOf[c], ResetRecoveryBudget(c, k) PROVE TypeOK'
  <2>1. k \in Keys
    BY LedgerAssumption
  <2>2. DirectKey(k) \in SourceKey
    BY <2>1, SourceKeys
  <2>3. events' \in SUBSET RecoveryEvent
    BY <1>2, <2>2, NewEventTypes DEF ResetRecoveryBudget, EventsWith, TypeOK
  <2>4. budgets' \in [Classes -> Budget \cup {NoBudget}]
    BY <1>2, <2>2, NewEventTypes DEF ResetRecoveryBudget, TypeOK
  <2>5. eventKeys' \in SUBSET (Classes \X SourceKey) /\ spent' \in [Classes -> Nat]
    BY <1>2, <2>2 DEF ResetRecoveryBudget, TypeOK
  <2> QED BY <1>2, <2>3, <2>4, <2>5 DEF ResetRecoveryBudget, TypeOK
<1>3. ASSUME NEW k \in VerifyKeys, NEW outcome \in Outcomes, RecordVerificationOutcome(k, outcome)
      PROVE  TypeOK'
  <2>1. k \in Keys
    BY LedgerAssumption
  <2>2. verified' \in SUBSET Verification
    BY <1>a, <1>3, <2>1 DEF RecordVerificationOutcome, TypeOK, Verification
  <2>3. NewCandidate("unresolved_mitigation", k) \in Candidate
    BY <1>a, <2>1 DEF NewCandidate, Candidate
  <2>4. candidates' \in SUBSET Candidate
    BY <1>3, <2>3 DEF RecordVerificationOutcome, CandidatesWith, TypeOK
  <2>5. pending' \in SUBSET Keys
    BY <1>3, <2>1 DEF RecordVerificationOutcome, TypeOK
  <2> QED BY <1>3, <2>2, <2>4, <2>5 DEF RecordVerificationOutcome, TypeOK, ledger
<1>4. ASSUME NEW k \in VerifyKeys, ChargeUnresolved(k) PROVE TypeOK'
  <2>1. k \in Keys /\ Unresolved \in Classes
    BY LedgerAssumption
  <2>2. pending' \in SUBSET Keys
    BY <1>4 DEF ChargeUnresolved, TypeOK
  <2> QED BY <1>4, <2>1, <2>2, SourceKeys, RecordRecoveryFailureTypes DEF ChargeUnresolved, TypeOK
<1>5. ASSUME NEW k \in FeedbackKeys, NEW category \in {"corrected_finding", "reasoned_rejection"},
             RecordFeedback(k, category)
      PROVE  TypeOK'
  <2>1. k \in Keys
    BY LedgerAssumption
  <2>2. NewCandidate(category, k) \in Candidate
    BY <1>a, <2>1 DEF NewCandidate, Candidate
  <2> QED BY <1>5, <2>2 DEF RecordFeedback, CandidatesWith, TypeOK, ledger
<1>6. ASSUME NEW d \in candidates, MarkImported(d) PROVE TypeOK'
  <2>1. d \in Candidate
    BY DEF TypeOK
  <2>2. [d EXCEPT !.status = "imported"] \in Candidate
    BY <2>1 DEF Candidate
  <2> QED BY <1>6, <2>2 DEF MarkImported, TypeOK, ledger
<1>7. CASE CleanupExpired
  BY <1>7 DEF CleanupExpired, TypeOK
<1>8. CASE Tick
  BY <1>8 DEF Tick, TypeOK, ledger
<1>9. CASE Stop
  BY <1>9 DEF Stop, TypeOK, ledger
<1>10. CASE UNCHANGED vars
  BY <1>10 DEF vars, TypeOK
<1> QED
  BY <1>1, <1>2, <1>3, <1>4, <1>5, <1>6, <1>7, <1>8, <1>9, <1>10 DEF Next

(***************************************************************************)
(* The records of the two stores and of the lifecycle API keep their types. *)
(***************************************************************************)
THEOREM LedgerTypes == Spec => []TypeOK
<1>1. Init => TypeOK
  BY LedgerAssumption DEF Init, TypeOK
<1> QED BY <1>1, TypeStep, PTL DEF Spec

(***************************************************************************)
(* The inductive invariant behind the ledger's consistency in Postgres.     *)
(* LedgerBacksBudget alone is not inductive: that the sweep never separates *)
(* a budget from its latest attempt follows from their equal expiry, that a *)
(* reset starts with an empty generation from the bound on generations, and *)
(* that a fresh exhaustion finds no candidate under its key from every      *)
(* exhaustion candidate still having its event.                             *)
(***************************************************************************)
EventsWithinBudget ==
  \A e \in events :
    /\ budgets[e.class] # NoBudget
    /\ e.expiresAt <= budgets[e.class].expiresAt
    /\ e.generation <= budgets[e.class].generation

AttemptsNumberedOnce ==
  \A e, f \in events :
    /\ e.type = "attempt" /\ f.type = "attempt"
    /\ e.class = f.class /\ e.generation = f.generation /\ e.attempt = f.attempt
    => e = f

AttemptsInRange ==
  \A e \in events :
    e.type = "attempt" /\ e.generation = budgets[e.class].generation
      => e.attempt \in 1..budgets[e.class].attempts

LatestKept(c) ==
  budgets[c] # NoBudget /\ budgets[c].attempts > 0 =>
    \E e \in events :
      /\ e.class = c /\ e.type = "attempt" /\ e.generation = budgets[c].generation
      /\ e.attempt = budgets[c].attempts /\ e.expiresAt = budgets[c].expiresAt

ExhaustedAtLimit ==
  \A c \in Classes :
    budgets[c] # NoBudget => (budgets[c].exhausted <=> budgets[c].attempts >= Limit)

ExhaustionKept(c) ==
  budgets[c] # NoBudget /\ budgets[c].exhausted =>
    \E e \in events, d \in candidates :
      /\ e.class = c /\ e.type = "exhausted" /\ e.generation = budgets[c].generation
      /\ e.expiresAt = budgets[c].expiresAt
      /\ d.category = "recovery_exhausted" /\ d.source = e.id /\ d.expiresAt = e.expiresAt

CandidateHasEvent ==
  \A d \in candidates :
    d.category = "recovery_exhausted" =>
      \E e \in events : e.id = d.source /\ e.expiresAt >= d.expiresAt

LedgerInv ==
  /\ EventsWithinBudget
  /\ AttemptsNumberedOnce
  /\ AttemptsInRange
  /\ \A c \in Classes : LatestKept(c) /\ ExhaustionKept(c)
  /\ ExhaustedAtLimit
  /\ CandidateHasEvent

LEMMA InitLedgerInv == Init => LedgerInv
  BY DEF Init, LedgerInv, EventsWithinBudget, AttemptsNumberedOnce, AttemptsInRange,
         LatestKept, ExhaustedAtLimit, ExhaustionKept, CandidateHasEvent

\* A step that leaves the ledger alone and every exhaustion candidate in place.
LEMMA OtherRecords ==
  ASSUME TypeOK, LedgerInv, UNCHANGED ledger,
         \A d \in candidates : d.category = "recovery_exhausted" =>
           \E n \in candidates' :
             n.category = d.category /\ n.source = d.source /\ n.expiresAt = d.expiresAt,
         \A n \in candidates' : n.category = "recovery_exhausted" =>
           \E d \in candidates :
             n.category = d.category /\ n.source = d.source /\ n.expiresAt = d.expiresAt
  PROVE  LedgerInv'
<1>1. events' = events /\ budgets' = budgets
  BY DEF ledger
<1>2. (EventsWithinBudget /\ AttemptsNumberedOnce /\ AttemptsInRange /\ ExhaustedAtLimit)'
  BY <1>1 DEF LedgerInv, EventsWithinBudget, AttemptsNumberedOnce, AttemptsInRange, ExhaustedAtLimit
<1>3. ASSUME NEW c \in Classes PROVE LatestKept(c)' /\ ExhaustionKept(c)'
  <2>1. LatestKept(c) /\ ExhaustionKept(c)
    BY DEF LedgerInv
  <2>2. LatestKept(c)'
    BY <1>1, <2>1 DEF LatestKept
  <2>3. ExhaustionKept(c)'
    BY <1>1, <2>1 DEF ExhaustionKept
  <2> QED BY <2>2, <2>3
<1>4. CandidateHasEvent'
  BY <1>1 DEF LedgerInv, CandidateHasEvent
<1> QED BY <1>2, <1>3, <1>4 DEF LedgerInv

\* The fields of the records one attempt writes.
LEMMA AttemptFields ==
  ASSUME TypeOK, NEW c \in Classes, NEW s \in SourceKey
  PROVE  LET full == BudgetOf(c).attempts + 1 >= Limit
             a == AttemptEvent(c, s)
             x == ExhaustedEvent(c, s)
             b == BudgetAfterAttempt(c)
         IN  /\ a.id = s /\ a.class = c /\ a.type = "attempt" /\ a.expiresAt = Expiry
             /\ a.generation = BudgetOf(c).generation /\ a.attempt = BudgetOf(c).attempts + 1
             /\ x.id = ExhaustionKey(s) /\ x.class = c /\ x.type = "exhausted"
             /\ x.expiresAt = Expiry /\ x.generation = BudgetOf(c).generation
             /\ b.attempts = BudgetOf(c).attempts + 1 /\ b.expiresAt = Expiry
             /\ b.generation = BudgetOf(c).generation
             /\ b.exhausted <=> full
             /\ b # NoBudget
             /\ EventsOfAttempt(c, s) = IF full THEN {a, x} ELSE {a}
             /\ CandidatesOfAttempt(c, s) =
                  IF full THEN {NewCandidate("recovery_exhausted", ExhaustionKey(s))} ELSE {}
<1> DEFINE full == BudgetOf(c).attempts + 1 >= Limit
<1>1. BudgetOf(c) \in Budget /\ Expiry \in Nat
  BY BudgetOfType
<1>2. /\ BudgetAfterAttempt(c).attempts = BudgetOf(c).attempts + 1
      /\ BudgetAfterAttempt(c).expiresAt = Expiry
      /\ BudgetAfterAttempt(c).generation = BudgetOf(c).generation
      /\ BudgetAfterAttempt(c).exhausted <=> full
  BY <1>1 DEF BudgetAfterAttempt, Budget
<1>3. BudgetAfterAttempt(c) # NoBudget
  BY NewEventTypes, NoBudgetAssumption
<1>4. /\ AttemptEvent(c, s).id = s /\ AttemptEvent(c, s).class = c
      /\ AttemptEvent(c, s).type = "attempt" /\ AttemptEvent(c, s).expiresAt = Expiry
      /\ AttemptEvent(c, s).generation = BudgetOf(c).generation
      /\ AttemptEvent(c, s).attempt = BudgetOf(c).attempts + 1
  BY DEF AttemptEvent
<1>5. /\ ExhaustedEvent(c, s).id = ExhaustionKey(s) /\ ExhaustedEvent(c, s).class = c
      /\ ExhaustedEvent(c, s).type = "exhausted" /\ ExhaustedEvent(c, s).expiresAt = Expiry
      /\ ExhaustedEvent(c, s).generation = BudgetOf(c).generation
  BY DEF ExhaustedEvent, AttemptEvent
<1>6. EventsOfAttempt(c, s) =
        IF full THEN {AttemptEvent(c, s), ExhaustedEvent(c, s)} ELSE {AttemptEvent(c, s)}
  BY <1>2 DEF EventsOfAttempt
<1>7. CandidatesOfAttempt(c, s) =
        IF full THEN {NewCandidate("recovery_exhausted", ExhaustionKey(s))} ELSE {}
  BY <1>2 DEF CandidatesOfAttempt
<1> QED BY <1>2, <1>3, <1>4, <1>5, <1>6, <1>7

\* In Postgres an insert that goes through adds its records and keeps the others.
LEMMA ReservedEffect ==
  ASSUME TypeOK, LedgerInv, Backend = "postgres",
         NEW c \in Classes, NEW s \in SourceKey, ~s.exhaustion, ReservedCall(c, s)
  PROVE  LET full == BudgetOf(c).attempts + 1 >= Limit
         IN  /\ events' = events \cup EventsOfAttempt(c, s)
             /\ candidates' = candidates \cup CandidatesOfAttempt(c, s)
             /\ BudgetAfterAttempt(c).exhausted <=> full
             /\ \A e \in EventsOfAttempt(c, s) : ~IdTaken({e.id})
<1> DEFINE full == BudgetOf(c).attempts + 1 >= Limit
<1>1. BudgetOf(c) \in Budget /\ Expiry \in Nat
  BY BudgetOfType
<1>2. BudgetAfterAttempt(c).exhausted <=> full
  BY AttemptFields
<1>3. ~IdTaken(CollidingIds(c, s))
  BY DEF ReservedCall
<1>4. \A e \in EventsOfAttempt(c, s) : e.id \in CollidingIds(c, s)
  BY AttemptFields DEF CollidingIds
<1>5. \A e \in EventsOfAttempt(c, s) : ~IdTaken({e.id})
  BY <1>3, <1>4 DEF IdTaken
<1>6. events' = events \cup EventsOfAttempt(c, s)
  BY <1>3, <1>4 DEF ReservedCall, EventsWith, IdTaken
<1>7. candidates' = candidates \cup CandidatesOfAttempt(c, s)
  <2>1. CASE ~full
    BY <1>2, <2>1 DEF ReservedCall, CandidatesWith, CandidatesOfAttempt
  <2>2. CASE full
    <3>1. ExhaustionKey(s) \in CollidingIds(c, s)
      BY <2>2 DEF CollidingIds
    <3>2. \A e \in events : e.id # ExhaustionKey(s)
      BY <1>3, <3>1 DEF IdTaken
    <3>3. ~ \E d \in candidates : d.category = "recovery_exhausted" /\ d.source = ExhaustionKey(s)
      BY <3>2 DEF LedgerInv, CandidateHasEvent
    <3> QED BY <3>3 DEF ReservedCall, CandidatesWith, CandidatesOfAttempt, NewCandidate
  <2> QED BY <2>1, <2>2
<1> QED BY <1>2, <1>5, <1>6, <1>7

\* Nothing on record of a class without a budget; otherwise BudgetOf is the
\* record, and in either case nothing expires after a record written now.
LEMMA BudgetCoversEvents ==
  ASSUME TypeOK, LedgerInv, NEW c \in Classes
  PROVE  /\ budgets[c] = NoBudget => \A e \in events : e.class # c
         /\ budgets[c] # NoBudget => BudgetOf(c) = budgets[c]
         /\ \A e \in events : e.class = c => e.generation <= BudgetOf(c).generation
         /\ \A e \in events : e.class = c /\ e.type = "attempt"
                                /\ e.generation = BudgetOf(c).generation
                              => e.attempt \in 1..BudgetOf(c).attempts
  BY DEF LedgerInv, EventsWithinBudget, AttemptsInRange, BudgetOf

\* A budget expires no later than a record written now.
BudgetsNotAhead ==
  \A c \in Classes : budgets[c] # NoBudget => budgets[c].expiresAt <= Expiry

LEMMA BudgetsNotAheadStep ==
  TypeOK /\ BudgetsNotAhead /\ [Next]_vars => BudgetsNotAhead'
<1> SUFFICES ASSUME TypeOK, BudgetsNotAhead, [Next]_vars PROVE BudgetsNotAhead'
  OBVIOUS
<1>a. now \in Nat /\ TTL \in Nat /\ budgets \in [Classes -> Budget \cup {NoBudget}]
  BY LedgerAssumption DEF TypeOK
<1>1. ASSUME NEW c \in Classes, NEW s \in SourceKey, RecordRecoveryFailure(c, s), UNCHANGED now
      PROVE  BudgetsNotAhead'
  <2>1. CASE ReservedCall(c, s)
    <3>1. BudgetAfterAttempt(c).expiresAt = Expiry
      BY AttemptFields
    <3> QED BY <1>a, <1>1, <2>1, <3>1 DEF BudgetsNotAhead, ReservedCall, Expiry
  <2>2. CASE UNCHANGED ledger
    BY <1>1, <2>2 DEF BudgetsNotAhead, ledger, Expiry
  <2> QED BY <1>1, <2>1, <2>2
          DEF RecordRecoveryFailure, RepeatedCall, RefusedCall, RolledBackCall
<1>2. ASSUME NEW c \in Classes, NEW k \in KeysOf[c], Recover(c, k) PROVE BudgetsNotAhead'
  BY <1>1, <1>2, SourceKeys, LedgerAssumption DEF Recover
<1>3. ASSUME NEW c \in Classes, NEW k \in KeysOf[c], ResetRecoveryBudget(c, k)
      PROVE  BudgetsNotAhead'
  BY <1>a, <1>3 DEF ResetRecoveryBudget, BudgetsNotAhead, BudgetAfterReset, Expiry
<1>4. ASSUME NEW k \in VerifyKeys, ChargeUnresolved(k) PROVE BudgetsNotAhead'
  BY <1>1, <1>4, SourceKeys, LedgerAssumption DEF ChargeUnresolved
<1>5. CASE CleanupExpired
  BY <1>a, <1>5 DEF CleanupExpired, BudgetsNotAhead, Expiry
<1>6. CASE Tick
  <2>1. \A c \in Classes : budgets[c] # NoBudget => budgets[c].expiresAt \in Nat
    BY <1>a DEF Budget
  <2> QED BY <1>a, <1>6, <2>1 DEF Tick, BudgetsNotAhead, ledger, Expiry
<1>7. ASSUME UNCHANGED <<ledger, now>> PROVE BudgetsNotAhead'
  BY <1>7 DEF BudgetsNotAhead, ledger, Expiry
<1> QED
  BY <1>2, <1>3, <1>4, <1>5, <1>6, <1>7
  DEF Next, vars, ledger, RecordVerificationOutcome, RecordFeedback, MarkImported, Stop

LEMMA ReservedKeepsInv ==
  ASSUME TypeOK, LedgerInv, BudgetsNotAhead, Backend = "postgres",
         NEW c \in Classes, NEW s \in SourceKey, ~s.exhaustion, ReservedCall(c, s)
  PROVE  LedgerInv'
<1> DEFINE full == BudgetOf(c).attempts + 1 >= Limit
           a == AttemptEvent(c, s)
           x == ExhaustedEvent(c, s)
           b == BudgetAfterAttempt(c)
           h == NewCandidate("recovery_exhausted", ExhaustionKey(s))
<1>1. BudgetOf(c) \in Budget /\ Expiry \in Nat /\ Limit \in Nat
  BY BudgetOfType, LedgerAssumption
<1>2. /\ events' = events \cup (IF full THEN {a, x} ELSE {a})
      /\ candidates' = candidates \cup (IF full THEN {h} ELSE {})
  BY ReservedEffect, AttemptFields
<1>3. budgets' = [budgets EXCEPT ![c] = b] /\ budgets'[c] = b
      /\ \A k \in Classes \ {c} : budgets'[k] = budgets[k]
  BY DEF ReservedCall, TypeOK
<1>4. /\ a.id = s /\ a.class = c /\ a.type = "attempt" /\ a.expiresAt = Expiry
      /\ a.generation = BudgetOf(c).generation /\ a.attempt = BudgetOf(c).attempts + 1
      /\ x.id = ExhaustionKey(s) /\ x.class = c /\ x.type = "exhausted"
      /\ x.expiresAt = Expiry /\ x.generation = BudgetOf(c).generation
      /\ b.attempts = BudgetOf(c).attempts + 1 /\ b.expiresAt = Expiry
      /\ b.generation = BudgetOf(c).generation /\ b # NoBudget
      /\ b.exhausted <=> full
  BY AttemptFields
<1>5. h.category = "recovery_exhausted" /\ h.source = ExhaustionKey(s) /\ h.expiresAt = Expiry
  BY DEF NewCandidate
<1>6. \A e \in events : e \in RecoveryEvent /\ e.class \in Classes
  BY DEF TypeOK, RecoveryEvent
<1>7. \A e \in events : e.class = c => e.expiresAt <= Expiry
  <2> SUFFICES ASSUME NEW e \in events, e.class = c PROVE e.expiresAt <= Expiry
    OBVIOUS
  <2>1. budgets[c] # NoBudget /\ e.expiresAt <= budgets[c].expiresAt
    BY DEF LedgerInv, EventsWithinBudget
  <2>2. budgets[c].expiresAt <= Expiry
    BY <2>1 DEF BudgetsNotAhead
  <2>3. e.expiresAt \in Nat /\ budgets[c].expiresAt \in Nat
    BY <2>1, <1>6 DEF TypeOK, Budget, RecoveryEvent
  <2> QED BY <1>1, <2>1, <2>2, <2>3
<1>8. EventsWithinBudget'
  <2> SUFFICES ASSUME NEW e \in events'
               PROVE  /\ budgets'[e.class] # NoBudget
                      /\ e.expiresAt <= budgets'[e.class].expiresAt
                      /\ e.generation <= budgets'[e.class].generation
    BY DEF EventsWithinBudget
  <2>1. CASE e \in events /\ e.class = c
    BY <1>3, <1>4, <1>7, <2>1, BudgetCoversEvents
  <2>2. CASE e \in events /\ e.class # c
    BY <1>3, <1>6, <2>2 DEF LedgerInv, EventsWithinBudget
  <2>3. CASE e \in {a, x}
    BY <1>1, <1>3, <1>4, <2>3 DEF Budget
  <2> QED BY <1>2, <2>1, <2>2, <2>3
<1>9. AttemptsNumberedOnce'
  <2>1. \A e \in events :
          e.class = c /\ e.type = "attempt" /\ e.generation = BudgetOf(c).generation
            => e.attempt # BudgetOf(c).attempts + 1
    BY <1>1, BudgetCoversEvents DEF Budget
  <2> QED BY <1>2, <1>4, <2>1 DEF LedgerInv, AttemptsNumberedOnce
<1>10. AttemptsInRange'
  <2> SUFFICES ASSUME NEW e \in events', e.type = "attempt",
                      e.generation = budgets'[e.class].generation
               PROVE  e.attempt \in 1..budgets'[e.class].attempts
    BY DEF AttemptsInRange
  <2>1. CASE e \in events /\ e.class = c
    <3>1. e.attempt \in 1..BudgetOf(c).attempts
      BY <1>3, <1>4, <2>1, BudgetCoversEvents
    <3> QED BY <1>1, <1>3, <1>4, <2>1, <3>1 DEF Budget
  <2>2. CASE e \in events /\ e.class # c
    BY <1>3, <1>6, <2>2 DEF LedgerInv, AttemptsInRange
  <2>3. CASE e = a
    BY <1>1, <1>3, <1>4, <2>3 DEF Budget
  <2> QED BY <1>2, <1>4, <2>1, <2>2, <2>3
<1>11. ASSUME NEW k \in Classes PROVE LatestKept(k)' /\ ExhaustionKept(k)'
  <2>1. CASE k # c
    BY <1>2, <1>3, <2>1 DEF LedgerInv, LatestKept, ExhaustionKept
  <2>2. CASE k = c
    <3>1. LatestKept(c)'
      BY <1>2, <1>3, <1>4 DEF LatestKept
    <3>2. CASE full
      <4>1. x \in events' /\ h \in candidates'
        BY <1>2, <3>2
      <4> QED BY <1>3, <1>4, <1>5, <2>2, <3>1, <4>1 DEF ExhaustionKept
    <3>3. CASE ~full
      BY <1>3, <1>4, <2>2, <3>1, <3>3 DEF ExhaustionKept
    <3> QED BY <3>2, <3>3
  <2> QED BY <2>1, <2>2
<1>12. ExhaustedAtLimit'
  <2> SUFFICES ASSUME NEW k \in Classes, budgets'[k] # NoBudget
               PROVE  budgets'[k].exhausted <=> budgets'[k].attempts >= Limit
    BY DEF ExhaustedAtLimit
  <2>1. CASE k # c
    BY <1>3, <2>1 DEF LedgerInv, ExhaustedAtLimit
  <2>2. CASE k = c
    BY <1>3, <1>4, <2>2
  <2> QED BY <2>1, <2>2
<1>13. CandidateHasEvent'
  <2>1. CASE full
    BY <1>1, <1>2, <1>4, <1>5, <2>1 DEF LedgerInv, CandidateHasEvent
  <2>2. CASE ~full
    BY <1>2, <2>2 DEF LedgerInv, CandidateHasEvent
  <2> QED BY <2>1, <2>2
<1> QED BY <1>8, <1>9, <1>10, <1>11, <1>12, <1>13 DEF LedgerInv

LEMMA ResetKeepsInv ==
  ASSUME TypeOK, LedgerInv, BudgetsNotAhead, Backend = "postgres",
         NEW c \in Classes, NEW k \in Keys, ResetRecoveryBudget(c, k)
  PROVE  LedgerInv'
<1> DEFINE r == ResetEvent(c, DirectKey(k))
           b == BudgetAfterReset(c)
<1>1. BudgetOf(c) \in Budget /\ Expiry \in Nat /\ Limit \in Nat \ {0}
  BY BudgetOfType, LedgerAssumption
<1>2. events' = events \cup {r} /\ UNCHANGED candidates
  <2>1. \A e \in events : e.id # r.id
    BY DEF ResetRecoveryBudget, IdTaken, ResetEvent
  <2> QED BY <2>1 DEF ResetRecoveryBudget, EventsWith
<1>3. budgets'[c] = b /\ \A n \in Classes \ {c} : budgets'[n] = budgets[n]
  BY DEF ResetRecoveryBudget, TypeOK
<1>4. /\ r.class = c /\ r.type = "reset" /\ r.expiresAt = Expiry
      /\ r.generation = BudgetOf(c).generation + 1
      /\ b.attempts = 0 /\ b.expiresAt = Expiry /\ b.generation = BudgetOf(c).generation + 1
      /\ ~b.exhausted
  BY DEF ResetEvent, BudgetAfterReset
<1>5. b # NoBudget
  <2>1. DirectKey(k) \in SourceKey
    BY SourceKeys
  <2> QED BY <2>1, NewEventTypes, NoBudgetAssumption
<1>6. \A e \in events : e \in RecoveryEvent /\ e.class \in Classes /\ e.generation \in Nat
  BY DEF TypeOK, RecoveryEvent
<1>7. \A e \in events :
        e.class = c => e.expiresAt <= Expiry /\ e.generation < BudgetOf(c).generation + 1
  <2> SUFFICES ASSUME NEW e \in events, e.class = c
               PROVE  e.expiresAt <= Expiry /\ e.generation < BudgetOf(c).generation + 1
    OBVIOUS
  <2>1. budgets[c] # NoBudget /\ e.expiresAt <= budgets[c].expiresAt
    BY DEF LedgerInv, EventsWithinBudget
  <2>2. budgets[c].expiresAt <= Expiry
    BY <2>1 DEF BudgetsNotAhead
  <2>3. e.expiresAt \in Nat /\ budgets[c].expiresAt \in Nat
    BY <2>1, <1>6 DEF TypeOK, Budget, RecoveryEvent
  <2>4. e.generation <= BudgetOf(c).generation
    BY BudgetCoversEvents
  <2> QED BY <1>1, <1>6, <2>1, <2>2, <2>3, <2>4 DEF Budget
<1>8. EventsWithinBudget'
  <2> SUFFICES ASSUME NEW e \in events'
               PROVE  /\ budgets'[e.class] # NoBudget
                      /\ e.expiresAt <= budgets'[e.class].expiresAt
                      /\ e.generation <= budgets'[e.class].generation
    BY DEF EventsWithinBudget
  <2>1. CASE e \in events /\ e.class = c
    BY <1>1, <1>3, <1>4, <1>5, <1>6, <1>7, <2>1 DEF Budget
  <2>2. CASE e \in events /\ e.class # c
    BY <1>3, <1>6, <2>2 DEF LedgerInv, EventsWithinBudget
  <2>3. CASE e = r
    BY <1>1, <1>3, <1>4, <1>5, <2>3 DEF Budget
  <2> QED BY <1>2, <2>1, <2>2, <2>3
<1>9. AttemptsNumberedOnce'
  BY <1>2, <1>4 DEF LedgerInv, AttemptsNumberedOnce
<1>10. AttemptsInRange'
  <2> SUFFICES ASSUME NEW e \in events, e.type = "attempt",
                      e.generation = budgets'[e.class].generation
               PROVE  e.attempt \in 1..budgets'[e.class].attempts
    BY <1>2, <1>4 DEF AttemptsInRange
  <2>1. e.class # c
    BY <1>1, <1>3, <1>4, <1>6, <1>7 DEF Budget
  <2> QED BY <1>3, <1>6, <2>1 DEF LedgerInv, AttemptsInRange
<1>11. ASSUME NEW n \in Classes PROVE LatestKept(n)' /\ ExhaustionKept(n)'
  BY <1>2, <1>3, <1>4 DEF LedgerInv, LatestKept, ExhaustionKept
<1>12. ExhaustedAtLimit'
  BY <1>1, <1>3, <1>4 DEF LedgerInv, ExhaustedAtLimit
<1>13. CandidateHasEvent'
  BY <1>2 DEF LedgerInv, CandidateHasEvent
<1> QED BY <1>8, <1>9, <1>10, <1>11, <1>12, <1>13 DEF LedgerInv

LEMMA CleanupKeepsInv ==
  ASSUME TypeOK, LedgerInv, CleanupExpired
  PROVE  LedgerInv'
<1>1. /\ events' = {e \in events : e.expiresAt > now}
      /\ candidates' = {d \in candidates : d.expiresAt > now}
      /\ budgets' = [c \in Classes |->
           IF budgets[c] # NoBudget /\ ~(budgets[c].expiresAt > now) THEN NoBudget ELSE budgets[c]]
  BY DEF CleanupExpired, Alive
<1>2. now \in Nat /\ \A e \in events : e.class \in Classes /\ e.expiresAt \in Nat
  BY DEF TypeOK, RecoveryEvent
<1>3. \A c \in Classes : budgets[c] # NoBudget => budgets[c] \in Budget
  BY DEF TypeOK
<1>4. \A e \in events' : budgets'[e.class] = budgets[e.class] /\ budgets[e.class] # NoBudget
  <2> SUFFICES ASSUME NEW e \in events, e.expiresAt > now
               PROVE  budgets'[e.class] = budgets[e.class] /\ budgets[e.class] # NoBudget
    BY <1>1
  <2>1. budgets[e.class] # NoBudget /\ e.expiresAt <= budgets[e.class].expiresAt
    BY DEF LedgerInv, EventsWithinBudget
  <2>2. budgets[e.class].expiresAt > now
    BY <1>2, <1>3, <2>1 DEF Budget
  <2> QED BY <1>1, <1>2, <2>1, <2>2
<1>5. EventsWithinBudget' /\ AttemptsNumberedOnce' /\ AttemptsInRange'
  BY <1>1, <1>4 DEF LedgerInv, EventsWithinBudget, AttemptsNumberedOnce, AttemptsInRange
<1>6. \A c \in Classes :
        budgets'[c] # NoBudget => budgets'[c] = budgets[c] /\ budgets[c].expiresAt > now
  BY <1>1
<1>7. ASSUME NEW c \in Classes PROVE LatestKept(c)' /\ ExhaustionKept(c)'
  BY <1>1, <1>6, <1>7 DEF LedgerInv, LatestKept, ExhaustionKept
<1>8. ExhaustedAtLimit'
  BY <1>6 DEF LedgerInv, ExhaustedAtLimit
<1>9. CandidateHasEvent'
  <2> SUFFICES ASSUME NEW d \in candidates, d.expiresAt > now, d.category = "recovery_exhausted"
               PROVE  \E e \in events' : e.id = d.source /\ e.expiresAt >= d.expiresAt
    BY <1>1 DEF CandidateHasEvent
  <2>1. PICK e \in events : e.id = d.source /\ e.expiresAt >= d.expiresAt
    BY DEF LedgerInv, CandidateHasEvent
  <2>2. d.expiresAt \in Nat
    BY DEF TypeOK, Candidate
  <2> QED BY <1>1, <1>2, <2>1, <2>2
<1> QED BY <1>5, <1>7, <1>8, <1>9 DEF LedgerInv

LEMMA NextLedgerInv ==
  ASSUME TypeOK, LedgerInv, BudgetsNotAhead, Backend = "postgres", [Next]_vars
  PROVE  LedgerInv'
<1>1. ASSUME UNCHANGED <<ledger, candidates>> PROVE LedgerInv'
  BY <1>1, OtherRecords
<1>2. ASSUME NEW c \in Classes, NEW s \in SourceKey, ~s.exhaustion, RecordRecoveryFailure(c, s)
      PROVE  LedgerInv'
  BY <1>1, <1>2, ReservedKeepsInv
  DEF RecordRecoveryFailure, RepeatedCall, RefusedCall, RolledBackCall
<1>3. ASSUME NEW c \in Classes, NEW k \in KeysOf[c], Recover(c, k) PROVE LedgerInv'
  BY <1>2, <1>3, SourceKeys, LedgerAssumption DEF Recover
<1>4. ASSUME NEW c \in Classes, NEW k \in KeysOf[c], ResetRecoveryBudget(c, k) PROVE LedgerInv'
  BY <1>4, ResetKeepsInv, LedgerAssumption
<1>5. ASSUME NEW k \in VerifyKeys, NEW outcome \in Outcomes, RecordVerificationOutcome(k, outcome)
      PROVE  LedgerInv'
  <2>1. UNCHANGED ledger
    BY <1>5 DEF RecordVerificationOutcome
  <2>2. CASE outcome = "unresolved"
    <3>1. candidates' = CandidatesWith({NewCandidate("unresolved_mitigation", k)})
      BY <1>5, <2>2 DEF RecordVerificationOutcome
    <3> QED BY <2>1, <3>1, OtherRecords DEF CandidatesWith, NewCandidate
  <2>3. CASE outcome # "unresolved"
    BY <1>1, <1>5, <2>1, <2>3 DEF RecordVerificationOutcome
  <2> QED BY <2>2, <2>3
<1>6. ASSUME NEW k \in VerifyKeys, ChargeUnresolved(k) PROVE LedgerInv'
  BY <1>2, <1>6, SourceKeys, LedgerAssumption DEF ChargeUnresolved
<1>7. ASSUME NEW k \in FeedbackKeys, NEW category \in {"corrected_finding", "reasoned_rejection"},
             RecordFeedback(k, category)
      PROVE  LedgerInv'
  BY <1>7, OtherRecords DEF RecordFeedback, CandidatesWith, NewCandidate
<1>8. ASSUME NEW d \in candidates, MarkImported(d) PROVE LedgerInv'
  <2>1. d \in Candidate
    BY DEF TypeOK
  <2> DEFINE i == [d EXCEPT !.status = "imported"]
  <2>2. i.category = d.category /\ i.source = d.source /\ i.expiresAt = d.expiresAt
    BY <2>1 DEF Candidate
  <2>3. candidates' = (candidates \ {d}) \cup {i} /\ UNCHANGED ledger
    BY <1>8 DEF MarkImported
  <2> QED BY <2>2, <2>3, OtherRecords
<1>9. CASE CleanupExpired
  BY <1>9, CleanupKeepsInv
<1> QED
  BY <1>1, <1>3, <1>4, <1>5, <1>6, <1>7, <1>8, <1>9 DEF Next, vars, ledger, Tick, Stop

THEOREM LedgerInvariant ==
  ASSUME Backend = "postgres"
  PROVE  Spec => [](TypeOK /\ BudgetsNotAhead /\ LedgerInv)
<1>1. Init => TypeOK /\ BudgetsNotAhead /\ LedgerInv
  <2>1. Init => TypeOK
    BY LedgerAssumption DEF Init, TypeOK
  <2>2. Init => BudgetsNotAhead
    BY DEF Init, BudgetsNotAhead
  <2> QED BY <2>1, <2>2, InitLedgerInv
<1>2. TypeOK /\ BudgetsNotAhead /\ LedgerInv /\ [Next]_vars
        => (TypeOK /\ BudgetsNotAhead /\ LedgerInv)'
  BY TypeStep, BudgetsNotAheadStep, NextLedgerInv
<1> QED BY <1>1, <1>2, PTL DEF Spec

(***************************************************************************)
(* In Postgres budget and ledger tell the same story in every reachable     *)
(* state: recordRecoveryFailure, resetRecoveryBudget and cleanupExpired     *)
(* never leave a budget whose attempts the ledger does not show.            *)
(***************************************************************************)
THEOREM BudgetsBacked ==
  ASSUME Backend = "postgres"
  PROVE  Spec => []LedgerBacksBudget
<1>1. TypeOK /\ LedgerInv => LedgerBacksBudget
  <2> SUFFICES ASSUME TypeOK, LedgerInv, NEW c \in Classes
               PROVE  /\ \A e, f \in CurrentAttempts(c) : e.attempt = f.attempt => e = f
                      /\ \A e \in CurrentAttempts(c) : e.attempt \in 1..BudgetOf(c).attempts
                      /\ BudgetOf(c).attempts > 0 =>
                           \E e \in CurrentAttempts(c) : e.attempt = BudgetOf(c).attempts
    BY DEF LedgerBacksBudget
  <2>1. \A e, f \in CurrentAttempts(c) : e.attempt = f.attempt => e = f
    BY DEF CurrentAttempts, LedgerInv, AttemptsNumberedOnce
  <2>2. \A e \in CurrentAttempts(c) : e.attempt \in 1..BudgetOf(c).attempts
    BY BudgetCoversEvents DEF CurrentAttempts
  <2>3. BudgetOf(c).attempts > 0 =>
          \E e \in CurrentAttempts(c) : e.attempt = BudgetOf(c).attempts
    <3>1. CASE budgets[c] = NoBudget
      BY <3>1 DEF BudgetOf
    <3>2. CASE budgets[c] # NoBudget
      BY <3>2, BudgetCoversEvents DEF LedgerInv, LatestKept, CurrentAttempts
    <3> QED BY <3>1, <3>2
  <2> QED BY <2>1, <2>2, <2>3
<1> QED BY <1>1, LedgerInvariant, PTL

(***************************************************************************)
(* In Postgres a class is exhausted exactly at its limit, and as long as it *)
(* is, its exhaustion event and the candidate for human review are there.   *)
(***************************************************************************)
THEOREM ExhaustionReachesHuman ==
  ASSUME Backend = "postgres"
  PROVE  Spec => []ExhaustionHandedToHuman
<1>1. TypeOK /\ LedgerInv => ExhaustionHandedToHuman
  <2> SUFFICES ASSUME TypeOK, LedgerInv, NEW c \in Classes
               PROVE  /\ BudgetOf(c).exhausted <=> BudgetOf(c).attempts >= Limit
                      /\ BudgetOf(c).exhausted =>
                           \E e \in events, d \in candidates :
                             /\ e.class = c /\ e.type = "exhausted"
                             /\ e.generation = BudgetOf(c).generation
                             /\ d.category = "recovery_exhausted" /\ d.source = e.id
    BY DEF ExhaustionHandedToHuman
  <2>1. CASE budgets[c] = NoBudget
    <3>1. BudgetOf(c).attempts = 0 /\ ~BudgetOf(c).exhausted
      BY <2>1 DEF BudgetOf
    <3>2. ~(0 >= Limit)
      BY LedgerAssumption
    <3> QED BY <3>1, <3>2
  <2>2. CASE budgets[c] # NoBudget
    <3>1. BudgetOf(c) = budgets[c]
      BY <2>2 DEF BudgetOf
    <3>2. budgets[c].exhausted <=> budgets[c].attempts >= Limit
      BY <2>2 DEF LedgerInv, ExhaustedAtLimit
    <3>3. budgets[c].exhausted =>
            \E e \in events, d \in candidates :
              /\ e.class = c /\ e.type = "exhausted" /\ e.generation = budgets[c].generation
              /\ d.category = "recovery_exhausted" /\ d.source = e.id
      BY <2>2 DEF LedgerInv, ExhaustionKept
    <3> QED BY <3>1, <3>2, <3>3
  <2> QED BY <2>1, <2>2
<1> QED BY <1>1, LedgerInvariant, PTL

(***************************************************************************)
(* In Postgres no call removes or replaces a recovery event: only the sweep *)
(* does, and only when it has expired.                                      *)
(***************************************************************************)
THEOREM EventsAppendOnly ==
  ASSUME Backend = "postgres"
  PROVE  Spec => LedgerAppendOnly
<1> DEFINE Keeps == \A e \in events : e \notin events' => ~Alive(e)
<1>1. TypeOK /\ LedgerInv /\ [Next]_vars => [Keeps]_vars
  <2> SUFFICES ASSUME TypeOK, LedgerInv, [Next]_vars PROVE Keeps
    OBVIOUS
  <2>1. ASSUME NEW c \in Classes, NEW s \in SourceKey, ~s.exhaustion, RecordRecoveryFailure(c, s)
        PROVE  Keeps
    BY <2>1, ReservedEffect
    DEF RecordRecoveryFailure, RepeatedCall, RefusedCall, RolledBackCall, ledger
  <2>2. ASSUME NEW c \in Classes, NEW k \in KeysOf[c], Recover(c, k) PROVE Keeps
    BY <2>1, <2>2, SourceKeys, LedgerAssumption DEF Recover
  <2>3. ASSUME NEW c \in Classes, NEW k \in KeysOf[c], ResetRecoveryBudget(c, k) PROVE Keeps
    <3>1. \A e \in events : e.id # ResetEvent(c, DirectKey(k)).id
      BY <2>3 DEF ResetRecoveryBudget, IdTaken, ResetEvent
    <3> QED BY <2>3, <3>1 DEF ResetRecoveryBudget, EventsWith
  <2>4. ASSUME NEW k \in VerifyKeys, ChargeUnresolved(k) PROVE Keeps
    BY <2>1, <2>4, SourceKeys, LedgerAssumption DEF ChargeUnresolved
  <2>5. CASE CleanupExpired
    BY <2>5 DEF CleanupExpired
  <2>6. CASE UNCHANGED ledger
    BY <2>6 DEF ledger
  <2> QED
    BY <2>2, <2>3, <2>4, <2>5, <2>6
    DEF Next, vars, ledger, RecordVerificationOutcome, RecordFeedback, MarkImported, Tick, Stop
<1> QED BY <1>1, LedgerInvariant, PTL DEF Spec, LedgerAppendOnly

-----------------------------------------------------------------------------
(***************************************************************************)
(* Review.  A candidate is known by its category and source event: both     *)
(* stores insert it only if there is none of the kind.                      *)
(***************************************************************************)
DistinctCandidates ==
  \A d, n \in candidates : n.category = d.category /\ n.source = d.source => n = d

LEMMA HandedOver ==
  ASSUME DistinctCandidates, NEW new, \A d, n \in new : d = n,
         candidates' = CandidatesWith(new)
  PROVE  DistinctCandidates' /\ candidates \subseteq candidates'
BY DEF DistinctCandidates, CandidatesWith

\* What each step does to the candidates.
LEMMA CandidateSteps ==
  ASSUME TypeOK, [Next]_vars
  PROVE  \/ candidates' = candidates
         \/ \E new : candidates' = CandidatesWith(new) /\ \A d, n \in new : d = n
         \/ \E d \in candidates : MarkImported(d)
         \/ candidates' = {d \in candidates : Alive(d)}
<1> DEFINE Insert == \E new : candidates' = CandidatesWith(new) /\ \A d, n \in new : d = n
<1>1. ASSUME NEW c \in Classes, NEW s, RecordRecoveryFailure(c, s)
      PROVE  candidates' = candidates \/ Insert
  <2>1. \A d, n \in CandidatesOfAttempt(c, s) : d = n
    BY DEF CandidatesOfAttempt
  <2>2. CASE ReservedCall(c, s)
    BY <2>1, <2>2 DEF ReservedCall
  <2> QED BY <1>1, <2>2 DEF RecordRecoveryFailure, RepeatedCall, RefusedCall, RolledBackCall
<1>2. ASSUME NEW c \in Classes, NEW k \in KeysOf[c], Recover(c, k)
      PROVE  candidates' = candidates \/ Insert
  BY <1>1, <1>2 DEF Recover
<1>3. ASSUME NEW k \in VerifyKeys, ChargeUnresolved(k)
      PROVE  candidates' = candidates \/ Insert
  BY <1>1, <1>3, LedgerAssumption DEF ChargeUnresolved
<1>4. ASSUME NEW k, NEW outcome, RecordVerificationOutcome(k, outcome)
      PROVE  candidates' = candidates \/ Insert
  <2>1. CASE outcome = "unresolved"
    <3>1. candidates' = CandidatesWith({NewCandidate("unresolved_mitigation", k)})
      BY <1>4, <2>1 DEF RecordVerificationOutcome
    <3> QED BY <3>1
  <2> QED BY <1>4, <2>1 DEF RecordVerificationOutcome
<1>5. ASSUME NEW k, NEW category, RecordFeedback(k, category) PROVE Insert
  <2>1. candidates' = CandidatesWith({NewCandidate(category, k)})
    BY <1>5 DEF RecordFeedback
  <2> QED BY <2>1
<1> QED
  BY <1>2, <1>3, <1>4, <1>5
  DEF Next, vars, ResetRecoveryBudget, CleanupExpired, Tick, Stop

LEMMA DistinctStep == TypeOK /\ DistinctCandidates /\ [Next]_vars => DistinctCandidates'
<1> SUFFICES ASSUME TypeOK, DistinctCandidates, [Next]_vars PROVE DistinctCandidates'
  OBVIOUS
<1>1. ASSUME NEW d \in candidates, MarkImported(d) PROVE DistinctCandidates'
  <2> DEFINE i == [d EXCEPT !.status = "imported"]
  <2>1. i.category = d.category /\ i.source = d.source
    BY DEF TypeOK, Candidate
  <2>2. candidates' = (candidates \ {d}) \cup {i}
    BY <1>1 DEF MarkImported
  <2> HIDE DEF i
  <2> QED BY <2>1, <2>2 DEF DistinctCandidates
<1>2. CASE candidates' = candidates \/ candidates' = {d \in candidates : Alive(d)}
  BY <1>2 DEF DistinctCandidates
<1> QED BY <1>1, <1>2, CandidateSteps, HandedOver

\* The review of a candidate is final, in both stores: as long as it is retained, no
\* later call makes an imported candidate pending again (markCandidateImported,
\* recordOperatorFeedback, recordVerification, recordRecoveryFailure).
THEOREM ReviewIsFinal == Spec => ImportIsFinal
<1> DEFINE Final == \A d \in candidates : d.status = "imported" /\ Alive(d) =>
             /\ d \in candidates'
             /\ \A n \in candidates' : n.category = d.category /\ n.source = d.source => n = d
<1>1. Init => TypeOK /\ DistinctCandidates
  BY LedgerAssumption DEF Init, TypeOK, DistinctCandidates
<1>2. TypeOK /\ DistinctCandidates /\ [Next]_vars => (TypeOK /\ DistinctCandidates)'
  BY TypeStep, DistinctStep
<1>3. TypeOK /\ DistinctCandidates /\ [Next]_vars => [Final]_vars
  <2> SUFFICES ASSUME TypeOK, DistinctCandidates, [Next]_vars,
                      NEW d \in candidates, d.status = "imported", Alive(d)
               PROVE  d \in candidates' /\ DistinctCandidates'
    BY DEF DistinctCandidates
  <2>1. d \in candidates'
    BY CandidateSteps, HandedOver DEF MarkImported
  <2> QED BY <2>1, DistinctStep
<1> QED BY <1>1, <1>2, <1>3, PTL DEF Spec, ImportIsFinal

-----------------------------------------------------------------------------
(***************************************************************************)
(* As long as nothing expires, the sweep takes nothing from the ledger.     *)
(***************************************************************************)
Kept ==
  /\ now <= MaxTime
  /\ \A e \in events : e.expiresAt >= TTL
  /\ \A c \in Classes : budgets[c] # NoBudget => budgets[c].expiresAt >= TTL

\* A step leaves the ledger alone, grants an attempt, or resets a class.
LEMMA LedgerSteps ==
  ASSUME TypeOK, Kept, MaxTime \in Nat, MaxTime < TTL, [Next]_vars
  PROVE  \/ UNCHANGED <<ledger, spent>>
         \/ \E c \in Classes, s \in SourceKey :
              ~s.exhaustion /\ ReservedCall(c, s) /\ UNCHANGED now
         \/ \E c \in Classes : \E k \in KeysOf[c] : k \in Keys /\ ResetRecoveryBudget(c, k)
<1> DEFINE Goal == \/ UNCHANGED <<ledger, spent>>
                   \/ \E c \in Classes, s \in SourceKey :
                        ~s.exhaustion /\ ReservedCall(c, s) /\ UNCHANGED now
<1>1. ASSUME NEW c \in Classes, NEW s \in SourceKey, ~s.exhaustion,
             RecordRecoveryFailure(c, s), UNCHANGED now
      PROVE  Goal
  BY <1>1 DEF RecordRecoveryFailure, RepeatedCall, RefusedCall, RolledBackCall
<1>2. ASSUME NEW c \in Classes, NEW k \in KeysOf[c], Recover(c, k) PROVE Goal
  BY <1>1, <1>2, SourceKeys, LedgerAssumption DEF Recover
<1>3. ASSUME NEW k \in VerifyKeys, ChargeUnresolved(k) PROVE Goal
  BY <1>1, <1>3, SourceKeys, LedgerAssumption DEF ChargeUnresolved
<1>4. ASSUME CleanupExpired PROVE UNCHANGED <<ledger, spent>>
  <2>1. now \in Nat /\ TTL \in Nat
    BY LedgerAssumption DEF TypeOK
  <2>2. \A e \in events : e.expiresAt \in Nat /\ Alive(e)
    BY <2>1 DEF TypeOK, RecoveryEvent, Kept, Alive
  <2>3. \A c \in Classes : budgets[c] # NoBudget => Alive(budgets[c])
    <3> TAKE c \in Classes
    <3>1. budgets[c] # NoBudget => budgets[c].expiresAt \in Nat
      BY DEF TypeOK, Budget
    <3> QED BY <2>1, <3>1 DEF Kept, Alive
  <2>4. events' = events /\ eventKeys' = eventKeys
    BY <1>4, <2>2 DEF CleanupExpired
  <2>5. budgets' = budgets
    BY <1>4, <2>3 DEF CleanupExpired, TypeOK
  <2> QED BY <1>4, <2>4, <2>5 DEF CleanupExpired, ledger
<1>5. ASSUME NEW c \in Classes, NEW k \in KeysOf[c], ResetRecoveryBudget(c, k)
      PROVE  k \in Keys /\ ResetRecoveryBudget(c, k)
  BY <1>5, LedgerAssumption
<1>6. ASSUME \/ \E k \in VerifyKeys, outcome \in Outcomes : RecordVerificationOutcome(k, outcome)
             \/ \E k \in FeedbackKeys, category \in {"corrected_finding", "reasoned_rejection"} :
                  RecordFeedback(k, category)
             \/ \E d \in candidates : MarkImported(d)
             \/ Tick \/ Stop \/ UNCHANGED vars
      PROVE  UNCHANGED <<ledger, spent>>
  BY <1>6 DEF vars, ledger, RecordVerificationOutcome, RecordFeedback, MarkImported, Tick, Stop
<1> HIDE DEF Goal
<1>7. \/ Goal \/ UNCHANGED <<ledger, spent>>
      \/ \E c \in Classes : \E k \in KeysOf[c] : k \in Keys /\ ResetRecoveryBudget(c, k)
  BY <1>2, <1>3, <1>4, <1>5, <1>6 DEF Next
<1> QED BY <1>7 DEF Goal

\* Every event has its key in the index.
KeysCover == \A e \in events : <<e.class, e.id>> \in eventKeys

LEMMA KeptStep ==
  ASSUME MaxTime \in Nat, MaxTime < TTL
  PROVE  TypeOK /\ Kept /\ KeysCover /\ [Next]_vars => (Kept /\ KeysCover)'
<1> SUFFICES ASSUME TypeOK, Kept, KeysCover, [Next]_vars PROVE (Kept /\ KeysCover)'
  OBVIOUS
<1>1. now' <= MaxTime
  <2>1. now' = now \/ Tick
    BY DEF Next, vars, Recover, ResetRecoveryBudget, RecordVerificationOutcome,
       ChargeUnresolved, RecordFeedback, MarkImported, CleanupExpired, Stop
  <2> QED BY <2>1 DEF Tick, Kept, TypeOK
<1>2. Expiry \in Nat /\ Expiry >= TTL
  BY LedgerAssumption DEF Expiry, TypeOK
<1>3. CASE UNCHANGED <<ledger, spent>>
  BY <1>1, <1>3 DEF Kept, KeysCover, ledger
<1>4. ASSUME NEW c \in Classes, NEW s \in SourceKey, ReservedCall(c, s)
      PROVE  (Kept /\ KeysCover)'
  <2>1. /\ events' \subseteq events \cup EventsOfAttempt(c, s)
        /\ \A e \in EventsOfAttempt(c, s) : e.class = c /\ e.expiresAt = Expiry
        /\ eventKeys' = eventKeys \cup {<<c, e.id>> : e \in EventsOfAttempt(c, s)}
    BY <1>4, AttemptFields DEF ReservedCall, EventsWith
  <2>2. budgets' = [budgets EXCEPT ![c] = BudgetAfterAttempt(c)]
        /\ BudgetAfterAttempt(c).expiresAt = Expiry
    BY <1>4, AttemptFields DEF ReservedCall
  <2>3. KeysCover'
    BY <2>1 DEF KeysCover
  <2>4. Kept'
    BY <1>1, <1>2, <2>1, <2>2 DEF Kept, TypeOK
  <2> QED BY <2>3, <2>4
<1>5. ASSUME NEW c \in Classes, NEW k \in KeysOf[c], ResetRecoveryBudget(c, k)
      PROVE  (Kept /\ KeysCover)'
  <2> DEFINE s == DirectKey(k)
             x == ResetEvent(c, s)
  <2>1. /\ events' \subseteq events \cup {x} /\ eventKeys' = eventKeys \cup {<<c, s>>}
        /\ budgets' = [budgets EXCEPT ![c] = BudgetAfterReset(c)]
    BY <1>5 DEF ResetRecoveryBudget, EventsWith
  <2>2. /\ x.id = s /\ x.class = c /\ x.expiresAt = Expiry
        /\ BudgetAfterReset(c).expiresAt = Expiry
    BY DEF ResetEvent, BudgetAfterReset
  <2> HIDE DEF x, s
  <2> QED BY <1>1, <1>2, <2>1, <2>2 DEF Kept, KeysCover, TypeOK
<1> QED BY <1>3, <1>4, <1>5, LedgerSteps

LEMMA KeptInvariant ==
  ASSUME MaxTime \in Nat, MaxTime < TTL
  PROVE  Spec => [](TypeOK /\ Kept /\ KeysCover)
<1>1. Init => TypeOK /\ Kept /\ KeysCover
  BY LedgerAssumption DEF Init, TypeOK, Kept, KeysCover
<1> QED BY <1>1, TypeStep, KeptStep, PTL DEF Spec

\* What is left of a budget is what its record says, or nothing.
LEMMA BudgetFields ==
  ASSUME NEW c \in Classes, budgets'[c] = budgets[c]
  PROVE  /\ BudgetOf(c)'.attempts = BudgetOf(c).attempts
         /\ BudgetOf(c)'.generation = BudgetOf(c).generation
         /\ BudgetOf(c)'.exhausted = BudgetOf(c).exhausted
BY DEF BudgetOf

\* A budget is given back by an operator only, and only with a reset on record, in
\* both stores (recordRecoveryFailure, resetRecoveryBudget, cleanupExpired).
THEOREM ResetsAreAudited ==
  ASSUME MaxTime \in Nat, MaxTime < TTL
  PROVE  Spec => BudgetFallsOnlyByReset
<1> DEFINE Audited ==
             \A c \in Classes :
               (BudgetOf(c)'.attempts < BudgetOf(c).attempts
                  \/ (BudgetOf(c).exhausted /\ ~BudgetOf(c)'.exhausted))
                 => \E e \in events' \ events : e.class = c /\ e.type = "reset"
<1>1. TypeOK /\ Kept /\ KeysCover /\ [Next]_vars => [Audited]_vars
  <2> SUFFICES ASSUME TypeOK, Kept, KeysCover, [Next]_vars, NEW c \in Classes,
                      BudgetOf(c)'.attempts < BudgetOf(c).attempts
                        \/ (BudgetOf(c).exhausted /\ ~BudgetOf(c)'.exhausted)
               PROVE  \E e \in events' \ events : e.class = c /\ e.type = "reset"
    OBVIOUS
  <2>1. BudgetOf(c) \in Budget /\ budgets \in [Classes -> Budget \cup {NoBudget}]
    BY BudgetOfType DEF TypeOK
  <2>2. budgets'[c] # budgets[c]
    <3> SUFFICES ASSUME budgets'[c] = budgets[c] PROVE FALSE
      OBVIOUS
    <3>1. BudgetOf(c).attempts \in Nat
      BY <2>1 DEF Budget
    <3> QED BY <3>1, BudgetFields
  <2>3. ASSUME NEW b \in Classes, NEW s \in SourceKey, ReservedCall(b, s) PROVE FALSE
    <3>1. /\ budgets' = [budgets EXCEPT ![b] = BudgetAfterAttempt(b)]
          /\ ~BudgetOf(b).exhausted
      BY <2>3 DEF ReservedCall
    <3>2. b = c /\ budgets'[c] = BudgetAfterAttempt(c)
      BY <2>1, <2>2, <3>1
    <3>3. BudgetOf(c)' = BudgetAfterAttempt(c)
      BY <3>2, NewEventTypes, NoBudgetAssumption, <2>3 DEF BudgetOf
    <3>4. BudgetAfterAttempt(c).attempts = BudgetOf(c).attempts + 1
      BY <2>3, AttemptFields
    <3> QED BY <2>1, <3>1, <3>2, <3>3, <3>4 DEF Budget
  <2>4. ASSUME NEW b \in Classes, NEW k \in KeysOf[b], ResetRecoveryBudget(b, k)
        PROVE  \E e \in events' \ events : e.class = c /\ e.type = "reset"
    <3> DEFINE s == DirectKey(k)
               x == ResetEvent(b, s)
    <3>1. /\ budgets' = [budgets EXCEPT ![b] = BudgetAfterReset(b)]
          /\ x \in events' /\ <<b, s>> \notin eventKeys
      BY <2>4 DEF ResetRecoveryBudget, EventsWith, Recorded
    <3>2. b = c
      BY <2>1, <2>2, <3>1
    <3>3. x.id = s /\ x.class = b /\ x.type = "reset"
      BY DEF ResetEvent
    <3>4. x \notin events
      BY <3>1, <3>3 DEF KeysCover
    <3> QED BY <3>1, <3>2, <3>3, <3>4
  <2> QED BY <2>2, <2>3, <2>4, LedgerSteps DEF ledger
<1> QED BY <1>1, KeptInvariant, PTL DEF Spec, BudgetFallsOnlyByReset

\* Where a process keeps its records in memory, no unresolved verification whose
\* request has ended goes uncharged, however many are at work at a time
\* (lifecycle.ts); a server over Postgres may stop between the two calls.
THEOREM VerificationsCharged ==
  ASSUME MaxTime \in Nat, MaxTime < TTL, Backend = "memory"
  PROVE  Spec => []UnresolvedCharged
<1> DEFINE charged == eventKeys \cup refused
<1>1. Init => UnresolvedCharged
  BY DEF Init, UnresolvedCharged
<1>2. ASSUME TypeOK, Kept, UnresolvedCharged, [Next]_vars PROVE UnresolvedCharged'
  <2>1. eventKeys \subseteq eventKeys'
    BY <1>2, LedgerSteps DEF ledger, ReservedCall, ResetRecoveryBudget
  <2>2. ASSUME NEW c \in Classes, NEW s, RecordRecoveryFailure(c, s)
        PROVE  refused \subseteq refused' /\ <<c, s>> \in charged'
    <3>1. CASE ReservedCall(c, s)
      <4>1. AttemptEvent(c, s) \in EventsOfAttempt(c, s) /\ AttemptEvent(c, s).id = s
        BY DEF EventsOfAttempt, AttemptEvent
      <4> QED BY <3>1, <4>1 DEF ReservedCall
    <3>2. CASE RolledBackCall(c, s)
      BY <3>2 DEF RolledBackCall
    <3>3. CASE RepeatedCall(c, s) \/ RefusedCall(c, s)
      BY <3>3 DEF RepeatedCall, RefusedCall, Recorded, ledger
    <3> QED BY <2>2, <3>1, <3>2, <3>3 DEF RecordRecoveryFailure
  <2>3. ASSUME NEW c \in Classes, NEW k \in KeysOf[c], Recover(c, k) PROVE UnresolvedCharged'
    <3>1. verified' = verified /\ pending' = pending /\ refused \subseteq refused'
      BY <2>2, <2>3 DEF Recover
    <3> QED BY <1>2, <2>1, <3>1 DEF UnresolvedCharged
  <2>4. ASSUME NEW k \in VerifyKeys, ChargeUnresolved(k) PROVE UnresolvedCharged'
    <3>1. /\ verified' = verified /\ pending' = pending \ {k} /\ refused \subseteq refused'
          /\ <<Unresolved, VerificationKey(k)>> \in charged'
      BY <2>2, <2>4, LedgerAssumption DEF ChargeUnresolved
    <3> QED BY <1>2, <2>1, <3>1 DEF UnresolvedCharged
  <2>5. ASSUME NEW k \in VerifyKeys, NEW outcome \in Outcomes, RecordVerificationOutcome(k, outcome)
        PROVE  UnresolvedCharged'
    <3> DEFINE x == [key |-> k, outcome |-> outcome, expiresAt |-> Expiry]
    <3>1. /\ verified' = verified \cup {x} /\ pending \subseteq pending'
          /\ outcome = "unresolved" => k \in pending'
          /\ refused' = refused
      BY <2>5 DEF RecordVerificationOutcome
    <3>2. x.key = k /\ x.outcome = outcome
      OBVIOUS
    <3> HIDE DEF x
    <3> QED BY <1>2, <2>1, <3>1, <3>2 DEF UnresolvedCharged
  <2>6. ASSUME verified' \subseteq verified, pending' = pending, refused' = refused
        PROVE  UnresolvedCharged'
    BY <1>2, <2>1, <2>6 DEF UnresolvedCharged
  <2>7. ASSUME \/ \E c \in Classes : \E k \in KeysOf[c] : ResetRecoveryBudget(c, k)
               \/ \E k \in FeedbackKeys, category \in {"corrected_finding", "reasoned_rejection"} :
                    RecordFeedback(k, category)
               \/ \E d \in candidates : MarkImported(d)
               \/ CleanupExpired \/ Tick \/ UNCHANGED vars
        PROVE  verified' \subseteq verified /\ pending' = pending /\ refused' = refused
    BY <2>7 DEF ResetRecoveryBudget, RecordFeedback, MarkImported, CleanupExpired, Tick, vars
  <2>8. ~Stop
    BY DEF Stop
  <2> QED BY <1>2, <2>3, <2>4, <2>5, <2>6, <2>7, <2>8 DEF Next
<1>3. TypeOK /\ Kept /\ UnresolvedCharged /\ [Next]_vars => UnresolvedCharged'
  BY <1>2
<1> QED BY <1>1, <1>3, KeptInvariant, PTL DEF Spec

-----------------------------------------------------------------------------
(***************************************************************************)
(* Counting attempts in Postgres.                                           *)
(***************************************************************************)
Counted(c) ==
  /\ IsFiniteSet(CurrentAttempts(c))
  /\ spent[c] = BudgetOf(c).attempts
  /\ spent[c] = Cardinality(CurrentAttempts(c))
  /\ spent[c] <= Limit

LEMMA CountedStays ==
  ASSUME NEW c \in Classes, Counted(c), budgets'[c] = budgets[c], spent'[c] = spent[c],
         {e \in events' : e.class = c /\ e.type = "attempt"}
           = {e \in events : e.class = c /\ e.type = "attempt"}
  PROVE  Counted(c)'
<1>1. CurrentAttempts(c)' = CurrentAttempts(c)
  BY BudgetFields DEF CurrentAttempts
<1> QED BY <1>1, BudgetFields DEF Counted

\* An attempt that is granted is one more on record.
LEMMA CountedReserved ==
  ASSUME TypeOK, LedgerInv, Backend = "postgres", \A c \in Classes : Counted(c),
         NEW b \in Classes, NEW s \in SourceKey, ~s.exhaustion, ReservedCall(b, s)
  PROVE  \A c \in Classes : Counted(c)'
<1> DEFINE a == AttemptEvent(b, s)
<1>1. /\ events' = events \cup EventsOfAttempt(b, s)
      /\ \A e \in EventsOfAttempt(b, s) : ~IdTaken({e.id})
      /\ budgets' = [budgets EXCEPT ![b] = BudgetAfterAttempt(b)]
      /\ spent' = [spent EXCEPT ![b] = @ + 1]
      /\ ~BudgetOf(b).exhausted
  BY ReservedEffect DEF ReservedCall
<1>2. /\ BudgetOf(b) \in Budget /\ BudgetAfterAttempt(b) # NoBudget
      /\ budgets \in [Classes -> Budget \cup {NoBudget}] /\ spent \in [Classes -> Nat]
      /\ Limit \in Nat \ {0}
  BY BudgetOfType, AttemptFields, LedgerAssumption DEF TypeOK
<1>3. /\ a \in EventsOfAttempt(b, s) /\ a.class = b /\ a.type = "attempt"
      /\ a.generation = BudgetOf(b).generation
      /\ \A e \in EventsOfAttempt(b, s) : e.class = b /\ (e.type = "attempt" => e = a)
      /\ BudgetAfterAttempt(b).attempts = BudgetOf(b).attempts + 1
      /\ BudgetAfterAttempt(b).generation = BudgetOf(b).generation
  BY AttemptFields
<1> HIDE DEF a
<1>4. a \notin events
  BY <1>1, <1>3 DEF IdTaken
<1>5. BudgetOf(b)' = BudgetAfterAttempt(b)
  BY <1>1, <1>2 DEF BudgetOf
<1>6. CurrentAttempts(b)' = CurrentAttempts(b) \cup {a} /\ a \notin CurrentAttempts(b)
  BY <1>1, <1>3, <1>4, <1>5 DEF CurrentAttempts
<1>7. BudgetOf(b).attempts < Limit
  <2>1. CASE budgets[b] = NoBudget
    BY <1>2, <2>1 DEF BudgetOf
  <2>2. CASE budgets[b] # NoBudget
    BY <1>1, <1>2, <2>2, BudgetCoversEvents DEF LedgerInv, ExhaustedAtLimit, Budget
  <2> QED BY <2>1, <2>2
<1>8. Counted(b)'
  <2>1. /\ IsFiniteSet(CurrentAttempts(b)) /\ spent[b] = BudgetOf(b).attempts
        /\ spent[b] = Cardinality(CurrentAttempts(b))
    BY DEF Counted
  <2>2. /\ IsFiniteSet(CurrentAttempts(b)')
        /\ Cardinality(CurrentAttempts(b)') = Cardinality(CurrentAttempts(b)) + 1
    BY <1>6, <2>1, FS_AddElement
  <2>3. spent'[b] = spent[b] + 1 /\ BudgetOf(b)'.attempts = spent[b] + 1
    BY <1>1, <1>2, <1>3, <1>5, <2>1
  <2>4. spent'[b] <= Limit
    BY <1>2, <1>7, <2>1, <2>3
  <2> QED BY <2>1, <2>2, <2>3, <2>4 DEF Counted
<1>9. ASSUME NEW c \in Classes, c # b PROVE Counted(c)'
  BY <1>1, <1>2, <1>3, <1>9, CountedStays
<1> QED BY <1>8, <1>9

\* A reset opens a generation without attempts.
LEMMA CountedReset ==
  ASSUME TypeOK, LedgerInv, Backend = "postgres", \A c \in Classes : Counted(c),
         NEW b \in Classes, NEW k \in Keys, ResetRecoveryBudget(b, k)
  PROVE  \A c \in Classes : Counted(c)'
<1> DEFINE x == ResetEvent(b, DirectKey(k))
<1>1. /\ events' = events \cup {x}
      /\ budgets' = [budgets EXCEPT ![b] = BudgetAfterReset(b)]
      /\ spent' = [spent EXCEPT ![b] = 0]
  BY DEF ResetRecoveryBudget, EventsWith, IdTaken, ResetEvent
<1>2. /\ BudgetOf(b) \in Budget /\ BudgetAfterReset(b) # NoBudget /\ Limit \in Nat
      /\ budgets \in [Classes -> Budget \cup {NoBudget}] /\ spent \in [Classes -> Nat]
      /\ events \subseteq RecoveryEvent
  BY BudgetOfType, NewEventTypes, SourceKeys, NoBudgetAssumption, LedgerAssumption DEF TypeOK
<1>3. x.class = b /\ x.type = "reset"
  BY DEF ResetEvent
<1> HIDE DEF x
<1>4. BudgetOf(b)' = BudgetAfterReset(b)
  BY <1>1, <1>2 DEF BudgetOf
<1>5. BudgetAfterReset(b).generation = BudgetOf(b).generation + 1
      /\ BudgetAfterReset(b).attempts = 0
  BY DEF BudgetAfterReset
<1>6. CurrentAttempts(b)' = {}
  <2>1. \A e \in events : e.class = b => e.generation # BudgetOf(b).generation + 1
    BY <1>2, BudgetCoversEvents DEF RecoveryEvent, Budget
  <2> QED BY <1>1, <1>3, <1>4, <1>5, <2>1 DEF CurrentAttempts
<1>7. Counted(b)'
  BY <1>1, <1>2, <1>4, <1>5, <1>6, FS_EmptySet DEF Counted
<1>8. ASSUME NEW c \in Classes, c # b PROVE Counted(c)'
  BY <1>1, <1>2, <1>3, <1>8, CountedStays
<1> QED BY <1>7, <1>8

\* In Postgres, while nothing expires, every attempt granted since the last reset is
\* on record and counted once, and there are at most recoveryAttemptLimit of them,
\* with whatever keys, shared by classes or not, recovery is requested.
THEOREM AttemptsCounted ==
  ASSUME MaxTime \in Nat, MaxTime < TTL, Backend = "postgres"
  PROVE  Spec => []EveryAttemptOnRecord
<1> DEFINE AllCounted == \A c \in Classes : Counted(c)
<1>1. Init => AllCounted
  <2> SUFFICES ASSUME Init, NEW c \in Classes PROVE Counted(c)
    OBVIOUS
  <2>1. CurrentAttempts(c) = {} /\ BudgetOf(c).attempts = 0 /\ spent[c] = 0
    BY DEF Init, CurrentAttempts, BudgetOf
  <2> QED BY <2>1, FS_EmptySet, LedgerAssumption DEF Counted
<1>2. TypeOK /\ Kept /\ LedgerInv /\ AllCounted /\ [Next]_vars => AllCounted'
  <2> SUFFICES ASSUME TypeOK, Kept, LedgerInv, AllCounted, [Next]_vars PROVE AllCounted'
    OBVIOUS
  <2>1. CASE UNCHANGED <<ledger, spent>>
    BY <2>1, CountedStays DEF ledger
  <2> QED BY <2>1, LedgerSteps, CountedReserved, CountedReset
<1>3. AllCounted => EveryAttemptOnRecord
  BY DEF Counted, EveryAttemptOnRecord
<1> QED BY <1>1, <1>2, <1>3, KeptInvariant, LedgerInvariant, PTL DEF Spec
-----------------------------------------------------------------------------
(***************************************************************************)
(* The lifecycle projection over Postgres, whose state is the ledger's, for *)
(* every set of classes and keys, every limit and retention time.           *)
(***************************************************************************)
\* No verification expires after a record written now.
VerifiedNotAhead == \A v \in verified : v.expiresAt <= Expiry

\* A reset outlives the events of the generations before it.
ResetOnRecord(e) ==
  e.generation < budgets[e.class].generation =>
    \E f \in events : f.class = e.class /\ f.type = "reset" /\ f.expiresAt >= e.expiresAt

\* The exhaustion of the current generation is that of the budget.
ExhaustionCurrent(e) ==
  e.type = "exhausted" /\ e.generation = budgets[e.class].generation
    => budgets[e.class].exhausted

HistoryInv ==
  /\ VerifiedNotAhead
  /\ \A e \in events : ResetOnRecord(e) /\ ExhaustionCurrent(e)

Base == TypeOK /\ BudgetsNotAhead /\ LedgerInv

\* Types of what the invariants compare.
LEMMA RecordTypes ==
  ASSUME Base
  PROVE  /\ now \in Nat /\ TTL \in Nat /\ Expiry \in Nat
         /\ events \subseteq RecoveryEvent /\ verified \subseteq Verification
         /\ budgets \in [Classes -> Budget \cup {NoBudget}]
         /\ \A e \in events :
              /\ e.class \in Classes /\ budgets[e.class] \in Budget
              /\ e.generation \in Nat /\ e.expiresAt \in Nat
              /\ e.expiresAt <= budgets[e.class].expiresAt
              /\ e.generation <= budgets[e.class].generation
              /\ e.expiresAt <= Expiry
<1>1. /\ now \in Nat /\ TTL \in Nat /\ Expiry \in Nat
      /\ events \subseteq RecoveryEvent /\ verified \subseteq Verification
      /\ budgets \in [Classes -> Budget \cup {NoBudget}]
  BY LedgerAssumption DEF Base, TypeOK, Expiry
<1>2. ASSUME NEW e \in events
      PROVE  /\ e.class \in Classes /\ budgets[e.class] \in Budget
             /\ e.generation \in Nat /\ e.expiresAt \in Nat
             /\ e.expiresAt <= budgets[e.class].expiresAt
             /\ e.generation <= budgets[e.class].generation
             /\ e.expiresAt <= Expiry
  <2>1. e.class \in Classes /\ e.generation \in Nat /\ e.expiresAt \in Nat
    BY <1>1 DEF RecoveryEvent
  <2>2. /\ budgets[e.class] # NoBudget
        /\ e.expiresAt <= budgets[e.class].expiresAt
        /\ e.generation <= budgets[e.class].generation
    BY DEF Base, LedgerInv, EventsWithinBudget
  <2>3. budgets[e.class] \in Budget /\ budgets[e.class].expiresAt \in Nat
    BY <1>1, <2>1, <2>2 DEF Budget
  <2>4. budgets[e.class].expiresAt <= Expiry
    BY <2>1, <2>2 DEF Base, BudgetsNotAhead
  <2> QED BY <1>1, <2>1, <2>2, <2>3, <2>4
<1> QED BY <1>1, <1>2

-----------------------------------------------------------------------------
(***************************************************************************)
(* The invariant.                                                           *)
(***************************************************************************)

\* A step grants an attempt, resets a class, records an outcome, sweeps, or
\* changes none of the records.
LEMMA RecordSteps ==
  ASSUME Base, [Next]_vars
  PROVE  \/ \E c \in Classes, s \in SourceKey :
              ~s.exhaustion /\ ReservedCall(c, s) /\ UNCHANGED <<now, verified>>
         \/ \E c \in Classes : \E k \in KeysOf[c] : k \in Keys /\ ResetRecoveryBudget(c, k)
         \/ \E k \in VerifyKeys, outcome \in Outcomes : RecordVerificationOutcome(k, outcome)
         \/ CleanupExpired
         \/ UNCHANGED <<events, budgets, verified>> /\ (now' = now \/ Tick)
<1> DEFINE Granted == \E c \in Classes, s \in SourceKey :
                        ~s.exhaustion /\ ReservedCall(c, s) /\ UNCHANGED <<now, verified>>
           Same == UNCHANGED <<events, budgets, verified>> /\ (now' = now \/ Tick)
<1>1. ASSUME NEW c \in Classes, NEW s \in SourceKey, ~s.exhaustion,
             RecordRecoveryFailure(c, s), UNCHANGED <<now, verified>>
      PROVE  Granted \/ Same
  BY <1>1 DEF RecordRecoveryFailure, RepeatedCall, RefusedCall, RolledBackCall, ledger
<1>2. ASSUME NEW c \in Classes, NEW k \in KeysOf[c], Recover(c, k) PROVE Granted \/ Same
  BY <1>1, <1>2, SourceKeys, LedgerAssumption DEF Recover
<1>3. ASSUME NEW k \in VerifyKeys, ChargeUnresolved(k) PROVE Granted \/ Same
  BY <1>1, <1>3, SourceKeys, LedgerAssumption DEF ChargeUnresolved
<1>4. ASSUME NEW c \in Classes, NEW k \in KeysOf[c], ResetRecoveryBudget(c, k)
      PROVE  k \in Keys /\ ResetRecoveryBudget(c, k)
  BY <1>4, LedgerAssumption
<1>5. ASSUME \/ \E k \in FeedbackKeys, category \in {"corrected_finding", "reasoned_rejection"} :
                  RecordFeedback(k, category)
             \/ \E d \in candidates : MarkImported(d)
             \/ Tick \/ Stop \/ UNCHANGED vars
      PROVE  Same
  BY <1>5 DEF vars, ledger, RecordFeedback, MarkImported, Tick, Stop
<1> HIDE DEF Granted, Same
<1>6. \/ Granted \/ Same
      \/ \E c \in Classes : \E k \in KeysOf[c] : k \in Keys /\ ResetRecoveryBudget(c, k)
      \/ \E k \in VerifyKeys, outcome \in Outcomes : RecordVerificationOutcome(k, outcome)
      \/ CleanupExpired
  BY <1>2, <1>3, <1>4, <1>5 DEF Next
<1> QED BY <1>6 DEF Granted, Same

LEMMA VerifiedStep ==
  Base /\ VerifiedNotAhead /\ [Next]_vars => VerifiedNotAhead'
<1> SUFFICES ASSUME Base, VerifiedNotAhead, [Next]_vars PROVE VerifiedNotAhead'
  OBVIOUS
<1>1. now \in Nat /\ TTL \in Nat /\ verified \subseteq Verification
  BY RecordTypes
<1>2. CASE verified' \subseteq verified /\ (now' = now \/ Tick)
  BY <1>1, <1>2 DEF VerifiedNotAhead, Expiry, Tick, Verification
<1>3. ASSUME NEW k \in VerifyKeys, NEW outcome \in Outcomes, RecordVerificationOutcome(k, outcome)
      PROVE  VerifiedNotAhead'
  <2> DEFINE x == [key |-> k, outcome |-> outcome, expiresAt |-> Expiry]
  <2>1. verified' = verified \cup {x} /\ now' = now
    BY <1>3 DEF RecordVerificationOutcome
  <2>2. x.expiresAt = Expiry /\ Expiry \in Nat /\ Expiry' = Expiry
    BY <1>1, <2>1 DEF Expiry
  <2> HIDE DEF x
  <2> QED BY <2>1, <2>2 DEF VerifiedNotAhead
<1> QED BY <1>2, <1>3, RecordSteps DEF ReservedCall, ResetRecoveryBudget, CleanupExpired

LEMMA HistoryStep ==
  ASSUME Backend = "postgres", Base, HistoryInv, [Next]_vars
  PROVE  HistoryInv'
<1> DEFINE Good == \A e \in events : ResetOnRecord(e) /\ ExhaustionCurrent(e)
<1>v. VerifiedNotAhead'
  BY VerifiedStep DEF HistoryInv
<1>t. TypeOK /\ LedgerInv /\ Good
  BY DEF Base, HistoryInv
<1>1. ASSUME NEW c \in Classes, NEW s \in SourceKey, ~s.exhaustion, ReservedCall(c, s)
      PROVE  Good'
  <2> DEFINE full == BudgetOf(c).attempts + 1 >= Limit
             b == BudgetAfterAttempt(c)
  <2>1. /\ events' = events \cup EventsOfAttempt(c, s)
        /\ budgets' = [budgets EXCEPT ![c] = b] /\ ~BudgetOf(c).exhausted
    BY <1>1, <1>t, ReservedEffect DEF ReservedCall
  <2>2. /\ b.generation = BudgetOf(c).generation
        /\ \A e \in EventsOfAttempt(c, s) :
             /\ e.class = c /\ e.generation = BudgetOf(c).generation
             /\ e.type = "exhausted" => b.exhausted
    BY <1>t, AttemptFields
  <2>3. BudgetOf(c).generation \in Nat
    BY <1>t, BudgetOfType DEF Budget
  <2>4. \A e \in events : e.class = c => BudgetOf(c) = budgets[c]
    BY RecordTypes, <1>t, BudgetCoversEvents
  <2> HIDE DEF b
  <2>5. ASSUME NEW e \in events PROVE ResetOnRecord(e)' /\ ExhaustionCurrent(e)'
    <3>1. budgets'[e.class].generation = budgets[e.class].generation
      BY <2>1, <2>2, <2>4, RecordTypes
    <3>2. e.class # c => budgets'[e.class] = budgets[e.class]
      BY <2>1, RecordTypes
    <3> QED BY <1>t, <2>1, <2>4, <3>1, <3>2 DEF ResetOnRecord, ExhaustionCurrent
  <2>6. ASSUME NEW e \in EventsOfAttempt(c, s) PROVE ResetOnRecord(e)' /\ ExhaustionCurrent(e)'
    <3>1. budgets'[c] = b
      BY <2>1, RecordTypes
    <3> QED BY <2>2, <2>3, <3>1 DEF ResetOnRecord, ExhaustionCurrent
  <2> QED BY <2>1, <2>5, <2>6
<1>2. ASSUME NEW c \in Classes, NEW k \in Keys, ResetRecoveryBudget(c, k) PROVE Good'
  <2> DEFINE x == ResetEvent(c, DirectKey(k))
             b == BudgetAfterReset(c)
  <2>1. events' = events \cup {x} /\ budgets' = [budgets EXCEPT ![c] = b]
    BY <1>2 DEF ResetRecoveryBudget, EventsWith, IdTaken, ResetEvent
  <2>2. /\ x.class = c /\ x.type = "reset" /\ x.expiresAt = Expiry
        /\ x.generation = BudgetOf(c).generation + 1
        /\ b.generation = BudgetOf(c).generation + 1
    BY DEF ResetEvent, BudgetAfterReset
  <2>3. BudgetOf(c).generation \in Nat
    BY <1>t, BudgetOfType DEF Budget
  <2>4. \A e \in events : e.class = c => BudgetOf(c) = budgets[c]
    BY RecordTypes, <1>t, BudgetCoversEvents
  <2> HIDE DEF x, b
  <2>5. budgets'[c] = b /\ \A a \in Classes : a # c => budgets'[a] = budgets[a]
    BY <2>1, RecordTypes
  <2>6. ASSUME NEW e \in events, e.class = c PROVE ResetOnRecord(e)' /\ ExhaustionCurrent(e)'
    <3>1. e.generation < b.generation /\ e.expiresAt <= Expiry
      BY <2>2, <2>3, <2>4, <2>6, RecordTypes
    <3> QED BY <2>1, <2>2, <2>3, <2>5, <2>6, <3>1, RecordTypes
            DEF ResetOnRecord, ExhaustionCurrent
  <2>7. ASSUME NEW e \in events, e.class # c PROVE ResetOnRecord(e)' /\ ExhaustionCurrent(e)'
    <3>1. budgets'[e.class] = budgets[e.class]
      BY <2>5, <2>7, RecordTypes
    <3> QED BY <1>t, <2>1, <3>1 DEF ResetOnRecord, ExhaustionCurrent
  <2>8. ASSUME NEW e, e = x PROVE ResetOnRecord(e)' /\ ExhaustionCurrent(e)'
    BY <2>2, <2>3, <2>5, <2>8 DEF ResetOnRecord, ExhaustionCurrent
  <2> QED BY <2>1, <2>6, <2>7, <2>8
<1>3. ASSUME CleanupExpired PROVE Good'
  <2>1. /\ events' = {e \in events : Alive(e)}
        /\ budgets' = [c \in Classes |->
              IF budgets[c] # NoBudget /\ ~Alive(budgets[c]) THEN NoBudget ELSE budgets[c]]
    BY <1>3 DEF CleanupExpired
  <2> SUFFICES ASSUME NEW e \in events, Alive(e)
               PROVE  ResetOnRecord(e)' /\ ExhaustionCurrent(e)'
    BY <2>1
  <2>2. budgets'[e.class] = budgets[e.class]
    <3>1. budgets[e.class].expiresAt \in Nat
      BY RecordTypes DEF Budget
    <3>2. Alive(budgets[e.class])
      BY <3>1, RecordTypes DEF Alive
    <3> QED BY <2>1, <3>2, RecordTypes
  <2>3. \A f \in events : f.expiresAt >= e.expiresAt => f \in events'
    BY <2>1, RecordTypes DEF Alive
  <2> QED BY <1>t, <2>2, <2>3 DEF ResetOnRecord, ExhaustionCurrent
<1>4. ASSUME UNCHANGED <<events, budgets>> PROVE Good'
  BY <1>t, <1>4 DEF ResetOnRecord, ExhaustionCurrent
<1> HIDE DEF Good
<1>5. Good'
  BY <1>1, <1>2, <1>3, <1>4, RecordSteps DEF RecordVerificationOutcome, ledger
<1> QED BY <1>v, <1>5 DEF HistoryInv, Good

LEMMA HistoryInvariant ==
  ASSUME Backend = "postgres"
  PROVE  Spec => [](Base /\ HistoryInv)
<1>1. Init => HistoryInv
  BY DEF Init, HistoryInv, VerifiedNotAhead
<1>2. Spec => []Base
  BY LedgerInvariant, PTL DEF Base
<1>3. Base /\ HistoryInv /\ [Next]_vars => HistoryInv'
  BY HistoryStep
<1> QED BY <1>1, <1>2, <1>3, PTL DEF Spec

-----------------------------------------------------------------------------
(***************************************************************************)
(* The projection.                                                          *)
(***************************************************************************)
RecoveryAt(e) == [type |-> e.type, at |-> e.expiresAt, state |-> RecoveryState(e.type)]

VerificationAt(v) ==
  [type |-> "verification", at |-> v.expiresAt, state |-> VerificationState(v.outcome)]

LEMMA EventsAre ==
  LifecycleEvents = {RecoveryAt(e) : e \in events} \cup {VerificationAt(v) : v \in verified}
BY DEF LifecycleEvents, RecoveryAt, VerificationAt

LEMMA EventTypes ==
  ASSUME Base, VerifiedNotAhead, NEW x \in LifecycleEvents
  PROVE  x.at \in Nat /\ x.at <= Expiry /\ Priority(x.type) \in Nat /\ Priority(x.type) <= 4
<1>1. ASSUME NEW e \in events, x = RecoveryAt(e)
      PROVE  x.at \in Nat /\ x.at <= Expiry /\ x.type \in {"attempt", "exhausted", "reset"}
  BY <1>1, RecordTypes DEF RecoveryAt, RecoveryEvent
<1>2. ASSUME NEW v \in verified, x = VerificationAt(v)
      PROVE  x.at \in Nat /\ x.at <= Expiry /\ x.type = "verification"
  BY <1>2, RecordTypes DEF VerificationAt, Verification, VerifiedNotAhead
<1> QED BY <1>1, <1>2, EventsAre DEF Priority

\* In Postgres an incident that is reported to need a human has an exhausted class
\* and a candidate to review that cites the exhaustion on record: neither a reset
\* nor a sweep leaves the state behind (buildIncidentLifecycleReview).
THEOREM HumansHaveWork ==
  ASSUME Backend = "postgres"
  PROVE  Spec => []HumanHasWork
<1>1. ASSUME Base, HistoryInv PROVE HumanHasWork
  <2> SUFFICES ASSUME "needs_human" \in ProjectedStates
               PROVE  \E c \in Classes :
                        /\ BudgetOf(c).exhausted
                        /\ \E e \in events, d \in candidates :
                             /\ e.class = c /\ e.type = "exhausted"
                             /\ d.category = "recovery_exhausted" /\ d.source = e.id
    BY DEF HumanHasWork
  <2>1. PICK x \in LastEvents : x.state = "needs_human"
    BY DEF ProjectedStates
  <2>2. x \in LifecycleEvents /\ \A y \in LifecycleEvents : NotAfter(y, x)
    BY DEF LastEvents
  <2>3. PICK e \in events : x = RecoveryAt(e)
    <3>1. \A v \in verified : VerificationAt(v).state # "needs_human"
      BY <1>1, RecordTypes DEF VerificationAt, VerificationState, Verification, Outcomes
    <3> QED BY <2>1, <2>2, <3>1, EventsAre
  <2>4. e.type = "exhausted"
    BY <1>1, <2>1, <2>3, RecordTypes DEF RecoveryAt, RecoveryState, RecoveryEvent
  <2>5. ASSUME NEW f \in events, f.type = "reset", f.expiresAt >= e.expiresAt PROVE FALSE
    <3>1. NotAfter(RecoveryAt(f), x)
      BY <2>2, EventsAre
    <3>2. f.expiresAt \in Nat /\ e.expiresAt \in Nat
      BY <1>1, RecordTypes
    <3> QED BY <2>3, <2>4, <2>5, <3>1, <3>2 DEF NotAfter, RecoveryAt, Priority
  <2>6. ~(e.generation < budgets[e.class].generation)
    BY <1>1, <2>5 DEF HistoryInv, ResetOnRecord
  <2>7. e.generation = budgets[e.class].generation /\ e.class \in Classes
        /\ budgets[e.class] \in Budget
    BY <1>1, <2>6, RecordTypes DEF Budget
  <2>8. budgets[e.class].exhausted /\ budgets[e.class] # NoBudget
    BY <1>1, <2>4, <2>7, NoBudgetAssumption DEF HistoryInv, ExhaustionCurrent
  <2> QED BY <1>1, <2>7, <2>8 DEF Base, LedgerInv, ExhaustionKept, BudgetOf
<1> QED BY <1>1, HistoryInvariant, PTL

\* In Postgres the sweep never changes the reported state to an older one: it stays
\* until no event is left (cleanupExpired, buildIncidentLifecycleReview).
THEOREM SweepForgetsOnly ==
  ASSUME Backend = "postgres"
  PROVE  Spec => SweepKeepsState
<1> DEFINE A == events' \subseteq events /\ verified' \subseteq verified =>
                  ProjectedStates' = ProjectedStates \/ LifecycleEvents' = {}
<1>1. ASSUME Base, HistoryInv, [Next]_vars, events' \subseteq events, verified' \subseteq verified
      PROVE  ProjectedStates' = ProjectedStates \/ LifecycleEvents' = {}
  <2>t. TypeOK /\ LedgerInv /\ VerifiedNotAhead
    BY <1>1 DEF Base, HistoryInv
  <2>1. ASSUME NEW c \in Classes, NEW s \in SourceKey, ~s.exhaustion, ReservedCall(c, s)
        PROVE  FALSE
    <3>1. /\ AttemptEvent(c, s) \in events'
          /\ ~IdTaken({AttemptEvent(c, s).id})
      BY <2>1, <2>t, ReservedEffect DEF EventsOfAttempt
    <3> QED BY <1>1, <3>1 DEF IdTaken
  <2>2. ASSUME NEW c \in Classes, NEW k, ResetRecoveryBudget(c, k) PROVE FALSE
    <3>1. /\ ResetEvent(c, DirectKey(k)) \in events' /\ ~IdTaken({DirectKey(k)})
          /\ ResetEvent(c, DirectKey(k)).id = DirectKey(k)
      BY <2>2 DEF ResetRecoveryBudget, EventsWith, ResetEvent
    <3> QED BY <1>1, <3>1 DEF IdTaken
  <2>3. ASSUME NEW k, NEW outcome, RecordVerificationOutcome(k, outcome) PROVE FALSE
    BY <1>1, <2>3 DEF RecordVerificationOutcome
  <2>4. ASSUME CleanupExpired, LifecycleEvents' # {} PROVE ProjectedStates' = ProjectedStates
    <3>1. LifecycleEvents' = {x \in LifecycleEvents : x.at > now}
      <4>1. events' = {e \in events : e.expiresAt > now}
            /\ verified' = {v \in verified : v.expiresAt > now}
        BY <2>4 DEF CleanupExpired, Alive
      <4>2. /\ \A e \in events : RecoveryAt(e).at = e.expiresAt
            /\ \A v \in verified : VerificationAt(v).at = v.expiresAt
        BY DEF RecoveryAt, VerificationAt
      <4>3. LifecycleEvents' = {RecoveryAt(e) : e \in events'} \cup {VerificationAt(v) : v \in verified'}
        BY DEF LifecycleEvents, RecoveryAt, VerificationAt
      <4> QED BY <4>1, <4>2, <4>3, EventsAre
    <3>2. PICK y \in LifecycleEvents : y.at > now
      BY <2>4, <3>1
    <3>3. now \in Nat /\ \A x \in LifecycleEvents : x.at \in Nat
      BY <1>1, <2>t, EventTypes, RecordTypes
    <3>4. LastEvents' = {x \in LifecycleEvents' : \A z \in LifecycleEvents' : NotAfter(z, x)}
      BY DEF LastEvents
    <3>5. ASSUME NEW x \in LastEvents PROVE x \in LastEvents'
      <4>1. NotAfter(y, x) /\ x \in LifecycleEvents
        BY DEF LastEvents
      <4>2. x.at > now
        BY <3>2, <3>3, <4>1 DEF NotAfter
      <4> QED BY <3>1, <3>4, <4>1, <4>2 DEF LastEvents
    <3>6. ASSUME NEW x \in LastEvents' PROVE x \in LastEvents
      <4>1. x \in LifecycleEvents /\ x.at > now
        BY <3>1, <3>4
      <4>2. ASSUME NEW z \in LifecycleEvents PROVE NotAfter(z, x)
        <5>1. CASE z.at > now
          BY <3>1, <3>4, <5>1
        <5>2. CASE ~(z.at > now)
          BY <3>3, <4>1, <5>2 DEF NotAfter
        <5> QED BY <5>1, <5>2
      <4> QED BY <4>1, <4>2 DEF LastEvents
    <3>7. LastEvents' = LastEvents /\ LifecycleEvents # {}
      BY <3>2, <3>5, <3>6
    <3>8. ProjectedStates' = {x.state : x \in LastEvents'}
      BY <2>4 DEF ProjectedStates
    <3>9. ProjectedStates = {x.state : x \in LastEvents}
      BY <3>7 DEF ProjectedStates
    <3> QED BY <3>7, <3>8, <3>9
  <2>5. ASSUME UNCHANGED <<events, verified>> PROVE ProjectedStates' = ProjectedStates
    BY <2>5 DEF ProjectedStates, LastEvents, LifecycleEvents
  <2> QED BY <1>1, <2>1, <2>2, <2>3, <2>4, <2>5, RecordSteps
<1>2. Base /\ HistoryInv /\ [Next]_vars => [A]_vars
  BY <1>1
<1> QED BY <1>2, HistoryInvariant, PTL DEF Spec, SweepKeepsState

\* In Postgres a recorded verification is what the lifecycle shows at once, whatever
\* recovery events the same millisecond holds (compareLifecycleEvents).
THEOREM OutcomesShow ==
  ASSUME Backend = "postgres"
  PROVE  Spec => OutcomeShows
<1> DEFINE A == \A v \in verified' \ verified : VerificationState(v.outcome) \in ProjectedStates'
<1>1. ASSUME Base, HistoryInv, [Next]_vars, NEW v \in verified' \ verified
      PROVE  VerificationState(v.outcome) \in ProjectedStates'
  <2>1. PICK k \in VerifyKeys, outcome \in Outcomes : RecordVerificationOutcome(k, outcome)
    BY <1>1, RecordSteps DEF CleanupExpired, ResetRecoveryBudget
  <2>2. /\ events' = events /\ verified' = verified \cup {v} /\ v.expiresAt = Expiry
    BY <1>1, <2>1 DEF RecordVerificationOutcome, ledger
  <2> DEFINE x == VerificationAt(v)
  <2>3. LifecycleEvents' = LifecycleEvents \cup {x}
    <3>1. LifecycleEvents' = {RecoveryAt(e) : e \in events'} \cup {VerificationAt(w) : w \in verified'}
      BY DEF LifecycleEvents, RecoveryAt, VerificationAt
    <3> QED BY <2>2, <3>1, EventsAre
  <2>4. x.at = Expiry /\ x.type = "verification" /\ x.state = VerificationState(v.outcome)
    BY <2>2 DEF VerificationAt
  <2>5. Priority("verification") = 4 /\ Expiry \in Nat
    BY <1>1, RecordTypes DEF Priority
  <2> HIDE DEF x
  <2>6. \A y \in LifecycleEvents : NotAfter(y, x)
    BY <1>1, <2>4, <2>5, EventTypes DEF NotAfter, HistoryInv
  <2>7. NotAfter(x, x)
    BY <2>4, <2>5 DEF NotAfter
  <2>8. LastEvents' = {y \in LifecycleEvents' : \A z \in LifecycleEvents' : NotAfter(z, y)}
    BY DEF LastEvents
  <2>9. x \in LastEvents'
    BY <2>3, <2>6, <2>7, <2>8
  <2>10. ProjectedStates' = {y.state : y \in LastEvents'}
    BY <2>3 DEF ProjectedStates
  <2> QED BY <2>4, <2>9, <2>10
<1>2. Base /\ HistoryInv /\ [Next]_vars => [A]_vars
  BY <1>1
<1> QED BY <1>2, HistoryInvariant, PTL DEF Spec, OutcomeShows
=============================================================================
