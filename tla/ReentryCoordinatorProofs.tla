----------------------- MODULE ReentryCoordinatorProofs -----------------------
(***************************************************************************)
(* Proofs about ReentryCoordinator for any number of calls and incidents:   *)
(* type correctness, mutual exclusion per incident, and that every step of  *)
(* the promise chain is a step (or a stutter) of IncidentSerializer.        *)
(*                                                                          *)
(* The argument.  The map entry of an incident is its newest unfinished     *)
(* call (TailIsNewestUnfinished), so the promise a new call awaits is the   *)
(* one behind which every unfinished call of the incident queues            *)
(* (WaitsForTheYoungest).  A call that got as far as working had all earlier *)
(* ones over (EarlierOver), hence so has a tail that settled                *)
(* (SettledOver); a call that resumes therefore finds all earlier ones over. *)
(***************************************************************************)
EXTENDS ReentryCoordinator, TLAPS

Made(c) == pc[c] # "idle"

Before(d, c) == incidentOf[d] = incidentOf[c] /\ ticket[d] < ticket[c] /\ Made(d)

\* Tickets number the calls that were made.
TicketsOK ==
  /\ \A c \in Calls : IF Made(c) THEN incidentOf[c] \in Incidents /\ ticket[c] \in 1..issued
                                 ELSE incidentOf[c] = None /\ ticket[c] = 0
  /\ \A c, d \in Calls : Made(c) /\ Made(d) /\ ticket[c] = ticket[d] => c = d

\* The tail a waiting call awaits is at or behind every earlier unfinished call.
WaitsForTheYoungest ==
  \A c, d \in Calls :
    pc[c] = "waiting" /\ Busy(d) /\ Before(d, c) =>
      /\ previous[c] # None
      /\ incidentOf[previous[c]] = incidentOf[c]
      /\ ticket[d] <= ticket[previous[c]]

EarlierOver ==
  \A c, d \in Calls :
    (pc[c] = "working" \/ TurnResolved(c)) /\ Before(d, c) => Done(d)

SettledOver ==
  \A p \in settled, d \in Calls :
    Made(d) /\ incidentOf[d] = incidentOf[p] /\ ticket[d] <= ticket[p] => Done(d)

IInv ==
  /\ TypeOK
  /\ TicketsOK
  /\ TailIsNewestUnfinished
  /\ WaitsForTheYoungest
  /\ EarlierOver
  /\ SettledOver
  /\ \A p \in settled : Made(p)
-----------------------------------------------------------------------------
LEMMA InitIInv == Init => IInv
BY ConstantsAssumption
   DEF Init, IInv, TypeOK, TicketsOK, TailIsNewestUnfinished, WaitsForTheYoungest,
       EarlierOver, SettledOver, Made, Busy, Before, Done, TurnResolved

\* The strengthened invariant is kept by a new call.
LEMMA ArriveIInv ==
  ASSUME IInv, NEW a \in Calls, NEW i \in Incidents, Arrive(a, i)
  PROVE  IInv'
<1> USE ConstantsAssumption DEF Made, Busy, Done, TurnResolved
<1>1. TypeOK'
  BY DEF IInv, TypeOK, Arrive, PreviousTail
<1>2. /\ pc[a] = "idle" /\ pc'[a] = "waiting"
      /\ incidentOf'[a] = i /\ ticket'[a] = issued + 1 /\ issued' = issued + 1
      /\ previous'[a] = tails[i] /\ tails'[i] = a
      /\ \A c \in Calls \ {a} : /\ pc'[c] = pc[c] /\ incidentOf'[c] = incidentOf[c]
                                /\ ticket'[c] = ticket[c] /\ previous'[c] = previous[c]
      /\ \A j \in Incidents \ {i} : tails'[j] = tails[j]
      /\ settled' = settled
  BY DEF IInv, TypeOK, Arrive, PreviousTail
<1>3. \A c \in Calls \ {a} : Made(c) => ticket[c] \in 1..issued /\ ticket[c] < ticket'[a]
  BY <1>2 DEF IInv, TypeOK, TicketsOK
<1>4. TicketsOK'
  BY <1>1, <1>2, <1>3 DEF IInv, TypeOK, TicketsOK
<1>5. TailIsNewestUnfinished'
  <2> SUFFICES ASSUME NEW j \in Incidents PROVE TailIsNewestUnfinished!(j)'
    BY DEF TailIsNewestUnfinished
  <2>1. CASE j = i
    BY <2>1, <1>1, <1>2, <1>3 DEF IInv, TypeOK
  <2>2. CASE j # i
    BY <2>2, <1>1, <1>2 DEF IInv, TypeOK, TailIsNewestUnfinished
  <2> QED BY <2>1, <2>2
<1>6. WaitsForTheYoungest'
  <2> SUFFICES ASSUME NEW c \in Calls, NEW d \in Calls,
                      pc'[c] = "waiting", Busy(d)', Before(d, c)'
               PROVE  /\ previous'[c] # None
                      /\ incidentOf'[previous'[c]] = incidentOf'[c]
                      /\ ticket'[d] <= ticket'[previous'[c]]
    BY DEF WaitsForTheYoungest
  <2>1. d # a
    BY <1>1, <1>2, <1>3 DEF Before, IInv, TypeOK
  <2>2. CASE c = a
    BY <2>1, <2>2, <1>2 DEF Before, IInv, TypeOK, TailIsNewestUnfinished
  <2>3. CASE c # a
    <3>1. pc[c] = "waiting" /\ Busy(d) /\ Before(d, c)
      BY <2>1, <2>3, <1>2 DEF Before
    <3>2. /\ previous[c] # None /\ incidentOf[previous[c]] = incidentOf[c]
          /\ ticket[d] <= ticket[previous[c]]
      BY <3>1 DEF IInv, WaitsForTheYoungest
    <3>3. previous[c] # a
      BY <3>2, <3>1, <1>2 DEF IInv, TypeOK, TicketsOK, Before
    <3> QED BY <2>1, <2>3, <3>2, <3>3, <1>2 DEF IInv, TypeOK
  <2> QED BY <2>2, <2>3
<1>7. EarlierOver'
  BY <1>1, <1>2, <1>3 DEF IInv, TypeOK, EarlierOver, Before
<1>8. SettledOver'
  BY <1>1, <1>2, <1>3 DEF IInv, TypeOK, SettledOver
<1>9. (\A p \in settled : Made(p))'
  BY <1>2 DEF IInv, TypeOK
<1> QED BY <1>1, <1>4, <1>5, <1>6, <1>7, <1>8, <1>9 DEF IInv

\* A waiting call whose awaited tail has settled finds every earlier call over.
LEMMA ResumeFindsEarlierOver ==
  ASSUME IInv, NEW a \in Calls, pc[a] = "waiting", PreviousSettled(a)
  PROVE  \A d \in Calls : Before(d, a) => Done(d)
<1> SUFFICES ASSUME NEW d \in Calls, Before(d, a), ~Done(d) PROVE FALSE
  OBVIOUS
<1>1. Busy(d)
  BY DEF IInv, TypeOK, Before, Made, Busy, Done
<1>2. /\ previous[a] \in settled /\ incidentOf[previous[a]] = incidentOf[a]
      /\ ticket[d] <= ticket[previous[a]]
  BY <1>1 DEF IInv, WaitsForTheYoungest, PreviousSettled
<1> QED BY <1>2 DEF IInv, SettledOver, Before

LEMMA ResumeIInv ==
  ASSUME IInv, NEW a \in Calls, Resume(a)
  PROVE  IInv'
<1> USE DEF Made, Busy, Done, TurnResolved
<1>1. TypeOK'
  BY DEF IInv, TypeOK, Resume
<1>2. /\ pc[a] = "waiting" /\ pc'[a] = "working"
      /\ \A c \in Calls \ {a} : pc'[c] = pc[c]
      /\ UNCHANGED <<incidentOf, previous, tails, settled, ticket, issued>>
  BY DEF IInv, TypeOK, Resume
<1>3. \A c \in Calls : Made(c)' <=> Made(c)
  BY <1>2
<1>4. \A d \in Calls : Before(d, a) => Done(d)
  BY ResumeFindsEarlierOver DEF Resume
<1>5. TicketsOK'
  BY <1>2, <1>3 DEF IInv, TicketsOK
<1>6. TailIsNewestUnfinished'
  BY <1>2 DEF IInv, TypeOK, TailIsNewestUnfinished
<1>7. WaitsForTheYoungest'
  BY <1>2 DEF IInv, WaitsForTheYoungest, Before
<1>8. EarlierOver'
  BY <1>2, <1>4 DEF IInv, TypeOK, EarlierOver, Before
<1>9. SettledOver' /\ (\A p \in settled : Made(p))'
  BY <1>2 DEF IInv, TypeOK, SettledOver
<1> QED BY <1>1, <1>5, <1>6, <1>7, <1>8, <1>9 DEF IInv

LEMMA FinishIInv ==
  ASSUME IInv, NEW a \in Calls, Finish(a)
  PROVE  IInv'
<1> USE ConstantsAssumption DEF Made, Busy, Done, TurnResolved
<1>1. TypeOK'
  BY DEF IInv, TypeOK, Finish, TailsAfter
<1>2. /\ pc[a] = "working" /\ pc'[a] \in {"returned", "threw"}
      /\ \A c \in Calls \ {a} : pc'[c] = pc[c]
      /\ tails' = TailsAfter(a)
      /\ UNCHANGED <<incidentOf, previous, settled, ticket, issued>>
  BY DEF IInv, TypeOK, Finish
<1>3. TicketsOK'
  BY <1>2 DEF IInv, TicketsOK
<1>4. TailIsNewestUnfinished'
  <2> SUFFICES ASSUME NEW j \in Incidents PROVE TailIsNewestUnfinished!(j)'
    BY DEF TailIsNewestUnfinished
  <2>1. CASE j = incidentOf[a] /\ tails[j] = a
    \* a was the newest unfinished call and every earlier one is over.
    <3>1. tails'[j] = None
      BY <2>1, <1>2 DEF TailsAfter
    <3>2. \A c \in Calls : incidentOf[c] = j /\ Busy(c) => c = a
      BY <2>1, <1>2 DEF IInv, TypeOK, TailIsNewestUnfinished, TicketsOK, EarlierOver, Before
    <3> QED BY <3>1, <3>2, <1>2
  <2>2. CASE ~(j = incidentOf[a] /\ tails[j] = a)
    <3>1. tails'[j] = tails[j]
      BY <2>2, <1>2 DEF TailsAfter
    <3>2. tails[j] # a
      BY <2>2 DEF IInv, TypeOK, TailIsNewestUnfinished
    <3> QED BY <3>1, <3>2, <1>2 DEF IInv, TypeOK, TailIsNewestUnfinished
  <2> QED BY <2>1, <2>2
<1>5. WaitsForTheYoungest'
  BY <1>2 DEF IInv, WaitsForTheYoungest, Before
<1>6. EarlierOver'
  BY <1>2 DEF IInv, TypeOK, EarlierOver, Before
<1>7. SettledOver' /\ (\A p \in settled : Made(p))'
  BY <1>2 DEF IInv, TypeOK, SettledOver
<1> QED BY <1>1, <1>3, <1>4, <1>5, <1>6, <1>7 DEF IInv

LEMMA SettleIInv ==
  ASSUME IInv, NEW a \in Calls, Settle(a)
  PROVE  IInv'
<1> USE DEF Made, Busy, Done, TurnResolved, Settle
<1>1. TypeOK' /\ TicketsOK' /\ TailIsNewestUnfinished' /\ WaitsForTheYoungest' /\ EarlierOver'
  BY DEF IInv, TypeOK, TicketsOK, TailIsNewestUnfinished, WaitsForTheYoungest, EarlierOver,
         Before
<1>2. SettledOver'
  <2> SUFFICES ASSUME NEW d \in Calls, Made(d), incidentOf[d] = incidentOf[a],
                      ticket[d] <= ticket[a]
               PROVE  Done(d)
    BY DEF IInv, TypeOK, SettledOver
  <2>1. CASE ticket[d] < ticket[a]
    BY <2>1 DEF IInv, EarlierOver, Before
  <2>2. CASE ticket[d] = ticket[a]
    BY <2>2 DEF IInv, TicketsOK
  <2> QED BY <2>1, <2>2 DEF IInv, TypeOK
<1>3. (\A p \in settled : Made(p))'
  BY DEF IInv
<1> QED BY <1>1, <1>2, <1>3 DEF IInv

LEMMA CrashIInv ==
  ASSUME IInv, Crash
  PROVE  IInv'
<1> USE ConstantsAssumption DEF Made, Busy, Done, TurnResolved
<1>1. /\ \A c \in Calls : pc'[c] = IF pc[c] \in {"waiting", "working"} THEN "lost" ELSE pc[c]
      /\ \A i \in Incidents : tails'[i] = None
      /\ UNCHANGED <<incidentOf, previous, settled, ticket, issued>>
  BY DEF Crash
<1>2. TypeOK'
  BY DEF IInv, TypeOK, Crash
<1>3. \A c \in Calls : /\ Made(c)' <=> Made(c)
                       /\ ~Busy(c)'
                       /\ Done(c) => Done(c)'
                       /\ TurnResolved(c)' <=> TurnResolved(c)
  BY <1>1
<1>4. TicketsOK'
  BY <1>1, <1>3 DEF IInv, TicketsOK
<1>5. TailIsNewestUnfinished' /\ WaitsForTheYoungest'
  BY <1>1, <1>3 DEF TailIsNewestUnfinished, WaitsForTheYoungest
<1>6. EarlierOver' /\ SettledOver' /\ (\A p \in settled : Made(p))'
  BY <1>1, <1>3 DEF IInv, TypeOK, EarlierOver, SettledOver, Before
<1> QED BY <1>2, <1>4, <1>5, <1>6 DEF IInv

LEMMA NextIInv == IInv /\ [Next]_vars => IInv'
<1> SUFFICES ASSUME IInv, [Next]_vars PROVE IInv'
  OBVIOUS
<1>1. ASSUME NEW c \in Calls, NEW i \in Incidents, Arrive(c, i) PROVE IInv'
  BY <1>1, ArriveIInv
<1>2. ASSUME NEW c \in Calls, Resume(c) PROVE IInv'
  BY <1>2, ResumeIInv
<1>3. ASSUME NEW c \in Calls, Finish(c) PROVE IInv'
  BY <1>3, FinishIInv
<1>4. ASSUME NEW c \in Calls, Settle(c) PROVE IInv'
  BY <1>4, SettleIInv
<1>5. CASE Crash
  BY <1>5, CrashIInv
<1>6. CASE UNCHANGED vars
  BY <1>6 DEF vars, IInv, TypeOK, TicketsOK, TailIsNewestUnfinished, WaitsForTheYoungest,
              EarlierOver, SettledOver, Made, Busy, Before, Done, TurnResolved
<1> QED BY <1>1, <1>2, <1>3, <1>4, <1>5, <1>6 DEF Next, Quiet

\* The strengthened invariant holds in every reachable state.
THEOREM CoordinatorInvariant == Spec => []IInv
BY InitIInv, NextIInv, PTL DEF Spec

\* The coordinator's variables keep their types.
THEOREM CoordinatorTypes == Spec => []TypeOK
<1>1. IInv => TypeOK
  BY DEF IInv
<1> QED BY <1>1, CoordinatorInvariant, PTL

\* Two deliveries of one incident are never inside work() of
\* IncidentReentryCoordinator.run at the same time, however many are queued.
THEOREM MutualExclusion == Spec => []OneWorkerPerIncident
<1>1. IInv => OneWorkerPerIncident
  BY DEF IInv, TypeOK, TicketsOK, EarlierOver, OneWorkerPerIncident, Before, Made, Done
<1> QED BY <1>1, CoordinatorInvariant, PTL

\* The map of tails holds the newest unfinished call of each incident and
\* nothing once an incident has none.
THEOREM TailsExact == Spec => []TailIsNewestUnfinished
<1>1. IInv => TailIsNewestUnfinished
  BY DEF IInv
<1> QED BY <1>1, CoordinatorInvariant, PTL

-----------------------------------------------------------------------------
\* The coordinator implements the abstract serialiser: the calls of an incident
\* do their work in the order in which run() was called, one at a time.  Settle
\* is a stutter, Crash stops every lane, and Resume is a Begin because a settled
\* tail has every earlier call over.
THEOREM CoordinatorServesInOrder == Spec => ServesInOrder
<1> USE ConstantsAssumption DEF PhaseOf
<1>1. Init => Serializer!Init
  BY DEF Init, Serializer!Init
<1>2. ASSUME IInv, [Next]_vars
      PROVE  [Serializer!Next]_Serializer!vars
  <2>1. ASSUME NEW a \in Calls, NEW i \in Incidents, Arrive(a, i)
        PROVE  Serializer!Next
    <3>1. [c \in Calls |-> PhaseOf(c)]' = [[c \in Calls |-> PhaseOf(c)] EXCEPT ![a] = "queued"]
      BY <1>2, <2>1 DEF Arrive, IInv, TypeOK
    <3>2. Serializer!Enter(a, i)
      BY <2>1, <3>1 DEF Arrive, Serializer!Enter
    <3> QED BY <3>2 DEF Serializer!Next
  <2>2. ASSUME NEW a \in Calls, Resume(a)
        PROVE  Serializer!Next
    <3>1. [c \in Calls |-> PhaseOf(c)]' = [[c \in Calls |-> PhaseOf(c)] EXCEPT ![a] = "running"]
      BY <1>2, <2>2 DEF Resume, IInv, TypeOK
    <3>2. \A d \in Calls : incidentOf[d] = incidentOf[a] /\ ticket[d] < ticket[a] => Done(d)
      BY <1>2, <2>2, ResumeFindsEarlierOver DEF Resume, IInv, TicketsOK, Made, Before
    <3>3. \A d \in Serializer!Earlier(a) : [c \in Calls |-> PhaseOf(c)][d] = "done"
      BY <3>2 DEF Serializer!Earlier, Done
    <3>4. Serializer!Begin(a)
      BY <2>2, <3>1, <3>3 DEF Resume, Serializer!Begin
    <3> QED BY <3>4 DEF Serializer!Next
  <2>3. ASSUME NEW a \in Calls, Finish(a)
        PROVE  Serializer!Next
    <3>1. [c \in Calls |-> PhaseOf(c)]' = [[c \in Calls |-> PhaseOf(c)] EXCEPT ![a] = "done"]
      BY <1>2, <2>3 DEF Finish, IInv, TypeOK
    <3>2. Serializer!Leave(a)
      BY <2>3, <3>1 DEF Finish, Serializer!Leave
    <3> QED BY <3>2 DEF Serializer!Next
  <2>4. ASSUME NEW a \in Calls, Settle(a)
        PROVE  UNCHANGED Serializer!vars
    BY <2>4 DEF Settle, Serializer!vars
  <2>5. CASE Crash
    <3>1. \A c \in Calls : pc[c] # "idle" => incidentOf[c] \in Incidents
      BY <1>2 DEF IInv, TicketsOK, Made
    <3>2. [c \in Calls |-> PhaseOf(c)]'
            = [c \in Calls |->
                IF incidentOf[c] \in Incidents /\ [d \in Calls |-> PhaseOf(d)][c] # "idle"
                THEN "done" ELSE [d \in Calls |-> PhaseOf(d)][c]]
      BY <1>2, <2>5, <3>1 DEF Crash, IInv, TypeOK
    <3>3. Serializer!Stop(Incidents)
      BY <2>5, <3>2 DEF Crash, Serializer!Stop
    <3> QED BY <3>3 DEF Serializer!Next
  <2>6. CASE UNCHANGED vars
    BY <2>6 DEF vars, Serializer!vars
  <2> QED BY <1>2, <2>1, <2>2, <2>3, <2>4, <2>5, <2>6 DEF Next, Quiet
<1> QED BY <1>1, <1>2, CoordinatorInvariant, PTL DEF Spec, ServesInOrder, Serializer!Spec
=============================================================================
