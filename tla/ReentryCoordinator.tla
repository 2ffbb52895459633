------------------------- MODULE ReentryCoordinator -------------------------
(***************************************************************************)
(* IncidentReentryCoordinator of server/webhook.ts: a mutex per incident    *)
(* made of chained promises.  A call                                        *)
(*                                                                          *)
(*   reads the incident's tail, appends its own turn to it and becomes the  *)
(*   new tail (Arrive, one synchronous stretch up to the first await),      *)
(*   waits until the tail it read settles (Resume),                         *)
(*   does its work, and in a finally block resolves its turn and removes    *)
(*   the map entry if it is still its own (Finish).                         *)
(*                                                                          *)
(* A promise is identified by the call that made it.  The tail of call c is *)
(* previous.then(() => turn): it settles in a later microtask, once both    *)
(* the tail c waited for and the turn of c have (Settle).                   *)
(***************************************************************************)
EXTENDS Naturals

CONSTANTS Calls,      \* the calls of run() in the life of the behaviour
          Incidents,  \* incident ids
          Hung,       \* incidents whose work is not assumed to ever settle
          None        \* no promise, no incident

ASSUME ConstantsAssumption ==
  /\ None \notin Calls
  /\ None \notin Incidents
  /\ Hung \subseteq Incidents

VARIABLES pc,         \* where each call of run() is suspended
          incidentOf, \* its incidentId argument
          previous,   \* the tail it awaits; None is Promise.resolve()
          tails,      \* the map of the coordinator: the current tail per incident
          settled,    \* the calls whose tail promise has settled
          ticket,     \* history: the order in which run() was called
          issued      \* history: how many calls were made

vars == <<pc, incidentOf, previous, tails, settled, ticket, issued>>

\* "returned" and "threw" are the two ways work() can end; "lost" is a call
\* whose process stopped.
Done(c) == pc[c] \in {"returned", "threw", "lost"}

\* Faulty variant of TurnResolved: resolved after work(), not in the finally block.
ResolvedOnReturn(c) == pc[c] = "returned"

\* The promise named `turn` in the code is resolved by the finally block.
TurnResolved(c) == pc[c] \in {"returned", "threw"}

TypeOK ==
  /\ pc \in [Calls -> {"idle", "waiting", "working", "returned", "threw", "lost"}]
  /\ incidentOf \in [Calls -> Incidents \cup {None}]
  /\ previous \in [Calls -> Calls \cup {None}]
  /\ tails \in [Incidents -> Calls \cup {None}]
  /\ settled \in SUBSET Calls
  /\ ticket \in [Calls -> Nat]
  /\ issued \in Nat

Init ==
  /\ pc = [c \in Calls |-> "idle"]
  /\ incidentOf = [c \in Calls |-> None]
  /\ previous = [c \in Calls |-> None]
  /\ tails = [i \in Incidents |-> None]
  /\ settled = {}
  /\ ticket = [c \in Calls |-> 0]
  /\ issued = 0

\* The tail a new call on incident i awaits.
PreviousTail(i) == tails[i]

Arrive(c, i) ==
  /\ pc[c] = "idle"
  /\ pc' = [pc EXCEPT ![c] = "waiting"]
  /\ incidentOf' = [incidentOf EXCEPT ![c] = i]
  /\ previous' = [previous EXCEPT ![c] = PreviousTail(i)]
  /\ tails' = [tails EXCEPT ![i] = c]
  /\ issued' = issued + 1
  /\ ticket' = [ticket EXCEPT ![c] = issued + 1]
  /\ UNCHANGED settled

\* Faulty variant of PreviousSettled: the previous tail is not awaited.
PreviousNotAwaited(c) == TRUE

PreviousSettled(c) == previous[c] = None \/ previous[c] \in settled

Resume(c) ==
  /\ pc[c] = "waiting"
  /\ PreviousSettled(c)
  /\ pc' = [pc EXCEPT ![c] = "working"]
  /\ UNCHANGED <<incidentOf, previous, tails, settled, ticket, issued>>

\* Faulty variant of TailsAfter: delete without the comparison.
TailsAlwaysDeleted(c) ==
  [i \in Incidents |-> IF i = incidentOf[c] THEN None ELSE tails[i]]

\* The map after the finally block of c: the entry goes only if it is still c's.
TailsAfter(c) ==
  [i \in Incidents |-> IF i = incidentOf[c] /\ tails[i] = c THEN None ELSE tails[i]]

Finish(c) ==
  /\ pc[c] = "working"
  /\ \E ending \in {"returned", "threw"} : pc' = [pc EXCEPT ![c] = ending]
  /\ tails' = TailsAfter(c)
  /\ UNCHANGED <<incidentOf, previous, settled, ticket, issued>>

Settle(c) ==
  /\ c \notin settled
  /\ TurnResolved(c)
  /\ PreviousSettled(c)
  /\ settled' = settled \cup {c}
  /\ UNCHANGED <<pc, incidentOf, previous, tails, ticket, issued>>

\* The process stops: its coordinator, promises and suspended calls are gone.
Crash ==
  /\ pc' = [c \in Calls |-> IF pc[c] \in {"waiting", "working"} THEN "lost" ELSE pc[c]]
  /\ tails' = [i \in Incidents |-> None]
  /\ UNCHANGED <<incidentOf, previous, settled, ticket, issued>>

\* Every call was made and is over: nothing is left to do.
Quiet == (\A c \in Calls : Done(c)) /\ UNCHANGED vars

Next ==
  \/ \E c \in Calls, i \in Incidents : Arrive(c, i)
  \/ \E c \in Calls : Resume(c) \/ Finish(c) \/ Settle(c)
  \/ Crash
  \/ Quiet

Spec == Init /\ [][Next]_vars

(***************************************************************************)
(* The event loop runs every ready continuation, so Resume and Settle are   *)
(* weakly fair; work() settles for the incidents that are not Hung.         *)
(***************************************************************************)
Fairness ==
  /\ \A c \in Calls : WF_vars(Resume(c)) /\ WF_vars(Settle(c))
  /\ \A c \in Calls : WF_vars(incidentOf[c] \notin Hung /\ Finish(c))

FairSpec == Spec /\ Fairness

-----------------------------------------------------------------------------
Busy(c) == pc[c] \in {"waiting", "working"}

\* Two deliveries of one incident are never inside handleEvidenceReentry at
\* the same time: `await previous` in run() keeps the second one out.
OneWorkerPerIncident ==
  \A c, d \in Calls :
    pc[c] = "working" /\ pc[d] = "working" /\ incidentOf[c] = incidentOf[d] => c = d

\* An incident has a map entry exactly while a call on it is unfinished, and
\* the entry is the newest call: a later call can neither overtake a queued
\* one nor find the entry of a finished one (run() deletes it, no leak).
TailIsNewestUnfinished ==
  \A i \in Incidents :
    LET unfinished == {c \in Calls : incidentOf[c] = i /\ Busy(c)}
    IN  IF tails[i] = None
        THEN unfinished = {}
        ELSE /\ tails[i] \in unfinished
             /\ \A c \in unfinished : ticket[c] <= ticket[tails[i]]

\* run() gives every call its turn, whatever way the work before it ended, as
\* long as the work of that incident settles; a hung triage of one incident
\* does not hold up another.
EveryCallEnds ==
  \A c \in Calls : (pc[c] = "waiting" /\ incidentOf[c] \notin Hung) ~> Done(c)

\* The coordinator is a serialiser: first come, first served, per incident.
PhaseOf(c) ==
  CASE pc[c] = "idle" -> "idle"
    [] pc[c] = "waiting" -> "queued"
    [] pc[c] = "working" -> "running"
    [] OTHER -> "done"

Serializer == INSTANCE IncidentSerializer
  WITH Lanes <- Incidents, NoLane <- None,
       phase <- [c \in Calls |-> PhaseOf(c)], lane <- incidentOf

ServesInOrder == Serializer!Spec
=============================================================================
