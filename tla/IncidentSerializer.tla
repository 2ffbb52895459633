------------------------- MODULE IncidentSerializer -------------------------
(***************************************************************************)
(* What the webhook promises about concurrent deliveries: the calls made    *)
(* in one lane (one incident inside one server process) do their work one   *)
(* at a time and in the order in which they were made.  It says nothing of  *)
(* promises, turns or maps: ReentryCoordinator is the detailed module that  *)
(* implements it, EvidenceGate is the module that relies on it.             *)
(***************************************************************************)
EXTENDS Naturals

CONSTANTS Calls,     \* every call made during the behaviour, each made once
          Lanes,     \* what is serialised separately
          NoLane     \* the lane of a call that was not made

VARIABLES phase,     \* how far a call is
          lane,      \* the lane a call was made in
          ticket,    \* the position of a call among all calls, 0 before it is made
          issued     \* how many tickets were handed out

vars == <<phase, lane, ticket, issued>>

Phases == {"idle", "queued", "running", "done"}

TypeOK ==
  /\ phase \in [Calls -> Phases]
  /\ lane \in [Calls -> Lanes \cup {NoLane}]
  /\ ticket \in [Calls -> Nat]
  /\ issued \in Nat

Init ==
  /\ phase = [c \in Calls |-> "idle"]
  /\ lane = [c \in Calls |-> NoLane]
  /\ ticket = [c \in Calls |-> 0]
  /\ issued = 0

\* The calls made in the same lane before c.
Earlier(c) == {d \in Calls : lane[d] = lane[c] /\ ticket[d] < ticket[c]}

Enter(c, l) ==
  /\ phase[c] = "idle"
  /\ phase' = [phase EXCEPT ![c] = "queued"]
  /\ lane' = [lane EXCEPT ![c] = l]
  /\ issued' = issued + 1
  /\ ticket' = [ticket EXCEPT ![c] = issued + 1]

\* A call begins only when every earlier call of its lane is over.
Begin(c) ==
  /\ phase[c] = "queued"
  /\ \A d \in Earlier(c) : phase[d] = "done"
  /\ phase' = [phase EXCEPT ![c] = "running"]
  /\ UNCHANGED <<lane, ticket, issued>>

Leave(c) ==
  /\ phase[c] = "running"
  /\ phase' = [phase EXCEPT ![c] = "done"]
  /\ UNCHANGED <<lane, ticket, issued>>

\* The process behind a set of lanes stops: the calls it held are over.
Stop(ls) ==
  /\ phase' = [c \in Calls |->
                 IF lane[c] \in ls /\ phase[c] # "idle" THEN "done" ELSE phase[c]]
  /\ UNCHANGED <<lane, ticket, issued>>

Next ==
  \/ \E c \in Calls, l \in Lanes : Enter(c, l)
  \/ \E c \in Calls : Begin(c) \/ Leave(c)
  \/ \E ls \in SUBSET Lanes : Stop(ls)

Spec == Init /\ [][Next]_vars
=============================================================================
