------------------------ MODULE WebhookReplayProofs ------------------------
(***************************************************************************)
(* Theorems about WebhookReplay, for every number of deliveries, requests   *)
(* and servers, both stores, and every tolerance and time to live of which  *)
(* the second is not shorter than the first.                                *)
(***************************************************************************)
EXTENDS WebhookReplay, EvidenceGateProofs

ClaimRecord == [owner : Deliveries, expiresAt : Nat]

ReplayPartTypeOK ==
  /\ now \in Nat
  /\ stage \in [Deliveries -> Stages]
  /\ server \in [Deliveries -> Servers \cup {None}]
  /\ claims \in [Requests -> ClaimRecord \cup {None}]

\* A claim outlives the signature.
ClaimsOutlive ==
  \A q \in Requests : claims[q] # None => claims[q].expiresAt > SignedAt[q] + Tolerance

\* A delivery that is or was handled has its claim, until both lapsed.
EngagedHold ==
  \A d \in Deliveries :
    Engaged(d) =>
      LET q == RequestOf[d]
      IN  /\ claims[q] # None => claims[q].owner = d
          /\ claims[q] = None => now > SignedAt[q] + Tolerance

\* Requests that arrived were received by a server.
ReceivedSomewhere ==
  \A d \in Deliveries : stage[d] # "unsent" => server[d] \in Servers

ReplayInv ==
  ReplayPartTypeOK /\ ClaimsOutlive /\ EngagedHold /\ ReceivedSomewhere
  /\ HandledOnce /\ ClaimsHaveOwners

-----------------------------------------------------------------------------
LEMMA ReplayStepIsGateStep == ReceivedSomewhere /\ [ReplayNext]_replayVars => [Next]_vars
<1> SUFFICES ASSUME ReceivedSomewhere, ReplayNext PROVE [Next]_vars
  BY DEF replayVars
<1>1. ASSUME NEW d \in Deliveries, NEW s \in Servers,
             RejectStale(d, s) \/ Refuse(d, s) \/ Claim(d, s) \/ ClaimFails(d, s)
      PROVE  UNCHANGED vars
  BY <1>1 DEF RejectStale, Refuse, Claim, ClaimFails, Arrive
<1>2. ASSUME NEW d \in Deliveries, Enter(d) PROVE Next
  BY <1>2 DEF Enter, Next, ReceivedSomewhere
<1>3. ASSUME NEW d \in Deliveries, Handle(d) PROVE Next
  BY <1>3 DEF Handle, Next
<1>4. ASSUME NEW d \in Deliveries,
             RejectPayload(d) \/ Respond(d) \/ Release(d) \/ ReleaseFails(d)
      PROVE  UNCHANGED vars
  BY <1>4 DEF RejectPayload, Respond, Release, ReleaseFails, Move
<1>5. AgeRecords \/ Sweep => Next
  BY DEF AgeRecords, Sweep, Next
<1>6. Tick => UNCHANGED vars
  BY DEF Tick
<1>7. ASSUME NEW s \in Servers, StopServer(s) PROVE Next
  BY <1>7 DEF StopServer, Next
<1> QED BY <1>1, <1>2, <1>3, <1>4, <1>5, <1>6, <1>7 DEF ReplayNext

-----------------------------------------------------------------------------
\* Every step preserves ReplayInv.

LEMMA InitInv == ReplayInit => ReplayInv
  BY DEF ReplayInit, ReplayInv, ReplayPartTypeOK, ClaimsOutlive, EngagedHold, ReceivedSomewhere,
         HandledOnce, ClaimsHaveOwners, Engaged, Stages

\* A step that touches no variable of the claims.
LEMMA GateStepKeepsInv == ReplayInv /\ UNCHANGED replay => ReplayInv'
  BY DEF replay, ReplayInv, ReplayPartTypeOK, ClaimsOutlive, EngagedHold, ReceivedSomewhere,
         HandledOnce, ClaimsHaveOwners, Stands, Engaged

\* A request is delivered and gets no claim.
LEMMA RefusalKeepsInv ==
  ASSUME ReplayInv, NEW d \in Deliveries, NEW s \in Servers,
         NEW next \in {"stale", "refused", "abandoned"}, Arrive(d, s, next), UNCHANGED claims
  PROVE  ReplayInv'
<1> USE DEF ReplayInv
<1>1. ReplayPartTypeOK' /\ ReceivedSomewhere'
  BY DEF Arrive, ReplayPartTypeOK, Stages, ReceivedSomewhere
<1>2. \A e \in Deliveries : Engaged(e)' <=> Engaged(e)
  BY DEF Arrive, ReplayPartTypeOK, Engaged
<1>3. \A e \in Deliveries : stage'[e] = "releasing" <=> stage[e] = "releasing"
  BY DEF Arrive, ReplayPartTypeOK
<1>4. \A e \in Deliveries : e # d => stage'[e] = stage[e]
  BY DEF Arrive, ReplayPartTypeOK
<1>3a. \A e \in Deliveries : Stands(e) => Stands(e)'
  BY <1>2, <1>4 DEF Arrive, Stands, Engaged
<1>5. now' = now
  BY DEF Arrive
<1>6. ClaimsOutlive' /\ EngagedHold' /\ HandledOnce'
  BY <1>2, <1>3, <1>5 DEF ClaimsOutlive, EngagedHold, HandledOnce
<1>7. ClaimsHaveOwners'
  BY <1>3a DEF ClaimsHaveOwners, ReplayPartTypeOK, ClaimRecord
<1> QED BY <1>1, <1>6, <1>7

\* While the signature of a request is fresh and its key free, nobody is engaged.
LEMMA FreeMeansIdle ==
  ASSUME ReplayInv, NEW d \in Deliveries, NEW e \in Deliveries,
         RequestOf[e] = RequestOf[d], Fresh(RequestOf[d]), Claimable(RequestOf[d])
  PROVE  ~Engaged(e)
<1> DEFINE q == RequestOf[d]
<1>1. q \in Requests /\ SignedAt[q] \in Nat /\ Tolerance \in Nat /\ now \in Nat
  BY ReplayAssumption DEF ReplayInv, ReplayPartTypeOK
<1>2. now <= SignedAt[q] + Tolerance
  BY <1>1 DEF Fresh
<1>3. CASE claims[q] = None
  BY <1>1, <1>2, <1>3 DEF ReplayInv, EngagedHold
<1>4. CASE claims[q] # None
  <2>1. claims[q].expiresAt \in Nat
    BY <1>1, <1>4 DEF ReplayInv, ReplayPartTypeOK, ClaimRecord
  <2>2. claims[q].expiresAt <= now /\ claims[q].expiresAt > SignedAt[q] + Tolerance
    BY <1>1, <1>4 DEF Claimable, ReplayInv, ClaimsOutlive
  <2> QED BY <1>1, <1>2, <2>1, <2>2
<1> QED BY <1>3, <1>4

\* A request is delivered and its key claimed, whether or not the call returns.
LEMMA ClaimKeepsInv ==
  ASSUME ReplayInv, NEW d \in Deliveries, NEW s \in Servers,
         NEW next \in {"claimed", "abandoned"}, Arrive(d, s, next),
         Fresh(RequestOf[d]), Claimable(RequestOf[d]),
         claims' = [claims EXCEPT ![RequestOf[d]] = ClaimOf(d)]
  PROVE  ReplayInv'
<1> USE DEF ReplayInv
<1> DEFINE q == RequestOf[d]
<1>1. /\ q \in Requests /\ SignedAt[q] \in Nat /\ Tolerance \in Nat /\ Ttl \in Nat
      /\ now \in Nat /\ Tolerance <= Ttl
  BY ReplayAssumption DEF ReplayPartTypeOK
<1>2. ClaimOf(d) \in ClaimRecord /\ ClaimOf(d) # None
  BY <1>1, ReplayAssumption DEF ClaimOf, ClaimRecord
<1>3. ReplayPartTypeOK' /\ ReceivedSomewhere'
  BY <1>2 DEF Arrive, ReplayPartTypeOK, Stages, ReceivedSomewhere
<1>4. claims'[q] = ClaimOf(d) /\ \A p \in Requests : p # q => claims'[p] = claims[p]
  BY <1>1 DEF ReplayPartTypeOK
<1>5. /\ stage'[d] = next /\ stage[d] = "unsent"
      /\ \A e \in Deliveries : e # d => stage'[e] = stage[e]
  BY DEF Arrive, ReplayPartTypeOK
<1>6. \A e \in Deliveries : e # d => (Engaged(e)' <=> Engaged(e))
  BY <1>5 DEF Engaged
<1>7. \A e \in Deliveries : Engaged(e) => RequestOf[e] # q
  BY FreeMeansIdle
<1>8. now' = now /\ now > SignedAt[q]
  BY DEF Arrive
<1>9. ClaimsOutlive'
  <2>1. now + Ttl > SignedAt[q] + Tolerance
    BY <1>1, <1>8
  <2> QED BY <1>4, <2>1 DEF ClaimOf, ClaimsOutlive
<1>10. EngagedHold'
  <2> SUFFICES ASSUME NEW e \in Deliveries, Engaged(e)'
               PROVE  /\ claims'[RequestOf[e]] # None => claims'[RequestOf[e]].owner = e
                      /\ claims'[RequestOf[e]] = None => now' > SignedAt[RequestOf[e]] + Tolerance
    BY DEF EngagedHold
  <2>1. CASE e = d
    BY <1>2, <1>4, <2>1 DEF ClaimOf
  <2>2. CASE e # d
    <3>1. Engaged(e) /\ RequestOf[e] # q /\ RequestOf[e] \in Requests
      BY <1>6, <1>7, <2>2, ReplayAssumption
    <3> QED BY <1>4, <1>8, <3>1 DEF EngagedHold
  <2> QED BY <2>1, <2>2
<1>11. HandledOnce'
  <2>1. \A e, f \in Deliveries :
          Engaged(e)' /\ Engaged(f)' /\ RequestOf[e] = RequestOf[f] => e = f
    BY <1>6, <1>7 DEF HandledOnce
  <2>2. \A e \in Deliveries :
          stage'[e] = "releasing" =>
            claims'[RequestOf[e]] = None \/ claims'[RequestOf[e]].owner = e
    BY <1>10 DEF EngagedHold, Engaged
  <2> QED BY <2>1, <2>2 DEF HandledOnce
<1>12. ClaimsHaveOwners'
  <2>1. Stands(d)' /\ \A e \in Deliveries : Stands(e) => Stands(e)'
    BY <1>5, <1>6 DEF Stands, Engaged
  <2> SUFFICES ASSUME NEW p \in Requests, claims'[p] # None, NEW o \in Deliveries,
                      o = claims'[p].owner
               PROVE  RequestOf[o] = p /\ Stands(o)'
    BY <1>3 DEF ClaimsHaveOwners, ReplayPartTypeOK, ClaimRecord
  <2>2. CASE p = q
    BY <1>4, <2>1, <2>2 DEF ClaimOf
  <2>3. CASE p # q
    BY <1>4, <2>1, <2>3 DEF ClaimsHaveOwners
  <2> QED BY <2>2, <2>3
<1> QED BY <1>3, <1>9, <1>10, <1>11, <1>12

\* The webhook answers: the delivery stays engaged.
LEMMA AnswerKeepsInv ==
  ASSUME ReplayInv, NEW d \in Deliveries, stage[d] = "claimed",
         NEW next \in {"answered", "releasing"}, Move(d, next), UNCHANGED claims
  PROVE  ReplayInv'
<1> USE DEF ReplayInv
<1>1. /\ stage'[d] = next
      /\ \A e \in Deliveries : e # d => stage'[e] = stage[e]
      /\ now' = now
  BY DEF Move, ReplayPartTypeOK
<1>2. \A e \in Deliveries : Engaged(e)' <=> Engaged(e)
  BY <1>1 DEF Engaged
<1>3. ReplayPartTypeOK' /\ ReceivedSomewhere'
  BY DEF Move, ReplayPartTypeOK, Stages, ReceivedSomewhere
<1>4. ClaimsOutlive' /\ EngagedHold'
  BY <1>1, <1>2 DEF ClaimsOutlive, EngagedHold
<1>5. HandledOnce'
  BY <1>2, <1>4 DEF HandledOnce, EngagedHold, Engaged
<1>6. ClaimsHaveOwners'
  <2>1. \A e \in Deliveries : Stands(e) => Stands(e)'
    BY <1>1, <1>2 DEF Stands, Engaged
  <2> QED BY <2>1 DEF ClaimsHaveOwners, ReplayPartTypeOK, ClaimRecord
<1> QED BY <1>3, <1>4, <1>5, <1>6

\* The claim of a failed delivery is released, or the call for it fails.
LEMMA ReleaseKeepsInv ==
  ASSUME ReplayInv, NEW d \in Deliveries, Release(d) \/ ReleaseFails(d)
  PROVE  ReplayInv'
<1> USE DEF ReplayInv
<1> DEFINE q == RequestOf[d]
<1>1. /\ stage[d] = "releasing" /\ stage'[d] \in {"released", "abandoned"}
      /\ \A e \in Deliveries : e # d => stage'[e] = stage[e]
      /\ now' = now
  BY DEF Release, ReleaseFails, Move, ReplayPartTypeOK
<1>2. /\ q \in Requests
      /\ \A p \in Requests : p # q => claims'[p] = claims[p]
      /\ claims'[q] = None \/ (claims'[q] = claims[q] /\ stage'[d] = "abandoned")
  BY ReplayAssumption DEF Release, ReleaseFails, Move, ReplayPartTypeOK
<1>3. ReplayPartTypeOK' /\ ReceivedSomewhere'
  BY ReplayAssumption
  DEF Release, ReleaseFails, Move, ReplayPartTypeOK, Stages, ReceivedSomewhere
<1>4. \A e \in Deliveries : Engaged(e)' => Engaged(e) /\ e # d /\ RequestOf[e] # q
  BY <1>1 DEF Engaged, HandledOnce
<1>5. ClaimsOutlive'
  BY <1>2 DEF ClaimsOutlive
<1>6. EngagedHold'
  <2> SUFFICES ASSUME NEW e \in Deliveries, Engaged(e)'
               PROVE  /\ claims'[RequestOf[e]] # None => claims'[RequestOf[e]].owner = e
                      /\ claims'[RequestOf[e]] = None => now' > SignedAt[RequestOf[e]] + Tolerance
    BY DEF EngagedHold
  <2>1. Engaged(e) /\ claims'[RequestOf[e]] = claims[RequestOf[e]]
    BY <1>2, <1>4, ReplayAssumption
  <2> QED BY <1>1, <2>1 DEF EngagedHold
<1>7. HandledOnce'
  BY <1>1, <1>4, <1>6 DEF HandledOnce, EngagedHold, Engaged
<1>8. ClaimsHaveOwners'
  <2> SUFFICES ASSUME NEW p \in Requests, claims'[p] # None, NEW o \in Deliveries,
                      o = claims'[p].owner
               PROVE  RequestOf[o] = p /\ Stands(o)'
    BY <1>3 DEF ClaimsHaveOwners, ReplayPartTypeOK, ClaimRecord
  <2>1. claims'[p] = claims[p] /\ RequestOf[o] = p /\ Stands(o)
    BY <1>2 DEF ClaimsHaveOwners
  <2>2. CASE o = d
    BY <1>2, <2>1, <2>2 DEF Stands
  <2>3. CASE o # d
    BY <1>1, <2>1, <2>3 DEF Stands, Engaged
  <2> QED BY <2>1, <2>2, <2>3
<1> QED BY <1>3, <1>5, <1>6, <1>7, <1>8

\* The sweep deletes lapsed claims only.
LEMMA SweepKeepsInv ==
  ASSUME ReplayInv, Sweep
  PROVE  ReplayInv'
<1> USE DEF ReplayInv
<1>1. now' = now /\ stage' = stage /\ server' = server
  BY DEF Sweep
<1>2. \A q \in Requests : claims'[q] = claims[q] \/ (claims'[q] = None /\ claims[q].expiresAt <= now)
  BY DEF Sweep
<1>3. ReplayPartTypeOK' /\ ReceivedSomewhere'
  BY <1>1 DEF Sweep, ReplayPartTypeOK, ReceivedSomewhere
<1>4. \A d \in Deliveries : (Engaged(d)' <=> Engaged(d)) /\ (Stands(d)' <=> Stands(d))
  BY <1>1 DEF Engaged, Stands
<1>5. ClaimsOutlive'
  BY <1>2 DEF ClaimsOutlive
<1>6. EngagedHold'
  <2> SUFFICES ASSUME NEW d \in Deliveries, Engaged(d), NEW q, q = RequestOf[d]
               PROVE  /\ claims'[q] # None => claims'[q].owner = d
                      /\ claims'[q] = None => now' > SignedAt[q] + Tolerance
    BY <1>4 DEF EngagedHold
  <2>1. /\ q \in Requests /\ SignedAt[q] \in Nat /\ Tolerance \in Nat /\ now \in Nat
        /\ claims[q] # None => claims[q].expiresAt \in Nat
    BY ReplayAssumption DEF ReplayPartTypeOK, ClaimRecord
  <2>2. CASE claims'[q] = claims[q]
    BY <1>1, <2>1, <2>2 DEF EngagedHold
  <2>3. CASE claims'[q] # claims[q]
    <3>1. claims'[q] = None /\ claims[q].expiresAt <= now /\ claims[q] # None
      BY <1>2, <2>1, <2>3
    <3>2. claims[q].expiresAt > SignedAt[q] + Tolerance
      BY <2>1, <3>1 DEF ClaimsOutlive
    <3> QED BY <1>1, <2>1, <3>1, <3>2
  <2> QED BY <2>2, <2>3
<1>7. HandledOnce'
  BY <1>1, <1>2, <1>4, ReplayAssumption DEF HandledOnce
<1>8. ClaimsHaveOwners'
  BY <1>2, <1>4 DEF ClaimsHaveOwners, ReplayPartTypeOK, ClaimRecord
<1> QED BY <1>3, <1>5, <1>6, <1>7, <1>8

\* Time passes.
LEMMA TickKeepsInv ==
  ASSUME ReplayInv, Tick
  PROVE  ReplayInv'
<1> USE DEF ReplayInv
<1>1. now \in Nat /\ now' = now + 1 /\ stage' = stage /\ server' = server /\ claims' = claims
  BY DEF Tick, ReplayPartTypeOK
<1>2. ReplayPartTypeOK' /\ ReceivedSomewhere'
  BY <1>1 DEF ReplayPartTypeOK, ReceivedSomewhere
<1>3. \A d \in Deliveries : (Engaged(d)' <=> Engaged(d)) /\ (Stands(d)' <=> Stands(d))
  BY <1>1 DEF Engaged, Stands
<1>4. EngagedHold'
  <2> SUFFICES ASSUME NEW d \in Deliveries, Engaged(d), NEW q, q = RequestOf[d]
               PROVE  /\ claims[q] # None => claims[q].owner = d
                      /\ claims[q] = None => now' > SignedAt[q] + Tolerance
    BY <1>1, <1>3 DEF EngagedHold
  <2>1. q \in Requests /\ SignedAt[q] \in Nat /\ Tolerance \in Nat
    BY ReplayAssumption
  <2> QED BY <1>1, <2>1 DEF EngagedHold
<1>5. ClaimsOutlive' /\ HandledOnce' /\ ClaimsHaveOwners'
  BY <1>1, <1>3 DEF ClaimsOutlive, HandledOnce, ClaimsHaveOwners, ReplayPartTypeOK, ClaimRecord
<1> QED BY <1>2, <1>4, <1>5

\* A process stops: with the store in memory it is the only one, and what was
\* engaged or claimed ends with it; otherwise its claims stay.
LEMMA StopKeepsInv ==
  ASSUME ReplayInv, NEW s \in Servers, StopServer(s)
  PROVE  ReplayInv'
<1> USE DEF ReplayInv
<1>1. /\ now' = now /\ server' = server
      /\ stage' = [d \in Deliveries |->
                     IF server[d] = s THEN StageAfterStop(d) ELSE stage[d]]
      /\ claims' = IF Backend = "memory" THEN [q \in Requests |-> None] ELSE claims
  BY DEF StopServer
<1>2. \A d \in Deliveries : StageAfterStop(d) \in Stages
  BY DEF StageAfterStop, Stages, ReplayPartTypeOK
<1>3. ReplayPartTypeOK'
  BY <1>1, <1>2 DEF ReplayPartTypeOK
<1>4. \A d \in Deliveries : stage'[d] # "unsent" => stage[d] # "unsent"
  BY <1>1 DEF StageAfterStop
<1>5. ReceivedSomewhere'
  BY <1>1, <1>4 DEF ReceivedSomewhere
<1>6. \A d \in Deliveries :
        /\ Engaged(d)' => Engaged(d)
        /\ stage'[d] = "releasing" => stage[d] = "releasing"
  BY <1>1 DEF StageAfterStop, Engaged
<1>7. CASE Backend = "memory"
  <2>1. \A d \in Deliveries : server[d] = s \/ stage[d] = "unsent"
    BY <1>7, GateAssumption DEF ReceivedSomewhere
  <2>2. \A d \in Deliveries : ~Engaged(d)'
    BY <1>1, <1>7, <2>1 DEF Engaged, StageAfterStop
  <2>3. \A q \in Requests : claims'[q] = None
    BY <1>1, <1>7
  <2>4. ClaimsOutlive' /\ ClaimsHaveOwners'
    BY <2>3 DEF ClaimsOutlive, ClaimsHaveOwners
  <2>5. EngagedHold' /\ HandledOnce'
    BY <2>2 DEF EngagedHold, HandledOnce, Engaged
  <2> QED BY <1>3, <1>5, <2>4, <2>5
<1>8. CASE Backend = "postgres"
  <2>1. claims' = claims
    BY <1>1, <1>8
  <2>2. ClaimsOutlive' /\ EngagedHold'
    BY <1>1, <1>6, <2>1 DEF ClaimsOutlive, EngagedHold
  <2>3. HandledOnce'
    BY <1>6, <2>1 DEF HandledOnce
  <2>4. \A d \in Deliveries : Stands(d) => Stands(d)'
    BY <1>1, <1>8 DEF Stands, Engaged, StageAfterStop
  <2>5. ClaimsHaveOwners'
    BY <2>1, <2>4 DEF ClaimsHaveOwners, ReplayPartTypeOK, ClaimRecord
  <2> QED BY <1>3, <1>5, <2>2, <2>3, <2>5
<1> QED BY <1>7, <1>8, GateAssumption

LEMMA ReplayInvStep == ReplayInv /\ [ReplayNext]_replayVars => ReplayInv'
<1> SUFFICES ASSUME ReplayInv, [ReplayNext]_replayVars PROVE ReplayInv'
  OBVIOUS
<1>1. CASE UNCHANGED replayVars
  BY <1>1, GateStepKeepsInv DEF replayVars
<1>2. ASSUME NEW d \in Deliveries, NEW s \in Servers, RejectStale(d, s) \/ Refuse(d, s)
      PROVE  ReplayInv'
  <2>1. CASE RejectStale(d, s)
    BY <2>1, RefusalKeepsInv DEF RejectStale
  <2>2. CASE Refuse(d, s)
    BY <2>2, RefusalKeepsInv DEF Refuse
  <2> QED BY <1>2, <2>1, <2>2
<1>3. ASSUME NEW d \in Deliveries, NEW s \in Servers, Claim(d, s) PROVE ReplayInv'
  BY <1>3, ClaimKeepsInv DEF Claim
<1>4. ASSUME NEW d \in Deliveries, NEW s \in Servers, ClaimFails(d, s) PROVE ReplayInv'
  <2>1. Arrive(d, s, "abandoned") /\ Fresh(RequestOf[d])
    BY <1>4 DEF ClaimFails
  <2>2. CASE UNCHANGED claims
    BY <2>1, <2>2, RefusalKeepsInv
  <2>3. CASE /\ Claimable(RequestOf[d])
             /\ claims' = [claims EXCEPT ![RequestOf[d]] = ClaimOf(d)]
    BY <2>1, <2>3, ClaimKeepsInv
  <2> QED BY <1>4, <2>2, <2>3 DEF ClaimFails
<1>5. ASSUME NEW d \in Deliveries, Enter(d) \/ Handle(d) PROVE ReplayInv'
  BY <1>5, GateStepKeepsInv DEF Enter, Handle
<1>6. ASSUME NEW d \in Deliveries, RejectPayload(d) \/ Respond(d) PROVE ReplayInv'
  <2>1. CASE RejectPayload(d)
    BY <2>1, AnswerKeepsInv DEF RejectPayload
  <2>2. CASE Respond(d)
    BY <2>2, AnswerKeepsInv DEF Respond
  <2> QED BY <1>6, <2>1, <2>2
<1>7. ASSUME NEW d \in Deliveries, Release(d) \/ ReleaseFails(d) PROVE ReplayInv'
  BY <1>7, ReleaseKeepsInv
<1>8. ASSUME AgeRecords PROVE ReplayInv'
  BY <1>8, GateStepKeepsInv DEF AgeRecords
<1>9. ASSUME Sweep PROVE ReplayInv'
  BY <1>9, SweepKeepsInv
<1>10. ASSUME Tick PROVE ReplayInv'
  BY <1>10, TickKeepsInv
<1>11. ASSUME NEW s \in Servers, StopServer(s) PROVE ReplayInv'
  BY <1>11, StopKeepsInv
<1> QED BY <1>1, <1>2, <1>3, <1>4, <1>5, <1>6, <1>7, <1>8, <1>9, <1>10, <1>11 DEF ReplayNext

-----------------------------------------------------------------------------
\* The claims and the stages of all deliveries stay as described above.
THEOREM ReplayInvariant == ReplaySpec => []ReplayInv
  BY InitInv, ReplayInvStep, PTL DEF ReplaySpec

\* The webhook with its replay claims implements the gate alone: what holds of
\* EvidenceGate, whose deliveries may enter at any time, holds of the requests
\* that freshness and claims admit.
THEOREM ReplayImplementsGate == ReplaySpec => Spec
<1>1. ReplayInit => Init
  BY DEF ReplayInit
<1>2. ReplayInv /\ [ReplayNext]_replayVars => [Next]_vars
  BY ReplayStepIsGateStep DEF ReplayInv
<1> QED BY <1>1, <1>2, ReplayInvariant, PTL DEF ReplaySpec, Spec

\* A signed request is handled by one delivery at a time and not again after it
\* succeeded, for claims that live at least as long as signatures are fresh.
THEOREM RequestsHandledOnce == ReplaySpec => []HandledOnce
<1>1. ReplayInv => HandledOnce
  BY DEF ReplayInv
<1> QED BY <1>1, ReplayInvariant, PTL

\* Whatever is refused as a repetition repeats a delivery that is being handled
\* or succeeded, or one whose claim a failure left behind.
THEOREM EveryClaimHasAnOwner == ReplaySpec => []ClaimsHaveOwners
<1>1. ReplayInv => ClaimsHaveOwners
  BY DEF ReplayInv
<1> QED BY <1>1, ReplayInvariant, PTL

\* With one server process, the baseline a verdict was reached against is still
\* the latest when the outcome is written, for the requests of the webhook.
THEOREM ReplayVerdictCurrent ==
  ASSUME OneServer
  PROVE  ReplaySpec => []VerdictOnCurrentBaseline
  BY VerdictCurrent, ReplayImplementsGate, PTL

\* In one process the baseline is the newest work of the requests that the webhook
\* admitted, however often they were delivered.
THEOREM ReplayBaselineNewest ==
  ASSUME Backend = "memory"
  PROVE  ReplaySpec => []BaselineIsNewestWork
  BY BaselineNewest, ReplayImplementsGate, PTL
=============================================================================
