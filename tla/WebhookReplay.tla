---------------------------- MODULE WebhookReplay ----------------------------
(***************************************************************************)
(* The way of a signed Grafana request to the evidence gate and back        *)
(* (routeGrafanaWebhook of server/webhook.ts): its timestamp must be fresh, *)
(* its replay key unclaimed (replay_keys of the run store), then the gate   *)
(* handles it, EvidenceGate, and unless the answer is a success the claim   *)
(* is released, so that the sender may try again.  Senders, proxies and     *)
(* retries may deliver one request any number of times.                     *)
(*                                                                          *)
(* `now` counts instants.  Checking the timestamp and claiming the key take *)
(* none: there is no wait between them but the store's own.  A request      *)
(* arrives after it was signed, by the server's clock.                      *)
(***************************************************************************)
EXTENDS EvidenceGate

CONSTANTS Requests,    \* signed requests: a body, a timestamp and their signature
          RequestOf,   \* the request a delivery brings
          SignedAt,    \* the timestamp of a request
          Tolerance,   \* hmacToleranceMs: the age at which a timestamp is still fresh
          Ttl,         \* replayTtlMs: how long a claim lasts
          MaxTime      \* bound on now

\* The claims last as long as the signatures unless the runtime sets them apart.
ASSUME ReplayAssumption ==
  /\ RequestOf \in [Deliveries -> Requests]
  /\ \A d, e \in Deliveries : RequestOf[d] = RequestOf[e] => RunIdOf[d] = RunIdOf[e]
  /\ SignedAt \in [Requests -> Nat]
  /\ Tolerance \in Nat /\ Ttl \in Nat /\ MaxTime \in Nat
  /\ Tolerance <= Ttl
  /\ None \notin [owner : Deliveries, expiresAt : Nat]

VARIABLES now,
          stage,       \* how far the request of a delivery is
          server,      \* the process that received it
          claims       \* replay_keys, by request

replay == <<now, stage, server, claims>>
replayVars == <<vars, replay>>

Stages == {"unsent",
           "stale",      \* 401: the timestamp is too old
           "refused",    \* 409: the key is claimed
           "claimed",    \* the claim is its own; the webhook handles it
           "answered",   \* 2xx
           "releasing",  \* an error was answered, the claim not yet released
           "released",
           "abandoned",  \* an error: claiming or releasing the key failed
           "lost",       \* the process stopped
           "forgotten"}  \* answered, by a process that kept the claim in memory and stopped

ReplayTypeOK ==
  /\ TypeOK
  /\ now \in Nat
  /\ stage \in [Deliveries -> Stages]
  /\ server \in [Deliveries -> Servers \cup {None}]
  /\ claims \in [Requests -> [owner : Deliveries, expiresAt : Nat] \cup {None}]

ReplayInit ==
  /\ Init
  /\ now = 0
  /\ stage = [d \in Deliveries |-> "unsent"]
  /\ server = [d \in Deliveries |-> None]
  /\ claims = [q \in Requests |-> None]

-----------------------------------------------------------------------------
\* assertFreshTimestamp
Fresh(q) == now - SignedAt[q] <= Tolerance

\* Faulty variant of ClaimOf: the claim lives as long as the signature.
ClaimOfSignature(d) == [owner |-> d, expiresAt |-> SignedAt[RequestOf[d]] + Ttl]

\* claimReplayKey: the claim is dated by the receipt, and one that has expired
\* by then is taken over.
ClaimOf(d) == [owner |-> d, expiresAt |-> now + Ttl]

Claimable(q) == claims[q] # None => claims[q].expiresAt <= now

\* A request is delivered to server s.
Arrive(d, s, next) ==
  /\ stage[d] = "unsent"
  /\ now > SignedAt[RequestOf[d]]
  /\ server' = [server EXCEPT ![d] = s]
  /\ stage' = [stage EXCEPT ![d] = next]
  /\ UNCHANGED <<vars, now>>

RejectStale(d, s) ==
  /\ ~Fresh(RequestOf[d])
  /\ Arrive(d, s, "stale")
  /\ UNCHANGED claims

Refuse(d, s) ==
  /\ Fresh(RequestOf[d])
  /\ ~Claimable(RequestOf[d])
  /\ Arrive(d, s, "refused")
  /\ UNCHANGED claims

Claim(d, s) ==
  /\ Fresh(RequestOf[d])
  /\ Claimable(RequestOf[d])
  /\ Arrive(d, s, "claimed")
  /\ claims' = [claims EXCEPT ![RequestOf[d]] = ClaimOf(d)]

\* The call that claims the key fails; the store may have claimed it all the same.
ClaimFails(d, s) ==
  /\ Fresh(RequestOf[d])
  /\ Arrive(d, s, "abandoned")
  /\ \/ UNCHANGED claims
     \/ Claimable(RequestOf[d]) /\ claims' = [claims EXCEPT ![RequestOf[d]] = ClaimOf(d)]

\* handleGrafanaWebhook builds the package and enters the gate ...
Enter(d) ==
  /\ stage[d] = "claimed"
  /\ Receive(d, server[d])
  /\ UNCHANGED replay

Move(d, next) ==
  /\ stage' = [stage EXCEPT ![d] = next]
  /\ UNCHANGED <<vars, now, server>>

\* ... or refuses the payload, or throws, before it.
RejectPayload(d) ==
  /\ stage[d] = "claimed"
  /\ phase[d] = "idle"
  /\ Move(d, "releasing")
  /\ UNCHANGED claims

Success == {"first_observation", "material_evidence", "non_material_evidence",
            "evidence_already_processed"}

Respond(d) ==
  /\ stage[d] = "claimed"
  /\ phase[d] = "done"
  /\ Move(d, IF answer[d] \in Success THEN "answered" ELSE "releasing")
  /\ UNCHANGED claims

\* Faulty variant of Release: the error is answered, the claim stays.
ReleaseNothing(d) ==
  /\ stage[d] = "releasing"
  /\ Move(d, "released")
  /\ UNCHANGED claims

\* releaseReplayKey deletes the key, whoever claimed it last.
Release(d) ==
  /\ stage[d] = "releasing"
  /\ Move(d, "released")
  /\ claims' = [claims EXCEPT ![RequestOf[d]] = None]

\* releaseGrafanaReplay logs a failure of that call and goes on.
ReleaseFails(d) ==
  /\ stage[d] = "releasing"
  /\ Move(d, "abandoned")
  /\ claims' \in {claims, [claims EXCEPT ![RequestOf[d]] = None]}

-----------------------------------------------------------------------------
Handle(d) ==
  /\ Assess(d) \/ Suppress(d) \/ RecordRun(d) \/ MissingParent(d)
       \/ AlreadyProcessed(d) \/ MissingChild(d) \/ Fail(d)
  /\ UNCHANGED replay

AgeRecords == Age /\ UNCHANGED replay

\* The sweep of the run store takes the expired claims with it.
Sweep ==
  /\ CleanupExpired
  /\ claims' = [q \in Requests |->
                  IF claims[q] # None /\ claims[q].expiresAt <= now THEN None ELSE claims[q]]
  /\ UNCHANGED <<now, stage, server>>

Tick ==
  /\ now < MaxTime
  /\ now' = now + 1
  /\ UNCHANGED <<vars, stage, server, claims>>

StageAfterStop(d) ==
  CASE stage[d] \in {"claimed", "releasing"} -> "lost"
    [] stage[d] = "answered" /\ Backend = "memory" -> "forgotten"
    [] OTHER -> stage[d]

StopServer(s) ==
  /\ Crash(s)
  /\ stage' = [d \in Deliveries |-> IF server[d] = s THEN StageAfterStop(d) ELSE stage[d]]
  /\ claims' = IF Backend = "memory" THEN [q \in Requests |-> None] ELSE claims
  /\ UNCHANGED <<now, server>>

ReplayNext ==
  \/ \E d \in Deliveries, s \in Servers :
       RejectStale(d, s) \/ Refuse(d, s) \/ Claim(d, s) \/ ClaimFails(d, s)
  \/ \E d \in Deliveries :
       \/ Enter(d) \/ RejectPayload(d) \/ Handle(d) \/ Respond(d)
       \/ Release(d) \/ ReleaseFails(d)
  \/ AgeRecords \/ Sweep \/ Tick
  \/ \E s \in Servers : StopServer(s)

ReplaySpec == ReplayInit /\ [][ReplayNext]_replayVars

-----------------------------------------------------------------------------
\* The delivery is being handled or was handled with success.
Engaged(d) == stage[d] \in {"claimed", "answered", "releasing"}

\* However often a signed request is delivered, to however many servers of one
\* store, and whether its claim has expired, was swept or released in between: it
\* is never handled by two deliveries at a time nor again after it succeeded, as
\* long as the store lives.  Either way a claim outlives the signature that can
\* ask for it, so no release deletes the claim of another delivery.
HandledOnce ==
  /\ \A d, e \in Deliveries :
       Engaged(d) /\ Engaged(e) /\ RequestOf[d] = RequestOf[e] => d = e
  /\ \A d \in Deliveries :
       stage[d] = "releasing" =>
         claims[RequestOf[d]] = None \/ claims[RequestOf[d]].owner = d

\* A delivery whose claim stays: it is being handled or succeeded, or a call to the
\* store failed, or the process stopped and the store kept the claim.
Stands(d) ==
  Engaged(d) \/ stage[d] = "abandoned" \/ (stage[d] = "lost" /\ Backend = "postgres")

\* A retry of a request that failed is not refused: a claim belongs to a delivery
\* that is being handled or succeeded.  Only a failing call to the store and, if
\* it outlives the process, a stop between claim and answer leave a claim that
\* stands for nothing.
ClaimsHaveOwners ==
  \A q \in Requests :
    claims[q] # None => RequestOf[claims[q].owner] = q /\ Stands(claims[q].owner)
=============================================================================
