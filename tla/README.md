# Formal models of the incident triage agent

TLA+ models of the incident triage agent, the TLC configurations that check them
on small instances, and theorems about them that TLAPS checks for every value of
the constants. Paths below are relative to the root of the repository; the code
is in `src/`, the documentation in `README.md`, `CONCEPTS.md` and `docs/`.

## 1. The system

A Grafana webhook (or a scenario on the command line) starts a *triage*: tools
gather an evidence package, a decision provider (a language model or a
deterministic stub) classifies it, and policy turns the decision into a
recommendation, a request for human approval, or a hand-over to a human. The
agent never executes an action; every artefact it makes is simulated. Around
that pipeline the server keeps state:

| Component | Code | State | Operations | Talks to |
|---|---|---|---|---|
| Re-entry coordinator | `server/webhook.ts` `IncidentReentryCoordinator` | a map incident -> tail promise | `run` | called by the webhook; runs the gate |
| Material-evidence gate and run store | `server/webhook.ts` `handleEvidenceReentry`, `persistence/*` | runs, evidence snapshots, gate decisions | receive, assess, triage, commit, duplicate reply, sweep | coordinator, evidence delta, classifier, store |
| Evidence canonicalisation and delta | `reentry.ts` | none (pure) | canonicalise, digest, delta, judge | gate, materiality classifier |
| Recovery ledger, verification, outcome candidates | `recovery-budget.ts`, `server/lifecycle.ts`, `persistence/*` | budgets, events with idempotency keys, verification outcomes, candidates | recover, reset, verify, feedback, import, sweep | store; the browser and command line clients |
| Incident lifecycle projection | `incident-lifecycle.ts`, `persistence/record-mapping.ts` | none (computed on read) | sort and fold of ledger and verification events | ledger |
| Webhook ingestion and replay claims | `server/webhook.ts` | replay keys with expiry | claim, release | gate, store |
| Triage workflow, policy, control, scoring | `workflow.ts`, `policy.ts`, `mitigation-control.ts`, `scoring.ts` | none beyond a run | run | decision provider, approval store |
| Approval store, API and command | `approval-store.ts`, `server/approval.ts`, `approval-cli.ts` | one JSON file | request, decide, read | workflow; two kinds of process share the file |
| Decision providers, evidence sources | `llm.ts`, `grafana.ts`, `loki.ts`, `evidence.ts` | none | build a package, ask a model, validate its answer | workflow, gate |
| Server shell, retention | `server/composition.ts`, `server/*` | timer | routes, hourly sweep of records older than 7 days | all stores |
| Failure discovery and review | `evals/failure-discovery`, `scripts/failure-review.ts` | one JSON file per manifest, run, review, case, and the taxonomy | generate, import, annotate, promote, revise, retire, validate | outcome candidates, evaluation catalogue |
| Review console | `run-review-console.ts` (script of the page) | selection, list, panel, fetches in flight | load, select, decide, verify, feed back, run a scenario | routes for runs, approvals, lifecycle, scenarios |
| Quality gates | `evals/quality-gates.ts`, `server/response-mapping.ts` | none | judge a recorded answer | a run's response |
| Configuration, evaluation harness, demos | `config.ts`, `cli.ts`, `evals/`, `scripts/` | none | parsing, rendering | the endpoints above |

`PROJECT.json` lists the same components with their source files and what is
modelled of each.

**What is hard here.** The server is one event loop, but every `await` is a
point where another request runs: the coordinator exists to serialise deliveries
of one incident, and does so only inside a process (`README.md` says so), while
Postgres may be shared. The gate reads a baseline, waits for tools, a classifier
and a whole triage, and then commits a decision about that baseline. Clients
retry: replayed bodies, repeated idempotency keys, verifications whose answer
was lost. Some requests need two store calls and a stop may fall between them.
All records expire and are swept while requests are under way. The approval
file is written by two processes without a lock, and so are the files of the
failure review, by commands that write several of them one after another. The
review console awaits fetches it never cancels.

**What makes each component correct.**

* Coordinator: mutual exclusion per incident, first come first served, a later
  call is never lost or overtaken, a call that throws or hangs holds up nobody
  on other incidents, no map entry leaks.
* Gate: a delivery acts on the baseline it was judged against; the newest work
  is the next baseline; the same evidence gets one child run even from two
  processes; decisions, runs and their lineage agree after crashes and sweeps.
* Evidence: equivalent evidence (reordered, respelled) is never triaged again,
  and no operational change is ever suppressed, whatever the classifier says.
* Ledger: the budget is exactly what the ledger says, a retry counts once, a
  limit is never exceeded, exhaustion always reaches a human, nothing on record
  disappears before it expires.
* Lifecycle: what a reader sees agrees with the records; retention forgets but
  never rewrites.
* Policy, workflow, scorecard: written apart, they agree; a sensitive action is
  never presented as safe; read-only mode stages nothing.
* Validation: an invalid decision fails closed; of the explanation around a
  valid one only what is unusable is lost, the status says so, and nothing in
  it changes what is acted on.
* Approvals: an acknowledged status stays, a human decision is not undone.
* Ingestion: a signed request is handled once if it succeeds, may be retried if
  it fails, and is never refused for a claim nobody owns.
* Failure review: wherever a command stops, manifests, runs, reviews, cases and
  taxonomy back each other; what a reviewer recorded is not reset, and what once
  validated stays valid.
* Console: the panel belongs to the selected run, a notice to the approval it
  stands beside, and nothing waits for an answer that cannot come.
* Quality gates: an accepted answer can be acted on, and gates and scorecard
  differ where they are meant to.

## 2. The modules

| Module | Models |
|---|---|
| `IncidentSerializer` | abstract: a first come first served mutex per lane, what the coordinator promises |
| `ReentryCoordinator` | the promise chain: `Arrive` is `run` up to its first await, `Resume` the continuation after `await previous`, `Finish` the finally block, `Settle` the microtask that settles the tail, `Crash` a process stop |
| `EvidenceGate` | `handleEvidenceReentry` on top of both run stores; uses the coordinator at its promise (`IncidentSerializer` with one lane per server process) |
| `EvidenceDelta` | the pure operators of `reentry.ts`: digest, multiset difference, references, deterministic policy, which classifier replies are accepted |
| `AlertIntake` | pure operators from a Grafana notification to an evidence package: `normalizeGrafanaPayload`, the log lookup, the context sources, `buildEvidencePackageFromIncident` |
| `EvidenceStream` | notifications about several incidents, one after another: each firing one is made into a package (`AlertIntake`) and judged against the latest triaged one of its incident (`EvidenceDelta`), a resolved one records an outcome; expiry |
| `RecoveryLedger` | every endpoint and store call that writes budgets, events, verification outcomes or candidates; the sweep; a stop between two store calls |
| `LifecycleProjection` | the state an incident is reported in, computed from the records of `RecoveryLedger` (it extends it and adds no step) |
| `DecisionValidation` | pure operators of `llm.ts`: what of a model's answer is a decision, what is kept of its explanation, with which status |
| `TriagePolicy` | pure operators on top of it: mitigation control, safety policy, the states of a run, the structural scores |
| `ApprovalFlow` | a triage that files a request, the console and the approval command, the file between read, truncate and write, stops and restarts in another mode |
| `QualityGates` | pure operators from a run to its response (`runToResponse`) and the five gates over it, beside the scorecard's own view of evidence |
| `WebhookReplay` | a signed request in front of the gate: freshness of the signature, the replay claim, refusal, payload errors, the delivery (it extends `EvidenceGate` and takes its actions), release, stops, the sweep |
| `FailureReview` | the commands of `scripts/failure-review.ts` as processes that write one file after another |
| `OperatorConsole` | the script of the review console: page state, one slot per fetch in flight, the server behind it |
| `MC...` | instances for TLC: model values, sets of packages and decisions, symmetry |
| `...Proofs` | theorems and lemmas about the module they are named after |

How state corresponds to code:

* *Coordinator.* A promise is named by the call that made it. `tails` is the
  private map, `previous[c]` the tail a call read, `settled` the tails whose
  promise has settled. `ticket` and `issued` are history.
* *Gate.* `runs` stands for the tables `incident_runs` and
  `evidence_snapshots`, `decisions` for `evidence_gate_decisions`. A run id is
  the digest of the webhook body, so two deliveries may share one (`RunIdOf`),
  and packages of the same digest are one value. All records live equally long,
  therefore one instant, `horizon`, says what has expired. In memory a run that
  is stored again replaces the record; Postgres updates it and keeps its
  creation time, refuses a child whose parent row is gone, and rolls the
  transaction back when anything in it fails. `Material` and `Classifier` say
  what policy and classifier may answer; the operators behind them are
  `EvidenceDelta`.
* *Evidence.* A notification holds what Grafana says its alerts have in common
  and the alerts in the order listed. `baseline` is the package of an incident's
  latest retained run, `resolved` the incidents with a retained outcome that a
  resolved notification recorded; `subject`, `latest`, `prior` and `decision`
  describe the last firing delivery. Deliveries of an incident follow one
  another, which is what the coordinator gives.
* *Ledger.* One record per row, `eventKeys` is the unique index on class and
  idempotency key, `pending` are the unresolved verifications whose first store
  call is done and whose second is not. The event id is a hash of incident and
  source key, so one key used for two classes gives one id: in memory the later
  event replaces the earlier one, Postgres refuses it.
* *Lifecycle.* Events are ordered by time and, within a millisecond, by type.
  What that leaves open is a set of possible states.
* *Answers.* A model's answer is the parsed payload, a failed process and
  malformed JSON are the one answer `NoAnswer`. A text is the set of claims the
  patterns of `claimQualityWarnings` find in it. What a run keeps of the answer
  is `validation`.
* *Approvals.* A record is its status. `op[w]` is what a process is doing:
  `found` (the console has looked the record up), `loaded` (it holds the text it
  will write), `truncated` (the file is open for writing and empty). `Empty` and
  `Garbage` are a file no later load can parse.

* *Requests.* `requests[d]` is the stage of a delivery: a body that has arrived
  and is not yet claimed, claimed, in the gate, answered. A claim records its
  expiry; the delivery it was made for is history. A request arrives strictly
  after it was signed by the server's clock, and check and claim take no time.
  `Backend` decides whether a stop empties the claims (they are in memory) or
  leaves them (Postgres).
* *Failure review.* One batch; `directory`, `manifest`, `runFiles`, `reviews`,
  `cases` and `taxonomy` are the files. `op[p]` is what a command has loaded and
  will write next, `overlapped` (history) which files two commands were changing
  at a time.
* *Console.* `page.selected` is `selectedRunId`, `page.list` and `page.detail`
  what the list and the detail panel show, `page.feedback` the variable
  `approvalFeedback`, `fetches[q]` a request and, once the server has handled
  it, its answer. The continuation of a fetch runs when its answer is delivered,
  in any order. The page loads the scenarios first; with a remembered token it
  also loads the runs, as the button does.

Definitions whose comment says "Faulty variant of ..." are deliberate errors.
Each of them replaces one modelled definition in a mutation run, and TLC then
has to refute the property it is meant for: a property that no plausible bug can
break is not kept.

## 3. What TLC checks

| Run | Instance | What it shows |
|---|---|---|
| `Coordinator` | 3 calls, 2 incidents, the work of one may hang, crash anywhere | mutual exclusion, the chain implements `IncidentSerializer` (`ServesInOrder`), every call gets its turn (`EveryCallEnds`) |
| `RecoveryBudget` | in memory, limit 3, four retry keys, two verifications, nothing expires | a budget never exceeds its limit, every attempt is on record and counted once, unresolved verifications are charged, budgets fall only by a reset, a review is final |
| `RecoveryLifecycle` | Postgres, limit 2, records live 2 of 4 ticks, one key used for two classes, stops | budget, ledger, candidates and the reported state agree while records expire and are swept at any moment; the ledger is append-only |
| `GateTwoServers` | Postgres, 2 servers, 3 deliveries of distinct bodies | the unique key of decisions gives one child run per evidence; decisions, runs and lineage agree |
| `EvidenceStream` | 7 notifications of 4 alerts about 2 incidents (firing in two orders, one resolved among firing ones, all resolved, none), 3 log replies, at most 2 log lines | no firing alert and no operational evidence is lost on the way to the run on record, lost logs and the order of alerts decide nothing; deltas are exact and empty only for equivalent evidence, and a triage has a reason |
| `ApprovalFlow` | the repository's catalog, 14 answers, 5 packages, server and one command | no run shows or acts on ungrounded evidence and an explanation decides nothing; policy, states, scores and quality gates agree in both modes, read-only stages nothing, acknowledged statuses stay while saves do not overlap |
| `WebhookReplay` | one process, store in memory, one request delivered twice and another with another body signed a tick later, signatures fresh for 2 ticks of 3, claims that live no longer than they must | a request is handled once (`HandledOnce`), only stops and failed releases leave a claim without owner (`ClaimsHaveOwners`), a verdict is acted on while its baseline is current, the newest work is the next baseline |
| `FailureReview` | 2 runs, 2 first failures, 2 modes of at most 2 revisions, 2 processes and reviewers, stops between any two writes | a batch can always be loaded, modes are supported by cases on file, validated batches and regressions stay valid, annotations are not reset |
| `OperatorConsole` | 2 runs, a list of one, 2 fetches in flight, 3 presses, losses, refusals, runs stored and expired meanwhile, decisions from elsewhere | the panel follows the selection, notices fit their panel, whatever waits has a fetch under way |

Three more runs each end in a counterexample to something the repository says:

| Run | Property | The program |
|---|---|---|
| `FindingClassifierFlip` | `MaterialGetsRun` | A classifier first suppresses evidence; when the same evidence returns and is now material, the stored decision has no child run, the delivery ends in an error and its triage is lost (`README.md:186` promises a run). |
| `FindingVerificationCrash` | `UnresolvedCharged` | After a stop between the two store calls of an unresolved verification the budget is never charged, whatever the client retries (plan of 2026-10-13, AE4). |
| `FindingResolvedStays` | `MaterialReopens` | An incident reported as resolved stays resolved when later material evidence gets a complete run: no handler emits the `reentry_recorded` event that would reopen it (plan of 2026-10-13, lines 241 and 355). |

Two disagreements that the models also reach have no run of their own. A body
that returns after another one reuses its run id, and its new evidence rewrites
the older run, although `CONCEPTS.md:47` speaks of immutable runs: on Postgres
`EvidenceGate` then dates the rewritten run by its first storing, so
`BaselineIsNewestWork` is checked in memory, where the run is replaced. And
server and approval command read, change and write the approval file without a
lock: the later save may undo a decision (`README.md:327`), which is why
`AcknowledgedOnFile` speaks of saves that do not overlap.

**Bounds, and why they suffice.** Three calls are enough for a newest, a middle
and an oldest one, so for overtaking, a wrong delete of a tail and a chain over
a finished predecessor; two incidents for independence. Four deliveries of two
bodies let a run id be reused with another run in between and a fourth delivery
be judged against the result. Two of the packages differ materially and a third
only in what the classifier judges, which are all the kinds of pairs. A limit of
2 or 3 has a below, an at and a beyond; four retry keys are one more than the
limit. Time bounded by `MaxTime` and a life of `TTL` ticks lets records be
alive, expired but not swept, and swept, in different tables at the same time.
A group of three firing
alerts has a first, and two whose order may change; they share a symptom, one
has no runbook on file, and the fourth alert has neither name, fingerprint nor
links. A log reply has no line, one, or one more than the limit, two of them
the same text in two spellings. The answers are a failed one, bare
decisions, and explanations that are whole, that miss or misspell each part,
that cite evidence some of the packages lack, or that claim what only some
bear out; confidences lie at 54, 55 and 100 percent, beside the bound, on it
and at the end of the range. Two of the four failure classes are used, the
one operators retry and the one verification charges: no operation treats the other two differently. The clock
of the gate and the tickets of the queue are bounded by the number of
deliveries, `MaxTime` bounds the clock of the ledger, `MaxRevision` the
revisions of a mode, and nothing else counts. In `WebhookReplay` the second
delivery of a request may be a repetition while the first is handled, one after
its success, or a retry after its failure, and the other request may change the
baseline in between. In `FailureReview` the inputs of a batch are two runs or
one run twice, the second run has only one of the first failures; two modes can compete for a case and a mode can be
revised once; when two commands have overlapped on the corpus no third one
starts. In `OperatorConsole` two fetches are enough for answers in the wrong
order, and what happens to a third one happens to either of the two.

Symmetry is declared for packages, servers and deliveries that no definition
tells apart, in runs of invariants and action properties only. Deadlock is
checked in every run but `WebhookReplay`, `FailureReview` and `OperatorConsole`,
which stop when all requests are answered, when a batch is unusable and the
corpus was changed by overlapping commands, and when the presses are used up.

**Fairness.** Only `ReentryCoordinator` states liveness. The event loop runs
every continuation that is ready, so `Resume` and `Settle` are weakly fair.
`Finish` is weakly fair for incidents outside `Hung`: the code puts no timeout
around a whole triage, so nothing is assumed about the others, and the property
does not speak about them.

## 4. What is proved

Theorems hold for every value of the constants that satisfies the named
assumptions of the module: any number of calls, deliveries, packages, keys,
approval commands, any catalog, any limit and life of records.

**`ReentryCoordinatorProofs`.** The invariant needs, beside types, that tickets
are distinct and increase along `previous`, that a tail is the youngest
unfinished call of its incident, that a waiting call waits for the youngest call
before it, that whatever precedes a settled or a working call is over, and that
only calls that were made have settled. From it follow `MutualExclusion`,
`TailsExact` and `CoordinatorServesInOrder`, the refinement of
`IncidentSerializer` (each `Resume` of the detailed module is a `Begin` of the
oldest queued call of the lane).

**`RecoveryLedgerProofs`.** `LedgerInv`: events lie within the budget of their
class and generation, attempts are numbered once and in range, the latest one is
kept as long as the budget, a budget is exhausted exactly at the limit, its
exhaustion event and candidate are kept with it. The conjunct that is easy to
miss is `BudgetsNotAhead`: a budget expires no later than a record written now,
so the sweep never takes the records that back a live budget before the budget.
Theorems `BudgetsBacked`, `ExhaustionReachesHuman` and `EventsAppendOnly` assume
`Backend = "postgres"`; in memory an event replaces a live one when one key is
used for two classes. `LedgerTypes` holds for both, and so does `ReviewIsFinal`:
there is one candidate per category and source, and what is handed over again
leaves it as it is. Three theorems are about a time in which nothing expires
(`MaxTime < TTL`, as in the run; when a budget expires its class starts anew
without a reset). `ResetsAreAudited` holds for both stores. `AttemptsCounted`
follows in Postgres from `LedgerInv`: a granted attempt has a number of its own.
`VerificationsCharged` is about the store in memory, since a server over
Postgres may stop between the two calls (`FindingVerificationCrash`).

**The reported state (in the same module).** `HumansHaveWork`, `SweepForgetsOnly` and
`OutcomesShow`, in Postgres, from `LedgerInv` and three facts about the history:
no verification expires later than a record written now; an event of an earlier
generation than its budget has a reset of its class on record that expires no
earlier; an exhaustion event of the current generation belongs to a budget that
is exhausted. A human is asked for only if an exhaustion event is the newest of
the incident, so it cannot be one that a reset ended.

**`EvidenceGateProofs`.** `VerdictCurrent` assumes one server and rests on the
mutual exclusion of the serialiser: between the reading of the baseline and the
commit no other delivery of the incident writes. `RecordsAgree`, `OneChild` and
`Lineage` need no serialisation at all: they follow from the unique key of the
decisions and from an order (parents and baselines are older than what cites
them), for any number of servers, assuming that bodies do not repeat
(`OwnRunIds`; without it the run of a decision is rewritten). `BaselineNewest` is
about the store in memory, bodies may repeat: what still queues came after
whatever was recorded, so each run that is made or replaced is the newest, and
each retained run has a delivery that queued after those of all older ones.

**`ApprovalFlowProofs`.** `StoreInv`: unless calls have overlapped or one
stopped in a save, a file nobody has open is what was acknowledged, a writer
that truncated the file is alone, and what a writer has in hand is the
acknowledged records with its own change. It gives `ApprovalsKept` for any number
of commands. `SensitiveActions`, `ReadOnlySafe` and `ScorecardAgrees` hold for
every catalog, answer and package; they rest on lemmas about the states of a
run as the range of a concatenation, and `ReadOnlySafe` also on the invariant
that the server of a read-only deployment does nothing to the store.
`NothingUngrounded` says that every evidence id in a run, cited by its decision
or left in its explanation, is one of the package, and `ExplanationImmaterial`
that a run acts as it would on the bare decision; both follow from the fields of
`TriageRun` and need no invariant but that a run is one the workflow makes.
The quality gates are proved about there too. `AcceptedRunsActionable`: the gates
do not see the mode, but where the policy asks for an approval they ask for a
dry run, which the policy has taken out of a read-only answer; so what they
accept has really been filed. `GradersDiffer` says where gates and scorecard
disagree about evidence. Its first wording left no room for earlier incidents
beside guidance: the proof could not close that case, and there the code does
disagree (the response calls the pair no support and the gates refuse it, the
scorecard takes it in a class with low information), so the property names it
now and the run has answers for it.

**`WebhookReplayProofs`.** `ReplayInv` relates stages and claims to the
deliveries of the gate: a delivery of the gate is at work only if its request
was admitted, a claim is that of the last delivery admitted for its request, and
it expires no earlier than the signature turns stale (from `Ttl >= Tolerance`,
the default of `webhook.ts:425`), so a request that succeeded is refused as long
as it is fresh. From it follow `RequestsHandledOnce`, `EveryClaimHasAnOwner` and
the refinement `ReplayImplementsGate`: every step of the webhook is a step of
the gate or changes nothing in it. So the theorems of `EvidenceGateProofs` carry
over to admitted requests, as `ReplayVerdictCurrent` and `ReplayBaselineNewest`
show.

**`FailureReviewProofs`.** `ReviewInv` has four parts. The run and review files of
every run that a manifest lists are saved, of the manifest on file and of one
that a command has loaded and will save again; that needs no assumption on who
runs at a time and gives `ManifestsBacked`. A generator that is alone has in hand
the manifest on file and adds a run that is not listed, and a review is touched
by nobody before its run is listed, hence `ReviewsKept`. A command that is alone
on the corpus has in hand the taxonomy on file and an entry whose cases are on
file or still among those it will save (`Supported`), hence `TaxonomyBacked`.
Case files are named by what they hold. `HistoryKept` follows because then
entries and case files are only added (`CorpusGrows`) and a complete manifest is
not replaced (`ManifestSteps`). That the latest revision of a mode exists is a
lemma on bounded sets from well-founded induction (`LargestExists`).

**`OperatorConsoleProofs`.** For any number of runs, approvals, fetches and
presses. A load *has the say* about the panel if it is the latest one and a
selection or a decision started it (a lifecycle button's reload is neither).
`DetailFollowsSelection` is not inductive, since it says nothing of answers on
their way. `ConsoleInv` adds that the load that has the say, answered or not, is
about the selected run while the list is shown; that notices are put in a panel
only beside their approval, and "recorded" only by rendering; that what is said
to be recorded is on record; and that a load that has the say was answered after
that, so it shows the record as decided. The last part is the one that is easy to
miss: without it an old answer that says "pending" could be rendered beside
"recorded". From `ConsoleInv` follow `PanelFollowsSelection`, `NoticesFit` and
`PageWaits`; `WaitsForFetch` is one of its parts, inductive by itself.

**`EvidenceStreamProofs`.** For notifications of any length, any normalisation,
any log replies. The loops of the code (`multisetDifference`, the filters and
`unique`, the flattening of lists) are recursive functions over the positions of a
sequence. That such a function exists and has the values its equation says is
`LoopRuns`; what a loop keeps from one position to the next holds at its end
(`PositionInduction`, from a least counterexample, since an induction theorem
with an operator parameter cannot be used here). The argument has three layers.

* *The delta.* After each value, what remains of the baseline, what was taken
  from it and what was referred to make up what has been seen
  (`DifferenceStepTallied`). Hence each direction refers to an item exactly as
  often as it exceeds the other side, never twice with one number
  (`DifferenceCounts`), hence `DeltaExact`, and an empty delta means equal digests.
* *The stream.* `StreamInv` is `TypeOK`, `DecisionMade` (the last decision is one
  the gate may make of the package and the baseline it found) and `BaselineCoversLatest`, which a suppressed
  delivery keeps because a classifier is only asked when nothing operational was
  added (`SuppressedIsCovered`).
* *The packages.* A package is seven sequences of words, one per source, one after
  another; which words these are is a matter of sets (`ListsOfAlerts`), and what
  is missing is the sources without words (`PackageEvidence`). `FiringAlertsKept`
  composes that with `BaselineCoversLatest`. For `LostLogsImmaterial`, equal counts
  outside the logs make the same sources empty, so no context but the logs has
  arrived or gone. For `AlertOrder`, a reordering of the alerts reorders the words
  of each source (`unique` keeps each value once, wherever it stands first), and
  so the evidence; counts do not see it.

The assumptions are those of the code: labels and lines are words and a
notification has the shape `normalizeGrafanaPayload` reads (`StreamAssumption`),
`deploys.json` has a list for each service, normalising a text does not change
its source, and the source decides the tier (`SourceAssumption`: `canonicalEvidence`
copies the source type, and the builders of `evidence.ts` give each source one
tier). TLC evaluates all of them on the instance. The attempt to prove
`AlertOrderImmaterial` corrected it: two sequences of one length with the same
set of values need not have the same values equally often, and an equal incident
id does not help where the service is found first in another alert. It now asks
for a reordering of the alerts and for the same service.

**Only model-checked.** `EveryCallEnds` (liveness). Every other property of a
passing run is stated by a theorem; those that a theorem states under an
assumption (one server, one backend, nothing expires, distinct bodies) are
checked by their runs on an instance of that assumption.
`TailIsNewestUnfinished` and the type invariants of six modules are proved and
have no run.

## 5. What is not modelled

* The comparison of signatures and tokens and the prohibited fields of a delivery, prompts, the model process
  and its JSON, claims that span two texts of an explanation, redaction, response bodies, pages and command line options:
  conversions of data without state. Outside `EvidenceStream` a package is an
  input.
* In `EvidenceStream` a package's text is a source and a word: alerts, symptoms,
  deploys, logs, owners, runbooks and verification signals; sizes and formats
  are left out.
* Text is a value and a digest identifies it. That `localeCompare` may call two
  different texts equal, so that their order is not canonical, is not modelled.
* The verification endpoint asks for a retained run of the incident; the model
  lets a verification be recorded at any time. An idempotency key that a client
  chooses so as to be equal to a derived one (`verification:<key>`,
  `<key>:exhausted`) is left out.
* Postgres transactions are atomic steps; the sweep deletes from its tables in
  one step. Records of all kinds live equally long, as they do by default.
* `recovery-budget.ts` has no caller in `src/`, and no path emits
  `reentry_recorded` (which is what `FindingResolvedStays` is about).
* `approval-console.ts` (a list with two buttons per record, over the routes of
  `ApprovalFlow`), markup and texts of the review console, command line
  clients, fixtures, the evaluation harness, judges of texts and demos: they
  keep no state, or run the parts above with prepared data.
* In `FailureReview`: other batches than one, running the cases, summaries. An
  outcome is data; that a credential key occurs in it is a constant.

Hazards of the code that no property covers: the retention sweep does not take
the advisory lock of a budget (`postgres.ts:310`); a lifecycle read takes four
tables in four statements outside a transaction (`postgres.ts:275`); logs are
queried before a delivery queues up, so older evidence may come behind newer
evidence (`webhook.ts:118`); the resolved path writes outside the coordinator
(`webhook.ts:86`); a run is stored before its approval is filed
(`webhook.ts:154`); an approval id is shared by all triages of an incident
(`approval-store.ts:42`); an alert that fires again with the same evidence after
its incident was resolved is suppressed (`webhook.ts:296`). The first three need
store calls split into statements, the others a document that says what should
happen.

## 6. Plan

In this order:

1. Gate, ledger and retention together: a lifecycle read takes runs,
   verifications and recovery events in separate store calls, and a sweep or a
   commit may fall between them; the resolved path beside the coordinator.
2. The gate with the delta: `Material` of the instance of `EvidenceGate` taken
   from `EvidenceDelta`, so that what the gate suppresses is judged against the
   evidence itself.
3. A run with its approval: `ApprovalFlow` behind `WebhookReplay`.
4. Proofs: `AttemptsCounted` with expiry; the theorems of the gate for a store in
   memory that is restarted; refinement theorems for the compositions above.
