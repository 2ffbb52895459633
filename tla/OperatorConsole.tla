--------------------------- MODULE OperatorConsole ---------------------------
(***************************************************************************)
(* The operator's page of run-review-console.ts over the API of              *)
(* server/run-review.ts: a list of runs, the review of one of them with its   *)
(* approval, and the buttons that run a demo scenario, decide an approval,    *)
(* verify or correct a run.                                                  *)
(*                                                                          *)
(* A handler runs to its next `await fetch`, so several may be under way.  A   *)
(* fetch takes a slot: the server answers it from its state at that moment,   *)
(* the answer is delivered to the page later, in any order, or the fetch      *)
(* fails.  Tokens only decide whether the server refuses, which it may always *)
(* do here; a verification button may be pressed again before its answer.     *)
(***************************************************************************)
EXTENDS Naturals, Sequences, SequencesExt

CONSTANTS Runs, Approvals,
          ApprovalOf,  \* the approval a run is linked to, or None
          ListLimit,   \* runs in a list (50 in the page)
          Slots,       \* fetches under way at a time
          MaxPresses,  \* bound on what the operator presses
          None

ASSUME ConsoleAssumption ==
  /\ ApprovalOf \in [Runs -> Approvals \cup {None}]
  /\ ListLimit \in Nat \ {0}
  /\ MaxPresses \in Nat
  /\ None \notin Runs \cup Approvals \cup Slots

VARIABLES stored,   \* the retained runs, newest first
          record,   \* the status of each approval
          page,     \* what the script keeps and the document shows
          fetches,  \* the fetch in each slot
          presses,  \* how often the operator pressed anything
          lost      \* a fetch failed

vars == <<stored, record, page, fetches, presses, lost>>

Status == {"none", "pending", "decided"}

Feedback == [approval : Approvals, kind : {"info", "error", "success"}]

\* The review panel.  `rendered` is the feedback it was rendered with, `inPlace`
\* what was put on top of it since.  Two fields are not in the code: `newest`, no
\* later load or rendering has been started, and `reload`, a lifecycle button
\* loaded the review again.
Detail == [kind : {"empty", "loading", "error", "review"},
           run : Runs \cup {None},
           status : Status,
           rendered : Feedback \cup {None},
           inPlace : Feedback \cup {None},
           newest : BOOLEAN,
           reload : BOOLEAN]

Page == [runs : Seq(Runs),
         list : {"rows", "loading", "message"},
         selected : Runs \cup {None},
         feedback : Feedback \cup {None},
         detail : Detail,
         demo : {"hidden", "ready", "running"}]

Answer == [ok : BOOLEAN, runs : Seq(Runs), run : Runs \cup {None}, status : Status]

Fetch == [what : {"scenarios", "runs", "review", "demo", "decision", "lifecycle"},
          run : Runs \cup {None},
          approval : Approvals \cup {None},
          newest : BOOLEAN,
          reload : BOOLEAN,
          answer : Answer \cup {None}]

ASSUME NoneIsNoMessage == None \notin Feedback \cup Fetch \cup Answer

TypeOK ==
  /\ stored \in Seq(Runs)
  /\ record \in [Approvals -> {"pending", "decided"}]
  /\ page \in Page
  /\ fetches \in [Slots -> Fetch \cup {None}]
  /\ presses \in 0..MaxPresses
  /\ lost \in BOOLEAN

Blank == [kind |-> "empty", run |-> None, status |-> "none", rendered |-> None,
          inPlace |-> None, newest |-> TRUE, reload |-> FALSE]

Fetching(what, run, approval) ==
  [what |-> what, run |-> run, approval |-> approval, newest |-> what = "review",
   reload |-> FALSE, answer |-> None]

\* loadDemoScenarios is called when the page has been loaded; approvals have been
\* requested.
Init ==
  /\ stored = <<>>
  /\ record = [a \in Approvals |-> "pending"]
  /\ page = [runs |-> <<>>, list |-> "message", selected |-> None, feedback |-> None,
             detail |-> Blank, demo |-> "hidden"]
  /\ \E q \in Slots : fetches = [s \in Slots |-> IF s = q THEN Fetching("scenarios", None, None)
                                               ELSE None]
  /\ presses = 0
  /\ lost = FALSE

-----------------------------------------------------------------------------
\* What the handlers do up to their next fetch or to their end.

\* A fetch in slot q; a load of a review supersedes the loads before it.
Issue(q, fetch) ==
  fetches' = [s \in Slots |->
                IF s = q THEN fetch
                ELSE IF fetches[s] # None /\ fetch # None /\ fetch.newest
                     THEN [fetches[s] EXCEPT !.newest = FALSE]
                     ELSE fetches[s]]

\* loadRuns
LoadRuns(q, shown) ==
  /\ page' = [shown EXCEPT !.list = "loading"]
  /\ Issue(q, Fetching("runs", None, None))

\* loadReview
LoadReview(q, run, shown) ==
  /\ page' = [shown EXCEPT !.detail = [Blank EXCEPT !.kind = "loading", !.run = run]]
  /\ Issue(q, Fetching("review", run, None))

\* renderReviewEmpty: whatever is on its way is older.
RenderReviewEmpty(q, shown) ==
  /\ page' = [shown EXCEPT !.detail = Blank]
  /\ fetches' = [s \in Slots |-> IF s = q \/ fetches[s] = None THEN None
                                ELSE [fetches[s] EXCEPT !.newest = FALSE]]

\* renderApprovalFeedback: only feedback about another approval is left out.
RenderApprovalFeedback(feedback, approval) ==
  IF feedback # None /\ (approval = None \/ approval = feedback.approval)
  THEN feedback ELSE None

\* renderApprovalFeedbackInPlace needs a panel, of whatever run.
InPlace(shown, feedback) ==
  [shown EXCEPT !.feedback = feedback,
                !.detail.inPlace = IF shown.detail.kind = "review" THEN feedback ELSE @]

Free(q) == fetches[q] = None

-----------------------------------------------------------------------------
\* The operator presses a button.  BOUND: MaxPresses
Pressed ==
  /\ presses < MaxPresses
  /\ presses' = presses + 1
  /\ UNCHANGED lost

Press(q) == Pressed /\ Free(q)

\* Load, Refresh
PressLoad(q) ==
  /\ Press(q)
  /\ LoadRuns(q, page)
  /\ UNCHANGED <<stored, record>>

PressClear ==
  /\ Pressed
  /\ RenderReviewEmpty(None, [page EXCEPT !.runs = <<>>, !.list = "rows", !.selected = None,
                                          !.feedback = None])
  /\ UNCHANGED <<stored, record>>

ClickRow(q, r) ==
  /\ Press(q)
  /\ page.list = "rows"
  /\ r \in ToSet(page.runs)
  /\ LoadReview(q, r, [page EXCEPT !.selected = r, !.feedback = None])
  /\ UNCHANGED <<stored, record>>

\* The parent of a run or a child that the decisions about it name.
FollowRunLink(q, r) ==
  /\ Press(q)
  /\ page.detail.kind = "review"
  /\ r # page.detail.run
  /\ LoadReview(q, r, [page EXCEPT !.selected = r, !.list = "rows"])
  /\ UNCHANGED <<stored, record>>

RunDemoScenario(q) ==
  /\ Press(q)
  /\ page.demo = "ready"
  /\ page' = [page EXCEPT !.demo = "running"]
  /\ Issue(q, Fetching("demo", None, None))
  /\ UNCHANGED <<stored, record>>

\* The buttons of an approval are enabled while its record is shown as pending.
DecideApprovalAction(q) ==
  /\ Press(q)
  /\ page.detail.kind = "review"
  /\ page.detail.status = "pending"
  /\ LET a == ApprovalOf[page.detail.run]
     IN  /\ page' = InPlace(page, [approval |-> a, kind |-> "info"])
         /\ Issue(q, Fetching("decision", None, a))
  /\ UNCHANGED <<stored, record>>

\* Verification, feedback and reset of a budget
PostLifecycle(q) ==
  /\ Press(q)
  /\ page.detail.kind = "review"
  /\ Issue(q, Fetching("lifecycle", page.detail.run, None))
  /\ UNCHANGED <<stored, record, page>>

-----------------------------------------------------------------------------
Refused == [ok |-> FALSE, runs |-> <<>>, run |-> None, status |-> "none"]

Done == [Refused EXCEPT !.ok = TRUE]

\* runListToResponse
RunList ==
  [Done EXCEPT !.runs = SubSeq(stored, 1, IF Len(stored) < ListLimit THEN Len(stored)
                                          ELSE ListLimit)]

\* resolveRunApproval
ReviewOf(r) ==
  [Done EXCEPT !.run = r,
               !.status = IF ApprovalOf[r] = None THEN "none" ELSE record[ApprovalOf[r]]]

\* The server answers a fetch that reads, ...
ServeRead(q) ==
  /\ ~Free(q)
  /\ fetches[q].answer = None
  /\ LET f == fetches[q]
         answer == CASE f.what \in {"scenarios", "lifecycle"} -> Done
                     [] f.what = "runs" -> RunList
                     [] f.what = "review" /\ f.run \in ToSet(stored) -> ReviewOf(f.run)
                     [] OTHER -> Refused
     IN  /\ f.what \notin {"demo", "decision"}
         /\ fetches' = [fetches EXCEPT ![q].answer = answer]
  /\ UNCHANGED <<stored, record, page, presses, lost>>

\* ... runs a scenario, which stores a run, ...
ServeDemo(q, r) ==
  /\ ~Free(q)
  /\ fetches[q].answer = None
  /\ fetches[q].what = "demo"
  /\ r \notin ToSet(stored)
  /\ stored' = <<r>> \o stored
  /\ fetches' = [fetches EXCEPT ![q].answer = [Done EXCEPT !.run = r]]
  /\ UNCHANGED <<record, page, presses, lost>>

\* ... puts a decision on file, also when there is one already, ...
ServeDecision(q) ==
  /\ ~Free(q)
  /\ fetches[q].answer = None
  /\ fetches[q].what = "decision"
  /\ record' = [record EXCEPT ![fetches[q].approval] = "decided"]
  /\ fetches' = [fetches EXCEPT ![q].answer = Done]
  /\ UNCHANGED <<stored, page, presses, lost>>

\* ... or refuses, for want of a token or because it cannot do what is asked.
ServeRefused(q) ==
  /\ ~Free(q)
  /\ fetches[q].answer = None
  /\ fetches' = [fetches EXCEPT ![q].answer = Refused]
  /\ UNCHANGED <<stored, record, page, presses, lost>>

\* fetch rejects: the handler ends where it is.
Lose(q) ==
  /\ ~Free(q)
  /\ fetches' = [fetches EXCEPT ![q] = None]
  /\ lost' = TRUE
  /\ UNCHANGED <<stored, record, page, presses>>

-----------------------------------------------------------------------------
\* The answer in slot q arrives, and its handler goes on.
Arrived(q, what) == ~Free(q) /\ fetches[q].what = what /\ fetches[q].answer # None

End(q) == Issue(q, None)

\* loadDemoScenarios shows the button, and loads the runs if no token was typed.
DeliverScenarios(q, typed) ==
  /\ Arrived(q, "scenarios")
  /\ LET shown == [page EXCEPT !.demo = IF fetches[q].answer.ok THEN "ready" ELSE "hidden"]
     IN  IF fetches[q].answer.ok /\ ~typed THEN LoadRuns(q, shown)
         ELSE page' = shown /\ End(q)
  /\ UNCHANGED <<stored, record, presses, lost>>

\* The selected run stays selected while it is listed.
Selection(runs) ==
  IF page.selected \in ToSet(runs) THEN page.selected
  ELSE IF runs = <<>> THEN None ELSE Head(runs)

\* Faulty variant of DeliverRuns: the review is loaded only for a new selection.
DeliverRunsOnce(q) ==
  /\ Arrived(q, "runs")
  /\ LET answer == fetches[q].answer
         selected == Selection(answer.runs)
         shown == [page EXCEPT !.runs = answer.runs, !.list = "rows", !.selected = selected]
     IN  CASE ~answer.ok -> page' = [page EXCEPT !.list = "message"] /\ End(q)
           [] answer.ok /\ selected = None -> RenderReviewEmpty(q, shown)
           [] answer.ok /\ selected = page.selected -> page' = shown /\ End(q)
           [] OTHER -> LoadReview(q, selected, shown)
  /\ UNCHANGED <<stored, record, presses, lost>>

DeliverRuns(q) ==
  /\ Arrived(q, "runs")
  /\ LET answer == fetches[q].answer
         selected == Selection(answer.runs)
         shown == [page EXCEPT !.runs = answer.runs, !.list = "rows", !.selected = selected]
     IN  CASE ~answer.ok -> page' = [page EXCEPT !.list = "message"] /\ End(q)
           [] answer.ok /\ selected = None -> RenderReviewEmpty(q, shown)
           [] OTHER -> LoadReview(q, selected, shown)
  /\ UNCHANGED <<stored, record, presses, lost>>

\* renderReview, whatever is selected by now
DeliverReview(q) ==
  /\ Arrived(q, "review")
  /\ LET f == fetches[q]
         shown == [Blank EXCEPT !.run = f.run, !.newest = f.newest, !.reload = f.reload]
     IN  page' = [page EXCEPT !.detail =
                    IF ~f.answer.ok THEN [shown EXCEPT !.kind = "error"]
                    ELSE [shown EXCEPT !.kind = "review", !.status = f.answer.status,
                            !.rendered = RenderApprovalFeedback(page.feedback,
                                                                ApprovalOf[f.run])]]
  /\ End(q)
  /\ UNCHANGED <<stored, record, presses, lost>>

\* Faulty variant of DeliverDemo: after a failure the button stays disabled.
DeliverDemoStuck(q) ==
  /\ Arrived(q, "demo")
  /\ IF fetches[q].answer.ok
     THEN LoadRuns(q, [page EXCEPT !.demo = "ready", !.selected = fetches[q].answer.run])
     ELSE page' = page /\ End(q)
  /\ UNCHANGED <<stored, record, presses, lost>>

\* runDemoScenario selects its run and loads the list.
DeliverDemo(q) ==
  /\ Arrived(q, "demo")
  /\ IF fetches[q].answer.ok
     THEN LoadRuns(q, [page EXCEPT !.demo = "ready", !.selected = fetches[q].answer.run])
     ELSE page' = [page EXCEPT !.demo = "ready"] /\ End(q)
  /\ UNCHANGED <<stored, record, presses, lost>>

\* Faulty variant of DeliverDecision: a success is reported like an error.
DeliverDecisionInPlace(q) ==
  /\ Arrived(q, "decision")
  /\ page' = InPlace(page, [approval |-> fetches[q].approval,
                            kind |-> IF fetches[q].answer.ok THEN "success" ELSE "error"])
  /\ End(q)
  /\ UNCHANGED <<stored, record, presses, lost>>

\* A failed decision is reported in the panel on display; after a successful one
\* the selected run is loaded again.
DeliverDecision(q) ==
  /\ Arrived(q, "decision")
  /\ LET feedback(kind) == [approval |-> fetches[q].approval, kind |-> kind]
         shown == [page EXCEPT !.feedback = feedback("success")]
     IN  CASE ~fetches[q].answer.ok -> page' = InPlace(page, feedback("error")) /\ End(q)
           [] fetches[q].answer.ok /\ page.selected = None -> page' = shown /\ End(q)
           [] OTHER -> LoadReview(q, page.selected, shown)
  /\ UNCHANGED <<stored, record, presses, lost>>

\* After a lifecycle change the run it was about is loaded again.
DeliverLifecycle(q) ==
  /\ Arrived(q, "lifecycle")
  /\ LET run == fetches[q].run
     IN  IF fetches[q].answer.ok
         THEN /\ page' = [page EXCEPT !.detail = [Blank EXCEPT !.kind = "loading", !.run = run,
                                                               !.reload = TRUE]]
              /\ Issue(q, [Fetching("review", run, None) EXCEPT !.reload = TRUE])
         ELSE page' = page /\ End(q)
  /\ UNCHANGED <<stored, record, presses, lost>>

-----------------------------------------------------------------------------
\* Meanwhile runs are stored and expire, and approvals are decided.
StoreRun(r) ==
  /\ r \notin ToSet(stored)
  /\ stored' = <<r>> \o stored
  /\ UNCHANGED <<record, page, fetches, presses, lost>>

ExpireRun ==
  /\ \E i \in DOMAIN stored : stored' = RemoveAt(stored, i)
  /\ UNCHANGED <<record, page, fetches, presses, lost>>

\* The other console, or the command
DecideElsewhere(a) ==
  /\ Pressed
  /\ record' = [record EXCEPT ![a] = "decided"]
  /\ UNCHANGED <<stored, page, fetches>>

Operator(q) ==
  \/ PressLoad(q) \/ RunDemoScenario(q) \/ DecideApprovalAction(q) \/ PostLifecycle(q)
  \/ \E r \in Runs : ClickRow(q, r) \/ FollowRunLink(q, r)

Serve(q) ==
  \/ ServeRead(q) \/ ServeDecision(q) \/ ServeRefused(q)
  \/ \E r \in Runs : ServeDemo(q, r)

Deliver(q) ==
  \/ \E typed \in BOOLEAN : DeliverScenarios(q, typed)
  \/ DeliverRuns(q) \/ DeliverReview(q) \/ DeliverDemo(q)
  \/ DeliverDecision(q) \/ DeliverLifecycle(q)

Elsewhere ==
  \/ ExpireRun
  \/ \E r \in Runs : StoreRun(r)
  \/ \E a \in Approvals : DecideElsewhere(a)

Next ==
  \/ PressClear
  \/ \E q \in Slots : Operator(q) \/ Serve(q) \/ Deliver(q) \/ Lose(q)
  \/ Elsewhere

Spec == Init /\ [][Next]_vars

-----------------------------------------------------------------------------
\* The panel comes from the latest load, which selecting a run or deciding an
\* approval started, and no list is on its way or has failed.
UpToDate == page.list = "rows" /\ page.detail.newest /\ ~page.detail.reload

\* The page shows the review of the selected run, and no review when no run is
\* selected, in whatever order answers arrive, runs appear and expire and buttons
\* are pressed (loadRuns, loadReview, runDemoScenario, the rows and links).  The
\* exceptions are the ones the code has: the answer to an older load arrived last,
\* a lifecycle button reloaded its run after another one was selected, or the
\* list could not be loaded.
DetailFollowsSelection == UpToDate => page.detail.run = page.selected

\* What is said about a decision is said beside its approval: "in progress" and
\* "recorded" never appear in the panel of another one, and beside "recorded" the
\* record is shown as decided, with the same exceptions (decideApprovalAction,
\* renderApprovalFeedback).  A failure is reported in the panel on display, and a
\* run without approval shows whatever there is.
NoticesFitPanel ==
  LET approval == ApprovalOf[page.detail.run]
      notices == {page.detail.rendered, page.detail.inPlace} \ {None}
  IN  page.detail.kind = "review" /\ approval # None =>
        \A n \in notices :
          /\ n.kind # "error" => n.approval = approval
          /\ n.kind = "success" /\ UpToDate => page.detail.status = "decided"

\* As long as no fetch fails, nothing waits in vain: while the page shows that a
\* review or the list is loading, or keeps the scenario button disabled, a fetch
\* that will change that is under way, although the server may refuse everything
\* (loadReview, loadRuns, runDemoScenario).
WaitsForFetch ==
  LET UnderWay(what) == \E q \in Slots : ~Free(q) /\ fetches[q].what = what
  IN  ~lost =>
        /\ page.detail.kind = "loading" => UnderWay("review")
        /\ page.list = "loading" => UnderWay("runs")
        /\ page.demo = "running" => UnderWay("demo")
=============================================================================
