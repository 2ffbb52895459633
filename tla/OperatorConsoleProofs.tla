----------------------- MODULE OperatorConsoleProofs -----------------------
(***************************************************************************)
(* Theorems about OperatorConsole, for any runs and approvals, any number   *)
(* of fetches under way, any length of the list and any number of presses.  *)
(***************************************************************************)
EXTENDS OperatorConsole, SequenceTheorems, TLAPS

\* What a fetch carries: a review and a lifecycle button have a run, a decision
\* has an approval, and the answers say what they are asked for.
FetchInHand(f) ==
  /\ f.what \in {"review", "lifecycle"} => f.run \in Runs
  /\ f.what = "decision" => f.approval \in Approvals
  /\ f.newest => f.what = "review"
  /\ f.answer # None /\ f.answer.ok =>
       /\ f.what = "demo" => f.answer.run \in Runs
       /\ f.what = "review" /\ f.answer.status = "pending" => ApprovalOf[f.run] # None

\* A panel other than the empty one is about a run, and only a run with an approval
\* has the buttons of an approval.
PanelInHand(d) ==
  /\ d.kind # "empty" => d.run \in Runs
  /\ d.kind = "review" /\ d.status = "pending" => ApprovalOf[d.run] # None

Types ==
  /\ TypeOK
  /\ PanelInHand(page.detail)
  /\ \A q \in Slots : fetches[q] # None => FetchInHand(fetches[q])

-----------------------------------------------------------------------------
\* The load that has the say about the panel: the latest one, if selecting a run or
\* deciding an approval started it.
Governs(load) == load.newest /\ ~load.reload

\* While the list is shown, the panel and the load on its way that have the say are
\* about the selected run.
SelectionInv ==
  page.list = "rows" =>
    /\ Governs(page.detail) => page.detail.run = page.selected
    /\ \A q \in Slots : fetches[q] # None /\ Governs(fetches[q]) =>
         fetches[q].run = page.selected

\* "In progress" and "recorded" are only ever put beside their own approval, and
\* "recorded" by a rendering, not in place.
NoticesInv ==
  page.detail.kind = "review" /\ ApprovalOf[page.detail.run] # None =>
    /\ page.detail.rendered # None => page.detail.rendered.approval = ApprovalOf[page.detail.run]
    /\ page.detail.inPlace # None =>
         /\ page.detail.inPlace.kind # "success"
         /\ page.detail.inPlace.kind # "error" =>
              page.detail.inPlace.approval = ApprovalOf[page.detail.run]

\* What is said to be recorded is on record ...
Recorded(feedback) ==
  feedback # None /\ feedback.kind = "success" => record[feedback.approval] = "decided"

RecordedInv ==
  /\ Recorded(page.feedback)
  /\ \A q \in Slots :
       fetches[q] # None /\ fetches[q].what = "decision"
         /\ fetches[q].answer # None /\ fetches[q].answer.ok
         => record[fetches[q].approval] = "decided"

\* ... and the load that has the say, if it is answered, was answered after that.
SaidDecided(feedback, run) ==
  /\ feedback # None /\ feedback.kind = "success"
  /\ ApprovalOf[run] # None /\ feedback.approval = ApprovalOf[run]

AnsweredLaterInv ==
  page.list = "rows" =>
    /\ \A q \in Slots :
         LET f == fetches[q]
         IN  /\ f # None /\ f.what = "review" /\ Governs(f)
             /\ f.answer # None /\ f.answer.ok /\ SaidDecided(page.feedback, f.run)
             => f.answer.status = "decided"
    /\ LET d == page.detail
       IN  d.kind = "review" /\ Governs(d) /\ SaidDecided(d.rendered, d.run)
             => d.status = "decided"

ConsoleInv ==
  Types /\ WaitsForFetch /\ SelectionInv /\ NoticesInv /\ RecordedInv /\ AnsweredLaterInv

-----------------------------------------------------------------------------
(***************************************************************************)
(* The slots.                                                               *)
(***************************************************************************)

\* The fetch g is f, which later loads may have superseded.
SameFetch(g, f) ==
  /\ g.what = f.what /\ g.run = f.run /\ g.approval = f.approval
  /\ g.reload = f.reload /\ g.answer = f.answer
  /\ g.newest => f.newest

OthersKept(q) ==
  \A s \in Slots \ {q} :
    IF fetches[s] = None THEN fetches'[s] = None
    ELSE fetches'[s] \in Fetch /\ SameFetch(fetches'[s], fetches[s])

OthersSuperseded(q) ==
  \A s \in Slots \ {q} : fetches'[s] # None => ~fetches'[s].newest

LEMMA IssueFacts ==
  ASSUME TypeOK, NEW q \in Slots, NEW f \in Fetch \cup {None}, Issue(q, f)
  PROVE  /\ fetches' \in [Slots -> Fetch \cup {None}]
         /\ fetches'[q] = f
         /\ OthersKept(q)
         /\ f # None /\ f.newest => OthersSuperseded(q)
<1>1. fetches'[q] = f
  BY DEF Issue
<1>2. ASSUME NEW s \in Slots \ {q}, fetches[s] = None PROVE fetches'[s] = None
  BY <1>2 DEF Issue
<1>3. ASSUME NEW s \in Slots \ {q}, fetches[s] # None
      PROVE  /\ fetches'[s] \in Fetch /\ SameFetch(fetches'[s], fetches[s])
             /\ f # None /\ f.newest => ~fetches'[s].newest
  <2>1. fetches[s] \in Fetch
    BY <1>3 DEF TypeOK
  <2>2. CASE f # None /\ f.newest
    <3>1. fetches'[s] = [fetches[s] EXCEPT !.newest = FALSE]
      BY <1>3, <2>2 DEF Issue
    <3> QED BY <2>1, <3>1 DEF Fetch, SameFetch
  <2>3. CASE ~(f # None /\ f.newest)
    <3>1. fetches'[s] = fetches[s]
      BY <1>3, <2>3 DEF Issue
    <3> QED BY <2>1, <2>3, <3>1 DEF SameFetch
  <2> QED BY <2>2, <2>3
<1>4. OthersKept(q)
  BY <1>2, <1>3 DEF OthersKept
<1>5. f # None /\ f.newest => OthersSuperseded(q)
  <2> SUFFICES ASSUME f # None /\ f.newest, NEW s \in Slots \ {q}, fetches'[s] # None
               PROVE  ~fetches'[s].newest
    BY DEF OthersSuperseded
  <2>1. fetches[s] # None
    BY <1>2
  <2> QED BY <1>3, <2>1
<1>6. fetches' \in [Slots -> Fetch \cup {None}]
  <2>1. ASSUME NEW s \in Slots PROVE fetches'[s] \in Fetch \cup {None}
    BY <1>1, <1>2, <1>3
  <2> QED BY <2>1 DEF Issue
<1> QED BY <1>1, <1>4, <1>5, <1>6

\* A fetch that has just been issued.
LEMMA NewFetch ==
  ASSUME NEW what \in {"scenarios", "runs", "review", "demo", "decision", "lifecycle"},
         NEW run \in Runs \cup {None}, NEW approval \in Approvals \cup {None},
         NEW f, f = Fetching(what, run, approval)
  PROVE  /\ f \in Fetch /\ f # None
         /\ f.what = what /\ f.run = run /\ f.approval = approval /\ f.answer = None
         /\ f.newest <=> what = "review"
         /\ ~f.reload
<1>1. f \in Fetch
  BY DEF Fetching, Fetch
<1> QED BY <1>1, NoneIsNoMessage DEF Fetching

\* What the invariants say of a fetch holds of it when it has been superseded.
LEMMA SameInHand ==
  ASSUME NEW f, NEW g, SameFetch(g, f), FetchInHand(f)
  PROVE  FetchInHand(g)
BY DEF SameFetch, FetchInHand

LEMMA KeptInHand ==
  ASSUME Types, NEW q, OthersKept(q), NEW s \in Slots \ {q}, fetches'[s] # None
  PROVE  fetches[s] # None /\ FetchInHand(fetches'[s]) /\ SameFetch(fetches'[s], fetches[s])
BY SameInHand DEF Types, OthersKept

\* A fetch other than that in q waits in its slot.
UnderWayBeside(q, what) == \E s \in Slots \ {q} : fetches[s] # None /\ fetches[s].what = what

LEMMA StillUnderWay ==
  ASSUME NEW q, OthersKept(q), NEW what, UnderWayBeside(q, what), NoneIsNoMessage
  PROVE  \E s \in Slots : ~Free(s)' /\ fetches'[s].what = what
<1>1. PICK s \in Slots \ {q} : fetches[s] # None /\ fetches[s].what = what
  BY DEF UnderWayBeside
<1>2. fetches'[s] # None /\ fetches'[s].what = what
  BY <1>1, NoneIsNoMessage DEF OthersKept, SameFetch
<1> QED BY <1>2 DEF Free

\* What the page waits for is beside the fetch in q, or is the one put there.
WillArrive(q, f, what) == UnderWayBeside(q, what) \/ (f # None /\ f.what = what)

WaitsAfter(q, f) ==
  ~lost =>
    /\ page'.detail.kind = "loading" => WillArrive(q, f, "review")
    /\ page'.list = "loading" => WillArrive(q, f, "runs")
    /\ page'.demo = "running" => WillArrive(q, f, "demo")

LEMMA WaitsKept ==
  ASSUME NEW q, NEW f, OthersKept(q), f # None => q \in Slots /\ fetches'[q] = f,
         lost' = lost, WaitsAfter(q, f)
  PROVE  WaitsForFetch'
<1>1. ASSUME NEW what, WillArrive(q, f, what)
      PROVE  \E s \in Slots : ~Free(s)' /\ fetches'[s].what = what
  <2>1. CASE UnderWayBeside(q, what)
    BY <2>1, StillUnderWay, NoneIsNoMessage
  <2>2. CASE f # None /\ f.what = what
    BY <2>2 DEF Free
  <2> QED BY <1>1, <2>1, <2>2 DEF WillArrive
<1> QED BY <1>1 DEF WaitsForFetch, WaitsAfter

\* A fetch that is not what the page waits for may end.
LEMMA WaitsBeside ==
  ASSUME WaitsForFetch, ~lost, NEW q
  PROVE  LET Other(what) == q \notin Slots \/ Free(q) \/ fetches[q].what # what
         IN  /\ page.detail.kind = "loading" /\ Other("review") => UnderWayBeside(q, "review")
             /\ page.list = "loading" /\ Other("runs") => UnderWayBeside(q, "runs")
             /\ page.demo = "running" /\ Other("demo") => UnderWayBeside(q, "demo")
BY DEF WaitsForFetch, UnderWayBeside, Free

-----------------------------------------------------------------------------
(***************************************************************************)
(* How a handler leaves the page: it loads a review, it empties the panel,  *)
(* or it keeps the panel, perhaps with a notice on top.                     *)
(***************************************************************************)

\* A review of the run is on its way and has the say, unless a lifecycle button
\* asked for it.
ReviewFetch(f, run) ==
  /\ f \in Fetch /\ f # None
  /\ f.what = "review" /\ f.run = run /\ f.newest /\ f.answer = None

LoadingPanel(d, f) ==
  /\ d \in Detail
  /\ d.kind = "loading" /\ d.run = f.run /\ d.newest
  /\ d.reload <=> f.reload

LEMMA LoadKeeps ==
  ASSUME ConsoleInv, NEW q \in Slots, NEW run \in Runs, NEW shown \in Page,
         NEW f, ReviewFetch(f, run), Issue(q, f),
         NEW d, LoadingPanel(d, f), page' = [shown EXCEPT !.detail = d],
         ~f.reload => shown.selected = run,
         Recorded(shown.feedback),
         ~lost => /\ shown.list = "loading" => UnderWayBeside(q, "runs")
                  /\ shown.demo = "running" => UnderWayBeside(q, "demo"),
         UNCHANGED <<stored, record, lost>>, presses' \in 0..MaxPresses
  PROVE  ConsoleInv'
<1>1. /\ f \in Fetch /\ f # None /\ f.what = "review" /\ f.run = run /\ f.newest
      /\ f.answer = None
  BY DEF ReviewFetch
<1>2. /\ d \in Detail /\ PanelInHand(d)
      /\ d.kind = "loading" /\ d.run = run /\ d.newest /\ (d.reload <=> f.reload)
  BY <1>1 DEF LoadingPanel, PanelInHand
<1>3. /\ page' \in Page /\ page'.detail = d /\ page'.list = shown.list
      /\ page'.selected = shown.selected /\ page'.feedback = shown.feedback
      /\ page'.demo = shown.demo
  BY <1>2 DEF Page
<1>4. /\ fetches' \in [Slots -> Fetch \cup {None}] /\ fetches'[q] = f
      /\ OthersKept(q) /\ OthersSuperseded(q)
  BY <1>1, IssueFacts DEF ConsoleInv, Types
<1>5. \A s \in Slots \ {q} : fetches'[s] # None =>
        /\ fetches[s] # None /\ FetchInHand(fetches'[s])
        /\ SameFetch(fetches'[s], fetches[s]) /\ ~fetches'[s].newest
  BY <1>4, KeptInHand DEF ConsoleInv, OthersSuperseded
<1>6. Types'
  BY <1>1, <1>2, <1>3, <1>4, <1>5 DEF ConsoleInv, Types, TypeOK, FetchInHand
<1>7. WaitsForFetch'
  <2>1. WaitsAfter(q, f)
    BY <1>1, <1>3 DEF WaitsAfter, WillArrive
  <2> QED BY <1>4, <2>1, WaitsKept
<1>8. SelectionInv'
  BY <1>1, <1>2, <1>3, <1>4, <1>5 DEF SelectionInv, Governs
<1>9. NoticesInv'
  BY <1>2, <1>3 DEF NoticesInv
<1>10. RecordedInv'
  <2>1. Recorded(page.feedback)'
    BY <1>3 DEF Recorded
  <2>2. ASSUME NEW s \in Slots, fetches'[s] # None, fetches'[s].what = "decision",
               fetches'[s].answer # None, fetches'[s].answer.ok
        PROVE  record'[fetches'[s].approval] = "decided"
    BY <1>1, <1>4, <1>5, <2>2 DEF ConsoleInv, RecordedInv, SameFetch
  <2> QED BY <2>1, <2>2 DEF RecordedInv
<1>11. AnsweredLaterInv'
  BY <1>1, <1>2, <1>3, <1>4, <1>5 DEF AnsweredLaterInv, Governs
<1> QED BY <1>6, <1>7, <1>8, <1>9, <1>10, <1>11 DEF ConsoleInv

LEMMA LoadReviewKeeps ==
  ASSUME ConsoleInv, NEW q \in Slots, NEW run \in Runs, NEW shown \in Page,
         LoadReview(q, run, shown), shown.selected = run,
         Recorded(shown.feedback),
         ~lost => /\ shown.list = "loading" => UnderWayBeside(q, "runs")
                  /\ shown.demo = "running" => UnderWayBeside(q, "demo"),
         UNCHANGED <<stored, record, lost>>, presses' \in 0..MaxPresses
  PROVE  ConsoleInv'
<1> DEFINE f == Fetching("review", run, None)
           d == [Blank EXCEPT !.kind = "loading", !.run = run]
<1>f. f = Fetching("review", run, None)
  OBVIOUS
<1>1. Issue(q, f) /\ page' = [shown EXCEPT !.detail = d]
  BY DEF LoadReview
<1>2. d \in Detail /\ d.kind = "loading" /\ d.run = run /\ d.newest /\ ~d.reload
  BY DEF Blank, Detail, Status
<1> HIDE DEF f, d
<1>3. /\ f \in Fetch /\ f # None
      /\ f.what = "review" /\ f.run = run /\ f.newest /\ f.answer = None /\ ~f.reload
  BY <1>f, NewFetch
<1>4. ReviewFetch(f, run) /\ LoadingPanel(d, f)
  BY <1>2, <1>3 DEF ReviewFetch, LoadingPanel
<1> QED BY <1>1, <1>4, LoadKeeps

\* Nothing has the say about an empty panel: no run is selected.
LEMMA EmptyKeeps ==
  ASSUME ConsoleInv, NEW q \in Slots \cup {None}, NEW shown \in Page,
         RenderReviewEmpty(q, shown), shown.selected = None,
         Recorded(shown.feedback),
         ~lost => /\ shown.list = "loading" => UnderWayBeside(q, "runs")
                  /\ shown.demo = "running" => UnderWayBeside(q, "demo"),
         UNCHANGED <<stored, record, lost>>, presses' \in 0..MaxPresses
  PROVE  ConsoleInv'
<1>1. /\ Blank \in Detail /\ PanelInHand(Blank) /\ Blank.kind = "empty" /\ Blank.run = None
  BY DEF Blank, Detail, Status, PanelInHand
<1>2. /\ page' \in Page /\ page'.detail = Blank /\ page'.list = shown.list
      /\ page'.selected = shown.selected /\ page'.feedback = shown.feedback
      /\ page'.demo = shown.demo
  BY <1>1 DEF Page, RenderReviewEmpty
<1>3. ASSUME NEW s \in Slots
      PROVE  /\ s = q \/ fetches[s] = None => fetches'[s] = None
             /\ s # q /\ fetches[s] # None =>
                  /\ fetches'[s] \in Fetch /\ SameFetch(fetches'[s], fetches[s])
                  /\ ~fetches'[s].newest
  <2>1. CASE s = q \/ fetches[s] = None
    BY <2>1 DEF RenderReviewEmpty
  <2>2. CASE s # q /\ fetches[s] # None
    <3>1. fetches[s] \in Fetch
      BY <2>2 DEF ConsoleInv, Types, TypeOK
    <3>2. fetches'[s] = [fetches[s] EXCEPT !.newest = FALSE]
      BY <2>2 DEF RenderReviewEmpty
    <3> QED BY <2>2, <3>1, <3>2 DEF Fetch, SameFetch
  <2> QED BY <2>1, <2>2
<1>4. OthersKept(q)
  BY <1>3 DEF OthersKept
<1>5. \A s \in Slots : fetches'[s] # None =>
        /\ s # q /\ fetches[s] # None /\ FetchInHand(fetches'[s])
        /\ SameFetch(fetches'[s], fetches[s]) /\ ~fetches'[s].newest
  BY <1>3, SameInHand DEF ConsoleInv, Types
<1>6. Types'
  <2>1. fetches' \in [Slots -> Fetch \cup {None}]
    <3>1. \A s \in Slots : fetches'[s] \in Fetch \cup {None}
      BY <1>3
    <3> QED BY <3>1 DEF RenderReviewEmpty
  <2> QED BY <1>1, <1>2, <1>5, <2>1 DEF ConsoleInv, Types, TypeOK
<1>7. WaitsForFetch'
  <2>1. WaitsAfter(q, None)
    BY <1>1, <1>2 DEF WaitsAfter, WillArrive
  <2> QED BY <1>4, <2>1, WaitsKept
<1>8. SelectionInv'
  BY <1>1, <1>2, <1>5 DEF SelectionInv, Governs
<1>9. NoticesInv'
  BY <1>1, <1>2 DEF NoticesInv
<1>10. RecordedInv'
  <2>1. Recorded(page.feedback)'
    BY <1>2 DEF Recorded
  <2> QED BY <1>5, <2>1 DEF ConsoleInv, RecordedInv, SameFetch
<1>11. AnsweredLaterInv'
  BY <1>1, <1>2, <1>5 DEF AnsweredLaterInv, Governs
<1> QED BY <1>6, <1>7, <1>8, <1>9, <1>10, <1>11 DEF ConsoleInv

\* A panel that is kept, perhaps with a notice put on top of it, and never a success.
PanelKept ==
  LET d == page.detail
  IN  /\ page'.detail.kind = d.kind /\ page'.detail.run = d.run
      /\ page'.detail.status = d.status /\ page'.detail.rendered = d.rendered
      /\ page'.detail.newest = d.newest /\ page'.detail.reload = d.reload
      /\ page'.detail.inPlace # d.inPlace =>
           LET n == page'.detail.inPlace
           IN  n.kind # "success" /\ (n.kind # "error" => n.approval = ApprovalOf[d.run])

\* A fetch put in a slot that loads no review.
PlainFetch(f) == f \in Fetch /\ f # None /\ f.answer = None /\ ~f.newest /\ FetchInHand(f)

LEMMA PanelKeeps ==
  ASSUME ConsoleInv, NEW q \in Slots, NEW f, f = None \/ PlainFetch(f), Issue(q, f),
         page' \in Page, PanelKept,
         page'.list = "rows" => page.list = "rows" /\ page'.selected = page.selected,
         Recorded(page'.feedback),
         page'.feedback = page.feedback \/ page'.feedback.kind # "success"
           \/ page'.feedback = None \/ page.selected = None,
         WaitsAfter(q, f),
         UNCHANGED <<stored, record, lost>>, presses' \in 0..MaxPresses
  PROVE  ConsoleInv'
<1>1. f \in Fetch \cup {None}
  BY DEF PlainFetch
<1>2. fetches' \in [Slots -> Fetch \cup {None}] /\ fetches'[q] = f /\ OthersKept(q)
  BY <1>1, IssueFacts DEF ConsoleInv, Types
<1>3. \A s \in Slots : fetches'[s] # None =>
        /\ FetchInHand(fetches'[s])
        /\ \/ s # q /\ fetches[s] # None /\ SameFetch(fetches'[s], fetches[s])
           \/ s = q /\ fetches'[s].answer = None /\ ~fetches'[s].newest
  BY <1>2, KeptInHand DEF ConsoleInv, PlainFetch
<1>4. Types'
  BY <1>2, <1>3 DEF ConsoleInv, Types, TypeOK, PanelKept, PanelInHand
<1>5. WaitsForFetch'
  BY <1>2, WaitsKept
<1>6. SelectionInv'
  BY <1>3 DEF ConsoleInv, SelectionInv, Governs, PanelKept, SameFetch
<1>7. NoticesInv'
  BY DEF ConsoleInv, NoticesInv, PanelKept
<1>8. RecordedInv'
  <2>1. Recorded(page.feedback)'
    BY DEF Recorded
  <2> QED BY <1>3, <2>1 DEF ConsoleInv, RecordedInv, SameFetch
<1>9. AnsweredLaterInv'
  <2> SUFFICES ASSUME page'.list = "rows" PROVE AnsweredLaterInv'
    BY DEF AnsweredLaterInv
  <2>1. ASSUME NEW s \in Slots, fetches'[s] # None, fetches'[s].what = "review",
               Governs(fetches'[s]), fetches'[s].answer # None, fetches'[s].answer.ok,
               SaidDecided(page'.feedback, fetches'[s].run)
        PROVE  fetches'[s].answer.status = "decided"
    <3>1. fetches[s] # None /\ SameFetch(fetches'[s], fetches[s]) /\ Governs(fetches[s])
      BY <1>3, <2>1 DEF Governs, SameFetch
    <3>2. fetches[s].run \in Runs /\ fetches[s].run = page.selected
      BY <2>1, <3>1 DEF ConsoleInv, Types, FetchInHand, SelectionInv, SameFetch
    <3>3. page'.feedback = page.feedback
      BY <2>1, <3>2, ConsoleAssumption DEF SaidDecided
    <3> QED BY <2>1, <3>1, <3>3 DEF ConsoleInv, AnsweredLaterInv, SameFetch
  <2>2. page'.detail.kind = "review" /\ Governs(page'.detail)
          /\ SaidDecided(page'.detail.rendered, page'.detail.run)
          => page'.detail.status = "decided"
    BY DEF ConsoleInv, AnsweredLaterInv, PanelKept, Governs
  <2> QED BY <2>1, <2>2 DEF AnsweredLaterInv
<1> QED BY <1>4, <1>5, <1>6, <1>7, <1>8, <1>9 DEF ConsoleInv

-----------------------------------------------------------------------------
(***************************************************************************)
(* The server, and what happens beside the page.                            *)
(***************************************************************************)

\* Decisions are not taken back.
RecordKept ==
  /\ record' \in [Approvals -> {"pending", "decided"}]
  /\ \A a \in Approvals : record[a] = "decided" => record'[a] = "decided"

\* What an answer has to say.
Answers(a, f) ==
  a.ok =>
    /\ f.what = "demo" => a.run \in Runs
    /\ f.what = "decision" => record'[f.approval] = "decided"
    /\ f.what = "review" =>
         a.status = IF ApprovalOf[f.run] = None THEN "none" ELSE record[ApprovalOf[f.run]]

LEMMA FeedbackTypes ==
  ASSUME TypeOK, page.feedback # None
  PROVE  page.feedback.approval \in Approvals
BY DEF TypeOK, Page, Feedback

LEMMA AnswerKeeps ==
  ASSUME ConsoleInv, NEW q \in Slots, ~Free(q), fetches[q].answer = None,
         NEW a \in Answer, Answers(a, fetches[q]),
         fetches' = [fetches EXCEPT ![q].answer = a],
         RecordKept, stored' \in Seq(Runs), UNCHANGED <<page, presses, lost>>
  PROVE  ConsoleInv'
<1> DEFINE f == fetches[q]
<1>1. fetches \in [Slots -> Fetch \cup {None}] /\ f \in Fetch /\ FetchInHand(f)
  BY DEF Free, ConsoleInv, Types, TypeOK
<1>2. /\ fetches'[q] \in Fetch /\ fetches'[q].what = f.what /\ fetches'[q].run = f.run
      /\ fetches'[q].approval = f.approval /\ fetches'[q].newest = f.newest
      /\ fetches'[q].reload = f.reload /\ fetches'[q].answer = a
  BY <1>1 DEF Fetch
<1>3. \A s \in Slots \ {q} : fetches'[s] = fetches[s]
  BY <1>1
<1>4. f # None
  BY DEF Free
<1> HIDE DEF f
<1>5. FetchInHand(fetches'[q])
  <2>1. a.ok /\ f.what = "review" /\ a.status = "pending" => ApprovalOf[f.run] # None
    BY DEF Answers, f
  <2> QED BY <1>1, <1>2, <2>1 DEF FetchInHand, Answers, f
<1>6. Types'
  <2>1. fetches' \in [Slots -> Fetch \cup {None}]
    BY <1>1, <1>2, <1>3
  <2> QED BY <1>3, <1>5, <2>1 DEF ConsoleInv, Types, TypeOK, RecordKept
<1>7. WaitsForFetch'
  BY <1>2, <1>3, <1>4, NoneIsNoMessage DEF ConsoleInv, WaitsForFetch, Free, f
<1>8. SelectionInv'
  BY <1>2, <1>3, <1>4 DEF ConsoleInv, SelectionInv, Governs, f
<1>9. NoticesInv'
  BY DEF ConsoleInv, NoticesInv
<1>10. RecordedInv'
  <2>1. Recorded(page.feedback)'
    BY FeedbackTypes DEF ConsoleInv, Types, RecordedInv, Recorded, RecordKept
  <2>2. ASSUME NEW s \in Slots, fetches'[s] # None, fetches'[s].what = "decision",
               fetches'[s].answer # None, fetches'[s].answer.ok
        PROVE  record'[fetches'[s].approval] = "decided"
    <3>1. CASE s = q
      BY <1>2, <2>2, <3>1 DEF Answers, f
    <3>2. CASE s # q
      BY <1>3, <2>2, <3>2 DEF ConsoleInv, Types, RecordedInv, RecordKept, FetchInHand
    <3> QED BY <3>1, <3>2
  <2> QED BY <2>1, <2>2 DEF RecordedInv
<1>11. AnsweredLaterInv'
  <2> SUFFICES ASSUME page.list = "rows" PROVE AnsweredLaterInv'
    BY DEF AnsweredLaterInv
  <2>1. ASSUME NEW s \in Slots, fetches'[s] # None, fetches'[s].what = "review",
               Governs(fetches'[s]), fetches'[s].answer # None, fetches'[s].answer.ok,
               SaidDecided(page.feedback, fetches'[s].run)
        PROVE  fetches'[s].answer.status = "decided"
    <3>1. CASE s = q
      <4>1. record[page.feedback.approval] = "decided"
        BY <2>1 DEF ConsoleInv, RecordedInv, Recorded, SaidDecided
      <4> QED BY <1>2, <2>1, <3>1, <4>1 DEF Answers, SaidDecided, f
    <3>2. CASE s # q
      BY <1>3, <2>1, <3>2 DEF ConsoleInv, AnsweredLaterInv
    <3> QED BY <3>1, <3>2
  <2>2. page.detail.kind = "review" /\ Governs(page.detail)
          /\ SaidDecided(page.detail.rendered, page.detail.run)
          => page.detail.status = "decided"
    BY DEF ConsoleInv, AnsweredLaterInv
  <2> QED BY <2>1, <2>2 DEF AnsweredLaterInv
<1> QED BY <1>6, <1>7, <1>8, <1>9, <1>10, <1>11 DEF ConsoleInv

\* Neither a lost fetch nor what happens elsewhere contradicts the page.
LEMMA LoseKeeps ==
  ASSUME ConsoleInv, NEW q \in Slots, Lose(q)
  PROVE  ConsoleInv'
<1>1. /\ fetches' \in [Slots -> Fetch \cup {None}] /\ fetches'[q] = None
      /\ \A s \in Slots \ {q} : fetches'[s] = fetches[s]
      /\ UNCHANGED <<stored, record, page, presses>> /\ lost' = TRUE
  BY DEF Lose, ConsoleInv, Types, TypeOK
<1>2. Types'
  BY <1>1 DEF ConsoleInv, Types, TypeOK
<1> QED BY <1>1, <1>2 DEF ConsoleInv, WaitsForFetch, SelectionInv, NoticesInv, RecordedInv,
                         Recorded, AnsweredLaterInv

LEMMA ElsewhereKeeps ==
  ASSUME ConsoleInv, RecordKept, stored' \in Seq(Runs), presses' \in 0..MaxPresses,
         UNCHANGED <<page, fetches, lost>>
  PROVE  ConsoleInv'
<1>1. Types'
  BY DEF ConsoleInv, Types, TypeOK, RecordKept
<1>2. Recorded(page.feedback)'
  BY FeedbackTypes DEF ConsoleInv, Types, RecordedInv, Recorded, RecordKept
<1>3. RecordedInv'
  BY <1>2 DEF ConsoleInv, Types, RecordedInv, RecordKept, FetchInHand
<1> QED BY <1>1, <1>3 DEF ConsoleInv, WaitsForFetch, Free, SelectionInv, NoticesInv,
                         AnsweredLaterInv

LEMMA RecordStays == ASSUME TypeOK, UNCHANGED record PROVE RecordKept
BY DEF RecordKept, TypeOK

LEMMA AnswerTypes ==
  ASSUME TypeOK
  PROVE  /\ Refused \in Answer /\ ~Refused.ok
         /\ Done \in Answer
         /\ RunList \in Answer
         /\ \A r \in Runs :
              /\ ReviewOf(r) \in Answer
              /\ ReviewOf(r).status = IF ApprovalOf[r] = None THEN "none"
                                      ELSE record[ApprovalOf[r]]
              /\ [Done EXCEPT !.run = r] \in Answer /\ [Done EXCEPT !.run = r].run = r
<1>1. Refused \in Answer /\ ~Refused.ok
  BY DEF Refused, Answer, Status
<1>2. Done \in Answer
  BY <1>1 DEF Done, Answer
<1>3. RunList \in Answer
  <2> DEFINE n == IF Len(stored) < ListLimit THEN Len(stored) ELSE ListLimit
  <2>1. n \in 0..Len(stored)
    BY ConsoleAssumption DEF TypeOK
  <2>2. SubSeq(stored, 1, n) \in Seq(Runs)
    BY <2>1, SubSeqProperties DEF TypeOK
  <2> HIDE DEF n
  <2>3. [Done EXCEPT !.runs = SubSeq(stored, 1, n)] \in Answer
    BY <1>2, <2>2 DEF Answer
  <2> QED BY <2>3 DEF RunList, n
<1>4. ASSUME NEW r \in Runs
      PROVE  /\ ReviewOf(r) \in Answer
             /\ ReviewOf(r).status = IF ApprovalOf[r] = None THEN "none"
                                     ELSE record[ApprovalOf[r]]
             /\ [Done EXCEPT !.run = r] \in Answer /\ [Done EXCEPT !.run = r].run = r
  <2> DEFINE status == IF ApprovalOf[r] = None THEN "none" ELSE record[ApprovalOf[r]]
             found == [Done EXCEPT !.run = r]
  <2>1. status \in Status
    BY ConsoleAssumption DEF TypeOK, Status
  <2>2. found \in Answer /\ found.run = r
    BY <1>2 DEF Answer
  <2> HIDE DEF status, found
  <2>3. [found EXCEPT !.status = status] \in Answer /\ [found EXCEPT !.status = status].status = status
    BY <2>1, <2>2 DEF Answer
  <2>4. ReviewOf(r) = [found EXCEPT !.status = status]
    BY DEF ReviewOf, found, status
  <2> QED BY <2>2, <2>3, <2>4 DEF status, found
<1> QED BY <1>1, <1>2, <1>3, <1>4

LEMMA ServeKeeps ==
  ASSUME ConsoleInv, NEW q \in Slots, Serve(q)
  PROVE  ConsoleInv'
<1>t. TypeOK /\ stored \in Seq(Runs)
  BY DEF ConsoleInv, Types, TypeOK
<1>1. CASE ServeRead(q)
  <2> DEFINE f == fetches[q]
             answer == CASE f.what \in {"scenarios", "lifecycle"} -> Done
                         [] f.what = "runs" -> RunList
                         [] f.what = "review" /\ f.run \in ToSet(stored) -> ReviewOf(f.run)
                         [] OTHER -> Refused
  <2>1. f.what \notin {"demo", "decision"} /\ (f.what = "review" => f.run \in Runs)
    BY <1>1 DEF ServeRead, Free, ConsoleInv, Types, FetchInHand
  <2>2. answer \in Answer /\ (f.what = "review" /\ answer # Refused => answer = ReviewOf(f.run))
    BY <1>t, <2>1, AnswerTypes
  <2>3. Answers(answer, f)
    <3>1. CASE f.what = "review" /\ answer = ReviewOf(f.run)
      BY <1>t, <2>1, <3>1, AnswerTypes DEF Answers
    <3>2. CASE f.what = "review" /\ answer = Refused
      BY <1>t, <3>2, AnswerTypes DEF Answers
    <3>3. CASE f.what # "review"
      BY <2>1, <3>3 DEF Answers
    <3> QED BY <2>2, <3>1, <3>2, <3>3
  <2>4. ~Free(q) /\ f.answer = None /\ fetches' = [fetches EXCEPT ![q].answer = answer]
    BY <1>1 DEF ServeRead
  <2> HIDE DEF answer
  <2> QED BY <1>1, <1>t, <2>2, <2>3, <2>4, RecordStays, AnswerKeeps DEF ServeRead
<1>2. CASE ServeDecision(q)
  <2>1. /\ ~Free(q) /\ fetches[q].answer = None /\ fetches[q].what = "decision"
        /\ record' = [record EXCEPT ![fetches[q].approval] = "decided"]
        /\ fetches' = [fetches EXCEPT ![q].answer = Done]
        /\ UNCHANGED <<stored, page, presses, lost>>
    BY <1>2 DEF ServeDecision
  <2>2. fetches[q].approval \in Approvals
    BY <2>1 DEF ConsoleInv, Types, FetchInHand, Free
  <2>3. RecordKept /\ Answers(Done, fetches[q])
    BY <1>t, <2>1, <2>2 DEF RecordKept, Answers, TypeOK
  <2> QED BY <1>t, <2>1, <2>3, AnswerTypes, AnswerKeeps
<1>3. CASE ServeRefused(q)
  <2>1. Refused \in Answer /\ Answers(Refused, fetches[q])
    BY <1>t, AnswerTypes DEF Answers
  <2> QED BY <1>3, <1>t, <2>1, RecordStays, AnswerKeeps DEF ServeRefused
<1>4. ASSUME NEW r \in Runs, ServeDemo(q, r) PROVE ConsoleInv'
  <2> DEFINE answer == [Done EXCEPT !.run = r]
  <2>1. /\ ~Free(q) /\ fetches[q].answer = None /\ fetches[q].what = "demo"
        /\ stored' = <<r>> \o stored /\ fetches' = [fetches EXCEPT ![q].answer = answer]
        /\ UNCHANGED <<record, page, presses, lost>>
    BY <1>4 DEF ServeDemo
  <2>2. answer \in Answer /\ answer.run = r
    BY <1>t, AnswerTypes
  <2> HIDE DEF answer
  <2>3. Answers(answer, fetches[q])
    BY <2>1, <2>2 DEF Answers
  <2>4. stored' \in Seq(Runs)
    BY <1>t, <2>1
  <2> QED BY <1>t, <2>1, <2>2, <2>3, <2>4, RecordStays, AnswerKeeps
<1> QED BY <1>1, <1>2, <1>3, <1>4 DEF Serve

LEMMA OutsideKeeps ==
  ASSUME ConsoleInv, Elsewhere
  PROVE  ConsoleInv'
<1>t. TypeOK /\ stored \in Seq(Runs) /\ presses \in 0..MaxPresses
  BY DEF ConsoleInv, Types, TypeOK
<1>1. CASE ExpireRun
  <2>1. PICK i \in DOMAIN stored : stored' = RemoveAt(stored, i)
    BY <1>1 DEF ExpireRun
  <2>2. SubSeq(stored, 1, i - 1) \in Seq(Runs) /\ SubSeq(stored, i + 1, Len(stored)) \in Seq(Runs)
    BY <1>t, SubSeqProperties
  <2>3. stored' \in Seq(Runs)
    BY <2>1, <2>2, ConcatProperties DEF RemoveAt
  <2> QED BY <1>1, <1>t, <2>3, RecordStays, ElsewhereKeeps DEF ExpireRun
<1>2. ASSUME NEW r \in Runs, StoreRun(r) PROVE ConsoleInv'
  <2>1. stored' \in Seq(Runs)
    BY <1>2, <1>t DEF StoreRun
  <2> QED BY <1>2, <1>t, <2>1, RecordStays, ElsewhereKeeps DEF StoreRun
<1>3. ASSUME NEW a \in Approvals, DecideElsewhere(a) PROVE ConsoleInv'
  <2>1. RecordKept
    BY <1>3, <1>t DEF DecideElsewhere, RecordKept, TypeOK
  <2>2. presses' \in 0..MaxPresses
    BY <1>3, <1>t, ConsoleAssumption DEF DecideElsewhere, Pressed
  <2> QED BY <1>3, <1>t, <2>1, <2>2, ElsewhereKeeps DEF DecideElsewhere, Pressed
<1> QED BY <1>1, <1>2, <1>3 DEF Elsewhere

-----------------------------------------------------------------------------
(***************************************************************************)
(* The operator.                                                            *)
(***************************************************************************)

LEMMA PressedTypes ==
  ASSUME TypeOK, Pressed
  PROVE  presses' \in 0..MaxPresses /\ lost' = lost
BY ConsoleAssumption DEF TypeOK, Pressed

LEMMA LoadRunsKeeps ==
  ASSUME ConsoleInv, NEW q \in Slots, NEW shown \in Page, LoadRuns(q, shown),
         shown.detail = page.detail, shown.feedback = page.feedback,
         Free(q) \/ fetches[q].what # "review",
         ~lost /\ shown.demo = "running" => UnderWayBeside(q, "demo"),
         UNCHANGED <<stored, record, lost>>, presses' \in 0..MaxPresses
  PROVE  ConsoleInv'
<1> DEFINE f == Fetching("runs", None, None)
<1>f. f = Fetching("runs", None, None)
  OBVIOUS
<1> HIDE DEF f
<1>1. /\ f \in Fetch /\ f # None /\ f.what = "runs" /\ f.answer = None /\ ~f.newest
  BY <1>f, NewFetch
<1>2. PlainFetch(f)
  BY <1>1 DEF PlainFetch, FetchInHand
<1>3. Issue(q, f) /\ page' = [shown EXCEPT !.list = "loading"]
  BY <1>f DEF LoadRuns
<1>4. /\ page' \in Page /\ page'.list = "loading" /\ page'.detail = page.detail
      /\ page'.feedback = page.feedback /\ page'.demo = shown.demo
  BY <1>3 DEF Page
<1>5. WaitsAfter(q, f)
  BY <1>1, <1>4, WaitsBeside DEF ConsoleInv, WaitsAfter, WillArrive
<1>6. PanelKept /\ Recorded(page'.feedback)
  BY <1>4 DEF PanelKept, ConsoleInv, RecordedInv
<1> QED BY <1>2, <1>3, <1>4, <1>5, <1>6, PanelKeeps

\* A notice put on the panel on display.
LEMMA InPlaceFields ==
  ASSUME TypeOK, NEW n \in Feedback, page' = InPlace(page, n)
  PROVE  /\ page' \in Page /\ page'.list = page.list /\ page'.selected = page.selected
         /\ page'.demo = page.demo /\ page'.feedback = n
         /\ n.kind # "success" /\ (n.kind # "error" => n.approval = ApprovalOf[page.detail.run])
              => PanelKept
<1> DEFINE put == IF page.detail.kind = "review" THEN n ELSE page.detail.inPlace
           d == [page.detail EXCEPT !.inPlace = put]
<1>1. page \in Page /\ page.detail \in Detail
  BY DEF TypeOK, Page
<1>2. /\ d \in Detail /\ d.kind = page.detail.kind /\ d.run = page.detail.run
      /\ d.status = page.detail.status /\ d.rendered = page.detail.rendered
      /\ d.newest = page.detail.newest /\ d.reload = page.detail.reload
      /\ d.inPlace \in {page.detail.inPlace, n}
  BY <1>1 DEF Detail
<1>3. page' = [page EXCEPT !.feedback = n, !.detail = d]
  BY <1>1 DEF InPlace
<1> HIDE DEF d
<1>4. /\ page' \in Page /\ page'.list = page.list /\ page'.selected = page.selected
      /\ page'.demo = page.demo /\ page'.feedback = n /\ page'.detail = d
  BY <1>1, <1>2, <1>3 DEF Page
<1> QED BY <1>2, <1>4 DEF PanelKept

LEMMA OperatorKeeps ==
  ASSUME ConsoleInv, NEW q \in Slots, Operator(q)
  PROVE  ConsoleInv'
<1>t. TypeOK /\ page \in Page /\ PanelInHand(page.detail) /\ Recorded(page.feedback)
  BY DEF ConsoleInv, Types, TypeOK, RecordedInv
<1>p. ASSUME Press(q) PROVE Free(q) /\ presses' \in 0..MaxPresses /\ lost' = lost
  BY <1>p, <1>t, PressedTypes DEF Press
<1>w. ASSUME Free(q), ~lost
      PROVE  /\ page.detail.kind = "loading" => UnderWayBeside(q, "review")
             /\ page.list = "loading" => UnderWayBeside(q, "runs")
             /\ page.demo = "running" => UnderWayBeside(q, "demo")
  BY <1>w, WaitsBeside DEF ConsoleInv
<1>1. CASE PressLoad(q)
  BY <1>1, <1>p, <1>t, <1>w, LoadRunsKeeps DEF PressLoad
<1>2. ASSUME NEW r \in Runs, ClickRow(q, r) PROVE ConsoleInv'
  <2> DEFINE shown == [page EXCEPT !.selected = r, !.feedback = None]
  <2>1. /\ shown \in Page /\ shown.selected = r /\ shown.feedback = None
        /\ shown.list = page.list /\ shown.demo = page.demo
    BY <1>t DEF Page
  <2>2. Press(q) /\ LoadReview(q, r, shown) /\ UNCHANGED <<stored, record>>
    BY <1>2 DEF ClickRow
  <2> HIDE DEF shown
  <2> QED BY <1>p, <1>w, <2>1, <2>2, LoadReviewKeeps DEF Recorded
<1>3. ASSUME NEW r \in Runs, FollowRunLink(q, r) PROVE ConsoleInv'
  <2> DEFINE shown == [page EXCEPT !.selected = r, !.list = "rows"]
  <2>1. /\ shown \in Page /\ shown.selected = r /\ shown.feedback = page.feedback
        /\ shown.list = "rows" /\ shown.demo = page.demo
    BY <1>t DEF Page
  <2>2. Press(q) /\ LoadReview(q, r, shown) /\ UNCHANGED <<stored, record>>
    BY <1>3 DEF FollowRunLink
  <2> HIDE DEF shown
  <2> QED BY <1>p, <1>t, <1>w, <2>1, <2>2, LoadReviewKeeps
<1>4. CASE RunDemoScenario(q)
  <2> DEFINE f == Fetching("demo", None, None)
  <2>f. f = Fetching("demo", None, None)
    OBVIOUS
  <2>1. /\ Press(q) /\ Issue(q, f) /\ page' = [page EXCEPT !.demo = "running"]
        /\ UNCHANGED <<stored, record>>
    BY <1>4 DEF RunDemoScenario
  <2> HIDE DEF f
  <2>2. /\ f \in Fetch /\ f # None /\ f.what = "demo" /\ f.answer = None /\ ~f.newest
    BY <2>f, NewFetch
  <2>3. PlainFetch(f)
    BY <2>2 DEF PlainFetch, FetchInHand
  <2>4. /\ page' \in Page /\ page'.list = page.list /\ page'.detail = page.detail
        /\ page'.feedback = page.feedback /\ page'.selected = page.selected
    BY <1>t, <2>1 DEF Page
  <2>5. WaitsAfter(q, f)
    BY <1>p, <1>w, <2>1, <2>2, <2>4 DEF WaitsAfter, WillArrive
  <2>6. PanelKept
    BY <2>4 DEF PanelKept
  <2> QED BY <1>p, <1>t, <2>1, <2>3, <2>4, <2>5, <2>6, PanelKeeps
<1>5. CASE DecideApprovalAction(q)
  <2> DEFINE a == ApprovalOf[page.detail.run]
             n == [approval |-> a, kind |-> "info"]
             f == Fetching("decision", None, a)
  <2>f. f = Fetching("decision", None, a)
    OBVIOUS
  <2>1. /\ Press(q) /\ Issue(q, f) /\ page' = InPlace(page, n) /\ UNCHANGED <<stored, record>>
        /\ page.detail.kind = "review" /\ page.detail.status = "pending"
    BY <1>5 DEF DecideApprovalAction
  <2> HIDE DEF f
  <2>2. a \in Approvals
    BY <1>t, <2>1, ConsoleAssumption DEF PanelInHand
  <2>3. n \in Feedback /\ n.kind = "info" /\ n.approval = a
    BY <2>2 DEF Feedback
  <2>4. /\ f \in Fetch /\ f # None /\ f.what = "decision" /\ f.answer = None /\ ~f.newest
        /\ f.approval = a
    BY <2>2, <2>f, NewFetch
  <2>5. PlainFetch(f)
    BY <2>2, <2>4 DEF PlainFetch, FetchInHand
  <2> HIDE DEF a, n
  <2>6. /\ page' \in Page /\ page'.list = page.list /\ page'.selected = page.selected
        /\ page'.demo = page.demo /\ page'.feedback = n /\ PanelKept
    BY <1>t, <2>1, <2>3, InPlaceFields DEF a
  <2>7. WaitsAfter(q, f)
    BY <1>p, <1>w, <2>1, <2>6 DEF WaitsAfter, WillArrive, PanelKept
  <2>8. Recorded(page'.feedback)
    BY <2>3, <2>6 DEF Recorded
  <2> QED BY <1>p, <2>1, <2>3, <2>5, <2>6, <2>7, <2>8, PanelKeeps
<1>6. CASE PostLifecycle(q)
  <2> DEFINE f == Fetching("lifecycle", page.detail.run, None)
  <2>f. f = Fetching("lifecycle", page.detail.run, None)
    OBVIOUS
  <2>1. /\ Press(q) /\ Issue(q, f) /\ page.detail.kind = "review"
        /\ UNCHANGED <<stored, record, page>>
    BY <1>6 DEF PostLifecycle
  <2> HIDE DEF f
  <2>2. page.detail.run \in Runs
    BY <1>t, <2>1 DEF PanelInHand
  <2>3. /\ f \in Fetch /\ f # None /\ f.what = "lifecycle" /\ f.answer = None /\ ~f.newest
        /\ f.run = page.detail.run
    BY <2>2, <2>f, NewFetch
  <2>4. PlainFetch(f)
    BY <2>2, <2>3 DEF PlainFetch, FetchInHand
  <2>5. WaitsAfter(q, f) /\ PanelKept
    BY <1>p, <1>w, <2>1 DEF WaitsAfter, WillArrive, PanelKept
  <2> QED BY <1>p, <1>t, <2>1, <2>4, <2>5, PanelKeeps
<1> QED BY <1>1, <1>2, <1>3, <1>4, <1>5, <1>6 DEF Operator

LEMMA ClearKeeps ==
  ASSUME ConsoleInv, PressClear
  PROVE  ConsoleInv'
<1> DEFINE shown == [page EXCEPT !.runs = <<>>, !.list = "rows", !.selected = None,
                                 !.feedback = None]
<1>1. TypeOK /\ page \in Page
  BY DEF ConsoleInv, Types, TypeOK
<1>2. << >> \in Seq(Runs)
  OBVIOUS
<1>3. /\ shown \in Page /\ shown.selected = None /\ shown.feedback = None
      /\ shown.list = "rows" /\ shown.demo = page.demo
  BY <1>1, <1>2 DEF Page
<1>4. RenderReviewEmpty(None, shown) /\ Pressed /\ UNCHANGED <<stored, record>>
  BY DEF PressClear
<1>5. presses' \in 0..MaxPresses /\ lost' = lost
  BY <1>1, <1>4, PressedTypes
<1>6. ~lost /\ page.demo = "running" => UnderWayBeside(None, "demo")
  BY WaitsBeside, ConsoleAssumption DEF ConsoleInv
<1> HIDE DEF shown
<1> QED BY <1>3, <1>4, <1>5, <1>6, EmptyKeeps DEF Recorded

-----------------------------------------------------------------------------
(***************************************************************************)
(* Answers that arrive.                                                     *)
(***************************************************************************)

\* The panel that renderReview makes of an answer, and the fields of it that matter.
PanelOf(f) ==
  LET shown == [Blank EXCEPT !.run = f.run, !.newest = f.newest, !.reload = f.reload]
  IN  IF ~f.answer.ok THEN [shown EXCEPT !.kind = "error"]
      ELSE [shown EXCEPT !.kind = "review", !.status = f.answer.status,
              !.rendered = RenderApprovalFeedback(page.feedback, ApprovalOf[f.run])]

RenderedFrom(d, f) ==
  /\ d \in Detail /\ d.run = f.run
  /\ d.newest <=> f.newest
  /\ d.reload <=> f.reload
  /\ d.kind \in {"error", "review"} /\ d.inPlace = None
  /\ d.kind = "review" => /\ f.answer.ok /\ d.status = f.answer.status
                          /\ d.rendered # None =>
                               /\ d.rendered = page.feedback
                               /\ ApprovalOf[f.run] = None
                                  \/ ApprovalOf[f.run] = page.feedback.approval

LEMMA RenderedPanel ==
  ASSUME TypeOK, NEW f \in Fetch, f.run \in Runs, f.answer \in Answer
  PROVE  RenderedFrom(PanelOf(f), f)
<1> DEFINE feedback == RenderApprovalFeedback(page.feedback, ApprovalOf[f.run])
           b1 == [Blank EXCEPT !.run = f.run]
           b2 == [b1 EXCEPT !.newest = f.newest]
           b3 == [b2 EXCEPT !.reload = f.reload]
           failed == [b3 EXCEPT !.kind = "error"]
           b4 == [b3 EXCEPT !.kind = "review"]
           b5 == [b4 EXCEPT !.status = f.answer.status]
           full == [b5 EXCEPT !.rendered = feedback]
<1>1. /\ feedback \in Feedback \cup {None}
      /\ feedback # None => /\ feedback = page.feedback
                            /\ ApprovalOf[f.run] = None
                               \/ ApprovalOf[f.run] = page.feedback.approval
  BY DEF TypeOK, Page, RenderApprovalFeedback
<1>2. f.newest \in BOOLEAN /\ f.reload \in BOOLEAN /\ f.answer.status \in Status
  BY DEF Fetch, Answer
<1>3. b1 \in Detail /\ b1.run = f.run /\ b1.inPlace = None
  BY DEF Blank, Detail, Status
<1> HIDE DEF b1, feedback
<1>4. b2 \in Detail /\ b2.run = f.run /\ b2.inPlace = None /\ (b2.newest <=> f.newest)
  BY <1>2, <1>3 DEF Detail
<1> HIDE DEF b2
<1>5. /\ b3 \in Detail /\ b3.run = f.run /\ b3.inPlace = None /\ (b3.newest <=> f.newest)
      /\ (b3.reload <=> f.reload)
  BY <1>2, <1>4 DEF Detail
<1> HIDE DEF b3
<1>6. /\ failed \in Detail /\ failed.run = f.run /\ failed.inPlace = None
      /\ (failed.newest <=> f.newest) /\ (failed.reload <=> f.reload) /\ failed.kind = "error"
  BY <1>5 DEF Detail
<1>7. /\ b4 \in Detail /\ b4.run = f.run /\ b4.inPlace = None
      /\ (b4.newest <=> f.newest) /\ (b4.reload <=> f.reload) /\ b4.kind = "review"
  BY <1>5 DEF Detail
<1> HIDE DEF b4, failed
<1>8. /\ b5 \in Detail /\ b5.run = f.run /\ b5.inPlace = None
      /\ (b5.newest <=> f.newest) /\ (b5.reload <=> f.reload) /\ b5.kind = "review"
      /\ b5.status = f.answer.status
  BY <1>2, <1>7 DEF Detail
<1> HIDE DEF b5
<1>9. /\ full \in Detail /\ full.run = f.run /\ full.inPlace = None
      /\ (full.newest <=> f.newest) /\ (full.reload <=> f.reload) /\ full.kind = "review"
      /\ full.status = f.answer.status /\ full.rendered = feedback
  BY <1>1, <1>8 DEF Detail
<1> HIDE DEF full
<1>10. PanelOf(f) = IF ~f.answer.ok THEN failed ELSE full
  BY DEF PanelOf, failed, full, b5, b4, b3, b2, b1, feedback
<1> QED BY <1>1, <1>6, <1>9, <1>10 DEF RenderedFrom

LEMMA DeliverReviewKeeps ==
  ASSUME ConsoleInv, NEW q \in Slots, DeliverReview(q)
  PROVE  ConsoleInv'
<1> DEFINE f == fetches[q]
           d == page'.detail
<1>1. f \in Fetch /\ f # None /\ f.what = "review" /\ f.run \in Runs /\ f.answer \in Answer
      /\ f.answer # None /\ FetchInHand(f)
  BY DEF DeliverReview, Arrived, Free, ConsoleInv, Types, TypeOK, FetchInHand, Fetch
<1>2. TypeOK /\ page \in Page
  BY DEF ConsoleInv, Types, TypeOK
<1> DEFINE e == PanelOf(f)
<1>3. page' = [page EXCEPT !.detail = e]
  BY DEF DeliverReview, PanelOf
<1> HIDE DEF e
<1>4. RenderedFrom(e, f)
  BY <1>1, <1>2, RenderedPanel DEF e
<1>5. /\ page' \in Page /\ page'.detail = e /\ page'.list = page.list
      /\ page'.selected = page.selected /\ page'.feedback = page.feedback
      /\ page'.demo = page.demo
  BY <1>2, <1>3, <1>4 DEF Page, RenderedFrom
<1>6. /\ Issue(q, None) /\ UNCHANGED <<stored, record, presses, lost>>
  BY DEF DeliverReview, End
<1>7. /\ fetches' \in [Slots -> Fetch \cup {None}] /\ fetches'[q] = None /\ OthersKept(q)
  BY <1>2, <1>6, IssueFacts
<1>8. \A s \in Slots : fetches'[s] # None =>
        s # q /\ fetches[s] # None /\ FetchInHand(fetches'[s]) /\ SameFetch(fetches'[s], fetches[s])
  BY <1>7, KeptInHand DEF ConsoleInv
<1>9. PanelInHand(e)
  BY <1>1, <1>4 DEF PanelInHand, FetchInHand, RenderedFrom
<1>10. Types'
  BY <1>5, <1>6, <1>7, <1>8, <1>9 DEF ConsoleInv, Types, TypeOK
<1>11. WaitsForFetch'
  <2>1. WaitsAfter(q, None)
    BY <1>1, <1>4, <1>5, WaitsBeside DEF ConsoleInv, WaitsAfter, WillArrive, RenderedFrom
  <2> QED BY <1>6, <1>7, <2>1, WaitsKept
<1> HIDE DEF f
<1>12. SelectionInv'
  BY <1>1, <1>4, <1>5, <1>8 DEF ConsoleInv, SelectionInv, Governs, SameFetch, RenderedFrom, f
<1>13. NoticesInv'
  BY <1>4, <1>5 DEF NoticesInv, RenderedFrom
<1>14. RecordedInv'
  <2>1. Recorded(page.feedback)'
    BY <1>5, <1>6 DEF ConsoleInv, RecordedInv, Recorded
  <2> QED BY <1>6, <1>8, <2>1 DEF ConsoleInv, RecordedInv, SameFetch
<1>15. AnsweredLaterInv'
  <2> SUFFICES ASSUME page.list = "rows" PROVE AnsweredLaterInv'
    BY <1>5 DEF AnsweredLaterInv
  <2>1. ASSUME NEW s \in Slots, fetches'[s] # None, fetches'[s].what = "review",
               Governs(fetches'[s]), fetches'[s].answer # None, fetches'[s].answer.ok,
               SaidDecided(page.feedback, fetches'[s].run)
        PROVE  fetches'[s].answer.status = "decided"
    BY <1>8, <2>1 DEF ConsoleInv, AnsweredLaterInv, SameFetch, Governs
  <2>2. ASSUME e.kind = "review", Governs(e), SaidDecided(e.rendered, e.run)
        PROVE  e.status = "decided"
    <3>1. /\ f.answer.ok /\ e.status = f.answer.status /\ Governs(f)
          /\ SaidDecided(page.feedback, f.run)
      BY <1>4, <2>2 DEF Governs, SaidDecided, RenderedFrom
    <3> QED BY <1>1, <3>1 DEF ConsoleInv, AnsweredLaterInv, f
  <2> QED BY <1>5, <2>1, <2>2 DEF AnsweredLaterInv
<1> QED BY <1>10, <1>11, <1>12, <1>13, <1>14, <1>15 DEF ConsoleInv

\* A fetch that has been answered leaves its slot.
LEMMA ArrivedFetch ==
  ASSUME ConsoleInv, NEW q \in Slots, NEW what, Arrived(q, what)
  PROVE  LET f == fetches[q]
         IN  /\ f # None /\ f \in Fetch /\ f.what = what /\ FetchInHand(f)
             /\ f.answer # None /\ f.answer \in Answer
<1> DEFINE f == fetches[q]
<1>1. f # None /\ f.what = what /\ f.answer # None
  BY DEF Arrived, Free
<1>2. f \in Fetch /\ FetchInHand(f)
  BY <1>1 DEF ConsoleInv, Types, TypeOK
<1> QED BY <1>1, <1>2 DEF Fetch

\* The handler ends and leaves the page as it is.
LEMMA EndKeeps ==
  ASSUME ConsoleInv, NEW q \in Slots, fetches[q].what \notin {"review", "runs", "demo"},
         End(q), UNCHANGED <<stored, record, page, presses, lost>>
  PROVE  ConsoleInv'
<1>1. /\ page' \in Page /\ presses' \in 0..MaxPresses /\ Recorded(page'.feedback)
      /\ PanelKept /\ Issue(q, None)
  BY DEF ConsoleInv, Types, TypeOK, RecordedInv, Recorded, PanelKept, End
<1>2. WaitsAfter(q, None)
  BY WaitsBeside DEF ConsoleInv, WaitsAfter, WillArrive
<1> QED BY <1>1, <1>2, PanelKeeps

LEMMA DeliverScenariosKeeps ==
  ASSUME ConsoleInv, NEW q \in Slots, NEW typed \in BOOLEAN, DeliverScenarios(q, typed)
  PROVE  ConsoleInv'
<1> DEFINE demo == IF fetches[q].answer.ok THEN "ready" ELSE "hidden"
           shown == [page EXCEPT !.demo = demo]
<1>1. /\ page \in Page /\ presses \in 0..MaxPresses /\ Recorded(page.feedback)
      /\ fetches[q].what = "scenarios"
  BY DEF ConsoleInv, Types, TypeOK, RecordedInv, DeliverScenarios, Arrived
<1>2. /\ shown \in Page /\ shown.detail = page.detail /\ shown.feedback = page.feedback
      /\ shown.list = page.list /\ shown.selected = page.selected /\ shown.demo # "running"
  BY <1>1 DEF Page
<1>3. LoadRuns(q, shown) \/ (page' = shown /\ End(q))
  BY DEF DeliverScenarios
<1>4. UNCHANGED <<stored, record, presses, lost>>
  BY DEF DeliverScenarios
<1> HIDE DEF shown
<1>5. CASE LoadRuns(q, shown)
  BY <1>1, <1>2, <1>4, <1>5, LoadRunsKeeps
<1>6. CASE page' = shown /\ End(q)
  <2>1. WaitsAfter(q, None)
    BY <1>1, <1>2, <1>6, WaitsBeside DEF ConsoleInv, WaitsAfter, WillArrive
  <2>2. PanelKept /\ Issue(q, None)
    BY <1>2, <1>6 DEF PanelKept, End
  <2> QED BY <1>1, <1>2, <1>4, <1>6, <2>1, <2>2, PanelKeeps
<1> QED BY <1>3, <1>5, <1>6

LEMMA DeliverRunsKeeps ==
  ASSUME ConsoleInv, NEW q \in Slots, DeliverRuns(q)
  PROVE  ConsoleInv'
<1> DEFINE answer == fetches[q].answer
           selected == Selection(answer.runs)
           shown == [page EXCEPT !.runs = answer.runs, !.list = "rows", !.selected = selected]
<1>1. /\ page \in Page /\ presses \in 0..MaxPresses /\ Recorded(page.feedback)
  BY DEF ConsoleInv, Types, TypeOK, RecordedInv
<1>2. fetches[q].what = "runs" /\ answer \in Answer /\ answer.runs \in Seq(Runs)
  BY ArrivedFetch DEF DeliverRuns, Answer
<1>3. selected \in Runs \cup {None}
  <2>1. \A r \in ToSet(answer.runs) : r \in Runs
    BY <1>2 DEF ToSet
  <2>2. answer.runs # << >> => Head(answer.runs) \in Runs
    BY <1>2, HeadTailProperties
  <2> QED BY <2>1, <2>2 DEF Selection
<1> HIDE DEF selected
<1>4. /\ shown \in Page /\ shown.feedback = page.feedback /\ shown.list = "rows"
      /\ shown.selected = selected /\ shown.demo = page.demo
  BY <1>1, <1>2, <1>3 DEF Page
<1>5. UNCHANGED <<stored, record, presses, lost>>
  BY DEF DeliverRuns
<1>6. \/ page' = [page EXCEPT !.list = "message"] /\ End(q)
      \/ selected = None /\ RenderReviewEmpty(q, shown)
      \/ selected # None /\ LoadReview(q, selected, shown)
  BY DEF DeliverRuns, selected
<1> HIDE DEF shown
<1>7. ~lost /\ page.demo = "running" => UnderWayBeside(q, "demo")
  BY <1>2, WaitsBeside DEF ConsoleInv
<1>8. CASE page' = [page EXCEPT !.list = "message"] /\ End(q)
  <2>1. /\ page' \in Page /\ page'.list = "message" /\ page'.detail = page.detail
        /\ page'.feedback = page.feedback /\ page'.demo = page.demo
    BY <1>1, <1>8 DEF Page
  <2>2. WaitsAfter(q, None)
    BY <1>2, <2>1, WaitsBeside DEF ConsoleInv, WaitsAfter, WillArrive
  <2>3. PanelKept /\ Issue(q, None)
    BY <1>8, <2>1 DEF PanelKept, End
  <2> QED BY <1>1, <1>5, <2>1, <2>2, <2>3, PanelKeeps
<1>9. CASE selected = None /\ RenderReviewEmpty(q, shown)
  BY <1>1, <1>4, <1>5, <1>7, <1>9, EmptyKeeps
<1>10. CASE selected # None /\ LoadReview(q, selected, shown)
  BY <1>1, <1>3, <1>4, <1>5, <1>7, <1>10, LoadReviewKeeps
<1> QED BY <1>6, <1>8, <1>9, <1>10

LEMMA DeliverDemoKeeps ==
  ASSUME ConsoleInv, NEW q \in Slots, DeliverDemo(q)
  PROVE  ConsoleInv'
<1> DEFINE answer == fetches[q].answer
           shown == [page EXCEPT !.demo = "ready", !.selected = answer.run]
<1>1. /\ page \in Page /\ presses \in 0..MaxPresses /\ Recorded(page.feedback)
  BY DEF ConsoleInv, Types, TypeOK, RecordedInv
<1>2. fetches[q].what = "demo" /\ answer.run \in Runs \cup {None}
  BY ArrivedFetch DEF DeliverDemo, Answer
<1>3. /\ shown \in Page /\ shown.feedback = page.feedback /\ shown.detail = page.detail
      /\ shown.demo = "ready"
  BY <1>1, <1>2 DEF Page
<1>4. LoadRuns(q, shown) \/ (page' = [page EXCEPT !.demo = "ready"] /\ End(q))
  BY DEF DeliverDemo
<1>5. UNCHANGED <<stored, record, presses, lost>>
  BY DEF DeliverDemo
<1> HIDE DEF shown
<1>6. CASE LoadRuns(q, shown)
  BY <1>1, <1>2, <1>3, <1>5, <1>6, LoadRunsKeeps
<1>7. CASE page' = [page EXCEPT !.demo = "ready"] /\ End(q)
  <2>1. /\ page' \in Page /\ page'.list = page.list /\ page'.detail = page.detail
        /\ page'.feedback = page.feedback /\ page'.selected = page.selected
        /\ page'.demo = "ready"
    BY <1>1, <1>7 DEF Page
  <2>2. WaitsAfter(q, None)
    BY <1>2, <2>1, WaitsBeside DEF ConsoleInv, WaitsAfter, WillArrive
  <2>3. PanelKept /\ Issue(q, None)
    BY <1>7, <2>1 DEF PanelKept, End
  <2> QED BY <1>1, <1>5, <2>1, <2>2, <2>3, PanelKeeps
<1> QED BY <1>4, <1>6, <1>7

LEMMA DeliverDecisionKeeps ==
  ASSUME ConsoleInv, NEW q \in Slots, DeliverDecision(q)
  PROVE  ConsoleInv'
<1> DEFINE f == fetches[q]
           failure == [approval |-> f.approval, kind |-> "error"]
           success == [approval |-> f.approval, kind |-> "success"]
           shown == [page EXCEPT !.feedback = success]
<1>1. /\ TypeOK /\ page \in Page /\ presses \in 0..MaxPresses
      /\ page.selected \in Runs \cup {None}
  BY DEF ConsoleInv, Types, TypeOK, Page
<1>2. f # None /\ f.what = "decision" /\ f.answer # None /\ f.approval \in Approvals
  BY ArrivedFetch DEF DeliverDecision, FetchInHand
<1>3. /\ failure \in Feedback /\ failure.kind = "error"
      /\ success \in Feedback /\ success.kind = "success" /\ success.approval = f.approval
  BY <1>2 DEF Feedback
<1>4. \/ page' = InPlace(page, failure) /\ End(q)
      \/ f.answer.ok /\ page.selected = None /\ page' = shown /\ End(q)
      \/ f.answer.ok /\ page.selected # None /\ LoadReview(q, page.selected, shown)
  BY DEF DeliverDecision
<1>5. UNCHANGED <<stored, record, presses, lost>>
  BY DEF DeliverDecision
<1> HIDE DEF failure, success
<1>6. /\ shown \in Page /\ shown.feedback = success /\ shown.detail = page.detail
      /\ shown.list = page.list /\ shown.selected = page.selected /\ shown.demo = page.demo
  BY <1>1, <1>3 DEF Page
<1> HIDE DEF shown
<1>7. f.answer.ok => Recorded(success)
  BY <1>2, <1>3 DEF ConsoleInv, RecordedInv, Recorded
<1>8. CASE page' = InPlace(page, failure) /\ End(q)
  <2>1. /\ page' \in Page /\ page'.list = page.list /\ page'.selected = page.selected
        /\ page'.demo = page.demo /\ page'.feedback = failure /\ PanelKept
    BY <1>1, <1>3, <1>8, InPlaceFields
  <2>2. WaitsAfter(q, None)
    BY <1>2, <2>1, WaitsBeside DEF ConsoleInv, WaitsAfter, WillArrive, PanelKept
  <2>3. Recorded(page'.feedback) /\ Issue(q, None)
    BY <1>3, <1>8, <2>1 DEF Recorded, End
  <2> QED BY <1>1, <1>3, <1>5, <2>1, <2>2, <2>3, PanelKeeps
<1>9. CASE f.answer.ok /\ page.selected = None /\ page' = shown /\ End(q)
  <2>1. WaitsAfter(q, None)
    BY <1>2, <1>6, <1>9, WaitsBeside DEF ConsoleInv, WaitsAfter, WillArrive
  <2>2. PanelKept /\ Issue(q, None) /\ Recorded(page'.feedback)
    BY <1>6, <1>7, <1>9 DEF PanelKept, End
  <2> QED BY <1>1, <1>5, <1>6, <1>9, <2>1, <2>2, PanelKeeps
<1>10. CASE f.answer.ok /\ page.selected # None /\ LoadReview(q, page.selected, shown)
  <2>1. ~lost => /\ shown.list = "loading" => UnderWayBeside(q, "runs")
                 /\ shown.demo = "running" => UnderWayBeside(q, "demo")
    BY <1>2, <1>6, WaitsBeside DEF ConsoleInv
  <2> QED BY <1>1, <1>5, <1>6, <1>7, <1>10, <2>1, LoadReviewKeeps
<1> QED BY <1>4, <1>8, <1>9, <1>10

LEMMA DeliverLifecycleKeeps ==
  ASSUME ConsoleInv, NEW q \in Slots, DeliverLifecycle(q)
  PROVE  ConsoleInv'
<1> DEFINE run == fetches[q].run
           plain == Fetching("review", run, None)
           f == [plain EXCEPT !.reload = TRUE]
           d == [Blank EXCEPT !.kind = "loading", !.run = run, !.reload = TRUE]
<1>1. /\ page \in Page /\ presses \in 0..MaxPresses /\ Recorded(page.feedback)
  BY DEF ConsoleInv, Types, TypeOK, RecordedInv
<1>2. fetches[q].what = "lifecycle" /\ run \in Runs
  BY ArrivedFetch DEF DeliverLifecycle, FetchInHand
<1>3. UNCHANGED <<stored, record, presses, lost>>
  BY DEF DeliverLifecycle
<1>4. \/ page' = [page EXCEPT !.detail = d] /\ Issue(q, f)
      \/ page' = page /\ End(q)
  BY DEF DeliverLifecycle
<1>5. CASE page' = [page EXCEPT !.detail = d] /\ Issue(q, f)
  <2>1. d \in Detail /\ d.kind = "loading" /\ d.run = run /\ d.newest /\ d.reload
    BY <1>2 DEF Blank, Detail, Status
  <2>p. plain = Fetching("review", run, None)
    OBVIOUS
  <2> HIDE DEF d, plain, run
  <2>2. /\ plain \in Fetch /\ plain # None /\ plain.what = "review" /\ plain.run = run
        /\ plain.newest /\ plain.answer = None
    BY <1>2, <2>p, NewFetch
  <2>3. /\ f \in Fetch /\ f.what = "review" /\ f.run = run /\ f.newest /\ f.answer = None
        /\ f.reload
    BY <2>2 DEF Fetch
  <2> HIDE DEF f
  <2>4. ReviewFetch(f, run) /\ LoadingPanel(d, f)
    BY <2>1, <2>3, NoneIsNoMessage DEF ReviewFetch, LoadingPanel
  <2>5. ~lost => /\ page.list = "loading" => UnderWayBeside(q, "runs")
                 /\ page.demo = "running" => UnderWayBeside(q, "demo")
    BY <1>2, WaitsBeside DEF ConsoleInv
  <2> QED BY <1>1, <1>2, <1>3, <1>5, <2>3, <2>4, <2>5, LoadKeeps
<1>6. CASE page' = page /\ End(q)
  BY <1>2, <1>3, <1>6, EndKeeps
<1> QED BY <1>4, <1>5, <1>6

-----------------------------------------------------------------------------
LEMMA ConsoleInit == Init => ConsoleInv
<1> SUFFICES ASSUME Init PROVE ConsoleInv
  OBVIOUS
<1> DEFINE f == Fetching("scenarios", None, None)
<1>1. PICK q \in Slots : fetches = [s \in Slots |-> IF s = q THEN f ELSE None]
  BY DEF Init
<1>f. f = Fetching("scenarios", None, None)
  OBVIOUS
<1> HIDE DEF f
<1>2. f \in Fetch /\ f.what = "scenarios" /\ ~f.newest /\ f.answer = None
  BY <1>f, NewFetch
<1>3. FetchInHand(f)
  BY <1>2 DEF FetchInHand
<1>4. /\ Blank \in Detail /\ Blank.kind = "empty" /\ Blank.rendered = None /\ Blank.inPlace = None
  BY DEF Blank, Detail, Status
<1>5. /\ page \in Page /\ page.list = "message" /\ page.feedback = None /\ page.detail = Blank
      /\ page.demo = "hidden"
  BY <1>4 DEF Init, Page
<1>6. Types
  <2>1. stored \in Seq(Runs) /\ record \in [Approvals -> {"pending", "decided"}]
    BY DEF Init
  <2>2. presses \in 0..MaxPresses
    <3>1. presses = 0
      BY DEF Init
    <3>2. MaxPresses \in Nat
      BY ConsoleAssumption
    <3> QED BY <3>1, <3>2
  <2>4. lost \in BOOLEAN
    BY DEF Init
  <2>3. fetches \in [Slots -> Fetch \cup {None}]
    BY <1>1, <1>2
  <2> QED BY <1>1, <1>3, <1>4, <1>5, <2>1, <2>2, <2>3, <2>4 DEF Types, TypeOK, PanelInHand
<1>7. WaitsForFetch /\ SelectionInv /\ NoticesInv /\ AnsweredLaterInv
  BY <1>4, <1>5 DEF WaitsForFetch, SelectionInv, NoticesInv, AnsweredLaterInv
<1>8. RecordedInv
  BY <1>1, <1>2, <1>5 DEF RecordedInv, Recorded
<1> QED BY <1>6, <1>7, <1>8 DEF ConsoleInv

LEMMA ConsoleStep == ConsoleInv /\ [Next]_vars => ConsoleInv'
<1> SUFFICES ASSUME ConsoleInv, [Next]_vars PROVE ConsoleInv'
  OBVIOUS
<1>1. ASSUME NEW q \in Slots, Deliver(q) PROVE ConsoleInv'
  BY <1>1, DeliverScenariosKeeps, DeliverRunsKeeps, DeliverReviewKeeps, DeliverDemoKeeps,
     DeliverDecisionKeeps, DeliverLifecycleKeeps DEF Deliver
<1>2. CASE UNCHANGED vars
  <2>1. /\ UNCHANGED <<page, fetches, lost, record>>
        /\ stored' \in Seq(Runs) /\ presses' \in 0..MaxPresses /\ TypeOK
    BY <1>2 DEF vars, ConsoleInv, Types, TypeOK
  <2> QED BY <2>1, RecordStays, ElsewhereKeeps
<1> QED BY <1>1, <1>2, OperatorKeeps, ServeKeeps, LoseKeeps, OutsideKeeps, ClearKeeps DEF Next

\* The invariant of the page, whatever arrives when.
THEOREM ConsoleInvariant == Spec => []ConsoleInv
BY ConsoleInit, ConsoleStep, PTL DEF Spec

(***************************************************************************)
(* What the script keeps and shows has its type, for any number of runs and *)
(* of fetches under way.                                                    *)
(***************************************************************************)
THEOREM ConsoleTypes == Spec => []TypeOK
<1>1. ConsoleInv => TypeOK
  BY DEF ConsoleInv, Types
<1> QED BY <1>1, ConsoleInvariant, PTL

(***************************************************************************)
(* In whatever order answers arrive and buttons are pressed, the panel that *)
(* the latest load filled is that of the selected run.                      *)
(***************************************************************************)
THEOREM PanelFollowsSelection == Spec => []DetailFollowsSelection
<1>1. ConsoleInv => DetailFollowsSelection
  BY DEF ConsoleInv, SelectionInv, Governs, DetailFollowsSelection, UpToDate
<1> QED BY <1>1, ConsoleInvariant, PTL

(***************************************************************************)
(* What is said about a decision is said beside its approval, and what is   *)
(* said to be recorded is shown as decided.                                 *)
(***************************************************************************)
THEOREM NoticesFit == Spec => []NoticesFitPanel
<1>1. ConsoleInv => NoticesFitPanel
  <2> SUFFICES ASSUME ConsoleInv, page.detail.kind = "review",
                      ApprovalOf[page.detail.run] # None,
                      NEW n \in {page.detail.rendered, page.detail.inPlace} \ {None}
               PROVE  /\ n.kind # "error" => n.approval = ApprovalOf[page.detail.run]
                      /\ n.kind = "success" /\ UpToDate => page.detail.status = "decided"
    BY DEF NoticesFitPanel
  <2>1. n.kind # "error" => n.approval = ApprovalOf[page.detail.run]
    BY DEF ConsoleInv, NoticesInv
  <2>2. ASSUME n.kind = "success", UpToDate PROVE page.detail.status = "decided"
    <3>1. n = page.detail.rendered /\ n.approval = ApprovalOf[page.detail.run]
      BY <2>2 DEF ConsoleInv, NoticesInv
    <3> QED BY <2>2, <3>1 DEF ConsoleInv, AnsweredLaterInv, SaidDecided, Governs, UpToDate
  <2> QED BY <2>1, <2>2
<1> QED BY <1>1, ConsoleInvariant, PTL

(***************************************************************************)
(* Until a fetch fails, whatever the page shows as loading or running has a *)
(* fetch under way that will end it.                                        *)
(***************************************************************************)
THEOREM PageWaits == Spec => []WaitsForFetch
<1>1. ConsoleInv => WaitsForFetch
  BY DEF ConsoleInv
<1> QED BY <1>1, ConsoleInvariant, PTL
=============================================================================
