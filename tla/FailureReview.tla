---------------------------- MODULE FailureReview ----------------------------
(***************************************************************************)
(* The failure-discovery loop: scripts/failure-review.ts over the files of   *)
(* evals/failure-discovery.  Commands generate a review batch or import      *)
(* outcome candidates into one, annotate its runs, promote reviewed runs to   *)
(* source cases and failure modes, and revise or retire modes.               *)
(*                                                                          *)
(* Every command is a process of its own that loads files, checks them, and   *)
(* writes files one after the other.  A write is atomic (writeJsonAtomic      *)
(* renames a complete file into place), a sequence of writes is not: a        *)
(* command may be stopped, or meet another command, between any two.  One     *)
(* batch is modelled; runs of other batches are further source runs.  The     *)
(* contents of a run file never change, so a run is its id.                   *)
(***************************************************************************)
EXTENDS Naturals, Sequences, FiniteSets

CONSTANTS Runs,        \* review-run:<case id> and outcome:<candidate id>
          Inputs,      \* sequences of runs a catalogue or candidate file can give
          Anchors,     \* review id and first failure, as a reviewer records them
          Anchored,    \* <<r, a>>: phase, step and evidence of a exist in run r
          Notes,       \* observation, downstream effects, independent findings
          Annotations, \* the reviews that reviewers submit
          Credentials, \* runs whose outcome bears a credential key
          Modes,       \* failure mode ids
          MaxRevision, \* bound on the revisions of a mode
          Processes,   \* command processes
          None

VARIABLES directory,  \* the batch directory exists
          manifest,   \* manifest.json
          runFiles,   \* runs/<id>.json
          reviews,    \* reviews/<id>.json
          cases,      \* failure-cases/<case id>.json
          taxonomy,   \* the entries of failure-taxonomy.json
          op,         \* what a process is about to write
          overlapped  \* which files two commands were changing at a time

batch == <<directory, manifest, runFiles, reviews>>
corpus == <<cases, taxonomy>>
vars == <<batch, corpus, op, overlapped>>

Manifest == [status : {"in_progress", "complete"}, size : Nat, runs : SUBSET Runs]

\* A case is identified by batch, run, review and first failure: not by the rest
\* of the review, and not by the mode it is promoted to.
CaseIds == Runs \X Anchors

ModeRefs == [id : Modes, revision : Nat]

Review == [run : Runs,
           disposition : {"pending", "acceptable", "failed"},
           anchor : Anchors \cup {None},
           note : Notes \cup {None},
           mode : ModeRefs \cup {None},
           followUp : {"absent", "none", "candidate", "categorized", "protect"}]

Case == [run : Runs, anchor : Anchors, note : Notes \cup {None}, mode : ModeRefs \cup {None}]

Entry == [id : Modes, revision : Nat, status : {"active", "retired"},
          cases : SUBSET CaseIds]

ASSUME ReviewAssumption ==
  /\ Inputs \subseteq Seq(Runs) \ {<<>>}
  /\ Anchored \subseteq Runs \X Anchors
  /\ Credentials \subseteq Runs
  /\ MaxRevision \in Nat
  /\ Annotations \subseteq Review
  /\ None \notin Anchors \cup Notes

ASSUME NoneIsNoArtefact == None \notin Manifest \cup ModeRefs \cup Review \cup Case \cup Entry

Generating == {"absent", "created", "next", "loaded", "review", "list"}

Changing == {"check", "write", "taxonomy"}

Steps == {"idle"} \cup Generating \cup Changing

Op == [step : Steps,
       todo : Seq(Runs),          \* runs still to be added
       loaded : Manifest \cup {None},
       snapshots : SUBSET Case,   \* cases still to be saved
       saving : Case \cup {None},  \* the one that was not found on file
       found : SUBSET Entry,      \* the taxonomy that was loaded
       entry : Entry \cup {None}] \* the entry to be appended to it

Idle == [step |-> "idle", todo |-> <<>>, loaded |-> None, snapshots |-> {},
         saving |-> None, found |-> {}, entry |-> None]

TypeOK ==
  /\ directory \in BOOLEAN
  /\ manifest \in Manifest \cup {None}
  /\ runFiles \subseteq Runs
  /\ reviews \in [Runs -> Review \cup {None}]
  /\ cases \in [CaseIds -> Case \cup {None}]
  /\ taxonomy \subseteq Entry
  /\ op \in [Processes -> Op]
  /\ overlapped \subseteq {"batch", "corpus"}

Init ==
  /\ directory = FALSE
  /\ manifest = None
  /\ runFiles = {}
  /\ reviews = [r \in Runs |-> None]
  /\ cases = [c \in CaseIds |-> None]
  /\ taxonomy = {}
  /\ op = [p \in Processes |-> Idle]
  /\ overlapped = {}

-----------------------------------------------------------------------------
\* parseFailureReviewRecord and validateReviewRecord: what a review of run r must
\* look like.  A pending review is not looked at any further.
ValidFailure(v) ==
  /\ <<v.run, v.anchor>> \in Anchored
  /\ v.followUp # "absent"
  /\ v.mode # None => v.followUp # "candidate"
  /\ v.mode = None => v.followUp \notin {"categorized", "protect"}

ValidReview(v, r) ==
  /\ v.run = r
  /\ v.disposition = "acceptable" =>
       v.anchor = None /\ v.mode = None /\ v.followUp \in {"absent", "none"}
  /\ v.disposition = "failed" => ValidFailure(v)

\* loadReviewBatch reads the manifest and every file it lists, or fails.
Loadable ==
  /\ manifest # None
  /\ \A r \in manifest.runs : r \in runFiles /\ reviews[r] # None

\* findFailureMode and latestFailureMode
Known(ref, entries) == \E e \in entries : e.id = ref.id /\ e.revision = ref.revision

Revisions(m, entries) == {e \in entries : e.id = m}

Latest(m, entries) ==
  CHOOSE e \in Revisions(m, entries) :
    \A f \in Revisions(m, entries) : f.revision <= e.revision

\* validateReviewBatch finds nothing to object to.
BatchValid ==
  /\ Loadable
  /\ manifest.status = "complete"
  /\ Cardinality(manifest.runs) = manifest.size
  /\ \A r \in manifest.runs :
       /\ reviews[r].disposition # "pending"
       /\ ValidReview(reviews[r], r)
       /\ reviews[r].mode # None => Known(reviews[r].mode, taxonomy)

\* A regression as failure-regressions.ts registers it, and
\* validateFailureRegressionRegistry: its mode revision and source cases resolve.
Regression == [mode : Modes, revision : 1..MaxRevision, cases : SUBSET CaseIds]

RegressionValid(g) ==
  /\ g.cases # {}
  /\ \E e \in taxonomy :
       /\ e.id = g.mode /\ e.revision = g.revision /\ e.status = "active"
       /\ g.cases \subseteq e.cases
  /\ \A c \in g.cases :
       /\ cases[c] # None
       /\ cases[c].mode # None =>
            cases[c].mode.id = g.mode /\ cases[c].mode.revision <= g.revision

\* reviewedSource accepts a listed run whose review is valid and failed, unless
\* its outcome bears a credential; promotedSnapshot is the case made of it.
Promotable(r) ==
  /\ r \in manifest.runs
  /\ reviews[r].disposition = "failed"
  /\ ValidReview(reviews[r], r)
  /\ r \notin Credentials

Snapshot(r, ref) ==
  [run |-> r, anchor |-> reviews[r].anchor, note |-> reviews[r].note, mode |-> ref]

CaseId(snapshot) == <<snapshot.run, snapshot.anchor>>

-----------------------------------------------------------------------------
\* generateBatch and importCandidates: createReviewBatch finds no directory of
\* that name, makes it, and saves the first manifest ...
GenerateBatch(p, input) ==
  /\ op[p] = Idle
  /\ ~directory
  /\ op' = [op EXCEPT ![p] = [Idle EXCEPT !.step = "absent", !.todo = input]]
  /\ overlapped' = IF \E q \in Processes : op[q].step \in Generating
                   THEN overlapped \cup {"batch"} ELSE overlapped
  /\ UNCHANGED <<batch, corpus>>

CreateWorkspace(p) ==
  /\ op[p].step = "absent"
  /\ directory' = TRUE
  /\ op' = [op EXCEPT ![p].step = "created"]
  /\ UNCHANGED <<manifest, runFiles, reviews, corpus, overlapped>>

SaveFirstManifest(p) ==
  /\ op[p].step = "created"
  /\ manifest' = [status |-> "in_progress", size |-> Len(op[p].todo), runs |-> {}]
  /\ op' = [op EXCEPT ![p].step = "next"]
  /\ UNCHANGED <<directory, runFiles, reviews, corpus, overlapped>>

\* ... addRunToBatch and completeReviewBatch load the manifest.
LoadManifest(p) ==
  /\ op[p].step = "next"
  /\ op' = [op EXCEPT ![p].step = "loaded", ![p].loaded = manifest]
  /\ UNCHANGED <<batch, corpus, overlapped>>

\* Faulty variant of Addable: a run may be added again.
AddableAgain(r, loaded) == loaded.status = "in_progress"

\* addRunToBatch refuses a complete batch and a run that is listed, and saves run,
\* review and manifest, in this order.
Addable(r, loaded) == loaded.status = "in_progress" /\ r \notin loaded.runs

\* Faulty variant of SaveRunRecord: the run is listed before its files are saved.
SaveRunRecordLate(p) ==
  /\ op[p].step = "loaded"
  /\ op[p].todo # <<>>
  /\ Addable(Head(op[p].todo), op[p].loaded)
  /\ manifest' = [op[p].loaded EXCEPT !.runs = @ \cup {Head(op[p].todo)}]
  /\ runFiles' = runFiles \cup {Head(op[p].todo)}
  /\ op' = [op EXCEPT ![p].step = "review"]
  /\ UNCHANGED <<directory, reviews, corpus, overlapped>>

SaveRunRecord(p) ==
  /\ op[p].step = "loaded"
  /\ op[p].todo # <<>>
  /\ Addable(Head(op[p].todo), op[p].loaded)
  /\ runFiles' = runFiles \cup {Head(op[p].todo)}
  /\ op' = [op EXCEPT ![p].step = "review"]
  /\ UNCHANGED <<directory, manifest, reviews, corpus, overlapped>>

PendingReview(r) ==
  [run |-> r, disposition |-> "pending", anchor |-> None, note |-> None, mode |-> None,
   followUp |-> "absent"]

SaveReviewRecord(p) ==
  /\ op[p].step = "review"
  /\ LET r == Head(op[p].todo) IN reviews' = [reviews EXCEPT ![r] = PendingReview(r)]
  /\ op' = [op EXCEPT ![p].step = "list"]
  /\ UNCHANGED <<directory, manifest, runFiles, corpus, overlapped>>

SaveManifest(p) ==
  /\ op[p].step = "list"
  /\ manifest' = [op[p].loaded EXCEPT !.runs = @ \cup {Head(op[p].todo)}]
  /\ op' = [op EXCEPT ![p].step = "next", ![p].todo = Tail(op[p].todo), ![p].loaded = None]
  /\ UNCHANGED <<directory, runFiles, reviews, corpus, overlapped>>

\* completeReviewBatch requires as many runs as were asked for.
CompleteBatch(p) ==
  /\ op[p].step = "loaded"
  /\ op[p].todo = <<>>
  /\ Cardinality(op[p].loaded.runs) = op[p].loaded.size
  /\ manifest' = [op[p].loaded EXCEPT !.status = "complete"]
  /\ op' = [op EXCEPT ![p] = Idle]
  /\ UNCHANGED <<directory, runFiles, reviews, corpus, overlapped>>

\* annotateRun reads files that do not change once the run is listed and makes
\* one write.  The batch need not be complete.
AnnotateRun(r, v) ==
  /\ v \in Annotations
  /\ Loadable
  /\ r \in manifest.runs
  /\ ValidReview(v, r)
  /\ reviews' = [reviews EXCEPT ![r] = v]
  /\ UNCHANGED <<directory, manifest, runFiles, corpus, op, overlapped>>

-----------------------------------------------------------------------------
\* A command has loaded what it needs and will save `snapshots`, then, if there
\* is one, `entry` in the taxonomy it loaded.  BOUND: when two
\* commands have overlapped, no further one changes the corpus.
StartChange(p, snapshots, entry) ==
  /\ op[p] = Idle
  /\ overlapped = {}
  /\ op' = [op EXCEPT ![p] = [Idle EXCEPT !.step = IF snapshots = {} THEN "taxonomy" ELSE "check",
                                          !.snapshots = snapshots, !.found = taxonomy,
                                          !.entry = entry]]
  /\ overlapped' = IF \E q \in Processes : op[q].step \in Changing
                   THEN overlapped \cup {"corpus"} ELSE overlapped
  /\ UNCHANGED <<batch, corpus>>

\* At least two different members.
Several(S) == \E x, y \in S : x # y

\* promote --candidate
PromoteCandidateObservation(p, r) ==
  /\ Loadable
  /\ Promotable(r)
  /\ StartChange(p, {Snapshot(r, None)}, None)

\* promote: the mode is new, and no review names another one.
PromoteFailureMode(p, sources, m) ==
  LET snapshots == {Snapshot(r, [id |-> m, revision |-> 1]) : r \in sources}
  IN  /\ Loadable
      /\ Several(sources)
      /\ Revisions(m, taxonomy) = {}
      /\ \A r \in sources :
           /\ Promotable(r)
           /\ reviews[r].mode # None => reviews[r].mode.id = m
      /\ StartChange(p, snapshots, [id |-> m, revision |-> 1, status |-> "active",
                                    cases |-> {CaseId(s) : s \in snapshots}])

\* Faulty variant of ReviseFailureMode: the sources may be of another mode.
ReviseFailureModeAny(p, m, sources) ==
  LET latest == Latest(m, taxonomy)
  IN  /\ Revisions(m, taxonomy) # {}
      /\ latest.revision < MaxRevision
      /\ Several(sources)
      /\ \A c \in sources : cases[c] # None
      /\ StartChange(p, {}, [id |-> m, revision |-> latest.revision + 1, status |-> "active",
                             cases |-> sources])

\* revise-mode: the sources are on file and of no other mode.
ReviseFailureMode(p, m, sources) ==
  LET latest == Latest(m, taxonomy)
  IN  /\ Revisions(m, taxonomy) # {}
      /\ latest.revision < MaxRevision
      /\ Several(sources)
      /\ \A c \in sources :
           /\ cases[c] # None
           /\ cases[c].mode # None => cases[c].mode.id = m
      /\ StartChange(p, {}, [id |-> m, revision |-> latest.revision + 1, status |-> "active",
                             cases |-> sources])

\* retire-mode
RetireFailureMode(p, m) ==
  LET latest == Latest(m, taxonomy)
  IN  /\ Revisions(m, taxonomy) # {}
      /\ latest.revision < MaxRevision
      /\ StartChange(p, {}, [latest EXCEPT !.revision = @ + 1, !.status = "retired"])

\* savePromotedCase looks whether the case is on file.  If it is, it must be
\* equal, or the command fails and what it saved before stays ...
Saved(p, s) ==
  LET left == op[p].snapshots \ {s}
  IN  IF left = {} /\ op[p].entry = None THEN Idle
      ELSE [op[p] EXCEPT !.step = IF left = {} THEN "taxonomy" ELSE "check",
                         !.snapshots = left, !.saving = None]

CheckCase(p, s) ==
  /\ op[p].step = "check"
  /\ s \in op[p].snapshots
  /\ op' = [op EXCEPT ![p] =
              CASE cases[CaseId(s)] = None -> [op[p] EXCEPT !.step = "write", !.saving = s]
                [] cases[CaseId(s)] = s -> Saved(p, s)
                [] OTHER -> Idle]
  /\ UNCHANGED <<batch, corpus, overlapped>>

\* ... and otherwise it is written.
WriteCase(p) ==
  /\ op[p].step = "write"
  /\ LET s == op[p].saving
     IN  /\ cases' = [cases EXCEPT ![CaseId(s)] = s]
         /\ op' = [op EXCEPT ![p] = Saved(p, s)]
  /\ UNCHANGED <<batch, taxonomy, overlapped>>

\* Faulty variant of SaveTaxonomy: a new revision replaces the mode's others.
SaveTaxonomyInPlace(p) ==
  /\ op[p].step = "taxonomy"
  /\ taxonomy' = {e \in op[p].found : e.id # op[p].entry.id} \cup {op[p].entry}
  /\ op' = [op EXCEPT ![p] = Idle]
  /\ UNCHANGED <<batch, cases, overlapped>>

\* The taxonomy that was loaded, with the entry appended, replaces the file.
SaveTaxonomy(p) ==
  /\ op[p].step = "taxonomy"
  /\ taxonomy' = op[p].found \cup {op[p].entry}
  /\ op' = [op EXCEPT ![p] = Idle]
  /\ UNCHANGED <<batch, cases, overlapped>>

-----------------------------------------------------------------------------
\* A command that is killed, or fails on a run it may not add or a count that is
\* off, leaves the files it wrote.
Stop(p) ==
  /\ op[p] # Idle
  /\ op' = [op EXCEPT ![p] = Idle]
  /\ UNCHANGED <<batch, corpus, overlapped>>

Generate(p) ==
  \/ \E input \in Inputs : GenerateBatch(p, input)
  \/ CreateWorkspace(p)
  \/ SaveFirstManifest(p)
  \/ LoadManifest(p)
  \/ SaveRunRecord(p)
  \/ SaveReviewRecord(p)
  \/ SaveManifest(p)
  \/ CompleteBatch(p)

ChangeCorpus(p) ==
  \/ \E r \in Runs : PromoteCandidateObservation(p, r)
  \/ \E sources \in SUBSET Runs, m \in Modes : PromoteFailureMode(p, sources, m)
  \/ \E sources \in SUBSET CaseIds, m \in Modes : ReviseFailureMode(p, m, sources)
  \/ \E m \in Modes : RetireFailureMode(p, m)
  \/ \E s \in op[p].snapshots : CheckCase(p, s)
  \/ WriteCase(p)
  \/ SaveTaxonomy(p)

Annotate == \E r \in Runs, v \in Annotations : AnnotateRun(r, v)

Next ==
  \/ Annotate
  \/ \E p \in Processes : Generate(p) \/ ChangeCorpus(p) \/ Stop(p)

Spec == Init /\ [][Next]_vars

-----------------------------------------------------------------------------
\* Wherever a generating command stopped, and whatever else ran, the batch can be
\* loaded: the manifest lists only runs whose run file and review file were saved
\* before, and it is complete only with as many runs as were asked for
\* (addRunToBatch and completeReviewBatch).
ManifestBacked ==
  manifest # None =>
    /\ Loadable
    /\ manifest.status = "complete" => Cardinality(manifest.runs) = manifest.size

\* As long as no two commands change the corpus at a time, and wherever one of them
\* stopped, the taxonomy is supported by the case files (promoteFailureMode,
\* reviseFailureMode, retireFailureMode): a mode's revisions count from one, every
\* revision has two source cases, and a regression can be registered for an active
\* one with all of them: they are on file, and none is of another mode.
ModesSupported ==
  "corpus" \notin overlapped =>
    \A e \in taxonomy :
      /\ Several(e.cases)
      /\ \A n \in 1..e.revision : Known([id |-> e.id, revision |-> n], taxonomy)
      /\ e.status = "active" =>
           RegressionValid([mode |-> e.id, revision |-> e.revision, cases |-> e.cases])

\* As long as no two commands change the same files at a time, later work does not
\* invalidate earlier work: a regression the registry accepts is accepted for good,
\* whatever is revised or retired, and a batch that validates does so until one of
\* its runs is annotated again (validateFailureRegressionRegistry,
\* validateReviewBatch).
HistoryStaysValid ==
  [][overlapped' = {} =>
       /\ \A g \in Regression : RegressionValid(g) => RegressionValid(g)'
       /\ BatchValid /\ reviews' = reviews => BatchValid']_vars

\* What a reviewer recorded is changed by a reviewer only: the generating command,
\* which may still be adding runs, does not reset a review to pending, even when
\* the candidates it imports name a run twice.  Two commands that generate the same
\* batch at a time may (addRunToBatch).
AnnotationsKept ==
  [][\A r \in Runs :
       /\ "batch" \notin overlapped'
       /\ reviews[r] \notin {None, PendingReview(r)}
       /\ reviews[r]' # reviews[r]
       => Annotate]_vars
=============================================================================
