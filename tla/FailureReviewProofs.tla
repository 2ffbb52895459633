------------------------- MODULE FailureReviewProofs -------------------------
(***************************************************************************)
(* Theorems about FailureReview, for any runs, first failures, annotations, *)
(* modes, revisions and processes.                                          *)
(***************************************************************************)
EXTENDS FailureReview, WellFoundedInduction, TLAPS

\* Revisions count from one, and revise-mode and retire-mode are bounded.
RevisionRange == 1..(MaxRevision + 1)

\* What a command that writes a batch, and one that changes the corpus, has in hand.
BatchInHand(o) ==
  /\ o.step \in {"loaded", "review", "list"} => o.loaded # None
  /\ o.step \in {"review", "list"} => o.todo # <<>> /\ o.loaded.status = "in_progress"
  /\ o.step \in {"idle"} \cup Changing => o.loaded = None

CorpusInHand(o) ==
  /\ o.step = "write" => o.saving \in o.snapshots
  /\ o.step = "taxonomy" => o.snapshots = {} /\ o.entry # None
  /\ \A s \in o.snapshots :
       /\ CaseId(s) \in CaseIds
       /\ s.mode # None =>
            s.mode.revision = 1 /\ o.entry # None /\ s.mode.id = o.entry.id
  /\ \A e \in o.found : e.revision \in RevisionRange
  /\ o.entry # None => o.entry.revision \in RevisionRange

InHand(o) == o \in Op /\ BatchInHand(o) /\ CorpusInHand(o)

Types ==
  /\ TypeOK
  /\ \A p \in Processes : InHand(op[p])
  /\ \A p \in Processes :
       op[p].step \in {"next", "loaded", "review", "list"} => manifest # None
  /\ \A e \in taxonomy : e.revision \in RevisionRange

\* Whatever a manifest lists, the one on file or one that a process has loaded and
\* will save again, is among the run files and the reviews.
Backed(o, files, revs) ==
  /\ o.loaded # None => \A r \in o.loaded.runs : r \in files /\ revs[r] # None
  /\ o.step \in {"review", "list"} => Head(o.todo) \in files
  /\ o.step = "list" => revs[Head(o.todo)] # None

FilesBack == ManifestBacked /\ \A p \in Processes : Backed(op[p], runFiles, reviews)

\* A generator that is alone has in hand what is on file, and a review is touched
\* by nobody before its run is listed.
DirectoryMade ==
  /\ manifest # None => directory
  /\ \A p \in Processes : op[p].step \in Generating \ {"absent"} => directory

Alone(p, steps) == \A q \in Processes : op[q].step \in steps => q = p

AloneInHand(p) ==
  op[p].step \in Generating =>
    /\ Alone(p, Generating)
    /\ op[p].step \in {"absent", "created"} => manifest = None
    /\ op[p].step \in {"loaded", "review", "list"} => op[p].loaded = manifest
    /\ op[p].step \in {"review", "list"} => Head(op[p].todo) \notin manifest.runs

UnlistedUntouched ==
  \A r \in Runs :
    manifest = None \/ r \notin manifest.runs => reviews[r] \in {None, PendingReview(r)}

OneGenerator ==
  "batch" \notin overlapped =>
    (\A p \in Processes : AloneInHand(p)) /\ UnlistedUntouched

\* Case files are named by what they hold, and a promoted one by a first revision.
CasesNamed ==
  \A c \in CaseIds :
    cases[c] # None =>
      /\ CaseId(cases[c]) = c
      /\ cases[c].mode # None => cases[c].mode.revision = 1

\* The case is on file and of no mode but m.
Fits(c, m, files) == files[c] # None /\ (files[c].mode # None => files[c].mode.id = m)

\* An entry that may join the taxonomy: its earlier revisions are in it, and its
\* cases are on file except for some that are still to be saved.
Supported(e, unsaved, files, entries) ==
  /\ Several(e.cases)
  /\ \A n \in 1..(e.revision - 1) : Known([id |-> e.id, revision |-> n], entries)
  /\ e.status = "active" =>
       \A c \in e.cases :
         Fits(c, e.id, files) \/ \E s \in unsaved : CaseId(s) = c /\ s.mode # None

TaxonomySupported == \A e \in taxonomy : Supported(e, {}, cases, taxonomy)

ChangeInHand(p) ==
  op[p].step \in Changing =>
    /\ Alone(p, Changing)
    /\ op[p].found = taxonomy
    /\ op[p].step = "write" => cases[CaseId(op[p].saving)] = None
    /\ op[p].entry # None => Supported(op[p].entry, op[p].snapshots, cases, taxonomy)

OneChange ==
  "corpus" \notin overlapped => (\A p \in Processes : ChangeInHand(p)) /\ TaxonomySupported

ReviewInv == Types /\ FilesBack /\ DirectoryMade /\ OneGenerator /\ CasesNamed /\ OneChange

-----------------------------------------------------------------------------
(***************************************************************************)
(* Lemmas about data.                                                       *)
(***************************************************************************)

\* A nonempty bounded set of numbers has a largest member.
LEMMA LargestExists ==
  ASSUME NEW K \in Nat, NEW S, S \subseteq 0..K, S # {}
  PROVE  \E x \in S : \A y \in S : y <= x
<1> DEFINE R == OpToRel(<, Nat)
           T == {n \in 0..K : K - n \in S}
<1>1. T \subseteq Nat /\ T # {}
  <2>1. PICK x : x \in S
    OBVIOUS
  <2>2. x \in 0..K /\ K - x \in 0..K /\ K - (K - x) = x
    BY <2>1
  <2>3. K - x \in T
    BY <2>1, <2>2, Zenon
  <2>4. T \subseteq 0..K /\ 0..K \subseteq Nat
    OBVIOUS
  <2> QED BY <2>3, <2>4, Zenon
<1>2. IsWellFoundedOn(R, Nat)
  BY NatLessThanWellFounded
<1> HIDE DEF T
<1>3. PICK n \in T : \A k \in T : <<k, n>> \notin R
  BY <1>1, <1>2, WFMin, Zenon
<1>4. \A k \in T : ~(k < n)
  <2> TAKE k \in T
  <2>1. k \in Nat /\ n \in Nat
    BY <1>1
  <2> QED BY <1>3, <2>1, Zenon DEF OpToRel
<1>5. K - n \in S /\ n \in 0..K
  BY <1>3 DEF T
<1>6. ASSUME NEW y \in S PROVE y <= K - n
  <2>1. y \in 0..K
    OBVIOUS
  <2>2. K - y \in T
    <3>1. K - y \in 0..K /\ K - (K - y) = y
      BY <2>1
    <3> QED BY <3>1 DEF T
  <2>3. ~(K - y < n)
    BY <2>2, <1>4
  <2> QED BY <2>1, <2>3, <1>5
<1> QED BY <1>5, <1>6

\* latestFailureMode finds the newest of a known mode's revisions.
LEMMA LatestIsNewest ==
  ASSUME Types, NEW m, Revisions(m, taxonomy) # {}
  PROVE  /\ Latest(m, taxonomy) \in Revisions(m, taxonomy)
         /\ \A f \in Revisions(m, taxonomy) : f.revision <= Latest(m, taxonomy).revision
<1> DEFINE S == {e.revision : e \in Revisions(m, taxonomy)}
<1>1. MaxRevision + 1 \in Nat /\ S \subseteq 0..(MaxRevision + 1) /\ S # {}
  BY ReviewAssumption DEF Types, RevisionRange, Revisions
<1>2. \E x \in S : \A y \in S : y <= x
  <2> HIDE DEF S
  <2> QED BY <1>1, LargestExists
<1>3. \E e \in Revisions(m, taxonomy) : \A f \in Revisions(m, taxonomy) : f.revision <= e.revision
  BY <1>2
<1> QED BY <1>3, Zenon DEF Latest

\* The process that takes a step and the others.
LEMMA OpUpdate ==
  ASSUME Types, NEW p \in Processes, NEW x, InHand(x), op' = [op EXCEPT ![p] = x]
  PROVE  /\ op' \in [Processes -> Op]
         /\ op'[p] = x
         /\ \A q \in Processes : q # p => op'[q] = op[q]
         /\ \A q \in Processes : InHand(op'[q])
<1>1. op \in [Processes -> Op] /\ x \in Op
  BY DEF Types, TypeOK, InHand
<1>2. op'[p] = x /\ \A q \in Processes : q # p => op'[q] = op[q]
  BY <1>1
<1> QED BY <1>1, <1>2 DEF Types

LEMMA IdleInHand == InHand(Idle)
<1>1. Idle \in Op
  BY DEF Idle, Op, Steps
<1> QED BY <1>1 DEF InHand, BatchInHand, CorpusInHand, Idle, Changing

\* Nothing that is on file is None.
LEMMA NotNone ==
  /\ None \notin Manifest /\ None \notin ModeRefs /\ None \notin Review
  /\ None \notin Case /\ None \notin Entry /\ None \notin Anchors
BY NoneIsNoArtefact, ReviewAssumption

\* A source that is accepted for promotion makes a well-formed case.
LEMMA SnapshotTypes ==
  ASSUME TypeOK, Loadable, NEW r, Promotable(r), NEW ref \in ModeRefs \cup {None}
  PROVE  /\ Snapshot(r, ref) \in Case
         /\ CaseId(Snapshot(r, ref)) \in CaseIds
         /\ Snapshot(r, ref).mode = ref
<1>1. manifest \in Manifest /\ r \in Runs /\ reviews[r] \in Review
  BY NotNone DEF TypeOK, Loadable, Promotable, Manifest
<1>2. <<reviews[r].run, reviews[r].anchor>> \in Anchored /\ reviews[r].run = r
  BY DEF Promotable, ValidReview, ValidFailure
<1>3. reviews[r].anchor \in Anchors /\ reviews[r].note \in Notes \cup {None}
  BY <1>1, <1>2, ReviewAssumption DEF Review
<1> QED BY <1>1, <1>3 DEF Snapshot, Case, CaseId, CaseIds

-----------------------------------------------------------------------------
(***************************************************************************)
(* Files and what processes have in hand keep their types.                  *)
(***************************************************************************)
LEMMA GenerateTypes ==
  ASSUME Types, NEW p \in Processes, Generate(p)
  PROVE  /\ \E x : InHand(x) /\ op' = [op EXCEPT ![p] = x]
         /\ directory' \in BOOLEAN /\ manifest' \in Manifest \cup {None}
         /\ runFiles' \subseteq Runs /\ reviews' \in [Runs -> Review \cup {None}]
         /\ overlapped' \subseteq {"batch", "corpus"}
         /\ UNCHANGED corpus
         /\ op'[p].step \in {"next", "loaded", "review", "list"} => manifest' # None
         /\ manifest # None => manifest' # None
<1> DEFINE o == op[p]
<1>o. /\ op \in [Processes -> Op] /\ InHand(o) /\ o \in Op
      /\ manifest \in Manifest \cup {None} /\ directory \in BOOLEAN
      /\ runFiles \subseteq Runs /\ reviews \in [Runs -> Review \cup {None}]
      /\ overlapped \subseteq {"batch", "corpus"}
      /\ o.step \in {"next", "loaded", "review", "list"} => manifest # None
  BY DEF Types, TypeOK, InHand
<1>h. /\ o.todo \in Seq(Runs) /\ o.loaded \in Manifest \cup {None}
      /\ o.todo # <<>> => Head(o.todo) \in Runs /\ Tail(o.todo) \in Seq(Runs)
  BY <1>o DEF Op
<1>b. BatchInHand(o) /\ CorpusInHand(o)
  BY <1>o DEF InHand
<1>1. CASE \E input \in Inputs : GenerateBatch(p, input)
  <2>1. PICK input \in Inputs : GenerateBatch(p, input)
    BY <1>1
  <2> DEFINE x == [Idle EXCEPT !.step = "absent", !.todo = input]
  <2>2. input \in Seq(Runs)
    BY ReviewAssumption
  <2>3. x \in Op /\ x.step = "absent"
    BY <2>2 DEF Idle, Op, Steps, Generating
  <2>4. InHand(x)
    BY <2>3 DEF InHand, BatchInHand, CorpusInHand, Idle, Changing
  <2> QED BY <2>1, <1>o, <2>3, <2>4 DEF GenerateBatch, batch, corpus
<1>2. CASE CreateWorkspace(p)
  <2> DEFINE x == [o EXCEPT !.step = "created"]
  <2>1. x \in Op /\ x.step = "created" /\ InHand(x)
    BY <1>2, <1>o, <1>b DEF CreateWorkspace, Op, Steps, Generating, InHand, BatchInHand,
       CorpusInHand, Changing
  <2> QED BY <1>2, <1>o, <2>1 DEF CreateWorkspace
<1>3. CASE SaveFirstManifest(p)
  <2> DEFINE x == [o EXCEPT !.step = "next"]
  <2>1. x \in Op /\ x.step = "next" /\ InHand(x)
    BY <1>3, <1>o, <1>b DEF SaveFirstManifest, Op, Steps, Generating, InHand, BatchInHand,
       CorpusInHand, Changing
  <2>2. manifest' \in Manifest
    BY <1>3, <1>h DEF SaveFirstManifest, Manifest
  <2> QED BY <1>3, <1>o, <2>1, <2>2, NotNone DEF SaveFirstManifest
<1>4. CASE LoadManifest(p)
  <2> DEFINE x == [o EXCEPT !.step = "loaded", !.loaded = manifest]
  <2>1. x \in Op /\ x.step = "loaded" /\ InHand(x)
    BY <1>4, <1>o, <1>b DEF LoadManifest, Op, Steps, Generating, InHand, BatchInHand,
       CorpusInHand, Changing
  <2> QED BY <1>4, <1>o, <2>1 DEF LoadManifest, batch, corpus
<1>5. CASE SaveRunRecord(p)
  <2> DEFINE x == [o EXCEPT !.step = "review"]
  <2>1. x \in Op /\ x.step = "review" /\ InHand(x)
    BY <1>5, <1>o, <1>b DEF SaveRunRecord, Addable, Op, Steps, Generating, InHand,
       BatchInHand, CorpusInHand, Changing
  <2> QED BY <1>5, <1>o, <1>h, <2>1 DEF SaveRunRecord
<1>6. CASE SaveReviewRecord(p)
  <2> DEFINE x == [o EXCEPT !.step = "list"]
  <2>1. x \in Op /\ x.step = "list" /\ InHand(x)
    BY <1>6, <1>o, <1>b DEF SaveReviewRecord, Op, Steps, Generating, InHand, BatchInHand,
       CorpusInHand, Changing
  <2>2. Head(o.todo) \in Runs
    BY <1>6, <1>b, <1>h DEF SaveReviewRecord, BatchInHand
  <2>3. PendingReview(Head(o.todo)) \in Review
    BY <2>2 DEF PendingReview, Review
  <2> QED BY <1>6, <1>o, <2>1, <2>3 DEF SaveReviewRecord
<1>7. CASE SaveManifest(p)
  <2> DEFINE x == [o EXCEPT !.step = "next", !.todo = Tail(o.todo), !.loaded = None]
  <2>1. o.loaded \in Manifest /\ Head(o.todo) \in Runs /\ Tail(o.todo) \in Seq(Runs)
    BY <1>7, <1>b, <1>h DEF SaveManifest, BatchInHand
  <2>2. x \in Op /\ x.step = "next" /\ InHand(x)
    BY <1>7, <1>o, <1>b, <2>1 DEF SaveManifest, Op, Steps, Generating, InHand, BatchInHand,
       CorpusInHand, Changing
  <2>3. manifest' \in Manifest
    BY <1>7, <2>1 DEF SaveManifest, Manifest
  <2> QED BY <1>7, <1>o, <2>2, <2>3, NotNone DEF SaveManifest
<1>8. CASE CompleteBatch(p)
  <2>1. o.loaded \in Manifest
    BY <1>8, <1>b, <1>h DEF CompleteBatch, BatchInHand
  <2>2. manifest' \in Manifest
    BY <1>8, <2>1 DEF CompleteBatch, Manifest
  <2>3. Idle.step = "idle"
    BY DEF Idle
  <2> QED BY <1>8, <1>o, <2>2, <2>3, NotNone, IdleInHand DEF CompleteBatch
<1> QED BY <1>1, <1>2, <1>3, <1>4, <1>5, <1>6, <1>7, <1>8 DEF Generate

-----------------------------------------------------------------------------
(***************************************************************************)
(* What a command that changes the corpus sets out to write.                *)
(***************************************************************************)
Command(p) ==
  \/ \E r \in Runs : PromoteCandidateObservation(p, r)
  \/ \E sources \in SUBSET Runs, m \in Modes : PromoteFailureMode(p, sources, m)
  \/ \E sources \in SUBSET CaseIds, m \in Modes : ReviseFailureMode(p, m, sources)
  \/ \E m \in Modes : RetireFailureMode(p, m)

\* The cases are well-formed and of the mode of the entry, if they have one.
ProperChange(snapshots, entry) ==
  /\ snapshots \subseteq Case
  /\ entry \in Entry \cup {None}
  /\ entry # None => entry.revision \in RevisionRange
  /\ snapshots = {} => entry # None
  /\ \A s \in snapshots :
       /\ CaseId(s) \in CaseIds
       /\ s.mode # None => s.mode.revision = 1 /\ entry # None /\ s.mode.id = entry.id

\* The change keeps the taxonomy supported.
SupportedChange(snapshots, entry) ==
  TaxonomySupported /\ entry # None => Supported(entry, snapshots, cases, taxonomy)

LEMMA PromotionIsProper ==
  ASSUME Types, NEW p \in Processes, NEW sources \in SUBSET Runs, NEW m \in Modes,
         PromoteFailureMode(p, sources, m)
  PROVE  \E snapshots, entry :
           /\ StartChange(p, snapshots, entry)
           /\ ProperChange(snapshots, entry) /\ SupportedChange(snapshots, entry)
<1> DEFINE ref == [id |-> m, revision |-> 1]
           snapshots == {Snapshot(r, ref) : r \in sources}
           entry == [id |-> m, revision |-> 1, status |-> "active",
                     cases |-> {CaseId(s) : s \in snapshots}]
<1>1. /\ StartChange(p, snapshots, entry) /\ Loadable /\ Several(sources)
      /\ \A r \in sources : Promotable(r)
  BY DEF PromoteFailureMode
<1>2. ref \in ModeRefs /\ ref # None
  BY NotNone DEF ModeRefs
<1>3. \A r \in sources :
        /\ Snapshot(r, ref) \in Case /\ CaseId(Snapshot(r, ref)) \in CaseIds
        /\ Snapshot(r, ref).mode = ref /\ CaseId(Snapshot(r, ref))[1] = r
  <2> TAKE r \in sources
  <2>1. CaseId(Snapshot(r, ref))[1] = r
    BY DEF CaseId, Snapshot
  <2> HIDE DEF ref
  <2> QED BY <1>1, <1>2, <2>1, SnapshotTypes DEF Types
<1>4. entry \in Entry /\ entry # None
  <2>1. {CaseId(s) : s \in snapshots} \in SUBSET CaseIds
    BY <1>3
  <2> QED BY <2>1, NotNone DEF Entry
<1>5. 1 \in RevisionRange
  BY ReviewAssumption DEF RevisionRange
<1>6. PICK x \in sources, y \in sources : x # y
  BY <1>1 DEF Several
<1>7. Several(entry.cases)
  <2>1. CaseId(Snapshot(x, ref)) # CaseId(Snapshot(y, ref))
    BY <1>3, <1>6
  <2> QED BY <1>6, <2>1 DEF Several
<1>8. ProperChange(snapshots, entry)
  <2>1. \A s \in snapshots :
          s \in Case /\ CaseId(s) \in CaseIds /\ s.mode.revision = 1 /\ s.mode.id = entry.id
    BY <1>3
  <2> QED BY <1>4, <1>5, <1>6, <2>1 DEF ProperChange
<1>9. Supported(entry, snapshots, cases, taxonomy)
  <2>1. 1..(entry.revision - 1) = {}
    OBVIOUS
  <2>2. \A c \in entry.cases : \E s \in snapshots : CaseId(s) = c /\ s.mode # None
    BY <1>2, <1>3
  <2> QED BY <1>7, <2>1, <2>2 DEF Supported
<1> QED BY <1>1, <1>8, <1>9 DEF SupportedChange

\* The revision that follows the latest one of a mode.
LEMMA NextRevision ==
  ASSUME Types, NEW m \in Modes, Revisions(m, taxonomy) # {},
         Latest(m, taxonomy).revision < MaxRevision
  PROVE  LET latest == Latest(m, taxonomy)
         IN  /\ latest \in Entry /\ latest \in taxonomy /\ latest.id = m
             /\ latest.revision \in Nat /\ latest.revision + 1 \in RevisionRange
             /\ TaxonomySupported =>
                  /\ Several(latest.cases)
                  /\ \A n \in 1..latest.revision : Known([id |-> m, revision |-> n], taxonomy)
<1> DEFINE latest == Latest(m, taxonomy)
<1>1. latest \in Revisions(m, taxonomy)
  BY LatestIsNewest
<1> HIDE DEF latest
<1>2. latest \in Entry /\ latest \in taxonomy /\ latest.id = m /\ latest.revision \in RevisionRange
  BY <1>1 DEF Types, TypeOK, Revisions
<1>3. latest.revision \in Nat /\ latest.revision + 1 \in RevisionRange
  BY <1>2, ReviewAssumption DEF RevisionRange, latest
<1>4. ASSUME TaxonomySupported, NEW n \in 1..latest.revision
      PROVE  Known([id |-> m, revision |-> n], taxonomy)
  <2>1. CASE n = latest.revision
    BY <1>2, <2>1 DEF Known
  <2>2. CASE n # latest.revision
    <3>1. n \in 1..(latest.revision - 1)
      BY <1>2, <2>2 DEF RevisionRange
    <3> QED BY <1>2, <1>4, <3>1 DEF TaxonomySupported, Supported
  <2> QED BY <2>1, <2>2
<1> QED BY <1>2, <1>3, <1>4 DEF TaxonomySupported, Supported, latest

LEMMA RevisionIsProper ==
  ASSUME Types, NEW p \in Processes, NEW sources \in SUBSET CaseIds, NEW m \in Modes,
         ReviseFailureMode(p, m, sources)
  PROVE  \E snapshots, entry :
           /\ StartChange(p, snapshots, entry)
           /\ ProperChange(snapshots, entry) /\ SupportedChange(snapshots, entry)
<1> DEFINE latest == Latest(m, taxonomy)
           entry == [id |-> m, revision |-> latest.revision + 1, status |-> "active",
                     cases |-> sources]
<1>1. /\ StartChange(p, {}, entry) /\ Several(sources)
      /\ Revisions(m, taxonomy) # {} /\ latest.revision < MaxRevision
      /\ \A c \in sources : Fits(c, m, cases)
  BY DEF ReviseFailureMode, Fits
<1>2. /\ latest.revision \in Nat /\ latest.revision + 1 \in RevisionRange
      /\ TaxonomySupported =>
           \A n \in 1..latest.revision : Known([id |-> m, revision |-> n], taxonomy)
  BY <1>1, NextRevision DEF Entry
<1> HIDE DEF latest
<1>3. entry \in Entry /\ entry # None
  BY <1>2, NotNone DEF Entry
<1>4. ProperChange({}, entry)
  BY <1>2, <1>3 DEF ProperChange
<1>5. ASSUME TaxonomySupported PROVE Supported(entry, {}, cases, taxonomy)
  <2>1. entry.revision - 1 = latest.revision /\ entry.id = m /\ entry.cases = sources
    BY <1>2
  <2>2. \A n \in 1..(entry.revision - 1) : Known([id |-> entry.id, revision |-> n], taxonomy)
    BY <1>2, <1>5, <2>1
  <2> QED BY <1>1, <2>1, <2>2 DEF Supported
<1> QED BY <1>1, <1>4, <1>5 DEF SupportedChange

LEMMA RetirementIsProper ==
  ASSUME Types, NEW p \in Processes, NEW m \in Modes, RetireFailureMode(p, m)
  PROVE  \E snapshots, entry :
           /\ StartChange(p, snapshots, entry)
           /\ ProperChange(snapshots, entry) /\ SupportedChange(snapshots, entry)
<1> DEFINE latest == Latest(m, taxonomy)
           entry == [latest EXCEPT !.revision = @ + 1, !.status = "retired"]
<1>1. /\ StartChange(p, {}, entry)
      /\ Revisions(m, taxonomy) # {} /\ latest.revision < MaxRevision
  BY DEF RetireFailureMode
<1>2. /\ latest \in Entry /\ latest.id = m
      /\ latest.revision \in Nat /\ latest.revision + 1 \in RevisionRange
      /\ TaxonomySupported =>
           /\ Several(latest.cases)
           /\ \A n \in 1..latest.revision : Known([id |-> m, revision |-> n], taxonomy)
  BY <1>1, NextRevision DEF Entry
<1> HIDE DEF latest
<1>e. /\ entry \in Entry /\ entry.id = m /\ entry.cases = latest.cases
      /\ entry.revision = latest.revision + 1 /\ entry.status = "retired"
  <2>1. latest.revision + 1 \in Nat
    BY <1>2
  <2> QED BY <1>2, <2>1 DEF Entry
<1> HIDE DEF entry
<1>3. /\ entry \in Entry /\ entry # None /\ entry.id = m /\ entry.cases = latest.cases
      /\ entry.revision = latest.revision + 1 /\ entry.status = "retired"
  BY <1>e, NotNone
<1>4. ProperChange({}, entry)
  BY <1>2, <1>3 DEF ProperChange
<1>5. ASSUME TaxonomySupported PROVE Supported(entry, {}, cases, taxonomy)
  <2>1. entry.revision - 1 = latest.revision
    BY <1>2, <1>3
  <2>2. \A n \in 1..(entry.revision - 1) : Known([id |-> entry.id, revision |-> n], taxonomy)
    BY <1>2, <1>3, <1>5, <2>1
  <2> QED BY <1>2, <1>3, <1>5, <2>2 DEF Supported
<1> QED BY <1>1, <1>4, <1>5 DEF SupportedChange

LEMMA CommandsAreProper ==
  ASSUME Types, NEW p \in Processes, Command(p)
  PROVE  \E snapshots, entry :
           /\ StartChange(p, snapshots, entry)
           /\ ProperChange(snapshots, entry) /\ SupportedChange(snapshots, entry)
<1>1. CASE \E r \in Runs : PromoteCandidateObservation(p, r)
  <2>1. PICK r \in Runs : PromoteCandidateObservation(p, r)
    BY <1>1
  <2> DEFINE snapshot == Snapshot(r, None)
  <2>2. StartChange(p, {snapshot}, None) /\ Loadable /\ Promotable(r)
    BY <2>1 DEF PromoteCandidateObservation
  <2>3. snapshot \in Case /\ CaseId(snapshot) \in CaseIds /\ snapshot.mode = None
    BY <2>2, SnapshotTypes DEF Types
  <2> HIDE DEF snapshot
  <2>4. ProperChange({snapshot}, None) /\ SupportedChange({snapshot}, None)
    BY <2>3 DEF ProperChange, SupportedChange
  <2> QED BY <2>2, <2>4
<1> QED BY <1>1, PromotionIsProper, RevisionIsProper, RetirementIsProper, Zenon DEF Command

-----------------------------------------------------------------------------
(***************************************************************************)
(* Commands that change the corpus keep the types.                          *)
(***************************************************************************)

\* What a process has in hand after the command is read.
Started(snapshots, entry) ==
  [Idle EXCEPT !.step = IF snapshots = {} THEN "taxonomy" ELSE "check",
               !.snapshots = snapshots, !.found = taxonomy, !.entry = entry]

LEMMA StartedInHand ==
  ASSUME Types, NEW snapshots, NEW entry, ProperChange(snapshots, entry)
  PROVE  LET x == Started(snapshots, entry)
         IN  /\ InHand(x)
             /\ x.step = IF snapshots = {} THEN "taxonomy" ELSE "check"
             /\ x.snapshots = snapshots /\ x.found = taxonomy /\ x.entry = entry
<1> DEFINE x == Started(snapshots, entry)
<1>1. /\ snapshots \in SUBSET Case /\ entry \in Entry \cup {None} /\ taxonomy \in SUBSET Entry
  BY DEF ProperChange, Types, TypeOK
<1>2. /\ x \in Op
      /\ x.step = IF snapshots = {} THEN "taxonomy" ELSE "check"
      /\ x.snapshots = snapshots /\ x.found = taxonomy /\ x.entry = entry /\ x.loaded = None
  <2>1. Idle \in Op /\ Idle.loaded = None
    BY IdleInHand DEF InHand, Idle
  <2>2. (IF snapshots = {} THEN "taxonomy" ELSE "check") \in Steps
    BY DEF Steps, Changing
  <2> QED BY <1>1, <2>1, <2>2 DEF Started, Op
<1> HIDE DEF x
<1>3. BatchInHand(x)
  BY <1>2 DEF BatchInHand
<1>4. CorpusInHand(x)
  BY <1>2 DEF CorpusInHand, ProperChange, Types
<1> QED BY <1>2, <1>3, <1>4 DEF InHand, x

LEMMA SavedInHand ==
  ASSUME Types, NEW p \in Processes, op[p].step \in Changing, NEW s \in op[p].snapshots
  PROVE  LET x == Saved(p, s)
         IN  /\ InHand(x)
             /\ x.step \in {"idle", "check", "taxonomy"}
             /\ x.step # "idle" => /\ x.snapshots = op[p].snapshots \ {s}
                                   /\ x.found = op[p].found /\ x.entry = op[p].entry
<1> DEFINE o == op[p]
           left == o.snapshots \ {s}
           x == [o EXCEPT !.step = IF left = {} THEN "taxonomy" ELSE "check",
                          !.snapshots = left, !.saving = None]
<1>1. o \in Op /\ BatchInHand(o) /\ CorpusInHand(o)
  BY DEF Types, InHand
<1>2. CASE left = {} /\ o.entry = None
  <2>1. Saved(p, s) = Idle
    BY <1>2 DEF Saved
  <2>2. Idle.step = "idle"
    BY DEF Idle
  <2> QED BY <2>1, <2>2, IdleInHand
<1>3. CASE ~(left = {} /\ o.entry = None)
  <2>1. Saved(p, s) = x
    BY <1>3 DEF Saved
  <2>2. /\ x \in Op
        /\ x.step = IF left = {} THEN "taxonomy" ELSE "check"
        /\ x.snapshots = left /\ x.found = o.found /\ x.entry = o.entry /\ x.loaded = o.loaded
    BY <1>1 DEF Op, Steps, Changing
  <2> HIDE DEF x
  <2>3. BatchInHand(x)
    BY <1>1, <2>2 DEF BatchInHand, Changing
  <2>4. CorpusInHand(x)
    BY <1>1, <1>3, <2>2 DEF CorpusInHand
  <2> QED BY <2>1, <2>2, <2>3, <2>4 DEF InHand
<1> QED BY <1>2, <1>3

LEMMA ChangeTypes ==
  ASSUME Types, NEW p \in Processes, ChangeCorpus(p)
  PROVE  /\ \E x : InHand(x) /\ op' = [op EXCEPT ![p] = x] /\ x.step \in {"idle"} \cup Changing
         /\ cases' \in [CaseIds -> Case \cup {None}] /\ taxonomy' \subseteq Entry
         /\ \A e \in taxonomy' : e.revision \in RevisionRange
         /\ overlapped' \subseteq {"batch", "corpus"}
         /\ UNCHANGED batch
<1> DEFINE o == op[p]
<1>o. /\ op \in [Processes -> Op] /\ InHand(o) /\ o \in Op
      /\ cases \in [CaseIds -> Case \cup {None}] /\ taxonomy \subseteq Entry
      /\ overlapped \subseteq {"batch", "corpus"}
      /\ \A e \in taxonomy : e.revision \in RevisionRange
  BY DEF Types, TypeOK, InHand
<1>b. CorpusInHand(o) /\ BatchInHand(o)
  BY <1>o DEF InHand
<1>i. Idle.step = "idle"
  BY DEF Idle
<1>1. CASE Command(p)
  <2>1. PICK snapshots, entry :
          StartChange(p, snapshots, entry) /\ ProperChange(snapshots, entry)
    BY <1>1, CommandsAreProper
  <2> DEFINE x == Started(snapshots, entry)
  <2>2. InHand(x) /\ x.step \in Changing
    BY <2>1, StartedInHand DEF Changing
  <2>3. op' = [op EXCEPT ![p] = x]
    BY <2>1 DEF StartChange, Started
  <2> QED BY <1>o, <2>1, <2>2, <2>3 DEF StartChange, batch, corpus
<1>2. CASE \E s \in o.snapshots : CheckCase(p, s)
  <2>1. PICK s \in o.snapshots : CheckCase(p, s)
    BY <1>2
  <2>2. o.step = "check" /\ UNCHANGED <<batch, corpus, overlapped>>
    BY <2>1 DEF CheckCase
  <2>3. CASE cases[CaseId(s)] = None
    <3> DEFINE x == [o EXCEPT !.step = "write", !.saving = s]
    <3>1. s \in Case
      BY <1>o DEF Op
    <3>2. /\ x \in Op /\ x.step = "write" /\ x.saving = s /\ x.snapshots = o.snapshots
          /\ x.found = o.found /\ x.entry = o.entry /\ x.loaded = o.loaded
      BY <1>o, <3>1 DEF Op, Steps, Changing
    <3>3. op' = [op EXCEPT ![p] = x]
      <4>1. cases[CaseId(s)] # s
        BY <2>3, <3>1, NotNone
      <4> QED BY <2>1, <2>3, <4>1 DEF CheckCase
    <3> HIDE DEF x
    <3>4. InHand(x)
      BY <1>b, <2>2, <3>2 DEF InHand, BatchInHand, CorpusInHand, Changing
    <3> QED BY <1>o, <2>2, <3>2, <3>3, <3>4 DEF corpus, Changing
  <2>4. CASE cases[CaseId(s)] # None /\ cases[CaseId(s)] = s
    <3>1. op' = [op EXCEPT ![p] = Saved(p, s)]
      BY <2>1, <2>4 DEF CheckCase
    <3>2. InHand(Saved(p, s)) /\ Saved(p, s).step \in {"idle", "check", "taxonomy"}
      BY <2>2, SavedInHand DEF Changing
    <3> QED BY <1>o, <2>2, <3>1, <3>2 DEF corpus, Changing
  <2>5. CASE cases[CaseId(s)] # None /\ cases[CaseId(s)] # s
    <3>1. op' = [op EXCEPT ![p] = Idle]
      BY <2>1, <2>5 DEF CheckCase
    <3> QED BY <1>o, <1>i, <2>2, <3>1, IdleInHand DEF corpus
  <2> QED BY <2>3, <2>4, <2>5
<1>3. CASE WriteCase(p)
  <2> DEFINE s == o.saving
  <2>1. /\ o.step = "write" /\ s \in o.snapshots /\ s \in Case /\ CaseId(s) \in CaseIds
    BY <1>3, <1>o, <1>b DEF WriteCase, CorpusInHand, Op
  <2>2. /\ op' = [op EXCEPT ![p] = Saved(p, s)] /\ cases' = [cases EXCEPT ![CaseId(s)] = s]
        /\ UNCHANGED <<batch, taxonomy, overlapped>>
    BY <1>3 DEF WriteCase
  <2>3. InHand(Saved(p, s)) /\ Saved(p, s).step \in {"idle", "check", "taxonomy"}
    BY <2>1, SavedInHand DEF Changing
  <2> QED BY <1>o, <2>1, <2>2, <2>3 DEF Changing
<1>4. CASE SaveTaxonomy(p)
  <2>1. o.entry \in Entry /\ o.found \subseteq Entry /\ o.entry # None
    BY <1>4, <1>o, <1>b DEF SaveTaxonomy, CorpusInHand, Op
  <2>2. \A e \in o.found \cup {o.entry} : e.revision \in RevisionRange
    BY <1>b, <2>1 DEF CorpusInHand
  <2> QED BY <1>4, <1>o, <1>i, <2>1, <2>2, IdleInHand DEF SaveTaxonomy
<1> QED BY <1>1, <1>2, <1>3, <1>4 DEF ChangeCorpus, Command

LEMMA AnnotateTypes ==
  ASSUME Types, Annotate
  PROVE  reviews' \in [Runs -> Review \cup {None}]
         /\ UNCHANGED <<directory, manifest, runFiles, corpus, op, overlapped>>
BY ReviewAssumption DEF Annotate, AnnotateRun, Types, TypeOK

LEMMA TypesStep == Types /\ [Next]_vars => Types'
<1> SUFFICES ASSUME Types, [Next]_vars PROVE Types'
  OBVIOUS
<1>1. CASE Annotate
  BY <1>1, AnnotateTypes DEF Types, TypeOK, corpus
<1>2. ASSUME NEW p \in Processes, Generate(p) PROVE Types'
  <2>1. PICK x : InHand(x) /\ op' = [op EXCEPT ![p] = x]
    BY <1>2, GenerateTypes
  <2>2. /\ op' \in [Processes -> Op] /\ \A q \in Processes : InHand(op'[q])
        /\ \A q \in Processes : q # p => op'[q] = op[q]
    BY <2>1, OpUpdate
  <2>3. TypeOK'
    BY <1>2, <2>2, GenerateTypes DEF Types, TypeOK, corpus
  <2>4. \A q \in Processes :
          op'[q].step \in {"next", "loaded", "review", "list"} => manifest' # None
    BY <1>2, <2>2, GenerateTypes DEF Types
  <2> QED BY <1>2, <2>2, <2>3, <2>4, GenerateTypes DEF Types, corpus
<1>3. ASSUME NEW p \in Processes, ChangeCorpus(p) PROVE Types'
  <2>1. PICK x : /\ InHand(x) /\ op' = [op EXCEPT ![p] = x]
                 /\ x.step \in {"idle"} \cup Changing
    BY <1>3, ChangeTypes
  <2>2. /\ op' \in [Processes -> Op] /\ \A q \in Processes : InHand(op'[q])
        /\ \A q \in Processes : q # p => op'[q] = op[q]
        /\ op'[p] = x
    BY <2>1, OpUpdate
  <2>3. TypeOK'
    BY <1>3, <2>2, ChangeTypes DEF Types, TypeOK, batch
  <2>4. \A q \in Processes :
          op'[q].step \in {"next", "loaded", "review", "list"} => manifest' # None
    BY <1>3, <2>1, <2>2, ChangeTypes DEF Types, batch, Changing
  <2> QED BY <1>3, <2>2, <2>3, <2>4, ChangeTypes DEF Types
<1>4. ASSUME NEW p \in Processes, Stop(p) PROVE Types'
  <2>1. op' = [op EXCEPT ![p] = Idle] /\ UNCHANGED <<batch, corpus, overlapped>>
    BY <1>4 DEF Stop
  <2>2. /\ op' \in [Processes -> Op] /\ \A q \in Processes : InHand(op'[q])
        /\ \A q \in Processes : q # p => op'[q] = op[q]
        /\ op'[p] = Idle
    BY <2>1, OpUpdate, IdleInHand
  <2> QED BY <2>1, <2>2 DEF Types, TypeOK, batch, corpus, Idle
<1>5. CASE UNCHANGED vars
  BY <1>5 DEF vars, batch, corpus, Types, TypeOK
<1> QED BY <1>1, <1>2, <1>3, <1>4, <1>5 DEF Next

-----------------------------------------------------------------------------
(***************************************************************************)
(* What a manifest lists is on file.                                        *)
(***************************************************************************)

\* Run and review files are written over but not removed.
LEMMA FilesStay ==
  ASSUME Types, [Next]_vars
  PROVE  /\ runFiles \subseteq runFiles'
         /\ \A r \in Runs : reviews[r] # None => reviews'[r] # None
<1>1. CASE Annotate
  BY <1>1, NotNone, ReviewAssumption DEF Annotate, AnnotateRun, Types, TypeOK
<1>2. ASSUME NEW p \in Processes, SaveReviewRecord(p)
      PROVE  /\ runFiles \subseteq runFiles'
             /\ \A r \in Runs : reviews[r] # None => reviews'[r] # None
  <2>1. op[p].todo # <<>> /\ op[p].todo \in Seq(Runs)
    BY <1>2 DEF SaveReviewRecord, Types, InHand, BatchInHand, Op
  <2>2. PendingReview(Head(op[p].todo)) # None
    <3>1. PendingReview(Head(op[p].todo)) \in Review
      BY <2>1 DEF PendingReview, Review
    <3> QED BY <3>1, NotNone
  <2> QED BY <1>2, <2>2 DEF SaveReviewRecord, Types, TypeOK
<1>3. ASSUME NEW p \in Processes, Generate(p), ~SaveReviewRecord(p)
      PROVE  runFiles \subseteq runFiles' /\ reviews' = reviews
  BY <1>3 DEF Generate, GenerateBatch, CreateWorkspace, SaveFirstManifest, LoadManifest,
     SaveRunRecord, SaveManifest, CompleteBatch, batch
<1>4. ASSUME NEW p \in Processes, ChangeCorpus(p) \/ Stop(p)
      PROVE  runFiles \subseteq runFiles' /\ reviews' = reviews
  BY <1>4, ChangeTypes DEF Stop, batch
<1> QED BY <1>1, <1>2, <1>3, <1>4 DEF Next, vars, batch

LEMMA BackedStays ==
  ASSUME Types, [Next]_vars, NEW o, InHand(o), Backed(o, runFiles, reviews)
  PROVE  Backed(o, runFiles', reviews')
<1>1. o.loaded # None => o.loaded.runs \subseteq Runs
  BY DEF InHand, Op, Manifest
<1>2. o.step \in {"review", "list"} => Head(o.todo) \in Runs
  BY DEF InHand, Op, BatchInHand
<1> QED BY <1>1, <1>2, FilesStay DEF Backed

LEMMA IdleBacked == ASSUME NEW files, NEW revs PROVE Backed(Idle, files, revs)
BY DEF Backed, Idle

LEMMA FilesBackStep == Types /\ FilesBack /\ [Next]_vars => FilesBack'
<1> SUFFICES ASSUME Types, FilesBack, [Next]_vars PROVE FilesBack'
  OBVIOUS
<1>m. ASSUME manifest' = manifest PROVE ManifestBacked'
  BY <1>m, FilesStay DEF FilesBack, ManifestBacked, Loadable, Types, TypeOK, Manifest
<1>t. \A q \in Processes :
        /\ op[q] \in Op /\ InHand(op[q]) /\ BatchInHand(op[q])
        /\ Backed(op[q], runFiles, reviews)
        /\ op'[q] = op[q] => Backed(op'[q], runFiles', reviews')
  BY BackedStays DEF Types, InHand, FilesBack
<1>1. CASE Annotate
  BY <1>1, <1>m, <1>t, AnnotateTypes DEF FilesBack
<1>2. ASSUME NEW p \in Processes, Generate(p) PROVE FilesBack'
  <2> DEFINE o == op[p]
  <2>o. /\ op \in [Processes -> Op] /\ o \in Op /\ BatchInHand(o)
        /\ \A q \in Processes : q # p => op'[q] = op[q]
    <3>1. PICK x : InHand(x) /\ op' = [op EXCEPT ![p] = x]
      BY <1>2, GenerateTypes
    <3> QED BY <1>t, <3>1, OpUpdate DEF Types, TypeOK
  <2>b. Backed(o, runFiles, reviews) /\ Backed(o, runFiles', reviews')
    BY <1>t, BackedStays
  <2>h. o.todo # <<>> => Head(o.todo) \in Runs
    BY <2>o DEF Op
  <2>n. o.loaded # None => o.loaded \in Manifest
    BY <2>o DEF Op
  <2> SUFFICES ManifestBacked' /\ Backed(op'[p], runFiles', reviews')
    BY <1>t, <2>o DEF FilesBack
  <2>1. CASE \E input \in Inputs : GenerateBatch(p, input)
    <3>1. manifest' = manifest /\ op'[p].loaded = None /\ op'[p].step = "absent"
      BY <2>1, <2>o DEF GenerateBatch, batch, Idle
    <3> QED BY <1>m, <3>1 DEF Backed
  <2>2. CASE CreateWorkspace(p)
    <3>1. /\ manifest' = manifest /\ op'[p].loaded = o.loaded /\ op'[p].step = "created"
      BY <2>2, <2>o DEF CreateWorkspace, Op
    <3> QED BY <1>m, <2>b, <3>1 DEF Backed
  <2>3. CASE SaveFirstManifest(p)
    <3>1. /\ manifest'.runs = {} /\ manifest'.status = "in_progress"
          /\ op'[p].loaded = o.loaded /\ op'[p].step = "next"
      BY <2>3, <2>o DEF SaveFirstManifest, Op
    <3> QED BY <2>b, <3>1 DEF Backed, ManifestBacked, Loadable
  <2>4. CASE LoadManifest(p)
    <3>1. /\ manifest' = manifest /\ op'[p].loaded = manifest /\ op'[p].step = "loaded"
          /\ runFiles' = runFiles /\ reviews' = reviews
      BY <2>4, <2>o DEF LoadManifest, Op, batch
    <3>2. ManifestBacked
      BY DEF FilesBack
    <3> QED BY <1>m, <3>1, <3>2 DEF Backed, ManifestBacked, Loadable
  <2>5. CASE SaveRunRecord(p)
    <3>1. /\ manifest' = manifest /\ op'[p].loaded = o.loaded /\ op'[p].step = "review"
          /\ op'[p].todo = o.todo /\ Head(o.todo) \in runFiles'
      BY <2>5, <2>o DEF SaveRunRecord, Op
    <3> QED BY <1>m, <2>b, <3>1 DEF Backed
  <2>6. CASE SaveReviewRecord(p)
    <3>1. /\ manifest' = manifest /\ op'[p].loaded = o.loaded /\ op'[p].step = "list"
          /\ op'[p].todo = o.todo /\ o.step = "review"
          /\ reviews' = [reviews EXCEPT ![Head(o.todo)] = PendingReview(Head(o.todo))]
      BY <2>6, <2>o DEF SaveReviewRecord, Op
    <3>2. Head(o.todo) \in Runs /\ PendingReview(Head(o.todo)) \in Review
      BY <2>o, <2>h, <3>1 DEF BatchInHand, PendingReview, Review
    <3>3. reviews'[Head(o.todo)] # None
      BY <3>1, <3>2, NotNone DEF Types, TypeOK
    <3> QED BY <1>m, <2>b, <3>1, <3>3 DEF Backed
  <2>7. CASE SaveManifest(p)
    <3>1. /\ o.step = "list" /\ manifest' = [o.loaded EXCEPT !.runs = @ \cup {Head(o.todo)}]
          /\ op'[p].loaded = None /\ op'[p].step = "next"
          /\ runFiles' = runFiles /\ reviews' = reviews
      BY <2>7, <2>o DEF SaveManifest, Op
    <3>2. /\ o.loaded \in Manifest /\ o.loaded # None
          /\ o.loaded.status = "in_progress"
      BY <2>o, <2>n, <3>1 DEF BatchInHand
    <3>3. /\ manifest'.runs = o.loaded.runs \cup {Head(o.todo)}
          /\ manifest'.status = "in_progress"
      BY <3>1, <3>2 DEF Manifest
    <3> QED BY <2>b, <3>1, <3>2, <3>3 DEF Backed, ManifestBacked, Loadable
  <2>8. CASE CompleteBatch(p)
    <3>1. /\ o.step = "loaded" /\ manifest' = [o.loaded EXCEPT !.status = "complete"]
          /\ Cardinality(o.loaded.runs) = o.loaded.size
          /\ op'[p] = Idle /\ runFiles' = runFiles /\ reviews' = reviews
      BY <2>8, <2>o DEF CompleteBatch
    <3>2. o.loaded \in Manifest /\ o.loaded # None
      BY <2>o, <2>n, <3>1 DEF BatchInHand
    <3>3. manifest'.runs = o.loaded.runs /\ manifest'.size = o.loaded.size
      BY <3>1, <3>2 DEF Manifest
    <3> QED BY <2>b, <3>1, <3>2, <3>3, IdleBacked DEF Backed, ManifestBacked, Loadable
  <2> QED BY <1>2, <2>1, <2>2, <2>3, <2>4, <2>5, <2>6, <2>7, <2>8 DEF Generate
<1>3. ASSUME NEW p \in Processes, ChangeCorpus(p) PROVE FilesBack'
  <2>1. PICK x : /\ InHand(x) /\ op' = [op EXCEPT ![p] = x]
                 /\ x.step \in {"idle"} \cup Changing
    BY <1>3, ChangeTypes
  <2>2. op'[p] = x /\ \A q \in Processes : q # p => op'[q] = op[q]
    BY <2>1, OpUpdate
  <2>3. Backed(x, runFiles', reviews')
    BY <2>1 DEF Backed, InHand, BatchInHand, Changing
  <2>4. manifest' = manifest
    BY <1>3, ChangeTypes DEF batch
  <2> QED BY <1>m, <1>t, <2>2, <2>3, <2>4 DEF FilesBack
<1>4. ASSUME NEW p \in Processes, Stop(p) PROVE FilesBack'
  <2>1. /\ op'[p] = Idle /\ \A q \in Processes : q # p => op'[q] = op[q]
        /\ manifest' = manifest
    BY <1>4 DEF Stop, batch, Types, TypeOK
  <2> QED BY <1>m, <1>t, <2>1, IdleBacked DEF FilesBack
<1>5. CASE UNCHANGED vars
  BY <1>5, <1>m, <1>t DEF FilesBack, vars, batch
<1> QED BY <1>1, <1>2, <1>3, <1>4, <1>5 DEF Next

-----------------------------------------------------------------------------
(***************************************************************************)
(* A generator that is alone.                                               *)
(***************************************************************************)

\* Commands that overlapped have done so for good.
LEMMA OverlapStays == [Next]_vars => overlapped \subseteq overlapped'
<1> SUFFICES ASSUME [Next]_vars PROVE overlapped \subseteq overlapped'
  OBVIOUS
<1>1. CASE Annotate
  BY <1>1 DEF Annotate, AnnotateRun
<1>2. ASSUME NEW p \in Processes, Generate(p) PROVE overlapped \subseteq overlapped'
  BY <1>2 DEF Generate, GenerateBatch, CreateWorkspace, SaveFirstManifest, LoadManifest,
     SaveRunRecord, SaveReviewRecord, SaveManifest, CompleteBatch
<1>3. ASSUME NEW p \in Processes, ChangeCorpus(p) PROVE overlapped \subseteq overlapped'
  BY <1>3 DEF ChangeCorpus, PromoteCandidateObservation, PromoteFailureMode,
     ReviseFailureMode, RetireFailureMode, StartChange, CheckCase, WriteCase, SaveTaxonomy
<1>4. ASSUME NEW p \in Processes, Stop(p) PROVE overlapped \subseteq overlapped'
  BY <1>4 DEF Stop
<1> QED BY <1>1, <1>2, <1>3, <1>4 DEF Next, vars

LEMMA StepsDiffer == \A x \in {"idle"} \cup Changing : x \notin Generating
BY DEF Generating, Changing

LEMMA DirectoryStep == Types /\ DirectoryMade /\ [Next]_vars => DirectoryMade'
<1> SUFFICES ASSUME Types, DirectoryMade, [Next]_vars PROVE DirectoryMade'
  OBVIOUS
<1>1. CASE Annotate
  BY <1>1, AnnotateTypes DEF DirectoryMade
<1>2. ASSUME NEW p \in Processes, Generate(p) PROVE DirectoryMade'
  <2>1. /\ op \in [Processes -> Op] /\ op[p] \in Op
        /\ \A q \in Processes : q # p => op'[q] = op[q]
    <3>1. PICK x : InHand(x) /\ op' = [op EXCEPT ![p] = x]
      BY <1>2, GenerateTypes
    <3> QED BY <3>1, OpUpdate DEF Types, TypeOK, InHand
  <2>2. CASE \E input \in Inputs : GenerateBatch(p, input)
    <3>1. op'[p].step = "absent" /\ UNCHANGED batch
      BY <2>1, <2>2 DEF GenerateBatch, Idle
    <3> QED BY <2>1, <3>1 DEF DirectoryMade, batch
  <2>3. CASE CreateWorkspace(p)
    BY <2>1, <2>3 DEF CreateWorkspace, DirectoryMade
  <2>4. CASE SaveFirstManifest(p) \/ LoadManifest(p) \/ SaveRunRecord(p)
               \/ SaveReviewRecord(p) \/ SaveManifest(p) \/ CompleteBatch(p)
    <3>1. op[p].step \in Generating \ {"absent"} /\ directory' = directory
      BY <2>4 DEF SaveFirstManifest, LoadManifest, SaveRunRecord, SaveReviewRecord,
         SaveManifest, CompleteBatch, Generating, batch
    <3> QED BY <2>1, <3>1 DEF DirectoryMade
  <2> QED BY <1>2, <2>2, <2>3, <2>4 DEF Generate
<1>3. ASSUME NEW p \in Processes, ChangeCorpus(p) \/ Stop(p) PROVE DirectoryMade'
  <2>1. /\ op'[p].step \notin Generating /\ \A q \in Processes : q # p => op'[q] = op[q]
        /\ UNCHANGED batch
    <3>1. CASE ChangeCorpus(p)
      BY <3>1, ChangeTypes, OpUpdate, StepsDiffer
    <3>2. CASE Stop(p)
      BY <3>2 DEF Stop, Types, TypeOK, Idle, Generating
    <3> QED BY <1>3, <3>1, <3>2
  <2> QED BY <2>1 DEF DirectoryMade, batch
<1>4. CASE UNCHANGED vars
  BY <1>4 DEF DirectoryMade, vars, batch
<1> QED BY <1>1, <1>2, <1>3, <1>4 DEF Next

\* When a generator takes a step, the others are not generating.
LEMMA OthersIdle ==
  ASSUME Types, OneGenerator, NEW p \in Processes, Generate(p), "batch" \notin overlapped'
  PROVE  /\ op \in [Processes -> Op] /\ op[p] \in Op /\ BatchInHand(op[p])
         /\ \A q \in Processes : q # p => op'[q].step \notin Generating
         /\ "batch" \notin overlapped
<1>1. PICK x : InHand(x) /\ op' = [op EXCEPT ![p] = x]
  BY GenerateTypes
<1>2. /\ op \in [Processes -> Op] /\ op[p] \in Op /\ BatchInHand(op[p])
      /\ \A q \in Processes : q # p => op'[q] = op[q]
  BY <1>1, OpUpdate DEF Types, TypeOK, InHand
<1>3. "batch" \notin overlapped
  BY OverlapStays DEF Next
<1>4. CASE \E input \in Inputs : GenerateBatch(p, input)
  <2>1. \A q \in Processes : op[q].step \notin Generating
    BY <1>4 DEF GenerateBatch
  <2> QED BY <1>2, <1>3, <2>1
<1>5. CASE ~\E input \in Inputs : GenerateBatch(p, input)
  <2>1. op[p].step \in Generating
    BY <1>5 DEF Generate, CreateWorkspace, SaveFirstManifest, LoadManifest, SaveRunRecord,
       SaveReviewRecord, SaveManifest, CompleteBatch, Generating
  <2> QED BY <1>2, <1>3, <2>1 DEF OneGenerator, AloneInHand, Alone
<1> QED BY <1>4, <1>5

LEMMA GeneratorAlone ==
  ASSUME Types, DirectoryMade, OneGenerator, NEW p \in Processes, Generate(p),
         "batch" \notin overlapped'
  PROVE  AloneInHand(p)' /\ UnlistedUntouched'
<1> DEFINE o == op[p]
<1>o. /\ op \in [Processes -> Op] /\ o \in Op /\ BatchInHand(o)
      /\ \A q \in Processes : q # p => op'[q].step \notin Generating
      /\ "batch" \notin overlapped
  BY OthersIdle
<1>a. Alone(p, Generating)'
  BY <1>o DEF Alone
<1>h. AloneInHand(p) /\ UnlistedUntouched
  BY <1>o DEF OneGenerator
<1>t. /\ manifest \in Manifest \cup {None} /\ reviews \in [Runs -> Review \cup {None}]
      /\ o.step \in {"next", "loaded", "review", "list"} => manifest # None
      /\ o.loaded \in Manifest \cup {None}
      /\ o.todo # <<>> => Head(o.todo) \in Runs
  BY <1>o DEF Types, TypeOK, Op
<1>u. ASSUME manifest' = manifest, reviews' = reviews PROVE UnlistedUntouched'
  BY <1>h, <1>u DEF UnlistedUntouched
<1>1. CASE \E input \in Inputs : GenerateBatch(p, input)
  <2>1. op'[p].step = "absent" /\ manifest' = manifest /\ reviews' = reviews /\ ~directory
    BY <1>1, <1>o DEF GenerateBatch, batch, Idle
  <2>2. manifest = None
    BY <2>1 DEF DirectoryMade
  <2> QED BY <1>a, <1>u, <2>1, <2>2 DEF AloneInHand
<1>2. CASE CreateWorkspace(p)
  <2>1. /\ op'[p].step = "created" /\ o.step = "absent"
        /\ manifest' = manifest /\ reviews' = reviews
    BY <1>2, <1>o DEF CreateWorkspace, Op
  <2>2. manifest = None
    BY <1>h, <2>1 DEF AloneInHand, Generating
  <2> QED BY <1>a, <1>u, <2>1, <2>2 DEF AloneInHand
<1>3. CASE SaveFirstManifest(p)
  <2>1. op'[p].step = "next" /\ o.step = "created" /\ reviews' = reviews
    BY <1>3, <1>o DEF SaveFirstManifest, Op
  <2>2. manifest = None
    BY <1>h, <2>1 DEF AloneInHand, Generating
  <2>3. UnlistedUntouched'
    BY <1>h, <2>1, <2>2 DEF UnlistedUntouched
  <2> QED BY <1>a, <2>1, <2>3 DEF AloneInHand
<1>4. CASE LoadManifest(p)
  <2>1. /\ op'[p].step = "loaded" /\ op'[p].loaded = manifest
        /\ manifest' = manifest /\ reviews' = reviews
    BY <1>4, <1>o DEF LoadManifest, Op, batch
  <2> QED BY <1>a, <1>u, <2>1 DEF AloneInHand
<1>5. CASE SaveRunRecord(p)
  <2>1. /\ op'[p].step = "review" /\ o.step = "loaded" /\ op'[p].loaded = o.loaded
        /\ op'[p].todo = o.todo /\ Head(o.todo) \notin o.loaded.runs
        /\ manifest' = manifest /\ reviews' = reviews
    BY <1>5, <1>o DEF SaveRunRecord, Addable, Op
  <2>2. o.loaded = manifest
    BY <1>h, <2>1 DEF AloneInHand, Generating
  <2> QED BY <1>a, <1>u, <2>1, <2>2 DEF AloneInHand
<1>6. CASE SaveReviewRecord(p)
  <2>1. /\ op'[p].step = "list" /\ o.step = "review" /\ op'[p].loaded = o.loaded
        /\ op'[p].todo = o.todo /\ manifest' = manifest
        /\ reviews' = [reviews EXCEPT ![Head(o.todo)] = PendingReview(Head(o.todo))]
    BY <1>6, <1>o DEF SaveReviewRecord, Op
  <2>2. o.loaded = manifest /\ Head(o.todo) \notin manifest.runs
    BY <1>h, <2>1 DEF AloneInHand, Generating
  <2>3. UnlistedUntouched'
    BY <1>h, <1>t, <2>1 DEF UnlistedUntouched
  <2> QED BY <1>a, <2>1, <2>2, <2>3 DEF AloneInHand
<1>7. CASE SaveManifest(p)
  <2>1. /\ op'[p].step = "next" /\ o.step = "list" /\ reviews' = reviews
        /\ manifest' = [o.loaded EXCEPT !.runs = @ \cup {Head(o.todo)}]
    BY <1>7, <1>o DEF SaveManifest, Op
  <2>2. o.loaded = manifest /\ manifest \in Manifest
    BY <1>h, <1>t, <2>1 DEF AloneInHand, Generating
  <2>3. manifest'.runs = manifest.runs \cup {Head(o.todo)} /\ manifest' # None
    BY <2>1, <2>2, <1>o, NotNone, GenerateTypes DEF Manifest
  <2>4. UnlistedUntouched'
    BY <1>h, <2>1, <2>3 DEF UnlistedUntouched
  <2> QED BY <1>a, <2>1, <2>4 DEF AloneInHand
<1>8. CASE CompleteBatch(p)
  <2>1. /\ op'[p].step = "idle" /\ o.step = "loaded" /\ reviews' = reviews
        /\ manifest' = [o.loaded EXCEPT !.status = "complete"]
    BY <1>8, <1>o DEF CompleteBatch, Idle
  <2>2. o.loaded = manifest /\ manifest \in Manifest
    BY <1>h, <1>t, <2>1 DEF AloneInHand, Generating
  <2>3. manifest'.runs = manifest.runs /\ manifest' # None
    BY <2>1, <2>2, <1>o, NotNone, GenerateTypes DEF Manifest
  <2>4. UnlistedUntouched'
    BY <1>h, <2>1, <2>3 DEF UnlistedUntouched
  <2> QED BY <2>1, <2>4 DEF AloneInHand, Generating
<1> QED BY <1>1, <1>2, <1>3, <1>4, <1>5, <1>6, <1>7, <1>8 DEF Generate

LEMMA OneGeneratorStep == Types /\ DirectoryMade /\ OneGenerator /\ [Next]_vars => OneGenerator'
<1> SUFFICES ASSUME Types, DirectoryMade, OneGenerator, [Next]_vars, "batch" \notin overlapped'
             PROVE  (\A q \in Processes : AloneInHand(q)') /\ UnlistedUntouched'
  BY DEF OneGenerator
<1>h. (\A q \in Processes : AloneInHand(q)) /\ UnlistedUntouched
  BY OverlapStays DEF OneGenerator
<1>1. CASE Annotate
  <2>1. PICK r \in Runs, v \in Annotations : AnnotateRun(r, v)
    BY <1>1 DEF Annotate
  <2>2. /\ UNCHANGED <<manifest, op>> /\ manifest # None /\ r \in manifest.runs
        /\ reviews' = [reviews EXCEPT ![r] = v]
    BY <2>1 DEF AnnotateRun, Loadable
  <2>3. UnlistedUntouched'
    BY <1>h, <2>2 DEF UnlistedUntouched, Types, TypeOK
  <2> QED BY <1>h, <2>2, <2>3 DEF AloneInHand, Alone
<1>2. ASSUME NEW p \in Processes, Generate(p)
      PROVE  (\A q \in Processes : AloneInHand(q)') /\ UnlistedUntouched'
  <2>1. AloneInHand(p)' /\ UnlistedUntouched'
    BY <1>2, GeneratorAlone
  <2>2. \A q \in Processes : q # p => op'[q].step \notin Generating
    BY <1>2, OthersIdle
  <2> QED BY <2>1, <2>2 DEF AloneInHand
<1>3. ASSUME NEW p \in Processes, ChangeCorpus(p) \/ Stop(p)
      PROVE  (\A q \in Processes : AloneInHand(q)') /\ UnlistedUntouched'
  <2>1. /\ op'[p].step \notin Generating /\ \A q \in Processes : q # p => op'[q] = op[q]
        /\ UNCHANGED batch
    <3>1. CASE ChangeCorpus(p)
      BY <3>1, ChangeTypes, OpUpdate, StepsDiffer
    <3>2. CASE Stop(p)
      BY <3>2 DEF Stop, Types, TypeOK, Idle, Generating
    <3> QED BY <1>3, <3>1, <3>2
  <2>2. ASSUME NEW q \in Processes PROVE AloneInHand(q)'
    BY <1>h, <2>1, <2>2 DEF AloneInHand, Alone, batch
  <2> QED BY <1>h, <2>1, <2>2 DEF UnlistedUntouched, batch
<1>4. CASE UNCHANGED vars
  BY <1>4, <1>h DEF AloneInHand, Alone, UnlistedUntouched, vars, batch
<1> QED BY <1>1, <1>2, <1>3, <1>4 DEF Next

-----------------------------------------------------------------------------
(***************************************************************************)
(* Case files.                                                              *)
(***************************************************************************)

\* The case that is written is well-formed and not on file under another name.
LEMMA WrittenCase ==
  ASSUME Types, NEW p \in Processes, WriteCase(p)
  PROVE  LET s == op[p].saving
         IN  /\ s \in op[p].snapshots /\ s \in Case /\ s # None /\ CaseId(s) \in CaseIds
             /\ s.mode # None =>
                  s.mode.revision = 1 /\ op[p].entry # None /\ s.mode.id = op[p].entry.id
             /\ cases' = [cases EXCEPT ![CaseId(s)] = s]
             /\ taxonomy' = taxonomy
<1>1. op[p] \in Op /\ CorpusInHand(op[p]) /\ op[p].step = "write"
  BY DEF WriteCase, Types, InHand
<1>2. op[p].saving \in op[p].snapshots /\ op[p].saving \in Case
  BY <1>1 DEF CorpusInHand, Op
<1>3. op[p].saving # None
  BY <1>2, NotNone
<1> QED BY <1>1, <1>2, <1>3 DEF CorpusInHand, WriteCase

\* No step but that one writes a case file.
LEMMA CasesChange ==
  ASSUME [Next]_vars, ~\E p \in Processes : WriteCase(p)
  PROVE  cases' = cases
<1>1. CASE Annotate
  BY <1>1 DEF Annotate, AnnotateRun, corpus
<1>2. ASSUME NEW p \in Processes, Generate(p) PROVE cases' = cases
  BY <1>2 DEF Generate, GenerateBatch, CreateWorkspace, SaveFirstManifest, LoadManifest,
     SaveRunRecord, SaveReviewRecord, SaveManifest, CompleteBatch, corpus
<1>3. ASSUME NEW p \in Processes, ChangeCorpus(p) PROVE cases' = cases
  BY <1>3 DEF ChangeCorpus, PromoteCandidateObservation, PromoteFailureMode,
     ReviseFailureMode, RetireFailureMode, StartChange, CheckCase, SaveTaxonomy, corpus
<1>4. ASSUME NEW p \in Processes, Stop(p) PROVE cases' = cases
  BY <1>4 DEF Stop, corpus
<1> QED BY <1>1, <1>2, <1>3, <1>4 DEF Next, vars, corpus

\* No step but SaveTaxonomy writes the taxonomy.
LEMMA EntriesChange ==
  ASSUME [Next]_vars, ~\E p \in Processes : SaveTaxonomy(p)
  PROVE  taxonomy' = taxonomy
<1>1. CASE Annotate
  BY <1>1 DEF Annotate, AnnotateRun, corpus
<1>2. ASSUME NEW p \in Processes, Generate(p) PROVE taxonomy' = taxonomy
  BY <1>2 DEF Generate, GenerateBatch, CreateWorkspace, SaveFirstManifest, LoadManifest,
     SaveRunRecord, SaveReviewRecord, SaveManifest, CompleteBatch, corpus
<1>3. ASSUME NEW p \in Processes, ChangeCorpus(p) PROVE taxonomy' = taxonomy
  BY <1>3 DEF ChangeCorpus, PromoteCandidateObservation, PromoteFailureMode,
     ReviseFailureMode, RetireFailureMode, StartChange, CheckCase, WriteCase, corpus
<1>4. ASSUME NEW p \in Processes, Stop(p) PROVE taxonomy' = taxonomy
  BY <1>4 DEF Stop, corpus
<1> QED BY <1>1, <1>2, <1>3, <1>4 DEF Next, vars, corpus

LEMMA CasesNamedStep == Types /\ CasesNamed /\ [Next]_vars => CasesNamed'
<1> SUFFICES ASSUME Types, CasesNamed, [Next]_vars PROVE CasesNamed'
  OBVIOUS
<1>1. ASSUME NEW p \in Processes, WriteCase(p) PROVE CasesNamed'
  <2> DEFINE s == op[p].saving
  <2>1. /\ cases' = [cases EXCEPT ![CaseId(s)] = s]
        /\ s.mode # None => s.mode.revision = 1
    BY <1>1, WrittenCase
  <2> HIDE DEF s
  <2>2. \A c \in CaseIds : cases'[c] = cases[c] \/ (c = CaseId(s) /\ cases'[c] = s)
    BY <2>1 DEF Types, TypeOK
  <2> QED BY <2>1, <2>2 DEF CasesNamed
<1> QED BY <1>1, CasesChange DEF CasesNamed

-----------------------------------------------------------------------------
(***************************************************************************)
(* A command that changes the corpus alone.                                 *)
(***************************************************************************)

\* What supports an entry stays when case files and entries are added.
LEMMA SupportStays ==
  ASSUME NEW e \in Entry, NEW unsaved, NEW files, NEW files2, NEW entries, NEW entries2,
         \A c \in CaseIds : files[c] # None => files2[c] = files[c],
         entries \subseteq entries2,
         Supported(e, unsaved, files, entries)
  PROVE  Supported(e, unsaved, files2, entries2)
<1>1. e.cases \subseteq CaseIds
  BY DEF Entry
<1>2. \A c \in e.cases : Fits(c, e.id, files) => Fits(c, e.id, files2)
  BY <1>1 DEF Fits
<1>3. \A n \in 1..(e.revision - 1) : Known([id |-> e.id, revision |-> n], entries2)
  BY DEF Supported, Known
<1> QED BY <1>2, <1>3 DEF Supported

\* A case that is on file need no longer be saved.
LEMMA SavedSupports ==
  ASSUME NEW e, NEW unsaved, NEW files, NEW entries, NEW s \in unsaved,
         s # None, files[CaseId(s)] = s, s.mode # None => s.mode.id = e.id,
         Supported(e, unsaved, files, entries)
  PROVE  Supported(e, unsaved \ {s}, files, entries)
<1>1. Fits(CaseId(s), e.id, files)
  BY DEF Fits
<1>2. ASSUME e.status = "active", NEW c \in e.cases
      PROVE  Fits(c, e.id, files) \/ \E t \in unsaved \ {s} : CaseId(t) = c /\ t.mode # None
  <2>1. CASE c = CaseId(s)
    BY <1>1, <2>1
  <2>2. CASE c # CaseId(s)
    BY <1>2, <2>2 DEF Supported
  <2> QED BY <2>1, <2>2
<1> QED BY <1>2 DEF Supported

\* When a command takes a step on the corpus, the others do not change it.
LEMMA OthersUnchanging ==
  ASSUME Types, OneChange, NEW p \in Processes, ChangeCorpus(p), "corpus" \notin overlapped'
  PROVE  /\ \A q \in Processes : q # p => op'[q].step \notin Changing
         /\ \A q \in Processes : ChangeInHand(q)
         /\ TaxonomySupported
<1>1. PICK x : InHand(x) /\ op' = [op EXCEPT ![p] = x]
  BY ChangeTypes
<1>2. \A q \in Processes : q # p => op'[q] = op[q]
  BY <1>1, OpUpdate
<1>3. "corpus" \notin overlapped
  BY OverlapStays DEF Next
<1>4. CASE Command(p)
  <2>1. \E snapshots, entry : StartChange(p, snapshots, entry)
    BY <1>4, CommandsAreProper
  <2>2. \A q \in Processes : op[q].step \notin Changing
    BY <2>1 DEF StartChange
  <2> QED BY <1>2, <1>3, <2>2 DEF OneChange
<1>5. CASE ~Command(p)
  <2>1. op[p].step \in Changing
    BY <1>5 DEF ChangeCorpus, Command, CheckCase, WriteCase, SaveTaxonomy, Changing
  <2> QED BY <1>2, <1>3, <2>1 DEF OneChange, ChangeInHand, Alone
<1> QED BY <1>4, <1>5

\* Case files are not written over and entries not lost.
LEMMA CorpusGrows ==
  ASSUME Types, OneChange, [Next]_vars, "corpus" \notin overlapped'
  PROVE  /\ taxonomy \subseteq taxonomy'
         /\ \A c \in CaseIds : cases[c] # None => cases'[c] = cases[c]
<1>1. ASSUME NEW p \in Processes, WriteCase(p)
      PROVE  /\ taxonomy \subseteq taxonomy'
             /\ \A c \in CaseIds : cases[c] # None => cases'[c] = cases[c]
  <2>1. ChangeInHand(p)
    BY <1>1, OthersUnchanging DEF ChangeCorpus
  <2>2. cases[CaseId(op[p].saving)] = None
    BY <1>1, <2>1 DEF ChangeInHand, WriteCase, Changing
  <2> QED BY <1>1, <2>2, WrittenCase DEF Types, TypeOK
<1>2. ASSUME NEW p \in Processes, SaveTaxonomy(p) PROVE taxonomy \subseteq taxonomy'
  <2>1. ChangeInHand(p)
    BY <1>2, OthersUnchanging DEF ChangeCorpus
  <2> QED BY <1>2, <2>1 DEF ChangeInHand, SaveTaxonomy, Changing
<1>3. CASE ~\E p \in Processes : SaveTaxonomy(p)
  BY <1>1, <1>3, CasesChange, EntriesChange
<1> QED BY <1>1, <1>2, <1>3, CasesChange

\* The generating command does not become one that changes the corpus.
LEMMA GeneratorSteps ==
  ASSUME Types, NEW p \in Processes, Generate(p)
  PROVE  /\ op'[p].step \notin Changing
         /\ \A q \in Processes : q # p => op'[q] = op[q]
         /\ UNCHANGED corpus
<1>1. PICK x : InHand(x) /\ op' = [op EXCEPT ![p] = x]
  BY GenerateTypes
<1>2. \A q \in Processes : q # p => op'[q] = op[q]
  BY <1>1, OpUpdate
<1>3. op \in [Processes -> Op] /\ op[p] \in Op
  BY DEF Types, TypeOK
<1>4. op'[p].step \in {"idle"} \cup Generating
  <2>1. CASE \E input \in Inputs : GenerateBatch(p, input)
    BY <1>3, <2>1 DEF GenerateBatch, Idle, Generating
  <2>2. CASE CreateWorkspace(p) \/ SaveFirstManifest(p) \/ LoadManifest(p)
    BY <1>3, <2>2 DEF CreateWorkspace, SaveFirstManifest, LoadManifest, Generating, Op
  <2>3. CASE SaveRunRecord(p) \/ SaveReviewRecord(p) \/ SaveManifest(p)
    BY <1>3, <2>3 DEF SaveRunRecord, SaveReviewRecord, SaveManifest, Generating, Op
  <2>4. CASE CompleteBatch(p)
    BY <1>3, <2>4 DEF CompleteBatch, Idle
  <2> QED BY <2>1, <2>2, <2>3, <2>4 DEF Generate
<1>5. op'[p].step \notin Changing
  BY <1>4 DEF Generating, Changing
<1> QED BY <1>2, <1>5, GenerateTypes

\* A command that takes a step on the corpus, alone, has in hand what it needs.
LEMMA ChangerAlone ==
  ASSUME Types, OneChange, NEW p \in Processes, ChangeCorpus(p), "corpus" \notin overlapped'
  PROVE  ChangeInHand(p)' /\ TaxonomySupported'
<1> DEFINE o == op[p]
<1>o. /\ op \in [Processes -> Op] /\ o \in Op /\ CorpusInHand(o)
      /\ taxonomy \subseteq Entry /\ cases \in [CaseIds -> Case \cup {None}]
  BY DEF Types, TypeOK, InHand
<1>a. Alone(p, Changing)' /\ ChangeInHand(p) /\ TaxonomySupported
  BY OthersUnchanging DEF Alone
<1>g. /\ taxonomy \subseteq taxonomy'
      /\ \A c \in CaseIds : cases[c] # None => cases'[c] = cases[c]
  BY CorpusGrows DEF Next
<1>s. \A e \in Entry :
        /\ Supported(e, {}, cases, taxonomy) => Supported(e, {}, cases', taxonomy')
        /\ Supported(e, o.snapshots, cases, taxonomy)
             => Supported(e, o.snapshots, cases', taxonomy')
  BY <1>g, SupportStays
<1>t. ASSUME taxonomy' = taxonomy PROVE TaxonomySupported'
  BY <1>o, <1>a, <1>s, <1>t DEF TaxonomySupported
<1>1. CASE Command(p)
  <2>1. PICK snapshots, entry :
          /\ StartChange(p, snapshots, entry)
          /\ ProperChange(snapshots, entry) /\ SupportedChange(snapshots, entry)
    BY <1>1, CommandsAreProper
  <2>2. op'[p] = Started(snapshots, entry) /\ UNCHANGED corpus
    BY <1>o, <2>1 DEF StartChange, Started
  <2>3. /\ op'[p].step \in {"taxonomy", "check"} /\ op'[p].snapshots = snapshots
        /\ op'[p].found = taxonomy /\ op'[p].entry = entry
    BY <2>1, <2>2, StartedInHand
  <2>4. entry # None => Supported(entry, snapshots, cases, taxonomy)
    BY <1>a, <2>1 DEF SupportedChange
  <2> QED BY <1>a, <1>t, <2>2, <2>3, <2>4 DEF ChangeInHand, corpus
<1>2. CASE \E s \in o.snapshots : CheckCase(p, s)
  <2>1. PICK s \in o.snapshots : CheckCase(p, s)
    BY <1>2
  <2>2. /\ o.step = "check" /\ UNCHANGED corpus /\ s \in Case /\ s # None
        /\ o.found = taxonomy
        /\ o.entry # None => Supported(o.entry, o.snapshots, cases, taxonomy)
    BY <1>o, <1>a, <2>1, NotNone DEF CheckCase, Op, ChangeInHand, Changing
  <2>3. CASE cases[CaseId(s)] = None
    <3>1. op'[p] = [o EXCEPT !.step = "write", !.saving = s]
      BY <1>o, <2>1, <2>2, <2>3 DEF CheckCase
    <3>2. /\ op'[p].step = "write" /\ op'[p].saving = s /\ op'[p].snapshots = o.snapshots
          /\ op'[p].found = o.found /\ op'[p].entry = o.entry
      BY <1>o, <3>1 DEF Op
    <3> QED BY <1>a, <1>t, <2>2, <2>3, <3>2 DEF ChangeInHand, corpus
  <2>4. CASE cases[CaseId(s)] # None /\ cases[CaseId(s)] = s
    <3>1. op'[p] = Saved(p, s)
      BY <1>o, <2>1, <2>4 DEF CheckCase
    <3>2. /\ op'[p].step \in {"idle", "check", "taxonomy"}
          /\ op'[p].step # "idle" => /\ op'[p].snapshots = o.snapshots \ {s}
                                     /\ op'[p].found = o.found /\ op'[p].entry = o.entry
      BY <2>2, <3>1, SavedInHand DEF Changing
    <3>3. o.entry # None => Supported(o.entry, o.snapshots \ {s}, cases, taxonomy)
      BY <1>o, <2>2, <2>4, SavedSupports DEF CorpusInHand
    <3> QED BY <1>a, <1>t, <2>2, <3>2, <3>3 DEF ChangeInHand, corpus, Changing
  <2>5. CASE cases[CaseId(s)] # None /\ cases[CaseId(s)] # s
    <3>1. op'[p].step = "idle"
      BY <1>o, <2>1, <2>5 DEF CheckCase, Idle
    <3> QED BY <1>t, <2>2, <3>1 DEF ChangeInHand, corpus, Changing
  <2> QED BY <2>3, <2>4, <2>5
<1>3. CASE WriteCase(p)
  <2> DEFINE s == o.saving
  <2>1. /\ s \in o.snapshots /\ s # None /\ CaseId(s) \in CaseIds
        /\ s.mode # None => o.entry # None /\ s.mode.id = o.entry.id
        /\ cases' = [cases EXCEPT ![CaseId(s)] = s] /\ taxonomy' = taxonomy
    BY <1>3, WrittenCase
  <2>2. o.step = "write" /\ op'[p] = Saved(p, s)
    BY <1>o, <1>3 DEF WriteCase
  <2>3. /\ op'[p].step \in {"idle", "check", "taxonomy"}
        /\ op'[p].step # "idle" => /\ op'[p].snapshots = o.snapshots \ {s}
                                   /\ op'[p].found = o.found /\ op'[p].entry = o.entry
    BY <2>1, <2>2, SavedInHand DEF Changing
  <2>4. /\ o.found = taxonomy
        /\ o.entry # None => Supported(o.entry, o.snapshots, cases, taxonomy)
    BY <1>a, <2>2 DEF ChangeInHand, Changing
  <2>5. o.entry # None => Supported(o.entry, o.snapshots, cases', taxonomy')
    BY <1>o, <1>s, <2>4 DEF Op
  <2>6. cases'[CaseId(s)] = s
    BY <1>o, <2>1
  <2>7. o.entry # None => Supported(o.entry, o.snapshots \ {s}, cases', taxonomy')
    <3> HIDE DEF s
    <3> QED BY <2>1, <2>5, <2>6, SavedSupports
  <2> QED BY <1>a, <1>t, <2>1, <2>3, <2>4, <2>7 DEF ChangeInHand, Changing
<1>4. CASE SaveTaxonomy(p)
  <2>1. /\ o.step = "taxonomy" /\ op'[p].step = "idle"
        /\ taxonomy' = o.found \cup {o.entry} /\ cases' = cases
    BY <1>o, <1>4 DEF SaveTaxonomy, Idle
  <2>2. o.snapshots = {} /\ o.entry # None /\ o.entry \in Entry
    BY <1>o, <2>1 DEF CorpusInHand, Op
  <2>3. o.found = taxonomy /\ Supported(o.entry, {}, cases, taxonomy)
    BY <1>a, <2>1, <2>2 DEF ChangeInHand, Changing
  <2>4. TaxonomySupported'
    BY <1>o, <1>a, <1>s, <2>1, <2>2, <2>3 DEF TaxonomySupported
  <2> QED BY <2>1, <2>4 DEF ChangeInHand, Changing
<1> QED BY <1>1, <1>2, <1>3, <1>4 DEF ChangeCorpus, Command

LEMMA OneChangeStep == Types /\ OneChange /\ [Next]_vars => OneChange'
<1> SUFFICES ASSUME Types, OneChange, [Next]_vars, "corpus" \notin overlapped'
             PROVE  (\A q \in Processes : ChangeInHand(q)') /\ TaxonomySupported'
  BY DEF OneChange
<1>h. (\A q \in Processes : ChangeInHand(q)) /\ TaxonomySupported
  BY OverlapStays DEF OneChange
<1>q. ASSUME UNCHANGED corpus,
             \A q \in Processes : op'[q] = op[q] \/ op'[q].step \notin Changing
      PROVE  (\A q \in Processes : ChangeInHand(q)') /\ TaxonomySupported'
  BY <1>h, <1>q DEF ChangeInHand, Alone, TaxonomySupported, corpus
<1>1. CASE Annotate
  BY <1>1, <1>q, AnnotateTypes
<1>2. ASSUME NEW p \in Processes, Generate(p)
      PROVE  (\A q \in Processes : ChangeInHand(q)') /\ TaxonomySupported'
  BY <1>2, <1>q, GeneratorSteps
<1>3. ASSUME NEW p \in Processes, ChangeCorpus(p)
      PROVE  (\A q \in Processes : ChangeInHand(q)') /\ TaxonomySupported'
  <2>1. ChangeInHand(p)' /\ TaxonomySupported'
    BY <1>3, ChangerAlone
  <2>2. \A q \in Processes : q # p => op'[q].step \notin Changing
    BY <1>3, OthersUnchanging
  <2> QED BY <2>1, <2>2 DEF ChangeInHand
<1>4. ASSUME NEW p \in Processes, Stop(p)
      PROVE  (\A q \in Processes : ChangeInHand(q)') /\ TaxonomySupported'
  <2>1. \A q \in Processes : op'[q] = op[q] \/ op'[q].step \notin Changing
    BY <1>4 DEF Stop, Types, TypeOK, Idle, Changing
  <2> QED BY <1>4, <1>q, <2>1 DEF Stop
<1>5. CASE UNCHANGED vars
  BY <1>5, <1>q DEF vars
<1> QED BY <1>1, <1>2, <1>3, <1>4, <1>5 DEF Next

-----------------------------------------------------------------------------
(***************************************************************************)
(* The theorems.                                                            *)
(***************************************************************************)
LEMMA InitReviewInv == Init => ReviewInv
<1> SUFFICES ASSUME Init PROVE ReviewInv
  OBVIOUS
<1>1. \A p \in Processes : op[p] = Idle
  BY DEF Init
<1>2. Idle.step = "idle"
  BY DEF Idle
<1>3. Types
  <2>1. op \in [Processes -> Op]
    BY IdleInHand DEF Init, InHand
  <2> QED BY <1>1, <1>2, <2>1, IdleInHand DEF Init, Types, TypeOK
<1>4. FilesBack
  BY <1>1, IdleBacked DEF Init, FilesBack, ManifestBacked
<1>5. DirectoryMade /\ OneGenerator
  BY <1>1, <1>2 DEF Init, DirectoryMade, OneGenerator, AloneInHand, UnlistedUntouched,
     Generating
<1>6. CasesNamed /\ OneChange
  BY <1>1, <1>2 DEF Init, CasesNamed, OneChange, ChangeInHand, TaxonomySupported, Changing
<1> QED BY <1>3, <1>4, <1>5, <1>6 DEF ReviewInv

\* The inductive invariant: types, files behind what a manifest lists, and what a
\* command has in hand that is alone on the batch or on the corpus.
THEOREM ReviewInvariant == Spec => []ReviewInv
<1>1. ReviewInv /\ [Next]_vars => ReviewInv'
  BY TypesStep, FilesBackStep, DirectoryStep, OneGeneratorStep, CasesNamedStep,
     OneChangeStep DEF ReviewInv
<1> QED BY <1>1, InitReviewInv, PTL DEF Spec

\* Whatever commands run, are stopped or overlap, files and what processes have in
\* hand keep their types (failure-review.ts).
THEOREM ReviewTypes == Spec => []TypeOK
<1>1. ReviewInv => TypeOK
  BY DEF ReviewInv, Types
<1> QED BY <1>1, ReviewInvariant, PTL

\* The batch can be loaded at any time: a manifest lists only runs whose run and
\* review files are saved, and is complete only with as many as were asked for,
\* even if several commands generate it at a time (addRunToBatch,
\* completeReviewBatch).
THEOREM ManifestsBacked == Spec => []ManifestBacked
<1>1. ReviewInv => ManifestBacked
  BY DEF ReviewInv, FilesBack
<1> QED BY <1>1, ReviewInvariant, PTL

\* Unless two commands changed the corpus at a time, every revision of a mode
\* follows the ones before it, has two sources, and, if it is active, has them on
\* file under no other mode (promoteFailureMode, reviseFailureMode,
\* retireFailureMode, validateFailureRegressionRegistry).
THEOREM TaxonomyBacked == Spec => []ModesSupported
<1>1. ASSUME ReviewInv, "corpus" \notin overlapped, NEW e \in taxonomy
      PROVE  /\ Several(e.cases)
             /\ \A n \in 1..e.revision : Known([id |-> e.id, revision |-> n], taxonomy)
             /\ e.status = "active" =>
                  RegressionValid([mode |-> e.id, revision |-> e.revision, cases |-> e.cases])
  <2>1. e \in Entry /\ e.revision \in Nat /\ 1 <= e.revision /\ e.cases \subseteq CaseIds
    BY <1>1, ReviewAssumption DEF ReviewInv, Types, TypeOK, RevisionRange, Entry
  <2>2. Supported(e, {}, cases, taxonomy)
    BY <1>1 DEF ReviewInv, OneChange, TaxonomySupported
  <2>3. ASSUME NEW n \in 1..e.revision
        PROVE  Known([id |-> e.id, revision |-> n], taxonomy)
    <3>1. CASE n = e.revision
      BY <3>1 DEF Known
    <3>2. CASE n # e.revision
      <4>1. n \in 1..(e.revision - 1)
        BY <2>1, <3>2
      <4> QED BY <2>2, <4>1 DEF Supported
    <3> QED BY <3>1, <3>2
  <2>4. ASSUME e.status = "active"
        PROVE  RegressionValid([mode |-> e.id, revision |-> e.revision, cases |-> e.cases])
    <3>1. \A c \in e.cases : Fits(c, e.id, cases)
      BY <2>2, <2>4 DEF Supported
    <3>2. \A c \in e.cases : cases[c].mode # None => cases[c].mode.revision <= e.revision
      BY <1>1, <2>1, <3>1 DEF ReviewInv, CasesNamed, Fits
    <3>3. e.cases # {}
      BY <2>2 DEF Supported, Several
    <3> QED BY <2>4, <3>1, <3>2, <3>3 DEF RegressionValid, Fits
  <2> QED BY <2>2, <2>3, <2>4 DEF Supported
<1>2. ReviewInv => ModesSupported
  BY <1>1 DEF ModesSupported
<1> QED BY <1>2, ReviewInvariant, PTL

\* A review that a reviewer recorded is changed by nobody else, unless two commands
\* generated the batch at a time (addRunToBatch, annotateRun).
THEOREM ReviewsKept == Spec => AnnotationsKept
<1> DEFINE A == \A r \in Runs :
             /\ "batch" \notin overlapped'
             /\ reviews[r] \notin {None, PendingReview(r)}
             /\ reviews[r]' # reviews[r]
             => Annotate
<1>1. ASSUME ReviewInv, [Next]_vars PROVE A
  <2> SUFFICES ASSUME NEW r \in Runs, "batch" \notin overlapped',
                      reviews[r] \notin {None, PendingReview(r)}, reviews'[r] # reviews[r]
               PROVE  Annotate
    OBVIOUS
  <2>1. ASSUME NEW p \in Processes, SaveReviewRecord(p) PROVE FALSE
    <3>1. OneGenerator /\ Types /\ "batch" \notin overlapped
      BY <1>1, OverlapStays DEF ReviewInv
    <3>2. op[p].step = "review" /\ AloneInHand(p) /\ UnlistedUntouched
      BY <2>1, <3>1 DEF SaveReviewRecord, OneGenerator
    <3>3. Head(op[p].todo) \notin manifest.runs
      BY <3>2 DEF AloneInHand, Generating
    <3>4. r = Head(op[p].todo)
      BY <2>1, <3>1 DEF SaveReviewRecord, Types, TypeOK
    <3> QED BY <3>2, <3>3, <3>4 DEF UnlistedUntouched
  <2>2. ASSUME NEW p \in Processes, Generate(p) PROVE FALSE
    BY <2>1, <2>2 DEF Generate, GenerateBatch, CreateWorkspace, SaveFirstManifest,
       LoadManifest, SaveRunRecord, SaveManifest, CompleteBatch, batch
  <2>3. ASSUME NEW p \in Processes, ChangeCorpus(p) \/ Stop(p) PROVE FALSE
    BY <1>1, <2>3, ChangeTypes DEF ReviewInv, Stop, batch
  <2> QED BY <1>1, <2>2, <2>3 DEF Next, vars, batch
<1>2. ReviewInv /\ [Next]_vars => [A]_vars
  BY <1>1
<1> QED BY <1>2, ReviewInvariant, PTL DEF Spec, AnnotationsKept

\* Saving a manifest neither takes a run from a valid batch nor opens it again.
LEMMA ManifestSteps ==
  ASSUME ReviewInv, [Next]_vars, "batch" \notin overlapped', BatchValid
  PROVE  manifest' = manifest
<1>o. OneGenerator /\ Types /\ "batch" \notin overlapped
  BY OverlapStays DEF ReviewInv
<1>v. manifest \in Manifest /\ manifest # None /\ manifest.status = "complete"
  BY <1>o DEF BatchValid, Loadable, Types, TypeOK
<1>1. ASSUME NEW p \in Processes, SaveFirstManifest(p) PROVE FALSE
  BY <1>o, <1>v, <1>1 DEF SaveFirstManifest, OneGenerator, AloneInHand, Generating
<1>2. ASSUME NEW p \in Processes, SaveManifest(p) PROVE FALSE
  <2>1. op[p].step = "list" /\ op[p].loaded = manifest
    BY <1>o, <1>2 DEF SaveManifest, OneGenerator, AloneInHand, Generating
  <2>2. op[p].loaded.status = "in_progress"
    BY <1>o, <2>1 DEF Types, InHand, BatchInHand
  <2> QED BY <1>v, <2>1, <2>2
<1>3. ASSUME NEW p \in Processes, CompleteBatch(p) PROVE manifest' = manifest
  <2>1. op[p].step = "loaded" /\ manifest' = [op[p].loaded EXCEPT !.status = "complete"]
    BY <1>3 DEF CompleteBatch
  <2>2. op[p].loaded = manifest
    BY <1>o, <2>1 DEF OneGenerator, AloneInHand, Generating
  <2> QED BY <1>v, <2>1, <2>2 DEF Manifest
<1>4. ASSUME NEW p \in Processes, Generate(p) PROVE manifest' = manifest
  BY <1>1, <1>2, <1>3, <1>4 DEF Generate, GenerateBatch, CreateWorkspace, LoadManifest,
     SaveRunRecord, SaveReviewRecord, batch
<1>5. ASSUME NEW p \in Processes, ChangeCorpus(p) \/ Stop(p) PROVE manifest' = manifest
  BY <1>o, <1>5, ChangeTypes DEF Stop, batch
<1>6. Annotate => manifest' = manifest
  BY <1>o, AnnotateTypes
<1> QED BY <1>4, <1>5, <1>6 DEF Next, vars, batch

\* Unless commands overlapped, a regression that the registry accepts and a batch
\* that validates stay so, whatever is promoted, revised or retired
\* (validateFailureRegressionRegistry, validateReviewBatch).
THEOREM HistoryKept == Spec => HistoryStaysValid
<1> DEFINE A == overlapped' = {} =>
             /\ \A g \in Regression : RegressionValid(g) => RegressionValid(g)'
             /\ BatchValid /\ reviews' = reviews => BatchValid'
<1>1. ASSUME ReviewInv, [Next]_vars, overlapped' = {}
      PROVE  /\ \A g \in Regression : RegressionValid(g) => RegressionValid(g)'
             /\ BatchValid /\ reviews' = reviews => BatchValid'
  <2>1. Types /\ OneChange
    BY <1>1 DEF ReviewInv
  <2>2. /\ taxonomy \subseteq taxonomy'
        /\ \A c \in CaseIds : cases[c] # None => cases'[c] = cases[c]
    BY <1>1, <2>1, CorpusGrows
  <2>3. ASSUME NEW g \in Regression, RegressionValid(g) PROVE RegressionValid(g)'
    <3>1. g.cases \subseteq CaseIds
      BY DEF Regression
    <3>2. \A c \in g.cases : cases'[c] = cases[c]
      BY <2>2, <2>3, <3>1 DEF RegressionValid
    <3> QED BY <2>2, <2>3, <3>2 DEF RegressionValid
  <2>4. ASSUME BatchValid, reviews' = reviews PROVE BatchValid'
    <3>1. manifest' = manifest
      BY <1>1, <2>4, ManifestSteps
    <3>2. runFiles \subseteq runFiles'
      BY <1>1, <2>1, FilesStay
    <3>3. \A ref : Known(ref, taxonomy) => Known(ref, taxonomy')
      BY <2>2 DEF Known
    <3>4. Loadable'
      BY <2>4, <3>1, <3>2 DEF BatchValid, Loadable
    <3> QED BY <2>4, <3>1, <3>3, <3>4 DEF BatchValid
  <2> QED BY <2>3, <2>4
<1>2. ReviewInv /\ [Next]_vars => [A]_vars
  BY <1>1
<1> QED BY <1>2, ReviewInvariant, PTL DEF Spec, HistoryStaysValid
=============================================================================
