--------------------------- MODULE MCFailureReview ---------------------------
(* Values for FailureReview.                                               *)
EXTENDS FailureReview, TLC

CONSTANTS r1, r2, a1, a2, n1, m1, m2, p1, p2

TwoRunInputs == {<<r1, r2>>, <<r1, r1>>}

\* Both first failures can be found in r1, one in r2.
SomeAnchored == {<<r1, a1>>, <<r1, a2>>, <<r2, a1>>}

Failed(r, a, note, mode, followUp) ==
  [run |-> r, disposition |-> "failed", anchor |-> a, note |-> note, mode |-> mode,
   followUp |-> followUp]

FirstRevision(m) == [id |-> m, revision |-> 1]

\* Reviews without and with a mode and a note, one that is not valid for its run,
\* and an acceptable one.
SomeAnnotations ==
  {Failed(r1, a1, None, None, "candidate"), Failed(r1, a2, None, FirstRevision(m1), "protect"),
   Failed(r2, a1, None, None, "none"), Failed(r2, a1, n1, FirstRevision(m2), "categorized"),
   Failed(r2, a2, None, None, "none"),
   [PendingReview(r1) EXCEPT !.disposition = "acceptable"]}

ProcessSymmetry == Permutations({p1, p2})
==============================================================================
