--------------------------- MODULE EvidenceDelta ---------------------------
(***************************************************************************)
(* The materiality of new evidence (reentry.ts): canonical packages, the    *)
(* delta of two of them, and the decision made of it.  Pure operators.      *)
(*                                                                          *)
(* A package is [facts, evidence, missing]: evidence is the sequence the    *)
(* tools built, of texts as they were found, which Canonical maps to items  *)
(* by what normalizeText leaves of them; evidence ids are left out, as the  *)
(* canonical item leaves them out.  A canonical item stands for its         *)
(* fingerprint, and so for the start of it that goes into a reference.      *)
(* Sorting is modelled by what it forgets: canonical evidence is a bag.     *)
(***************************************************************************)
EXTENDS Naturals, Sequences, FiniteSets, SequencesExt

CONSTANTS Items,      \* canonical evidence items, by fingerprint
          TierOf,     \* the source tier of an item
          Texts,      \* evidence as found
          Normal,     \* the item a text is normalised to
          Contexts,   \* entries of missingContext
          FactValues, \* values of title, severity, status and service
          Foreign     \* a reference the classifier made up

Fields == {"title", "severity", "status", "service"}

Tiers == {"current_signal", "operational_context", "guidance", "historical_context"}

ASSUME DeltaAssumption ==
  /\ TierOf \in [Items -> Tiers]
  /\ Normal \in [Texts -> Items]

Package == [facts : [Fields -> FactValues], evidence : Seq(Texts), missing : SUBSET Contexts]

Count(s, x) == Cardinality({n \in DOMAIN s : s[n] = x})

-----------------------------------------------------------------------------
\* canonicalizeEvidencePackage

ItemsOf(p) == [n \in DOMAIN p.evidence |-> Normal[p.evidence[n]]]

Digest(p) ==
  [facts |-> p.facts, evidence |-> [i \in Items |-> Count(ItemsOf(p), i)], missing |-> p.missing]

-----------------------------------------------------------------------------
\* evidenceDelta

\* Faulty variant of MultisetDifference: occurrences are not numbered.
UnnumberedDifference(values, base, direction) ==
  LET step(acc, i) ==
        IF acc.remaining[i] > 0
        THEN [acc EXCEPT !.remaining[i] = @ - 1]
        ELSE [acc EXCEPT !.refs = Append(@, <<direction, i, 1>>)]
  IN  FoldLeft(step, [remaining |-> [i \in Items |-> Count(base, i)], refs |-> <<>>], values).refs

\* One pass over the values: an item takes one of the baseline's, if any remains,
\* or becomes the next occurrence in the difference.
MultisetDifference(values, base, direction) ==
  LET start == [remaining |-> [i \in Items |-> Count(base, i)],
                occurrences |-> [i \in Items |-> 0], refs |-> <<>>]
      step(acc, i) ==
        IF acc.remaining[i] > 0
        THEN [acc EXCEPT !.remaining[i] = @ - 1]
        ELSE [acc EXCEPT !.occurrences[i] = @ + 1,
                         !.refs = Append(@, <<direction, i, acc.occurrences[i] + 1>>)]
      pass[n \in 0..Len(values)] == IF n = 0 THEN start ELSE step(pass[n - 1], values[n])
  IN  pass[Len(values)].refs

Delta(prior, candidate) ==
  [added           |-> MultisetDifference(ItemsOf(candidate), ItemsOf(prior), "added"),
   removed         |-> MultisetDifference(ItemsOf(prior), ItemsOf(candidate), "removed"),
   changedFacts    |-> {f \in Fields : prior.facts[f] # candidate.facts[f]},
   addedMissing    |-> candidate.missing \ prior.missing,
   resolvedMissing |-> prior.missing \ candidate.missing]

\* deltaRefs, in which nothing depends on the order.
DeltaRefs(d) ==
  {d.added[n] : n \in DOMAIN d.added} \cup {d.removed[n] : n \in DOMAIN d.removed}
  \cup {<<"incident", f>> : f \in d.changedFacts}
  \cup {<<"missing-added", x>> : x \in d.addedMissing}
  \cup {<<"missing-resolved", x>> : x \in d.resolvedMissing}

Operational(i) == TierOf[i] \in {"current_signal", "operational_context"}

\* Faulty variants of DeterministicallyMaterial: context that went missing counts;
\* of added evidence only current signals count.
LossIsMaterial(d) ==
  \/ \E n \in DOMAIN d.added : Operational(d.added[n][2])
  \/ d.resolvedMissing \cup d.addedMissing # {}
  \/ d.changedFacts \cap {"severity", "status", "service"} # {}

OnlyCurrentSignals(d) ==
  \/ \E n \in DOMAIN d.added : TierOf[d.added[n][2]] = "current_signal"
  \/ d.resolvedMissing # {}
  \/ d.changedFacts \cap {"severity", "status", "service"} # {}

DeterministicallyMaterial(d) ==
  \/ \E n \in DOMAIN d.added : Operational(d.added[n][2])
  \/ d.resolvedMissing # {}
  \/ d.changedFacts \cap {"severity", "status", "service"} # {}

-----------------------------------------------------------------------------
\* evaluateEvidenceReentry against a retained baseline.

Decision == [outcome : {"first_observation", "material", "not_material"},
             basis : {"no_baseline", "equivalent", "deterministic_policy", "classifier",
                      "classifier_fallback"}]

\* What may come back from the classifier: nothing (there is none, it fails, or
\* its answer has another shape), or an answer with a rationale that may be
\* unusable and with references, some of which may not exist.
Replies(refs) ==
  {[usable |-> FALSE]}
  \cup [usable : {TRUE}, material : BOOLEAN, rationale : BOOLEAN,
        cited : {{}, refs, refs \cup {Foreign}} \cup {{r} : r \in refs}]

ReplyAccepted(reply, refs) ==
  /\ reply.usable
  /\ reply.rationale
  /\ reply.cited # {} /\ reply.cited \subseteq refs

\* What an ambiguous delta is judged to be: material, unless an acceptable reply
\* says otherwise.
Judged(reply, refs) ==
  IF ReplyAccepted(reply, refs)
  THEN [outcome |-> IF reply.material THEN "material" ELSE "not_material",
        basis |-> "classifier"]
  ELSE [outcome |-> "material", basis |-> "classifier_fallback"]

Decisions(prior, candidate) ==
  LET delta == Delta(prior, candidate)
      refs  == DeltaRefs(delta)
  IN  CASE Digest(prior) = Digest(candidate) ->
             {[outcome |-> "not_material", basis |-> "equivalent"]}
        [] Digest(prior) # Digest(candidate) /\ DeterministicallyMaterial(delta) ->
             {[outcome |-> "material", basis |-> "deterministic_policy"]}
        [] OTHER -> {Judged(reply, refs) : reply \in Replies(refs)}
=============================================================================
