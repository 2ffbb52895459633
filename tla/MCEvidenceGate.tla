--------------------------- MODULE MCEvidenceGate ---------------------------
(***************************************************************************)
(* Instances of EvidenceGate for TLC.  Packages P1 and P2 differ in a       *)
(* current signal, so either is material after the other; P3 differs from   *)
(* both only in what the classifier has to judge.                           *)
(***************************************************************************)
EXTENDS EvidenceGate, TLC

CONSTANTS D1, D2, D3, R1, R2, R3, P1, P2, P3

DeterministicMaterial == {<<P1, P2>>, <<P2, P1>>}

\* Every delivery has a body of its own (MCWebhookReplay has bodies that repeat).
DistinctBodies == (D1 :> R1) @@ (D2 :> R2) @@ (D3 :> R3)

\* P1 and P2 are alike, and so are the servers.
TwoServersSymmetry == Permutations({P1, P2}) \cup Permutations(Servers)
=============================================================================
