--------------------------- MODULE MCWebhookReplay ---------------------------
(***************************************************************************)
(* An instance of WebhookReplay for TLC: one request that is delivered      *)
(* twice, and one with another body, signed an instant later.  Whether one  *)
(* package is material after the other is left to the classifier.           *)
(***************************************************************************)
EXTENDS WebhookReplay, TLC

CONSTANTS D1, D2, D3, Q1, Q2, R1, R2, P1, P2

OneRepeated == (D1 :> Q1) @@ (D2 :> Q1) @@ (D3 :> Q2)

TwoBodies == (D1 :> R1) @@ (D2 :> R1) @@ (D3 :> R2)

OneLater == (Q1 :> 0) @@ (Q2 :> 1)

ReplaySymmetry == Permutations({P1, P2}) \cup Permutations({D1, D2})
=============================================================================
