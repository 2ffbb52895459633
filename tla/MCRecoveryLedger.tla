-------------------------- MODULE MCRecoveryLedger --------------------------
(***************************************************************************)
(* Instances of RecoveryLedger for TLC: two of the four failure classes,    *)
(* one retried by the operator and the one charged by verification.         *)
(***************************************************************************)
EXTENDS RecoveryLedger, TLC

CONSTANTS Provider, K1, K2, K3, K4, K5, V1, V2

MCClasses == {Provider, Unresolved}

\* Each class has idempotency keys of its own.
ProviderKeys == (Provider :> {K1, K2, K3, K4}) @@ (Unresolved :> {})
SeparateKeys == (Provider :> {K1, K2, K3, K4}) @@ (Unresolved :> {K5})

\* Clients reuse a key for both classes, as migration 005 allows.
SharedKeys == (Provider :> {K1, K2, K3}) @@ (Unresolved :> {K1, K2})

\* No definition tells the provider's own keys apart.
ProviderKeySymmetry == Permutations({K1, K2, K3, K4})
=============================================================================
