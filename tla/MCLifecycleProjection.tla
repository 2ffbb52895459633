----------------------- MODULE MCLifecycleProjection -----------------------
(***************************************************************************)
(* Instances of LifecycleProjection for TLC: the provider class and the one *)
(* charged by verification.  One key is used for both.                      *)
(***************************************************************************)
EXTENDS LifecycleProjection, TLC

CONSTANTS Provider, K1, K2, V1

MCClasses == {Provider, Unresolved}
OneSharedKey == (Provider :> {K1, K2}) @@ (Unresolved :> {K1})
=============================================================================
