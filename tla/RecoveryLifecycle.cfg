\* Postgres: records expire and are swept, a key is used for two classes, the
\* server may stop, and the lifecycle is read after every step.
SPECIFICATION Spec
CONSTANTS
  Provider = provider_unavailable
  Unresolved = unresolved_mitigation
  K1 = k1
  K2 = k2
  V1 = v1
  Keys = {k1, k2, v1}
  NoBudget = NoBudget
  Classes <- MCClasses
  KeysOf <- OneSharedKey
  VerifyKeys = {v1}
  FeedbackKeys = {}
  Limit = 2
  TTL = 2
  MaxTime = 4
  Backend = "postgres"
INVARIANTS
  LedgerBacksBudget
  ExhaustionHandedToHuman
  
PROPERTIES
  LedgerAppendOnly
  
  SweepKeepsState
