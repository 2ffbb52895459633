\* The server stops between the two store calls of one verification request.
SPECIFICATION Spec
CONSTANTS
  Provider = provider_unavailable
  Unresolved = unresolved_mitigation
  K1 = k1
  K2 = k2
  K3 = k3
  K4 = k4
  K5 = k5
  V1 = v1
  V2 = v2
  Keys = {k1, k2, k3, k4, k5, v1, v2}
  NoBudget = NoBudget
  Classes <- MCClasses
  KeysOf <- ProviderKeys
  VerifyKeys = {v1}
  FeedbackKeys = {}
  Limit = 2
  TTL = 9
  MaxTime = 0
  Backend = "postgres"
INVARIANT
  UnresolvedCharged
