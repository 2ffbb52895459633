\* One process; a request is repeated, retried after a failure, or arrives late.
SPECIFICATION ReplaySpec
CONSTANTS
  D1 = d1
  D2 = d2
  D3 = d3
  Q1 = q1
  Q2 = q2
  R1 = r1
  R2 = r2
  P1 = p1
  P2 = p2
  None = None
  Deliveries = {d1, d2, d3}
  Requests = {q1, q2}
  RequestOf <- OneRepeated
  SignedAt <- OneLater
  Tolerance = 2
  Ttl = 2
  MaxTime = 3
  RunIds = {r1, r2}
  RunIdOf <- TwoBodies
  Packages = {p1, p2}
  Material = {}
  Classifier = TRUE
  Servers = {s1}
  Backend = "memory"
INVARIANTS
  VerdictOnCurrentBaseline
  BaselineIsNewestWork
  
  ClaimsHaveOwners
SYMMETRY ReplaySymmetry
CHECK_DEADLOCK FALSE
