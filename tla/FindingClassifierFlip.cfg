\* The classifier answers the same question differently the second time.
SPECIFICATION Spec
CONSTANTS
  D1 = d1
  D2 = d2
  D3 = d3
  R1 = r1
  R2 = r2
  R3 = r3
  P1 = p1
  P2 = p2
  P3 = p3
  None = None
  Deliveries = {d1, d2, d3}
  RunIds = {r1, r2, r3}
  RunIdOf <- DistinctBodies
  Packages = {p1, p2, p3}
  Material <- DeterministicMaterial
  Classifier = TRUE
  Servers = {s1}
  Backend = "memory"
INVARIANT
  MaterialGetsRun
