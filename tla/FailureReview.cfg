\* Two commands at a time on two runs, two modes and one batch.
SPECIFICATION Spec
CONSTANTS
  r1 = r1
  r2 = r2
  a1 = a1
  a2 = a2
  n1 = n1
  m1 = m1
  m2 = m2
  p1 = p1
  p2 = p2
  None = None
  Runs = {r1, r2}
  Inputs <- TwoRunInputs
  Anchors = {a1, a2}
  Anchored <- SomeAnchored
  Notes = {n1}
  Annotations <- SomeAnnotations
  Credentials = {}
  Modes = {m1, m2}
  MaxRevision = 2
  Processes = {p1, p2}
SYMMETRY ProcessSymmetry
INVARIANTS
  ManifestBacked
  ModesSupported
PROPERTIES
  HistoryStaysValid
  AnnotationsKept
CHECK_DEADLOCK FALSE
