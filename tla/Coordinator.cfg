\* Deliveries over two incidents in every interleaving with microtasks and a
\* crash at any point; the work of one incident never has to settle.
SPECIFICATION FairSpec
CONSTANTS
  Calls = {c1, c2, c3}
  Incidents = {i1, i2}
  Hung = {i1}
  None = None
INVARIANTS
  OneWorkerPerIncident
PROPERTIES
  ServesInOrder
  EveryCallEnds
