\* The server, restarted in either mode, and one approval command at a time.
SPECIFICATION Spec
CONSTANTS
  Server = server
  Clis = {cli}
  None = None
  Empty = Empty
  Garbage = Garbage
  NoEntry = NoEntry
  NoDecision = NoDecision
  Catalog <- MCCatalog
  NoAnswer = NoAnswer
  Missing = Missing
  Answers <- MCAnswers
  Packages <- MCPackages
  TierOf <- MCTierOf
INVARIANTS
  AcknowledgedOnFile
  ReadOnlyStagesNothing
  SensitiveNeedsHuman
  RunsScoreWell
  RunsAreGrounded
  ExplanationDecidesNothing
  AcceptedRunsCanBeActedOn
  GradersDifferOnHistory
