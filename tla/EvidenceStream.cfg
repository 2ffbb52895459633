\* Two incidents, notifications in any order, any answer of the classifier.
SPECIFICATION Spec
CONSTANTS
  Items <- MCItems
  TierOf <- MCTierOf
  Texts <- MCTexts
  Normal <- MCNormal
  Contexts <- MCContexts
  FactValues <- MCFactValues
  Foreign = Foreign
  Words <- MCWords
  Placeholders <- MCPlaceholders
  LogLimit = 2
  Owned <- MCOwned
  DeploysOf <- MCDeploysOf
  Runbooks <- MCRunbooks
  NoValue = NoValue
  Notifications <- MCNotifications
  LogReplies <- MCLogReplies
  Incidents <- MCIncidents
  None = None
INVARIANTS
  
  
  LostLogsNotDecisive
  AlertOrderImmaterial
  DeltaIsExact
