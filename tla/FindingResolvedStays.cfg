\* A resolved incident gets new material evidence.
SPECIFICATION Spec
CONSTANTS
  Items <- MCItems
  TierOf <- MCTierOf
  Texts <- MCTexts
  Normal <- MCNormal
  Contexts <- MCContexts
  FactValues <- MCFactValues
  Foreign = Foreign
  Words <- MCWords
  Placeholders <- MCPlaceholders
  LogLimit = 2
  Owned <- MCOwned
  DeploysOf <- MCDeploysOf
  Runbooks <- MCRunbooks
  NoValue = NoValue
  Notifications <- MCNotifications
  LogReplies <- MCLogReplies
  Incidents <- MCIncidents
  None = None
PROPERTY
  MaterialReopens
