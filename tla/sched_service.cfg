SPECIFICATION FairSpec
CONSTANTS
  NumRequests = 3
  RequestIds <- Ids
  request_id <- FreshIds
  BlockSize = 1
  MaxContext = 6
  Configs <- ServiceConfigs
  PromptLens = {1, 4}
  MaxNewTokens = {4}
  Impatient = {2}
INVARIANTS
  NeverOverCommit
  EngineSurvives
  PreemptionsPaidFor
  EvictionSparesOne
PROPERTIES
  EveryRequestEnds
  ImplementsStream
