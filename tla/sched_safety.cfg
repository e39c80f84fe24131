SPECIFICATION Spec
CONSTANTS
  NumRequests = 3
  RequestIds <- Ids
  request_id <- SharedIds
  BlockSize = 2
  MaxContext = 7
  Configs <- SafetyConfigs
  PromptLens = {2, 5, 8}
  MaxNewTokens = {5}
  Impatient = {1, 3}
INVARIANTS
  TypeOK
  BlocksOwnedOnce
  SeatsAgree
  RowsReady
  AttendsAsAlone
PROPERTY FinishIsFinal
CHECK_DEADLOCK FALSE
