SPECIFICATION Spec
CONSTANTS
  NumRequests = 3
  RequestIds <- Ids
  request_id <- SharedIds
  BlockSize = 2
  MaxContext = 7
  Configs <- ReserveConfigs
  PromptLens = {2}
  MaxNewTokens = {5}
  Impatient = {1}
INVARIANT NeverOverCommit
CHECK_DEADLOCK FALSE
