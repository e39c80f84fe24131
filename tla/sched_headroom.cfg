SPECIFICATION Spec
CONSTANTS
  NumRequests = 2
  RequestIds <- Ids
  request_id <- FreshIds
  BlockSize = 2
  MaxContext = 7
  Configs <- HeadroomConfigs
  PromptLens = {2}
  MaxNewTokens = {5}
  Impatient = {1}
INVARIANT NoImmediateEviction
CHECK_DEADLOCK FALSE
