SPECIFICATION PubSpec
CONSTANTS
  Runs = 3
  Scripts <- MCScripts
  ReposOf <- MCReposOf
  PRs <- MCPRs
  About <- MCAbout
  PageSize = 1
  MaxPages = 2
  MaxAttempts = 2
  TargetValidated = 1
  NoPR = NoPR
  MaxStarts = 3
  MaxFaults = 1
  Versions = {"v0.1"}
  MaxExports = 2
INVARIANTS
  RedThenGreen
  VerdictOnce
  LoadedIsPublished
PROPERTY
  DatasetGrows
CHECK_DEADLOCK FALSE
