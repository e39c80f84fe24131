SPECIFICATION FairSpec
CONSTANTS
  Problems = 2
  N <- MCN
  Workers = 2
  Worst = 1
  Cap = 4
  Reserve = 2
  Models = {"anthropic", "litellm", "engine"}
  Reply <- MCReply
  MaxCommands = 3
  MaxFaults = 1
INVARIANTS
  BreakerHolds
  OneRowPerSample
  LedgerIsTheRows
  SamplesBalanced
  PassedByCheck
  PassAtKIsExact
PROPERTY
  GenerateEnds
CHECK_DEADLOCK FALSE
