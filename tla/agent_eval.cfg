SPECIFICATION Spec
CONSTANTS
  Instances <- MCInstances
  Models <- MCModels
  Commands = {"look", "fix", "wrong", "tests", "manifest", "git mv", "git commit", "git checkout"}
  MaxTurns = 3
  WallClock = 2
  CallTime = 1
  CommandTime = 1
  NoCommand = NoCommand
  NoInstance = NoInstance
  KeyLists <- MCKeyLists
  MaxCrashes = 1
  MaxLoads = 2
  F2P <- MCF2P
  P2P <- MCP2P
INVARIANTS
  TableIsTheFile
  OneTurnOverAtMost
  SubmittedIsNotEmpty
  ResolvedByTheKey
  FixIsScored
  EveryKeyRecorded
PROPERTIES
  ResumesWhereItStopped
