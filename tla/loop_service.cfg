SPECIFICATION FairSpec
CONSTANTS
  r1 = r1
  r2 = r2
  r3 = r3
  Requests <- MCRequests
  max_queue = 1
  max_batch = 2
INVARIANTS
  SleepsOnlyIdle
  InboxBounded
  HeldInOnePlace
PROPERTIES
  StartupEnds
  EveryAcceptedAnswered
CHECK_DEADLOCK FALSE
