SPECIFICATION FairSpec
CONSTANTS
  a0 = a0
  a1 = a1
  w1 = w1
  w2 = w2
  NoJob = NoJob
  Jobs <- MCJobs
  JobList <- MCJobList
  Setups <- MCSetups
  Workers <- MCWorkers
  NumPartitions = 2
  partition <- MCPartition
  MaxProducerRuns = 2
  MaxFaults = 2
INVARIANTS
  TypeOK
  CommittedIsRecorded
  OneRunnerPerJob
PROPERTIES
  QueueDrains
  ImplementsStore
