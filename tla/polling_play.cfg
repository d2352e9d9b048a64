SPECIFICATION FairSpec
CONSTANTS
  Jobs = 2
  PlayOf <- OnePlay
  TaskOf <- Distinct
INVARIANTS TypeOK NothingSkipped
PROPERTIES FailureEndsPlay DeadIsNoticed PlaysEnd
