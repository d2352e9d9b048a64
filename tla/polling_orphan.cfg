SPECIFICATION Spec
CONSTANTS
  Jobs = 2
  PlayOf <- TwoPlays
  TaskOf <- Repeated
INVARIANTS FinalRelayed DoneIsTrue
CONSTRAINT Abandoned
