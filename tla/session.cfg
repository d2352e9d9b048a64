SPECIFICATION FairSpec
CONSTANTS
  Modes <- AllModes
  Nodes = 2
  Processes = 3
  Presses = 4
INVARIANT FailedProvisionRollsBack
PROPERTIES NotUnderRun ConfirmedStopEnds
