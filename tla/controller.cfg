SPECIFICATION FairSpec
CONSTANTS
  Hosts = {h1, h2}
  NoHost = NoHost
  Workloads = 2
  Reps = 1
  Configs <- SomeConfigs
  Pendings <- ResumedRun
CONSTRAINT FileOnShortRun
INVARIANTS CleanupOnlyWhenConfirmed DoneIsTerminal
PROPERTIES NoWorkAfterStop FinishedIsQuiet VerdictsKept KeepsPromise StopEndsRun RunEnds
