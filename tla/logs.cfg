SPECIFICATION FairSpec
CONSTANTS
  Records = 4
  QueueSize = 2
  BatchSize = 2
  MaxRetries = 1
INVARIANTS NothingLost InOrder
PROPERTIES RecordsSettle WorkerEnds
