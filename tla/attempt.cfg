SPECIFICATION FairSpec
CONSTANTS
  Generators <- AllShapes
  Collectors = {c1}
  Reps = 2
  Launches = 2
CONSTRAINT ShortOfCommands
INVARIANTS TypeOK QuietAfterAttempt DoneMeansSuccess DoneIsPersisted
PROPERTIES OthersKept RunnerEnds
