SPECIFICATION Spec
CONSTANTS
  Functions <- TwoFunctions
  Rates <- TwoRates
  MaxRate <- OneCapped
  MinFunctions = 1
  MaxFunctions = 2
  Iterations = 2
  MaxWait = 3
  SleepStep = 2
  Repetitions = 2
  Processes = 3
INVARIANTS TypeOK IndexedIsMeasured SuccessIsComplete
