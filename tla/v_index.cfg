SPECIFICATION Spec
CONSTANTS
  Functions <- TwoFunctions
  Rates <- TwoRates
  MaxRate <- OneCapped
  MinFunctions = 1
  MaxFunctions = 2
  Iterations = 1
  MaxWait = 3
  SleepStep = 2
  Repetitions = 1
  Processes = 2
INVARIANTS IndexKept
