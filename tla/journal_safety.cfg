SPECIFICATION Spec
CONSTANTS
  Reps = 1
  LogTexts = {l1}
  LogLines = 1
  Window = 2
  Runs = 2
CONSTRAINT Bounded
INVARIANTS CompletedHasEvidence NothingDropped
