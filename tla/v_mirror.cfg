SPECIFICATION Spec
CONSTANTS
  Reps = 1
  LogTexts = {l1}
  LogLines = 1
  Window = 9
  Runs = 1
CONSTRAINT NoOverlap
INVARIANT DoneMirrored
