\* A crash while the changes a reviewer asked for are being validated.
CONSTANTS
  HasEvaluator = FALSE
  InQueue = TRUE
  SharedProcess = TRUE
  MaxCrashes = 1
  MaxFaults = 0
  MaxControls = 0
  MaxTroubles = 3
  MaxRetries = 0
  MaxReviews = 1
SPECIFICATION Spec
INVARIANT SuccessIsValidated
CHECK_DEADLOCK FALSE
