\* A single task with evaluators: any two of two crashes, a fault and a pause or cancel request.
CONSTANTS
  HasEvaluator = TRUE
  InQueue = FALSE
  SharedProcess = TRUE
  MaxCrashes = 2
  MaxFaults = 1
  MaxControls = 1
  MaxTroubles = 2
  MaxRetries = 0
  MaxReviews = 0
SPECIFICATION FairSpec
INVARIANTS
  TypeInv SuccessIsValidated PromptRunsOnce SavedStateSuffices
PROPERTIES RunSettles EndedStaysEnded
CHECK_DEADLOCK FALSE
