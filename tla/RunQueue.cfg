\* A queue child reviewed, retried, and troubled by two of two crashes, a fault and a pause.
CONSTANTS
  HasEvaluator = FALSE
  InQueue = TRUE
  SharedProcess = TRUE
  MaxCrashes = 2
  MaxFaults = 1
  MaxControls = 1
  MaxTroubles = 2
  MaxRetries = 1
  MaxReviews = 1
SPECIFICATION Spec
INVARIANTS ChangeRequestIsAnswered ManualReviewIsEarned TurnsPerCycle
CHECK_DEADLOCK FALSE
