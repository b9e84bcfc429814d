\* Two children, a review thread; one edit, change request, failure and crash.
CONSTANTS
  N = 2
  Web = {"w1"}
  MaxReviews = 1
  MaxEdits = 1
  MaxFaults = 1
  MaxCrashes = 1
SPECIFICATION FairSpec
INVARIANTS TypeOK BuildsOnCommitted CompletedIsWhole EditsHold
PROPERTIES StartsInOrder QueueEnds
CHECK_DEADLOCK FALSE
