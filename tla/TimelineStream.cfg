\* The stream of a run with an item, a pause, a crash and two archive attempts, in pages of three.
CONSTANTS
  Calls <- MCCalls
  Web = {"w1"}
  Outbox = 1
  Lookups = 1
  Watched = TRUE
  Limit = 3
  MaxItems = 1
  MaxControls = 1
  MaxArchives = 2
  MaxCrashes = 1
SPECIFICATION FairSpec
INVARIANTS StreamHasNoGap
PROPERTIES StreamEnds
CHECK_DEADLOCK FALSE
