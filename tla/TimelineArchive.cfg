\* One archive with one tool call is enough to number two events alike.
CONSTANTS
  Calls <- MCCalls
  Web = {"w1"}
  Outbox = 1
  Lookups = 1
  Watched = FALSE
  Limit = 2
  MaxItems = 0
  MaxControls = 0
  MaxArchives = 1
  MaxCrashes = 0
SPECIFICATION Spec
INVARIANTS TrailIsContinuous
CHECK_DEADLOCK FALSE
