\* Two archivers of a run with an item, a pause or cancellation and a crash; nobody watches.
CONSTANTS
  Calls <- MCCalls
  Web = {"w1", "w2"}
  Outbox = 1
  Lookups = 2
  Watched = FALSE
  Limit = 3
  MaxItems = 1
  MaxControls = 1
  MaxArchives = 2
  MaxCrashes = 1
SPECIFICATION Spec
INVARIANTS TypeOK BrokenOnlyByArchive  
CHECK_DEADLOCK FALSE
