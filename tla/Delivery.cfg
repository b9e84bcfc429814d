\* Every kind of task; two crashes, a fault, an outsider, two reviews.
CONSTANTS
  Kinds = {"single", "first", "later"}
  MaxVersion = 2
  MaxItems = 2
  MaxReviews = 2
  MaxCrashes = 2
  MaxFaults = 1
  MaxMeddles = 1
SPECIFICATION FairSpec
INVARIANTS
  TypeOK RecordedCommitIsReviewed StatusIsHonest ArchivedIsWritten
PROPERTIES KeepsPromise ApprovalIsDelivered
CHECK_DEADLOCK FALSE
