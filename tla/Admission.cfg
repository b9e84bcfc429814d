\* Two confirmations of one plan, a direct request, another project and a crash.
CONSTANTS
  Confirmers = {c1, c2}
  Direct = {d1}
  Criteria = {ac1, ac2}
  Unknown = unknown
  MaxParallel = 1
  MaxOthers = 1
  MaxCrashes = 1
SPECIFICATION FairSpec
INVARIANTS TypeOK  PlanRunsOnce WholePlanRuns
PROPERTIES AcceptedIsSettled
CHECK_DEADLOCK FALSE
