\* Two backend tests, one of them new, and one frontend test; three turns and
\* three failures as in the code, two faults and a crash.
SPECIFICATION Spec
CONSTANTS
  Backend = {"b1", "b2"}
  Frontend = {"f1"}
  Original = {"b1", "f1"}
  MaxFailures = 3
  MaxFaults = 2
  MaxCrashes = 1
INVARIANTS
  TypeOK
  NoTestIsLost
  PassedIsProved
CHECK_DEADLOCK FALSE
