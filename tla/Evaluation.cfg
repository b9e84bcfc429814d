\* One criterion, a guideline and a pitfall; one edit of the knowledge server,
\* a fault and a crash; two rounds, two turns.
SPECIFICATION Spec
CONSTANTS
  Criteria = {"c1"}
  Guidelines = {"rule"}
  Processes = {}
  Pitfalls = {"trap"}
  MaxTurns = 2
  MaxRounds = 2
  MaxEdits = 1
  MaxFaults = 1
  MaxCrashes = 1
INVARIANTS
  TypeOK
  OneYardstick
  VerdictIsDocumented
CHECK_DEADLOCK FALSE
