\* Two threads of one process and one of another contend as they please;
\* processes crash, ids are reused.
CONSTANTS
  a1 = a1  a2 = a2  a3 = a3
  p1 = p1  p2 = p2  p3 = p3
  NoOwner = NoOwner
  Actors = {a1, a2, a3}
  Processes = {p1, p2}
  PidOf <- MCShared
  PidReuse = TRUE
  MaxCrashes = 3
SPECIFICATION FairSpec
INVARIANTS
  SharedOnlyWhenOvertaken
PROPERTIES StaleLockIsReclaimed
