SPECIFICATION FairSpec
CONSTANTS
  MAX_TASKS = 3
  MaxCreates = 4
INVARIANTS
  SchedTypeOK
  OneRunning
  BoundedWait
  CreateKeepsPromise
PROPERTIES
  LiveTaskKept
  EveryTaskRuns
\* Nothing is said after a live stack is overwritten.
CHECK_DEADLOCK FALSE
