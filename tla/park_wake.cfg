CONSTANTS
  Conv = {r, a, b}
  Root = r
  Middle = a
  Delegators <- Tree
  Park = {p}
  Sweep = Sweep
  Ending = {"completed"}
  Written = {}
  Policy <- Two
  RetryMax = 1
  MaxRuns = 2
  MaxFaults = 1
  Nil = Nil
SPECIFICATION Spec
INVARIANTS
  TypeOK
  OneDispatcher
  WakeHasReason

  
CHECK_DEADLOCK FALSE
