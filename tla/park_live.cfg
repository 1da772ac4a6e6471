CONSTANTS
  Conv = {r, a}
  Root = r
  Middle = a
  Delegators <- Flat
  Park = {p}
  Sweep = Sweep
  Ending = {"completed"}
  Written = {r}
  Policy <- AllOf
  RetryMax = 2
  MaxRuns = 2
  MaxFaults = 1
  Nil = Nil
SPECIFICATION FairSpec
INVARIANTS
  OneDispatcher
PROPERTIES
  PromiseKept
  WakesWhenDone
  WakesWhenDue
CHECK_DEADLOCK FALSE
