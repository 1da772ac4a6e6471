SPECIFICATION LiveSpec
CONSTANTS
  task = task
  merge = merge
  Task = {task, merge}
  Blockers <- MergeLast
  PlanMerge = {merge}
  Age <- MergeFirst
  Scheduler = {command, watchdog}
  Watchdog = watchdog
  Initial = {"Ready"}
  Reopened = {"Failed"}
  Batch = 2
  MaxRunning = 1
  MaxMoves = 1
  NoTask = NoTask
INVARIANTS TypeOK 
PROPERTIES SchedulingIsLock ReadyIsTaken
CHECK_DEADLOCK FALSE
