SPECIFICATION LiveSpec
CONSTANTS
  Task = {a, b}
  Chat = {}
  Sweep = {"reconciler", "gc"}
  Episodes = 1
  Reviews = 0
  Max = 1
  MaxVerdicts = 0
  MaxMessages = 0
  MaxStops = 0
  NoRun = NoRun
PROPERTIES ReadyStarts
CHECK_DEADLOCK FALSE
