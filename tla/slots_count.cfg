SPECIFICATION SweptSpec
CONSTANTS
  Task = {a}
  Chat = {c}
  Sweep = {"reconciler"}
  Episodes = 1
  Reviews = 1
  Max = 1
  MaxVerdicts = 1
  MaxMessages = 1
  MaxStops = 1
  NoRun = NoRun
INVARIANTS TypeOK SlotsAreLive SlotLedger
PROPERTIES CountSettles
CHECK_DEADLOCK FALSE
