CONSTANTS
  Task = {t1}
  Call = {c1, c2}
  NoTask = none
  Initial <- StopInitial
  Requested <- StopRequested
  Corrected = {}
  Reentered = {}
  FreshnessTries = 1
SPECIFICATION Spec
PROPERTY TerminalOnlyRetried
CHECK_DEADLOCK FALSE
