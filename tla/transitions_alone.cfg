CONSTANTS
  Task = {t1}
  Call = {c1}
  NoTask = none
  Initial <- Status
  Requested <- Status
  Corrected <- Status
  Reentered <- AllReentered
  FreshnessTries = 3
SPECIFICATION FairSpec
PROPERTY EveryCallReturns
