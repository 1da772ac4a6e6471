CONSTANTS
  Task = {t1, t2}
  Op = {o1, o2}
  Target = {g1, g2}
  Tenant = {m1}
  Claim = {c1}
  Sha = {s1}
  Continuation <- BackToMerge
  Elsewhere <- MovedByOthers
  MaxEpoch = 2
  Nil = Nil
SPECIFICATION Spec
INVARIANTS
  TypeOK
  UpdateHoldsTarget
  NoLeaseLeftBehind
  OneUpdatePerTask
  
PROPERTY LeasesAreFenced
SYMMETRY Symmetry
CHECK_DEADLOCK FALSE
