CONSTANTS
  Task = {t1}
  Op = {o1, o2}
  Target = {g1}
  Tenant = {}
  Claim = {r1}
  Runner = {r1}
  Sha = {base, s1, s2}
  Root = base
  Outside = {}
  Continuation <- Ordinary
  Elsewhere <- Running
  Way <- PlanOnly
  MaxEpoch = 3
  MaxCrashes = 1
  Nil = Nil
SPECIFICATION FairRunsSpec
PROPERTY SettledTaskGoesOn
CHECK_DEADLOCK FALSE
