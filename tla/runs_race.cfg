CONSTANTS
  Task = {t1}
  Op = {o1, o2}
  Target = {g1}
  Tenant = {}
  Claim = {r1, r2}
  Runner = {r1, r2}
  Sha = {base, s1, s2}
  Root = base
  Outside = {}
  Continuation <- Ordinary
  Elsewhere <- Running
  Way <- PlanOnly
  MaxEpoch = 2
  MaxCrashes = 0
  Nil = Nil
SPECIFICATION RunsSpec
INVARIANTS
  ResultIsInBranch
PROPERTY RunsUseRepository
SYMMETRY RunSymmetry
CHECK_DEADLOCK FALSE
