CONSTANTS
  Task = {t1}
  Op = {o1, o2}
  Target = {g1}
  Tenant = {}
  Claim = {r1}
  Runner = {r1}
  Sha = {base, s1, x1}
  Root = base
  Outside = {x1}
  Continuation <- Both
  Elsewhere <- Running
  Way <- PlanOnly
  MaxEpoch = 3
  MaxCrashes = 1
  Nil = Nil
SPECIFICATION RunsSpec
INVARIANTS
  RunsTypeOK
  KnownGitIsClaimed
  ResultIsInBranch
  MergedIsPublished
SYMMETRY RunSymmetry
CHECK_DEADLOCK FALSE
