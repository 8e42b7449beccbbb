SPECIFICATION Spec
CONSTANTS
  t1 = t1
  t2 = t2
  t3 = t3
  r1 = r1
  r2 = r2
  u = u
  p = p
  g = g
  NoCtx = NoCtx
  NoRequest = NoRequest
  Tasks <- MCTasks
  Users = {u}
  Projects = {p}
  Repos = {g}
  Recs <- MCRecs2
  Kinds = {"get", "put", "owner_chg", "proj_del"}
SYMMETRY TaskSymmetry
CHECK_DEADLOCK FALSE
INVARIANTS Exclusive NoWaitCycle ReadyReachesCore
