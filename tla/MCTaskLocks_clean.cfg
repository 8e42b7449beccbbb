SPECIFICATION CleanSpec
CONSTANTS
  t1 = t1
  t2 = t2
  t3 = t3
  r1 = r1
  r2 = r2
  u = u
  p = p
  g = g
  NoCtx = NoCtx
  NoRequest = NoRequest
  Tasks <- MCTasks
  Users = {u}
  Projects = {p}
  Repos = {g}
  Recs <- MCRecs2
  Kinds = {"alloc_chg", "alloc_create", "alloc_delete", "rec_del"}
CHECK_DEADLOCK FALSE
PROPERTY BlockedRuns
