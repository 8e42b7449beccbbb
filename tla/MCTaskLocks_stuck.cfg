SPECIFICATION Spec
CONSTANTS
  t1 = t1
  t2 = t2
  t3 = t3
  r1 = r1
  r2 = r2
  u = u
  p = p
  g = g
  NoCtx = NoCtx
  NoRequest = NoRequest
  Tasks <- MCTasks
  Users = {u}
  Projects = {p}
  Repos = {g}
  Recs <- MCRecs1
  Kinds = {"put"}
CHECK_DEADLOCK FALSE
INVARIANT NoneLeftBehind
