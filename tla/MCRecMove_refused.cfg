SPECIFICATION CleanSpec
CONSTANTS
  t1 = t1  t2 = t2  r1 = r1  r2 = r2  u = u  p = p  A = A  B = B  None = None
  Recs = {r1, r2}  Owners = {u, p}  Repos = {A, B}
  Manages <- ManagesProject  DataLimit <- Roomy
  Tasks = {t1}  RecLimit <- Roomy  MaxSize = 1
  Kinds = {"alloc_chg", "owner_chg"}
  Accepted = {"put"}  Refused = {"alloc_chg", "owner_chg"}
  Faults = {}
SYMMETRY Symmetry
CHECK_DEADLOCK FALSE
PROPERTIES MoveArrives
