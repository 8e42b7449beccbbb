SPECIFICATION Spec
CONSTANTS
  t1 = t1  t2 = t2  r1 = r1  r2 = r2  u = u  p = p  A = A  B = B  None = None
  Recs = {r1, r2}  Owners = {u, p}  Repos = {A, B}
  Manages <- ManagesProject  DataLimit <- Roomy
  Tasks = {t1, t2}  RecLimit <- OneInB  MaxSize = 1
  Kinds = {"put","alloc_chg","owner_chg","rec_del","alloc_del"}
  Accepted = {"put", "alloc_chg", "owner_chg"}
  Refused = {"owner_chg"}
  Faults = {"throw","cut","lost","ext"}
CONSTRAINT Few
SYMMETRY Symmetry
CHECK_DEADLOCK FALSE
INVARIANTS CountsExact OwnersAgree AllocsKept
