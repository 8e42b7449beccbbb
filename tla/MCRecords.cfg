SPECIFICATION RecordsSpec
CONSTANTS
  c1 = c1  c2 = c2  c3 = c3  r1 = r1  u = u  p = p  t1 = t1  x = x  y = y
  n1 = n1  n2 = n2  n3 = n3
  None = None  NoNote = NoNote
  Colls = {u, p, c1, c2, c3}  Recs = {r1}  Roots = {u, p}
  Topics <- Nested  Admin <- NoAdmin
  Tasks = {t1}  MaxItems = 3
  NoteRecs = {c1, c2, c3}  Aliased = {c1, c2, c3}  NoteIds = {n1, n2, n3}
  Types = {1, 2}  DepTypes = {"derived", "version"}
SYMMETRY Symmetry
CHECK_DEADLOCK FALSE
INVARIANTS
  Forest
  TopicsExact
  PublicExact
  HasParent
  NotesTypeOK
  DepsAcyclic
  NotesFollowDeps
  Covered
PROPERTY ClosedBelow
