SPECIFICATION AccessSpec
CONSTANTS
  u = u  p = p  r1 = r1  r2 = r2  coll = coll  rec = rec
  root = root  mid = mid  low = low  home = home
  mems = mems  grp = grp  me = me
  NoAlias = NoAlias  NoOwner = NoOwner
  AliasRecs = {r1, r2}  AliasColls = {coll}
  Owners = {u, p}  Projects = {p}
  RootAlias = "root"  AliasWords = {"w"}  MaxName = 3
  Client = me
  PColls = {root, mid, low, home}  PRecs = {rec}
  Uppers <- MCUppers  OwnerOf <- MCOwnerOf
  Projs = {p}  PGroups = {mems, grp}  Members = {mems}
  Grants <- MCGrants  SearchDepth = 1  MaxRules = 2  Published = {mid}  Filled = {mid, low, home}
CHECK_DEADLOCK FALSE
INVARIANT AliasFieldCurrent
