SPECIFICATION SvcSpec
CONSTANTS
  u = u  p = p  r1 = r1  r2 = r2  coll = coll  rec = rec
  root = root  mid = mid  low = low  home = home
  mems = mems  grp = grp  me = me
  NoAlias = NoAlias  NoOwner = NoOwner
  AliasRecs = {r1, r2}  AliasColls = {coll}
  Owners = {u, p}  Projects = {p}
  RootAlias = "root"  AliasWords = {"w"}  MaxName = 3
  Client = me
  PColls = {root, mid, low, home}  PRecs = {rec}
  Uppers <- MCUppers  OwnerOf <- MCOwnerOf
  Projs = {p}  PGroups = {mems, grp}  Members = {mems}
  Grants <- MCGrants  SearchDepth = 1  MaxRules = 2  Published = {mid}  Filled = {mid, low, home}
  n1 = n1  n2 = n2  zero = zero  sort = sort
  NoList = NoList
  NoSch = NoSch
  NoKey = NoKey
  TagRecs = {r1, r2}
  TagColls = {coll}
  TagNames = {n1, zero, sort}
  ArrayNames = {sort}
  IndexOf <- MCIndexOf
  MaxTags = 2
  SchRecs = {r1, r2}
  MaxDocs = 3
  SchNames = {n1, n2}
  MaxVer = 2
  Keys = {r1, r2}
  Repos = {r1, r2}
  TransInterval = 1
  SessionInterval = 2
  PromoteCount = 1
  ResetCount = 1
  MaxTime = 3
  MaxCount = 1
  MaxAnon = 1
  MaxChanges = 2
  MetUsers = {r1, r2}
  MetTypes = {1, 2}
  MaxMsgs = 3
  MaxFails = 2
SYMMETRY Symmetry
CHECK_DEADLOCK FALSE
INVARIANTS
  AliasResolves
  PermsExact
  GroupsOfOwner
  SearchExact
  SharedListed
  ItemsPermitted
  TagsCounted
  SchemasHeld
  RefsSound
  OneChain
  RepoKeysKnown
  CacheFresh
  MetricsKept
PROPERTY SessionLasts
