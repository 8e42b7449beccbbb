----------------------------- MODULE Permissions ------------------------------
(***************************************************************************)
(* What one user, the client, may do with the collections and records of   *)
(* others (core/database/foxx/api: acl_router.js, group_router.js and the  *)
(* update of projects in proj_router.js; hasPermissions, getPermissions,   *)
(* getPermissionsLocal, expandSearchCollections and getACLOwnersBySubject  *)
(* of support.js; _preprocessItemsRecursive of process.js).  Each object   *)
(* has rules, acl edges to users and groups, and keeps in the bits acls    *)
(* which of the two it has; a walk looks for edges only where a bit is.    *)
(*                                                                         *)
(* A request is one transaction, and comes from anybody who may send it,   *)
(* the client's own included.  Collections stay where they are: Catalog    *)
(* has their moves.  The client owns nothing, created nothing and is no    *)
(* administrator of the system.                                            *)
(***************************************************************************)
EXTENDS Integers, FiniteSets

CONSTANTS Client,
          PColls, PRecs,   \* collections and data records
          Uppers,          \* function: each collection with those above it
          OwnerOf,         \* function: owner of a collection or group
          Projs,           \* owners that are projects
          PGroups, Members,\* groups, and those with gid "members"
          Grants,          \* permissions that rules give
          SearchDepth,     \* levels that a search goes down without asking (10)
          MaxRules,        \* bound: acl edges, and objects with bits
          Published,       \* bound: collections that may have a topic
          Filled           \* bound: collections that records are put in

Perms == {"list", "read", "del"}   \* PERM_LIST, PERM_RD_ALL, and PERM_DELETE for the others

ASSUME PermissionsAssumption ==
  /\ IsFiniteSet(PColls) /\ IsFiniteSet(PRecs) /\ IsFiniteSet(PGroups)
  /\ PColls \cap PRecs = {}
  /\ \A c \in PColls : /\ c \in Uppers[c] /\ Uppers[c] \subseteq PColls
                       /\ \A d, e \in Uppers[c] : d \in Uppers[e] \/ e \in Uppers[d]
                       /\ \A d \in Uppers[c] : /\ Uppers[d] \subseteq Uppers[c]
                                               /\ OwnerOf[d] = OwnerOf[c]
                       /\ \A d \in Uppers[c] \ {c} : c \notin Uppers[d]
  /\ Members \subseteq PGroups /\ Client \notin PGroups
  /\ Grants \subseteq [grant : SUBSET Perms, inhgrant : SUBSET Perms]
  /\ SearchDepth \in Nat /\ MaxRules \in Nat /\ Published \cup Filled \subseteq PColls

VARIABLES acl,     \* acl edges
          acls,    \* bits acls of each object
          groups,  \* documents in g
          member,  \* groups with a member edge to the client
          admins,  \* projects with an admin edge to the client
          public,  \* collections with a topic
          recIn    \* collections each record is in, none for one that is not there

permVars == <<acl, acls, groups, member, admins, public, recIn>>

Objects == PColls \cup PRecs
Bit(subj) == IF subj \in PGroups THEN "group" ELSE "user"
PERM_PUBLIC == Perms \ {"del"}
PERM_MEMBER == Perms \ {"del"}

RecsThere == {r \in PRecs : recIn[r] # {}}
There == PColls \cup RecsThere
Owner(o) == IF o \in PColls THEN OwnerOf[o] ELSE OwnerOf[CHOOSE c \in recIn[o] : TRUE]
ParentOf(c) == CHOOSE d \in Uppers[c] : Uppers[d] = Uppers[c] \ {c}
ChildrenOf(c) == {d \in PColls \ {c} : Uppers[d] = Uppers[c] \cup {d}}
Lowers(c) == {d \in PColls : c \in Uppers[d]}
AboveOf(o) == IF o \in PColls THEN Uppers[o] \ {o} ELSE UNION {Uppers[c] : c \in recIn[o]}

\* hasAdminPermObject, hasAdminPermObjectLoaded
HasAdminPerm(o) == Owner(o) \in admins

-----------------------------------------------------------------------------
\* What the edges give the client that the walks find at o: those of users, and
\* those of groups, when the bits of o say that there are some.
FoundAt(o) == {e \in acl : e.obj = o /\ Bit(e.subj) \in acls[o] /\ e.subj \in member \cup {Client}}
PublicAt(X) == IF X \cap public # {} THEN PERM_PUBLIC ELSE {}
GrantAt(o) == PublicAt({o}) \cup UNION {e.grant : e \in FoundAt(o)}
InhgrantAt(o) == PublicAt({o}) \cup UNION {e.inhgrant : e \in FoundAt(o)}

\* What is found in the collections above.  The walks go up level by level and end
\* when all that is required was found, which is all it is compared with.
Inherited(o) == UNION {InhgrantAt(c) : c \in AboveOf(o)}

\* hasPermissions and getPermissions look for what is required in this.
Found(o) == GrantAt(o) \cup Inherited(o)

\* getPermissionsLocal
Local(o, up) == [grant |-> GrantAt(o), inhgrant |-> InhgrantAt(o),
                 inherited |-> IF up THEN Inherited(o) ELSE {}]

\* expandSearchCollections, of one collection that was selected.  Handed down is
\* what is inherited; a collection that is not readable is skipped with all that
\* is below it.  When all below is known to be readable nothing more is asked: one
\* query takes what is below, down to a fixed number of levels.
Readable == {"read", "list"}
Levels(c, d) == Cardinality(Uppers[d] \ Uppers[c])
Taken(c) == {d \in Lowers(c) : Levels(c, d) <= SearchDepth}

\* Mutant: only what the collection itself gives is handed down.
Handed_own(c) == InhgrantAt(c)

Handed(c) == LET perm == Local(c, TRUE) IN perm.inhgrant \cup perm.inherited

Expanded(c) ==
  LET down[x \in PColls \X SUBSET Perms] ==
        LET d == x[1]
            inh == InhgrantAt(d) \cup x[2]
        IN IF ~Readable \subseteq GrantAt(d) \cup x[2] THEN {}
           ELSE IF Readable \subseteq inh THEN Taken(d)
           ELSE {d} \cup UNION {down[<<e, inh>>] : e \in ChildrenOf(d)}
      perm == Local(c, TRUE)
  IN IF HasAdminPerm(c) THEN Taken(c)
     ELSE IF ~Readable \subseteq perm.grant \cup perm.inherited THEN {}
     ELSE IF Readable \subseteq Handed(c) THEN Taken(c)
     ELSE {c} \cup UNION {down[<<e, Handed(c)>>] : e \in ChildrenOf(c)}

\* getProjectRole
HasRole(p) == p \in admins \/ \E g \in Members \cap member : OwnerOf[g] = p

\* Mutant: groups without rules count.
SharedBy_any ==
  {p \in {Owner(e.obj) : e \in {f \in acl : f.subj = Client}} \cup
         {OwnerOf[g] : g \in member} : ~(p \in Projs /\ HasRole(p))}

\* getACLOwnersBySubject
SharedBy ==
  {p \in {Owner(e.obj) : e \in {f \in acl : f.subj = Client}} \cup
         {OwnerOf[g] : g \in {h \in member : \E e \in acl : e.subj = h}} : ~(p \in Projs /\ HasRole(p))}

\* preprocessItems, of one collection or record that was selected, for a transfer
\* from it or its deletion.  What is handed down to the items in a collection is
\* what is inherited; nothing more is asked when that is enough.
Modes == {[data |-> {"read"}, coll |-> {"list"}], [data |-> {"del"}, coll |-> {"del"}]}

\* Mutant: what is granted on a collection is handed down.
Inhgranted_grant(perm) == perm.grant \cup perm.inherited

Inhgranted(perm) == perm.inhgrant \cup perm.inherited

Passed(s, mode) ==   \* for each of s and those below: whether it is permitted, and what it hands down
  LET at[c \in Lowers(s)] ==
        LET up == IF c = s THEN [ok |-> TRUE, data |-> {}, coll |-> {}] ELSE at[ParentOf(c)]
            perm == Local(c, c = s)
        IN IF mode.coll \subseteq up.coll /\ mode.data \subseteq up.data THEN up
           ELSE IF HasAdminPerm(c) THEN [ok |-> TRUE, data |-> mode.data, coll |-> mode.coll]
           ELSE [ok |-> mode.coll \subseteq perm.grant \cup perm.inherited,
                 data |-> up.data \cup Inhgranted(perm), coll |-> up.coll \cup Inhgranted(perm)]
  IN at
RecordPassed(r, mode, selected, data) ==
  \/ mode.data \subseteq data
  \/ HasAdminPerm(r)
  \/ LET perm == Local(r, selected) IN mode.data \subseteq perm.grant \cup perm.inherited

\* A record that is met again is not looked at: which collection it is met in first
\* may be any.
Preprocessed(s, mode) ==
  IF s \in PRecs THEN RecordPassed(s, mode, TRUE, {})
  ELSE LET at == Passed(s, mode) IN
       /\ \A c \in Lowers(s) : at[c].ok
       /\ \A r \in RecsThere : recIn[r] \cap Lowers(s) # {} =>
            \E c \in recIn[r] \cap Lowers(s) : RecordPassed(r, mode, FALSE, at[c].data)

-----------------------------------------------------------------------------
\* A project has a group for its members, who may read what is in it.
PermsInit ==
  /\ acl = {[obj |-> x[1], subj |-> x[2], grant |-> PERM_MEMBER, inhgrant |-> PERM_MEMBER] :
              x \in {x \in PColls \X Members : /\ Uppers[x[1]] = {x[1]}
                                               /\ OwnerOf[x[1]] = OwnerOf[x[2]]}}
  /\ acls = [o \in Objects |-> IF \E e \in acl : e.obj = o THEN {"group"} ELSE {}]
  /\ groups = Members
  /\ member = {} /\ admins = {} /\ public = {}
  /\ recIn = [r \in PRecs |-> {}]

\* GET /acl/update with rules: what is given to each subject in X.
Subjects(o) == {Client} \cup {g \in groups : OwnerOf[g] = Owner(o)}
GrantsFor(o) == {p \in Grants : o \in PRecs => p.inhgrant = {}}

\* Mutant: the bit of the last rule only.
Bits_last(X) == IF X = {} THEN {} ELSE {Bit(CHOOSE x \in X : TRUE)}

Bits(X) == {Bit(x) : x \in X}
AclUpdate(o, X, given) ==
  LET rules == {[obj |-> o, subj |-> x, grant |-> given[x].grant, inhgrant |-> given[x].inhgrant] : x \in X}
  IN
  /\ acl' = {e \in acl : e.obj # o} \cup rules
  /\ Cardinality(acl') <= MaxRules
  /\ acls' = [acls EXCEPT ![o] = Bits(X)]
  /\ Cardinality({x \in Objects : acls'[x] # {}}) <= MaxRules
  /\ UNCHANGED <<groups, member, admins, public, recIn>>

\* The same request without rules: the edges stay.
AclReset(o) ==
  /\ o \in There
  /\ acls' = [acls EXCEPT ![o] = {}]
  /\ UNCHANGED <<acl, groups, member, admins, public, recIn>>

-----------------------------------------------------------------------------
\* GET /grp/create and GET /grp/update, as to the client.
GroupCreate(g, joins) ==
  /\ g \notin groups
  /\ groups' = groups \cup {g}
  /\ member' = IF joins THEN member \cup {g} ELSE member
  /\ UNCHANGED <<acl, acls, admins, public, recIn>>

GroupUpdate(g, joins) ==
  /\ g \in groups
  /\ member' = IF joins THEN member \cup {g} ELSE member \ {g}
  /\ UNCHANGED <<acl, acls, groups, admins, public, recIn>>

\* GET /grp/delete
GroupDelete(g) ==
  /\ g \in groups \ Members
  /\ groups' = groups \ {g}
  /\ member' = member \ {g}
  /\ acl' = {e \in acl : e.subj # g}
  /\ UNCHANGED <<acls, admins, public, recIn>>

\* GET /prj/update, as to the client: adm and mem say whether the client is among
\* the admins and members that are given, and are empty when none are.
ProjUpdate(p, adm, mem) ==
  /\ admins' = (IF adm = {} THEN admins ELSE admins \ {p}) \cup IF adm = {TRUE} THEN {p} ELSE {}
  /\ acl' = IF adm = {TRUE} THEN {e \in acl : ~(e.subj = Client /\ Owner(e.obj) = p)} ELSE acl
  /\ LET left == IF adm = {TRUE} THEN {g \in member : OwnerOf[g] # p} ELSE member
         special == {g \in Members : OwnerOf[g] = p}
     IN member' = (IF mem = {} THEN left ELSE left \ special)
                     \cup IF mem = {TRUE} /\ p \notin admins' THEN special ELSE {}
  /\ UNCHANGED <<acls, groups, public, recIn>>

-----------------------------------------------------------------------------
\* A collection gets or loses its topic.
Publish(c, pub) ==
  /\ public' = IF pub THEN public \cup {c} ELSE public \ {c}
  /\ UNCHANGED <<acl, acls, groups, member, admins, recIn>>

\* recordCreate, and links to other collections of the owner.
RecordLinked(r, X) ==
  /\ X # {} /\ \A c, d \in X \cup recIn[r] : OwnerOf[c] = OwnerOf[d]
  /\ recIn' = [recIn EXCEPT ![r] = X]
  /\ UNCHANGED <<acl, acls, groups, member, admins, public>>

\* _deleteDataRecord(s): all edges go.
RecordGone(r) ==
  /\ recIn' = [recIn EXCEPT ![r] = {}]
  /\ acl' = {e \in acl : e.obj # r}
  /\ acls' = [acls EXCEPT ![r] = {}]
  /\ UNCHANGED <<groups, member, admins, public>>

\* Mutant: the rules stay.
ChangeOwner_keeps(r, c) ==
  /\ r \in RecsThere /\ OwnerOf[c] # Owner(r)
  /\ recIn' = [recIn EXCEPT ![r] = {c}]
  /\ UNCHANGED <<acl, acls, groups, member, admins, public>>

\* recMoveFini and recMoveExt, of a record that gets a new owner.
ChangeOwner(r, c) ==
  /\ r \in RecsThere /\ OwnerOf[c] # Owner(r)
  /\ recIn' = [recIn EXCEPT ![r] = {c}]
  /\ acl' = {e \in acl : e.obj # r}
  /\ UNCHANGED <<acls, groups, member, admins, public>>

Given == {{}, {TRUE}, {FALSE}}

PermsCleanNext ==
  \/ \E o \in There : \E X \in SUBSET Subjects(o) : \E given \in [X -> GrantsFor(o)] : AclUpdate(o, X, given)
  \/ \E g \in PGroups, joins \in BOOLEAN : GroupCreate(g, joins)
  \/ \E g \in PGroups, joins \in BOOLEAN : GroupUpdate(g, joins)
  \/ \E g \in PGroups : GroupDelete(g)
  \/ \E p \in Projs, adm, mem \in Given : ProjUpdate(p, adm, mem)
  \/ \E c \in Published, pub \in BOOLEAN : Publish(c, pub)
  \/ \E r \in PRecs, X \in SUBSET Filled : RecordLinked(r, X)
  \/ \E r \in PRecs : RecordGone(r)
  \/ \E r \in PRecs, c \in Filled : ChangeOwner(r, c)

PermsNext == PermsCleanNext \/ \E o \in There : AclReset(o)

PermsSpec == PermsInit /\ [][PermsNext]_permVars

\* The same without AclReset.
PermsCleanSpec == PermsInit /\ [][PermsCleanNext]_permVars
-----------------------------------------------------------------------------
\* "permissions are inherited and additive" (docs overview).  What the client may
\* do with an object is what its rules, for the client and the groups that have
\* the client, grant on it, what those of the collections above let be inherited,
\* and what everybody may do with what is published.
RulesAt(o) == {e \in acl : e.obj = o /\ e.subj \in member \cup {Client}}
Allowed(o) == PublicAt(AboveOf(o) \cup {o})
              \cup (UNION {e.grant : e \in RulesAt(o)})
              \cup (UNION {e.inhgrant : e \in UNION {RulesAt(c) : c \in AboveOf(o)}})

PermsExact == \A o \in There : Found(o) = Allowed(o)

\* Rules name groups of the owner of their object: after a change of owner nobody
\* has a permission by a group of the former one ("Clear all record ACLs").
GroupsOfOwner == \A e \in acl : /\ e.obj \in There
                                /\ e.subj \in PGroups => e.subj \in groups /\ OwnerOf[e.subj] = Owner(e.obj)

\* A search in a collection covers the collections below it that are reached from
\* it through readable ones, and no other, but for those that are further than
\* SearchDepth levels below the first at which the client is known to read all that
\* is below: on the way to what is covered at most SearchDepth + 1 are such
\* (expandSearchCollections).
MaySee(c) == HasAdminPerm(c) \/ Readable \subseteq Allowed(c)
Bequeathed(c) == PublicAt(Uppers[c])
                 \cup UNION {e.inhgrant : e \in UNION {RulesAt(d) : d \in Uppers[c]}}
MaySeeBelow(c) == HasAdminPerm(c) \/ Readable \subseteq Bequeathed(c)
Way(c, d) == {x \in Lowers(c) : d \in Lowers(x)}
SearchExact == \A c \in PColls :
  Expanded(c) = {d \in Lowers(c) : /\ \A x \in Way(c, d) : MaySee(x)
                                   /\ Cardinality({x \in Way(c, d) : MaySeeBelow(x)}) <= SearchDepth + 1}

\* "Get users and projects that have shared data or collections with subject ...
\* Non-associated projects are prejects where the subject is not the owner, an
\* admin, or a member" (getACLOwnersBySubject): those who own what has a rule for
\* the client or a group of the client.
SharedListed ==
  SharedBy = {p \in {Owner(e.obj) : e \in UNION {RulesAt(o) : o \in There}} : ~(p \in Projs /\ HasRole(p))}

\* A transfer or deletion goes ahead only when each collection and record it
\* reaches is permitted (_preprocessItemsRecursive).
ItemsPermitted == \A s \in There, mode \in Modes : Preprocessed(s, mode) =>
  /\ \A c \in PColls \cap IF s \in PColls THEN Lowers(s) ELSE {} :
       HasAdminPerm(c) \/ mode.coll \subseteq Allowed(c)
  /\ \A r \in RecsThere : r = s \/ (s \in PColls /\ recIn[r] \cap Lowers(s) # {}) =>
       HasAdminPerm(r) \/ mode.data \subseteq Allowed(r)
=============================================================================
