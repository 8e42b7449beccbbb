----------------------------- MODULE AccessProofs -----------------------------
(***************************************************************************)
(* Aliases and permissions, with any number of objects, owners, groups and *)
(* rules: an alias resolves to one object of its owner, a rule names what  *)
(* there is, and the walks through the collections above an object, and    *)
(* through those below it, find what the rules give and nothing more.      *)
(***************************************************************************)
EXTENDS Aliases, Permissions, TLAPS, FiniteSetTheorems, SequenceTheorems, WellFoundedInduction

-----------------------------------------------------------------------------
\* Rules, groups and places are of what there can be.
PermTypeOK ==
  /\ acl \subseteq [obj : Objects, subj : PGroups \cup {Client}, grant : SUBSET Perms, inhgrant : SUBSET Perms]
  /\ acls \in [Objects -> SUBSET {"user", "group"}]
  /\ groups \subseteq PGroups /\ member \subseteq PGroups
  /\ recIn \in [PRecs -> SUBSET PColls]

\* A record is in collections of one owner.
OneOwner == \A r \in PRecs : \A c, d \in recIn[r] : OwnerOf[c] = OwnerOf[d]

\* The groups of members are not deleted.
MembersKept == Members \subseteq groups

PermIInv == PermTypeOK /\ OneOwner /\ MembersKept /\ GroupsOfOwner

\* The owner of a record is that of any collection it is in.
LEMMA OwnerIn ==
  ASSUME OneOwner, NEW r \in PRecs, NEW c \in recIn[r]
  PROVE  Owner(r) = OwnerOf[c]
  <1>1. r \notin PColls
    BY PermissionsAssumption
  <1>2. (CHOOSE d \in recIn[r] : TRUE) \in recIn[r]
    OBVIOUS
  <1> QED BY <1>1, <1>2 DEF OneOwner, Owner

\* Owners and what is there follow from the places of the records.
LEMMA OwnerSame ==
  ASSUME UNCHANGED recIn
  PROVE  There' = There /\ \A o : Owner(o)' = Owner(o)
  BY DEF There, RecsThere, Owner

LEMMA PermInit == PermsInit => PermIInv
  <1> SUFFICES ASSUME PermsInit PROVE PermIInv
    OBVIOUS
  <1> USE PermissionsAssumption
  <1>1. acl \subseteq [obj : Objects, subj : PGroups \cup {Client}, grant : SUBSET Perms, inhgrant : SUBSET Perms]
    BY DEF PermsInit, PERM_MEMBER, Objects
  <1>2. PermTypeOK
    BY <1>1 DEF PermsInit, PermTypeOK
  <1>3. OneOwner
    BY DEF PermsInit, OneOwner
  <1>4. \A e \in acl : /\ e.obj \in PColls
                       /\ e.subj \in groups /\ OwnerOf[e.subj] = OwnerOf[e.obj]
    BY DEF PermsInit
  <1>5. GroupsOfOwner
    BY <1>4 DEF GroupsOfOwner, There, Owner
  <1> QED BY <1>2, <1>3, <1>5 DEF PermIInv, MembersKept, PermsInit

\* Rules that are given are for the client and groups of the owner.
LEMMA RulesOf ==
  ASSUME PermIInv, NEW o \in There, NEW X \in SUBSET Subjects(o), NEW given \in [X -> GrantsFor(o)],
         AclUpdate(o, X, given)
  PROVE  \A e \in acl' : \/ e \in acl
                         \/ /\ e.obj = o /\ e.subj \in X
                            /\ e \in [obj : Objects, subj : PGroups \cup {Client},
                                      grant : SUBSET Perms, inhgrant : SUBSET Perms]
                            /\ e.subj \in PGroups => e.subj \in groups /\ OwnerOf[e.subj] = Owner(o)
  <1>1. o \in Objects
    BY DEF There, RecsThere, Objects
  <1>2. ASSUME NEW x \in X
        PROVE  /\ given[x].grant \in SUBSET Perms /\ given[x].inhgrant \in SUBSET Perms
               /\ x \in PGroups \cup {Client}
               /\ x \in PGroups => x \in groups /\ OwnerOf[x] = Owner(o)
    <2>1. given[x] \in Grants
      BY DEF GrantsFor
    <2>2. given[x] \in [grant : SUBSET Perms, inhgrant : SUBSET Perms]
      BY <2>1, PermissionsAssumption
    <2>3. x \in {Client} \cup {g \in groups : OwnerOf[g] = Owner(o)}
      BY DEF Subjects
    <2> QED BY <2>2, <2>3, PermissionsAssumption DEF PermIInv, PermTypeOK
  <1>3. acl' = {e \in acl : e.obj # o} \cup
               {[obj |-> o, subj |-> x, grant |-> given[x].grant, inhgrant |-> given[x].inhgrant] : x \in X}
    BY DEF AclUpdate
  <1> QED BY <1>1, <1>2, <1>3

LEMMA AclUpdateStep ==
  ASSUME PermIInv, NEW o \in There, NEW X \in SUBSET Subjects(o), NEW given \in [X -> GrantsFor(o)],
         AclUpdate(o, X, given)
  PROVE  PermIInv'
  <1>1. UNCHANGED <<groups, member, admins, public, recIn>>
    BY DEF AclUpdate
  <1>2. There' = There /\ \A x : Owner(x)' = Owner(x)
    BY <1>1, OwnerSame
  <1>3. Bits(X) \in SUBSET {"user", "group"}
    BY DEF Bits, Bit
  <1>4. acls' \in [Objects -> SUBSET {"user", "group"}]
    BY <1>3 DEF AclUpdate, PermIInv, PermTypeOK
  <1>5. PermTypeOK'
    BY <1>1, <1>4, RulesOf DEF PermIInv, PermTypeOK
  <1>6. OneOwner' /\ MembersKept'
    BY <1>1 DEF PermIInv, OneOwner, MembersKept
  <1>7. GroupsOfOwner'
    BY <1>1, <1>2, RulesOf DEF PermIInv, GroupsOfOwner
  <1> QED BY <1>5, <1>6, <1>7 DEF PermIInv

\* Requests that give no rule and put no record anywhere: of the rules that were
\* there, those of deleted groups go.
LEMMA FewerRules ==
  ASSUME PermIInv, acl' \subseteq acl, UNCHANGED recIn,
         acls' \in [Objects -> SUBSET {"user", "group"}],
         groups' \subseteq PGroups, member' \subseteq PGroups, MembersKept',
         \A e \in acl' : e.subj \in groups => e.subj \in groups'
  PROVE  PermIInv'
  <1>1. There' = There /\ \A x : Owner(x)' = Owner(x)
    BY OwnerSame
  <1>2. PermTypeOK' /\ OneOwner'
    BY DEF PermIInv, PermTypeOK, OneOwner
  <1>3. GroupsOfOwner'
    BY <1>1 DEF PermIInv, GroupsOfOwner
  <1> QED BY <1>2, <1>3 DEF PermIInv

LEMMA GroupSteps ==
  ASSUME PermIInv, NEW g \in PGroups, NEW joins \in BOOLEAN,
         GroupCreate(g, joins) \/ GroupUpdate(g, joins) \/ GroupDelete(g)
  PROVE  PermIInv'
  <1>1. acl' \subseteq acl /\ UNCHANGED recIn /\ UNCHANGED acls
    BY DEF GroupCreate, GroupUpdate, GroupDelete
  <1>2. groups' \subseteq PGroups /\ member' \subseteq PGroups
    BY DEF GroupCreate, GroupUpdate, GroupDelete, PermIInv, PermTypeOK
  <1>3. MembersKept'
    BY DEF GroupCreate, GroupUpdate, GroupDelete, PermIInv, MembersKept
  <1>4. \A e \in acl' : e.subj \in groups => e.subj \in groups'
    BY DEF GroupCreate, GroupUpdate, GroupDelete
  <1> QED BY <1>1, <1>2, <1>3, <1>4, FewerRules DEF PermIInv, PermTypeOK

LEMMA ProjUpdateStep ==
  ASSUME PermIInv, NEW p, NEW adm, NEW mem, ProjUpdate(p, adm, mem)
  PROVE  PermIInv'
  <1>1. acl' \subseteq acl /\ UNCHANGED <<recIn, acls, groups>>
    BY DEF ProjUpdate
  <1>2. member' \subseteq PGroups
    BY PermissionsAssumption DEF ProjUpdate, PermIInv, PermTypeOK
  <1> QED BY <1>1, <1>2, FewerRules DEF PermIInv, PermTypeOK, MembersKept

\* A record that is put in collections of its owner, or is new.
LEMMA RecordLinkedStep ==
  ASSUME PermIInv, NEW r \in PRecs, NEW X \in SUBSET Filled, RecordLinked(r, X)
  PROVE  PermIInv'
  <1> USE PermissionsAssumption
  <1>1. UNCHANGED <<acl, acls, groups, member, admins, public>> /\ X # {}
        /\ \A c, d \in X \cup recIn[r] : OwnerOf[c] = OwnerOf[d]
    BY DEF RecordLinked
  <1>2. recIn' = [recIn EXCEPT ![r] = X] /\ recIn \in [PRecs -> SUBSET PColls]
    BY DEF RecordLinked, PermIInv, PermTypeOK
  <1>3. recIn'[r] = X /\ \A q \in PRecs \ {r} : recIn'[q] = recIn[q]
    BY <1>2
  <1>4. PermTypeOK' /\ OneOwner' /\ MembersKept'
    BY <1>1, <1>2, <1>3 DEF PermIInv, PermTypeOK, OneOwner, MembersKept
  <1>5. There \subseteq There'
    BY <1>1, <1>3 DEF There, RecsThere
  <1>6. ASSUME NEW o \in There PROVE Owner(o)' = Owner(o)
    <2>1. CASE o \in PColls
      BY <2>1 DEF Owner
    <2>2. CASE o \in PRecs \ {r}
      <3>1. recIn'[o] = recIn[o]
        BY <1>3, <2>2
      <3> QED BY <2>2, <3>1 DEF Owner
    <2>3. CASE o = r
      <3>1. PICK c \in recIn[r] : TRUE
        BY <2>3 DEF There, RecsThere
      <3>2. PICK d \in recIn'[r] : TRUE
        BY <1>1, <1>3
      <3>3. Owner(r) = OwnerOf[c]
        BY <3>1, OwnerIn DEF PermIInv
      <3>4. (CHOOSE x \in recIn'[r] : TRUE) \in recIn'[r]
        BY <3>2
      <3>5. Owner(r)' = OwnerOf[CHOOSE x \in recIn'[r] : TRUE]
        BY DEF Owner
      <3> QED BY <1>1, <1>3, <2>3, <3>1, <3>3, <3>4, <3>5
    <2> QED BY <2>1, <2>2, <2>3 DEF There, RecsThere
  <1>7. GroupsOfOwner'
    BY <1>1, <1>5, <1>6 DEF PermIInv, GroupsOfOwner
  <1> QED BY <1>4, <1>7 DEF PermIInv

\* A record that is deleted or given to another owner loses its rules.
LEMMA RecordElsewhere ==
  ASSUME PermIInv, NEW r \in PRecs, NEW X \in SUBSET PColls, \A c, d \in X : c = d,
         recIn' = [recIn EXCEPT ![r] = X], acl' = {e \in acl : e.obj # r},
         acls' \in [Objects -> SUBSET {"user", "group"}], UNCHANGED <<groups, member>>
  PROVE  PermIInv'
  <1>1. recIn \in [PRecs -> SUBSET PColls]
    BY DEF PermIInv, PermTypeOK
  <1>2. recIn'[r] = X /\ \A q \in PRecs \ {r} : recIn'[q] = recIn[q]
    BY <1>1
  <1>3. PermTypeOK' /\ OneOwner' /\ MembersKept'
    BY <1>1, <1>2 DEF PermIInv, PermTypeOK, OneOwner, MembersKept
  <1>4. ASSUME NEW o \in There \ {r} PROVE o \in There' /\ Owner(o)' = Owner(o)
    <2>1. CASE o \in PColls
      BY <2>1 DEF Owner, There
    <2>2. CASE o \in PRecs \ {r}
      <3>1. recIn'[o] = recIn[o]
        BY <1>2, <2>2
      <3> QED BY <2>2, <3>1 DEF Owner, There, RecsThere
    <2> QED BY <2>1, <2>2 DEF There, RecsThere
  <1>5. GroupsOfOwner'
    BY <1>4 DEF PermIInv, GroupsOfOwner
  <1> QED BY <1>3, <1>5 DEF PermIInv

LEMMA PermStep == PermIInv /\ [PermsNext]_permVars => PermIInv'
  <1> SUFFICES ASSUME PermIInv, [PermsNext]_permVars PROVE PermIInv'
    OBVIOUS
  <1>1. CASE \E o \in There : \E X \in SUBSET Subjects(o) : \E given \in [X -> GrantsFor(o)] : AclUpdate(o, X, given)
    BY <1>1, AclUpdateStep
  <1>2. CASE \E g \in PGroups, joins \in BOOLEAN : GroupCreate(g, joins)
    BY <1>2, GroupSteps
  <1>3. CASE \E g \in PGroups, joins \in BOOLEAN : GroupUpdate(g, joins)
    BY <1>3, GroupSteps
  <1>4. CASE \E g \in PGroups : GroupDelete(g)
    BY <1>4, GroupSteps
  <1>5. CASE \E p \in Projs, adm, mem \in Given : ProjUpdate(p, adm, mem)
    BY <1>5, ProjUpdateStep
  <1>6. CASE \E c \in Published, pub \in BOOLEAN : Publish(c, pub)
    BY <1>6, FewerRules DEF Publish, PermIInv, PermTypeOK, MembersKept
  <1>7. CASE \E r \in PRecs, X \in SUBSET Filled : RecordLinked(r, X)
    BY <1>7, RecordLinkedStep
  <1>8. CASE \E r \in PRecs : RecordGone(r)
    <2>1. PICK r \in PRecs : RecordGone(r)
      BY <1>8
    <2>2. acls' \in [Objects -> SUBSET {"user", "group"}]
      BY <2>1 DEF RecordGone, PermIInv, PermTypeOK
    <2>3. recIn' = [recIn EXCEPT ![r] = {}] /\ acl' = {e \in acl : e.obj # r} /\ UNCHANGED <<groups, member>>
      BY <2>1 DEF RecordGone
    <2>4. {} \in SUBSET PColls
      OBVIOUS
    <2> QED BY <2>2, <2>3, <2>4, RecordElsewhere
  <1>9. CASE \E r \in PRecs, c \in Filled : ChangeOwner(r, c)
    <2>1. PICK r \in PRecs, c \in Filled : ChangeOwner(r, c)
      BY <1>9
    <2>2. acls' \in [Objects -> SUBSET {"user", "group"}]
      BY <2>1 DEF ChangeOwner, PermIInv, PermTypeOK
    <2>3. {c} \in SUBSET PColls
      BY PermissionsAssumption
    <2> QED BY <2>1, <2>2, <2>3, RecordElsewhere DEF ChangeOwner
  <1>10. CASE \E o \in There : AclReset(o)
    <2>1. PICK o \in There : AclReset(o)
      BY <1>10
    <2>2. acls' \in [Objects -> SUBSET {"user", "group"}]
      BY <2>1 DEF AclReset, PermIInv, PermTypeOK
    <2> QED BY <2>1, <2>2, FewerRules DEF AclReset, PermIInv, PermTypeOK, MembersKept
  <1>11. CASE UNCHANGED permVars
    BY <1>11, FewerRules DEF permVars, PermIInv, PermTypeOK, MembersKept
  <1> QED BY <1>1, <1>2, <1>3, <1>4, <1>5, <1>6, <1>7, <1>8, <1>9, <1>10, <1>11 DEF PermsNext, PermsCleanNext

\* The clean requests are requests.
LEMMA CleanIsPerms == PermsCleanSpec => PermsSpec
  <1>1. [PermsCleanNext]_permVars => [PermsNext]_permVars
    BY DEF PermsNext
  <1> QED BY <1>1, PTL DEF PermsSpec, PermsCleanSpec

THEOREM PermsInductive == PermsSpec => []PermIInv
  <1> QED BY PermInit, PermStep, PTL DEF PermsSpec

\* Whatever is asked, a rule is for an object that is there and for the client or
\* a group of the owner that the object has then.
THEOREM RulesOfOwner == PermsSpec => []GroupsOfOwner
  <1>1. PermIInv => GroupsOfOwner
    BY DEF PermIInv
  <1> QED BY <1>1, PermsInductive, PTL

-----------------------------------------------------------------------------
\* The owners that getACLOwnersBySubject lists, of edges to the client and of
\* groups, are those of the objects that have the rules.
LEMMA ListedIsShared == PermIInv => SharedListed
  <1> SUFFICES ASSUME PermIInv PROVE SharedListed
    OBVIOUS
  <1> DEFINE Seen == UNION {RulesAt(o) : o \in There}
             Direct == {Owner(e.obj) : e \in {f \in acl : f.subj = Client}}
             ByGroup == {OwnerOf[g] : g \in {h \in member : \E e \in acl : e.subj = h}}
  <1>1. Seen = {e \in acl : e.subj \in member \cup {Client}}
    BY DEF PermIInv, GroupsOfOwner, RulesAt
  <1>2. \A e \in acl : e.subj \in member => OwnerOf[e.subj] = Owner(e.obj)
    BY DEF PermIInv, PermTypeOK, GroupsOfOwner
  <1>3. Direct \cup ByGroup = {Owner(e.obj) : e \in Seen}
    <2> HIDE DEF Seen
    <2>1. \A x \in Direct \cup ByGroup : \E e \in Seen : x = Owner(e.obj)
      BY <1>1, <1>2
    <2>2. \A e \in Seen : Owner(e.obj) \in Direct \cup ByGroup
      BY <1>1, <1>2
    <2> QED BY <2>1, <2>2
  <1> QED BY <1>3 DEF SharedListed, SharedBy

\* "Get users and projects that have shared data or collections with subject":
\* whatever is asked, those are the owners of what has a rule for the client or a
\* group of the client.
THEOREM OwnersListed == PermsSpec => []SharedListed
  <1> QED BY ListedIsShared, PermsInductive, PTL

-----------------------------------------------------------------------------
\* The bits of an object say of each of its rules that there is such a rule.
BitsCover == \A e \in acl : Bit(e.subj) \in acls[e.obj]

LEMMA BitsInit == PermsInit => BitsCover
  <1> SUFFICES ASSUME PermsInit, NEW e \in acl PROVE Bit(e.subj) \in acls[e.obj]
    BY DEF BitsCover
  <1>1. e.obj \in PColls /\ e.subj \in Members
    BY DEF PermsInit
  <1>2. acls[e.obj] = {"group"}
    BY <1>1 DEF PermsInit, Objects
  <1> QED BY <1>1, <1>2, PermissionsAssumption DEF Bit

LEMMA BitsStep == PermIInv /\ BitsCover /\ [PermsCleanNext]_permVars => BitsCover'
  <1> SUFFICES ASSUME PermIInv, BitsCover, [PermsCleanNext]_permVars PROVE BitsCover'
    OBVIOUS
  <1>0. acls \in [Objects -> SUBSET {"user", "group"}] /\ \A e \in acl : e.obj \in Objects
    BY DEF PermIInv, PermTypeOK
  <1>1. ASSUME NEW o \in There, NEW X \in SUBSET Subjects(o), NEW given \in [X -> GrantsFor(o)],
               AclUpdate(o, X, given)
        PROVE  BitsCover'
    <2>1. acls' = [acls EXCEPT ![o] = Bits(X)] /\ o \in Objects
      BY <1>1 DEF AclUpdate, There, RecsThere, Objects
    <2>2. ASSUME NEW e \in acl', e.obj = o PROVE Bit(e.subj) \in acls'[e.obj]
      <3>1. e.subj \in X
        BY <1>1, <2>2 DEF AclUpdate
      <3> QED BY <1>0, <2>1, <2>2, <3>1 DEF Bits
    <2>3. ASSUME NEW e \in acl', e.obj # o PROVE Bit(e.subj) \in acls'[e.obj]
      <3>1. e \in acl
        BY <1>1, <2>3 DEF AclUpdate
      <3> QED BY <1>0, <2>1, <2>3, <3>1 DEF BitsCover
    <2> QED BY <2>2, <2>3 DEF BitsCover, Bit
  <1>2. ASSUME acl' \subseteq acl, UNCHANGED acls PROVE BitsCover'
    BY <1>2 DEF BitsCover, Bit
  <1>3. ASSUME NEW r \in PRecs, RecordGone(r) PROVE BitsCover'
    <2>1. \A e \in acl' : e \in acl /\ acls'[e.obj] = acls[e.obj]
      BY <1>0, <1>3 DEF RecordGone
    <2> QED BY <2>1 DEF BitsCover, Bit
  <1>4. CASE PermsCleanNext
    BY <1>1, <1>2, <1>3, <1>4 DEF PermsCleanNext, GroupCreate, GroupUpdate, GroupDelete, ProjUpdate,
       Publish, RecordLinked, ChangeOwner
  <1>5. CASE UNCHANGED permVars
    BY <1>2, <1>5 DEF permVars
  <1> QED BY <1>4, <1>5

LEMMA CleanInductive == PermsCleanSpec => [](PermIInv /\ BitsCover)
  <1>1. PermsCleanSpec => []PermIInv
    BY CleanIsPerms, PermsInductive, PTL
  <1> QED BY <1>1, BitsInit, BitsStep, PTL DEF PermsCleanSpec

LEMMA FoundIsAllowed == PermIInv /\ BitsCover => PermsExact
  <1> SUFFICES ASSUME PermIInv, BitsCover, NEW o \in There PROVE Found(o) = Allowed(o)
    BY DEF PermsExact
  <1>1. \A x : FoundAt(x) = RulesAt(x)
    BY DEF BitsCover, FoundAt, RulesAt
  <1>2. \A x : x \in GrantAt(o) <=> (\E e \in RulesAt(o) : x \in e.grant) \/ x \in PublicAt({o})
    BY <1>1 DEF GrantAt
  <1>3. \A c, x : x \in InhgrantAt(c) <=> (\E e \in RulesAt(c) : x \in e.inhgrant) \/ x \in PublicAt({c})
    BY <1>1 DEF InhgrantAt
  <1>4. \A x : x \in Inherited(o) <=> \E c \in AboveOf(o) : x \in InhgrantAt(c)
    BY DEF Inherited
  <1>5. \A x : x \in PublicAt(AboveOf(o) \cup {o})
                <=> x \in PublicAt({o}) \/ \E c \in AboveOf(o) : x \in PublicAt({c})
    BY DEF PublicAt
  <1>6. \A x : x \in Allowed(o) <=> \/ \E e \in RulesAt(o) : x \in e.grant
                                    \/ \E c \in AboveOf(o) : \E e \in RulesAt(c) : x \in e.inhgrant
                                    \/ x \in PublicAt(AboveOf(o) \cup {o})
    BY DEF Allowed
  <1>7. \A x : x \in Found(o) <=> x \in GrantAt(o) \/ x \in Inherited(o)
    BY DEF Found
  <1>8. \A x : x \in Found(o) <=> x \in Allowed(o)
    BY <1>2, <1>3, <1>4, <1>5, <1>6, <1>7
  <1> QED BY <1>8 DEF Found, Allowed

\* "permissions are inherited and additive": as long as no request clears the bits
\* and leaves the rules, what the walks of hasPermissions and getPermissions find
\* is what the rules of an object and of the collections above it give.
THEOREM WalksFindAll == PermsCleanSpec => []PermsExact
  BY CleanInductive, FoundIsAllowed, PTL

-----------------------------------------------------------------------------
\* Collections above each other: the walks go up to the parent, and down to the
\* children, and are over after as many steps as there are levels.
Depth(c) == Cardinality(Uppers[c])

LEMMA UppersAre ==
  ASSUME NEW c \in PColls
  PROVE  /\ c \in Uppers[c] /\ Uppers[c] \in SUBSET PColls /\ IsFiniteSet(Uppers[c])
         /\ Depth(c) \in Nat /\ Depth(c) > 0 /\ Depth(c) <= Cardinality(PColls)
  <1>1. c \in Uppers[c] /\ Uppers[c] \in SUBSET PColls /\ IsFiniteSet(PColls)
    BY PermissionsAssumption
  <1>2. /\ IsFiniteSet(Uppers[c]) /\ Cardinality(PColls) \in Nat
        /\ Depth(c) \in Nat /\ Depth(c) <= Cardinality(PColls)
    BY <1>1, FS_Subset, FS_CardinalityType DEF Depth
  <1>3. Depth(c) # 0
    BY <1>1, <1>2, FS_EmptySet DEF Depth
  <1> QED BY <1>1, <1>2, <1>3

\* What is above another collection is nearer to the root.
LEMMA AboveLess ==
  ASSUME NEW c \in PColls, NEW d \in Uppers[c], d # c
  PROVE  Uppers[d] \subseteq Uppers[c] \ {c} /\ Depth(d) < Depth(c)
  <1>1. Uppers[d] \subseteq Uppers[c] \ {c}
    BY PermissionsAssumption
  <1>2. /\ IsFiniteSet(Uppers[c] \ {c})
        /\ Cardinality(Uppers[c] \ {c}) = Cardinality(Uppers[c]) - 1
    BY UppersAre, FS_RemoveElement
  <1>3. Cardinality(Uppers[d]) <= Cardinality(Uppers[c] \ {c})
    BY <1>1, <1>2, FS_Subset
  <1>4. d \in PColls
    BY UppersAre
  <1> QED BY <1>1, <1>2, <1>3, <1>4, UppersAre DEF Depth

\* Of collections some is the deepest, and some is nearest to the root.
LEMMA Deepest ==
  ASSUME NEW S \in SUBSET PColls, S # {}
  PROVE  \E c \in S : \A d \in S : Depth(d) <= Depth(c)
  <1> DEFINE N == Cardinality(PColls)
             M == {N - Depth(c) : c \in S}
  <1>1. \A c \in S : Depth(c) \in Nat /\ N - Depth(c) \in Nat
    BY UppersAre, FS_CardinalityType, PermissionsAssumption
  <1>2. M \in SUBSET Nat /\ M # {}
    BY <1>1
  <1>3. PICK n \in M : \A m \in M : ~(<<m, n>> \in OpToRel(<, Nat))
    BY <1>2, NatLessThanWellFounded, WFMin
  <1>4. \A m \in M : ~(m < n)
    BY <1>2, <1>3 DEF OpToRel
  <1>5. PICK c \in S : n = N - Depth(c)
    BY <1>3
  <1>6. N \in Nat
    BY FS_CardinalityType, PermissionsAssumption
  <1>7. \A d \in S : ~(N - Depth(d) < N - Depth(c))
    BY <1>4, <1>5
  <1> HIDE DEF N, M
  <1> QED BY <1>1, <1>6, <1>7

LEMMA Highest ==
  ASSUME NEW S \in SUBSET PColls, S # {}
  PROVE  \E c \in S : \A d \in S : Depth(c) <= Depth(d)
  <1> DEFINE M == {Depth(c) : c \in S}
  <1>1. \A c \in S : Depth(c) \in Nat
    BY UppersAre
  <1>2. M \in SUBSET Nat /\ M # {}
    BY <1>1
  <1>3. PICK n \in M : \A m \in M : ~(<<m, n>> \in OpToRel(<, Nat))
    BY <1>2, NatLessThanWellFounded, WFMin
  <1>4. \A m \in M : ~(m < n)
    BY <1>2, <1>3 DEF OpToRel
  <1>5. PICK c \in S : n = Depth(c)
    BY <1>3
  <1>6. \A d \in S : ~(Depth(d) < Depth(c))
    BY <1>4, <1>5
  <1> HIDE DEF M
  <1> QED BY <1>1, <1>6

\* The parent of a collection is the deepest of those above it.
LEMMA ParentIs ==
  ASSUME NEW c \in PColls, Uppers[c] # {c}
  PROVE  ParentOf(c) \in Uppers[c] /\ Uppers[ParentOf(c)] = Uppers[c] \ {c}
  <1> DEFINE S == Uppers[c] \ {c}
  <1>1. S \in SUBSET PColls /\ S # {}
    BY UppersAre
  <1>2. PICK d \in S : \A e \in S : Depth(e) <= Depth(d)
    BY <1>1, Deepest
  <1>3. Uppers[d] \subseteq S
    BY <1>2, AboveLess
  <1>4. ASSUME NEW e \in S PROVE e \in Uppers[d]
    <2>1. e \in Uppers[d] \/ d \in Uppers[e]
      BY PermissionsAssumption
    <2>2. CASE d \in Uppers[e] /\ e # d
      <3>1. Depth(d) < Depth(e) /\ Depth(e) <= Depth(d)
        BY <1>1, <1>2, <2>2, AboveLess
      <3>2. Depth(d) \in Nat /\ Depth(e) \in Nat
        BY <1>1, UppersAre
      <3> QED BY <3>1, <3>2
    <2>3. d \in Uppers[d]
      BY <1>1, UppersAre
    <2> QED BY <2>1, <2>2, <2>3
  <1>5. d \in Uppers[c] /\ Uppers[d] = Uppers[c] \ {c}
    BY <1>3, <1>4
  <1> QED BY <1>5 DEF ParentOf

\* so that it is below everything that the collection is below.
LEMMA ParentBelow ==
  ASSUME NEW s \in PColls, NEW c \in Lowers(s), c # s
  PROVE  /\ ParentOf(c) \in Lowers(s) /\ Depth(ParentOf(c)) < Depth(c)
         /\ Uppers[ParentOf(c)] = Uppers[c] \ {c}
  <1>1. c \in PColls /\ s \in Uppers[c] \ {c}
    BY DEF Lowers
  <1>2. ParentOf(c) \in Uppers[c] /\ Uppers[ParentOf(c)] = Uppers[c] \ {c}
    BY <1>1, ParentIs
  <1>3. ParentOf(c) \in PColls /\ ParentOf(c) # c
    BY <1>1, <1>2, UppersAre
  <1> QED BY <1>1, <1>2, <1>3, AboveLess DEF Lowers

\* A child is one level below.
LEMMA ChildBelow ==
  ASSUME NEW c \in PColls, NEW e \in ChildrenOf(c)
  PROVE  /\ e \in PColls /\ e \in Lowers(c) /\ Uppers[e] \ {e} = Uppers[c] /\ Lowers(e) \subseteq Lowers(c)
         /\ Depth(c) < Depth(e)
  <1>1. e \in PColls /\ e # c /\ Uppers[e] = Uppers[c] \cup {e} /\ c \in Uppers[c]
    BY UppersAre DEF ChildrenOf
  <1>2. e \notin Uppers[c]
    BY <1>1, PermissionsAssumption
  <1>3. Lowers(e) \subseteq Lowers(c)
    BY <1>1, PermissionsAssumption DEF Lowers
  <1>4. Depth(c) < Depth(e)
    BY <1>1, AboveLess
  <1> QED BY <1>1, <1>2, <1>3, <1>4 DEF Lowers

\* What is below a collection is the collection, and what is below its children.
LEMMA LowersAre ==
  ASSUME NEW c \in PColls
  PROVE  Lowers(c) = {c} \cup UNION {Lowers(e) : e \in ChildrenOf(c)}
  <1>1. c \in Lowers(c) /\ \A e \in ChildrenOf(c) : Lowers(e) \subseteq Lowers(c)
    BY UppersAre, ChildBelow DEF Lowers
  <1>2. ASSUME NEW x \in Lowers(c), x # c PROVE \E e \in ChildrenOf(c) : x \in Lowers(e)
    <2> DEFINE S == (Uppers[x] \cap Lowers(c)) \ {c}
    <2>1. S \in SUBSET PColls /\ x \in S /\ x \in PColls /\ c \in Uppers[x]
      BY <1>2, UppersAre DEF Lowers
    <2>2. PICK e \in S : \A d \in S : Depth(e) <= Depth(d)
      BY <2>1, Highest
    <2>3. /\ e \in PColls /\ e # c /\ c \in Uppers[e] /\ e \in Uppers[x] /\ e \in Uppers[e]
          /\ Uppers[c] \subseteq Uppers[e] /\ Uppers[e] \subseteq Uppers[x] /\ c \in Uppers[c]
      BY <2>1, UppersAre, PermissionsAssumption DEF Lowers
    <2>4. ASSUME NEW z \in Uppers[e], z # e PROVE z \in Uppers[c]
      <3>1. z \in Uppers[c] \/ c \in Uppers[z]
        BY <2>3, PermissionsAssumption
      <3>2. z \in PColls /\ Depth(z) < Depth(e) /\ Depth(z) \in Nat /\ Depth(e) \in Nat
        BY <2>3, <2>4, UppersAre, AboveLess
      <3>3. z \notin S
        BY <2>2, <3>2
      <3>4. CASE c \in Uppers[z]
        BY <2>3, <3>2, <3>3, <3>4 DEF Lowers
      <3> QED BY <3>1, <3>4
    <2>5. Uppers[e] = Uppers[c] \cup {e}
      BY <2>3, <2>4
    <2>6. e \in ChildrenOf(c)
      BY <2>3, <2>5 DEF ChildrenOf
    <2> QED BY <2>1, <2>3, <2>6 DEF Lowers
  <1> QED BY <1>1, <1>2


-----------------------------------------------------------------------------
\* What _preprocessItemsRecursive hands down.  Induction over numbers, by the
\* least that is not in C.
LEMMA NatSets ==
  ASSUME NEW C, 0 \in C, \A n \in Nat : n \in C => n + 1 \in C
  PROVE  Nat \subseteq C
  <1> SUFFICES ASSUME Nat \ C # {} PROVE FALSE
    OBVIOUS
  <1>1. PICK n \in Nat \ C : \A m \in Nat \ C : ~(<<m, n>> \in OpToRel(<, Nat))
    BY NatLessThanWellFounded, WFMin
  <1>2. \A m \in Nat \ C : ~(m < n)
    BY <1>1 DEF OpToRel
  <1>3. n - 1 \in Nat /\ n - 1 \in C
    BY <1>2
  <1> QED BY <1>3

\* One step of the walk, and the walk: each collection is passed with what its
\* parent hands down.
AtTop == [ok |-> TRUE, data |-> {}, coll |-> {}]
PassedWith(s, mode, c, up) ==
  LET perm == Local(c, c = s)
  IN IF mode.coll \subseteq up.coll /\ mode.data \subseteq up.data THEN up
     ELSE IF HasAdminPerm(c) THEN [ok |-> TRUE, data |-> mode.data, coll |-> mode.coll]
     ELSE [ok |-> mode.coll \subseteq perm.grant \cup perm.inherited,
           data |-> up.data \cup Inhgranted(perm), coll |-> up.coll \cup Inhgranted(perm)]
PassedStep(s, mode, at, c) == PassedWith(s, mode, c, IF c = s THEN AtTop ELSE at[ParentOf(c)])
IsPassed(s, mode, at) == at = [c \in Lowers(s) |-> PassedStep(s, mode, at, c)]

\* There is such a walk: level by level, from the one that is selected.
LEMMA PassedExists ==
  ASSUME NEW s \in PColls, NEW mode
  PROVE  \E at : IsPassed(s, mode, at)
  <1> DEFINE Upto(at, n) == /\ DOMAIN at = Lowers(s) /\ at = [c \in Lowers(s) |-> at[c]]
                            /\ \A c \in Lowers(s) : Depth(c) <= n => at[c] = PassedStep(s, mode, at, c)
             D == {n \in Nat : \E at : Upto(at, n)}
  <1>1. \A c \in Lowers(s) : c \in PColls /\ Depth(c) \in Nat /\ Depth(c) > 0
                             /\ Depth(c) <= Cardinality(PColls)
    BY UppersAre DEF Lowers
  <1>2. 0 \in D
    <2> DEFINE at == [c \in Lowers(s) |-> AtTop]
    <2>1. Upto(at, 0)
      BY <1>1
    <2> HIDE DEF at, Upto
    <2> QED BY <2>1
  <1>3. ASSUME NEW n \in Nat, n \in D PROVE n + 1 \in D
    <2>1. PICK at : Upto(at, n)
      BY <1>3
    <2> DEFINE new == [c \in Lowers(s) |-> IF Depth(c) <= n THEN at[c] ELSE PassedStep(s, mode, at, c)]
    <2>2. ASSUME NEW c \in Lowers(s), Depth(c) <= n + 1
          PROVE  PassedStep(s, mode, new, c) = PassedStep(s, mode, at, c)
      <3>1. CASE c = s
        BY <3>1 DEF PassedStep
      <3>2. CASE c # s
        <4>1. ParentOf(c) \in Lowers(s) /\ Depth(ParentOf(c)) < Depth(c)
          BY <3>2, ParentBelow
        <4>2. Depth(ParentOf(c)) <= n
          BY <1>1, <2>2, <4>1
        <4>3. new[ParentOf(c)] = at[ParentOf(c)]
          BY <4>1, <4>2
        <4> HIDE DEF new
        <4> QED BY <4>3 DEF PassedStep
      <3> QED BY <3>1, <3>2
    <2>3. ASSUME NEW c \in Lowers(s), Depth(c) <= n + 1
          PROVE  new[c] = PassedStep(s, mode, new, c)
      <3>1. new[c] = IF Depth(c) <= n THEN at[c] ELSE PassedStep(s, mode, at, c)
        OBVIOUS
      <3>2. Depth(c) <= n => at[c] = PassedStep(s, mode, at, c)
        BY <2>1
      <3> QED BY <2>2, <2>3, <3>1, <3>2
    <2>4. Upto(new, n + 1)
      BY <2>3
    <2> HIDE DEF new, Upto
    <2> QED BY <2>4
  <1>4. Cardinality(PColls) \in D
    <2> HIDE DEF D
    <2>1. Nat \subseteq D
      BY <1>2, <1>3, NatSets
    <2> QED BY <2>1, FS_CardinalityType, PermissionsAssumption
  <1>5. PICK at : Upto(at, Cardinality(PColls))
    BY <1>4
  <1>6. \A c \in Lowers(s) : at[c] = PassedStep(s, mode, at, c)
    BY <1>1, <1>5
  <1>7. at = [c \in Lowers(s) |-> at[c]]
    BY <1>5
  <1>8. IsPassed(s, mode, at)
    BY <1>6, <1>7 DEF IsPassed
  <1> QED BY <1>8

LEMMA PassedIs ==
  ASSUME NEW s \in PColls, NEW mode, NEW c \in Lowers(s)
  PROVE  Passed(s, mode)[c] = PassedStep(s, mode, Passed(s, mode), c)
  <1> DEFINE v == CHOOSE at : IsPassed(s, mode, at)
  <1>1. Passed(s, mode) = v
    BY DEF Passed, IsPassed, PassedStep, PassedWith, AtTop
  <1>2. IsPassed(s, mode, v)
    BY PassedExists
  <1> HIDE DEF v
  <1>3. v[c] = PassedStep(s, mode, v, c)
    BY <1>2 DEF IsPassed
  <1> QED BY <1>1, <1>3


\* What may be inherited from a collection: its own and what it inherits.
Full(c) == UNION {InhgrantAt(d) : d \in Uppers[c]}

LEMMA FullIs ==
  ASSUME NEW c \in PColls
  PROVE  Full(c) = InhgrantAt(c) \cup Inherited(c) /\ Inherited(c) = UNION {InhgrantAt(d) : d \in Uppers[c] \ {c}}
  <1>1. Inherited(c) = UNION {InhgrantAt(d) : d \in Uppers[c] \ {c}}
    BY DEF Inherited, AboveOf
  <1>2. c \in Uppers[c]
    BY UppersAre
  <1> HIDE DEF InhgrantAt
  <1> QED BY <1>1, <1>2 DEF Full

LEMMA InheritedIs ==
  /\ \A s \in PColls : \A c \in Lowers(s) : c # s => Inherited(c) = Full(ParentOf(c))
  /\ \A c \in PColls : \A e \in ChildrenOf(c) : Inherited(e) = Full(c)
  /\ \A r \in PRecs : \A c \in recIn[r] : c \in PColls => Full(c) \subseteq Inherited(r)
  <1>1. ASSUME NEW s \in PColls, NEW c \in Lowers(s), c # s PROVE Inherited(c) = Full(ParentOf(c))
    BY <1>1, ParentBelow, FullIs DEF Full, Lowers
  <1>2. ASSUME NEW c \in PColls, NEW e \in ChildrenOf(c) PROVE Inherited(e) = Full(c)
    BY <1>2, ChildBelow, FullIs DEF Full
  <1>3. ASSUME NEW r \in PRecs, NEW c \in recIn[r], c \in PColls PROVE Full(c) \subseteq Inherited(r)
    <2>1. AboveOf(r) = UNION {Uppers[d] : d \in recIn[r]}
      BY PermissionsAssumption DEF AboveOf
    <2>2. Uppers[c] \subseteq AboveOf(r)
      BY <2>1
    <2> QED BY <2>2 DEF Full, Inherited
  <1> QED BY <1>1, <1>2, <1>3

\* An administrator is one of all collections of an owner.
LEMMA SameAdmin ==
  ASSUME NEW s \in PColls, NEW c \in Lowers(s)
  PROVE  c \in PColls /\ (HasAdminPerm(c) <=> HasAdminPerm(s))
  BY PermissionsAssumption DEF Lowers, HasAdminPerm, Owner

\* No more is handed down than may be inherited.
LEMMA PassedGives ==
  ASSUME NEW s \in PColls, NEW mode, ~HasAdminPerm(s), NEW c \in Lowers(s)
  PROVE  Passed(s, mode)[c].data \subseteq Full(c) /\ Passed(s, mode)[c].coll \subseteq Full(c)
  <1> DEFINE at == Passed(s, mode)
             Within(d) == at[d].data \subseteq Full(d) /\ at[d].coll \subseteq Full(d)
             S == {d \in Lowers(s) : ~Within(d)}
  <1>1. ASSUME NEW d \in Lowers(s), NEW up, up.data \subseteq Inherited(d), up.coll \subseteq Inherited(d),
               at[d] = PassedWith(s, mode, d, up)
        PROVE  Within(d)
    <2>1. d \in PColls /\ ~HasAdminPerm(d)
      BY SameAdmin
    <2>2. Full(d) = InhgrantAt(d) \cup Inherited(d)
      BY <2>1, FullIs
    <2>3. Inhgranted(Local(d, d = s)) \subseteq Full(d)
      BY <2>2 DEF Inhgranted, Local
    <2> DEFINE perm == Local(d, d = s)
    <2>4. CASE mode.coll \subseteq up.coll /\ mode.data \subseteq up.data
      <3>1. at[d] = up
        BY <1>1, <2>4 DEF PassedWith
      <3> QED BY <1>1, <2>2, <3>1
    <2>5. CASE ~(mode.coll \subseteq up.coll /\ mode.data \subseteq up.data)
      <3>1. at[d] = [ok |-> mode.coll \subseteq perm.grant \cup perm.inherited,
                     data |-> up.data \cup Inhgranted(perm), coll |-> up.coll \cup Inhgranted(perm)]
        BY <1>1, <2>1, <2>5 DEF PassedWith
      <3> HIDE DEF perm, at
      <3>2. at[d].data = up.data \cup Inhgranted(perm) /\ at[d].coll = up.coll \cup Inhgranted(perm)
        BY <3>1
      <3> QED BY <1>1, <2>2, <2>3, <3>2 DEF perm
    <2> QED BY <2>4, <2>5
  <1>2. ASSUME S # {} PROVE FALSE
    <2>1. S \in SUBSET PColls
      BY DEF Lowers
    <2>2. PICK d \in S : \A e \in S : Depth(d) <= Depth(e)
      BY <1>2, <2>1, Highest
    <2>3. CASE d = s
      <3>1. at[s] = PassedWith(s, mode, s, AtTop)
        BY <2>3, PassedIs DEF PassedStep
      <3>2. AtTop.data \subseteq Inherited(s) /\ AtTop.coll \subseteq Inherited(s)
        BY DEF AtTop
      <3> HIDE DEF at
      <3> QED BY <1>1, <2>2, <2>3, <3>1, <3>2
    <2>4. CASE d # s
      <3>1. ParentOf(d) \in Lowers(s) /\ Depth(ParentOf(d)) < Depth(d)
        BY <2>4, ParentBelow
      <3>2. Depth(d) \in Nat /\ Depth(ParentOf(d)) \in Nat
        BY <3>1, UppersAre DEF Lowers
      <3>3. Within(ParentOf(d))
        BY <2>2, <3>1, <3>2
      <3>4. at[d] = PassedWith(s, mode, d, at[ParentOf(d)])
        BY <2>4, PassedIs DEF PassedStep
      <3>5. Inherited(d) = Full(ParentOf(d))
        BY <2>4, InheritedIs
      <3> HIDE DEF at
      <3> QED BY <1>1, <2>2, <3>3, <3>4, <3>5
    <2> QED BY <2>3, <2>4
  <1> QED BY <1>2

\* What goes ahead is permitted.
LEMMA PassedPermitted == PermIInv /\ PermsExact => ItemsPermitted
  <1> SUFFICES ASSUME PermIInv, PermsExact, NEW s \in There, NEW mode \in Modes, Preprocessed(s, mode)
               PROVE  /\ \A c \in PColls \cap IF s \in PColls THEN Lowers(s) ELSE {} :
                           HasAdminPerm(c) \/ mode.coll \subseteq Allowed(c)
                      /\ \A r \in RecsThere : r = s \/ (s \in PColls /\ recIn[r] \cap Lowers(s) # {}) =>
                           HasAdminPerm(r) \/ mode.data \subseteq Allowed(r)
    BY Zenon DEF ItemsPermitted
  <1> DEFINE at == Passed(s, mode)
  <1>1. \A o \in There : Allowed(o) = GrantAt(o) \cup Inherited(o)
    BY DEF PermsExact, Found
  <1>2. PColls \subseteq There /\ RecsThere \subseteq There /\ \A r \in RecsThere : r \in PRecs /\ r \notin PColls
    BY PermissionsAssumption DEF There, RecsThere
  <1>3. ASSUME NEW r \in RecsThere, NEW selected, NEW data, RecordPassed(r, mode, selected, data),
               data \subseteq Inherited(r)
        PROVE  HasAdminPerm(r) \/ mode.data \subseteq Allowed(r)
    <2>1. Allowed(r) = GrantAt(r) \cup Inherited(r)
      BY <1>1, <1>2
    <2>2. Local(r, selected).grant \cup Local(r, selected).inherited \subseteq Allowed(r)
      BY <2>1 DEF Local
    <2>3. \/ mode.data \subseteq data
          \/ HasAdminPerm(r)
          \/ mode.data \subseteq Local(r, selected).grant \cup Local(r, selected).inherited
      BY <1>3, Zenon DEF RecordPassed
    <2> HIDE DEF HasAdminPerm
    <2> QED BY <1>3, <2>1, <2>2, <2>3
  <1>4. CASE s \in PRecs
    <2>1. s \in RecsThere /\ s \notin PColls
      BY <1>2, <1>4, PermissionsAssumption DEF There
    <2>2. RecordPassed(s, mode, TRUE, {})
      BY <1>4 DEF Preprocessed
    <2>3. \A data : RecordPassed(s, mode, TRUE, data) /\ data \subseteq Inherited(s)
                    => HasAdminPerm(s) \/ mode.data \subseteq Allowed(s)
      BY <1>3, <2>1, Zenon
    <2>4. HasAdminPerm(s) \/ mode.data \subseteq Allowed(s)
      <3> DEFINE none == {}
      <3>1. RecordPassed(s, mode, TRUE, none) /\ none \subseteq Inherited(s)
        BY <2>2
      <3> HIDE DEF none
      <3> QED BY <2>3, <3>1, Zenon
    <2> HIDE DEF HasAdminPerm
    <2> QED BY <2>1, <2>4
  <1>5. CASE s \in PColls
    <2>1. s \notin PRecs
      BY <1>5, PermissionsAssumption
    <2>2. /\ \A c \in Lowers(s) : at[c].ok
          /\ \A r \in RecsThere : recIn[r] \cap Lowers(s) # {} =>
               \E c \in recIn[r] \cap Lowers(s) : RecordPassed(r, mode, FALSE, at[c].data)
      BY <2>1 DEF Preprocessed
    <2>3. ASSUME NEW c \in Lowers(s), ~HasAdminPerm(c) PROVE mode.coll \subseteq Allowed(c)
      <3> DEFINE up == IF c = s THEN AtTop ELSE at[ParentOf(c)]
                 perm == Local(c, c = s)
      <3>1. c \in PColls /\ ~HasAdminPerm(s)
        BY <1>5, <2>3, SameAdmin
      <3>2. Allowed(c) = GrantAt(c) \cup Inherited(c)
        BY <1>1, <1>2, <3>1
      <3>3. up.coll \subseteq Inherited(c)
        <4>1. CASE c = s
          BY <4>1 DEF AtTop
        <4>2. CASE c # s
          <5>1. ParentOf(c) \in Lowers(s) /\ Inherited(c) = Full(ParentOf(c))
            BY <1>5, <4>2, ParentBelow, InheritedIs
          <5> QED BY <1>5, <3>1, <4>2, <5>1, PassedGives
        <4> QED BY <4>1, <4>2
      <3>4. at[c] = PassedWith(s, mode, c, up)
        BY <1>5, PassedIs DEF PassedStep
      <3>5. perm.grant \cup perm.inherited \subseteq Allowed(c)
        BY <3>2 DEF Local
      <3> HIDE DEF at, up, perm
      <3>6. CASE mode.coll \subseteq up.coll /\ mode.data \subseteq up.data
        BY <3>2, <3>3, <3>6
      <3>7. CASE ~(mode.coll \subseteq up.coll /\ mode.data \subseteq up.data)
        <4>1. at[c] = [ok |-> mode.coll \subseteq perm.grant \cup perm.inherited,
                       data |-> up.data \cup Inhgranted(perm), coll |-> up.coll \cup Inhgranted(perm)]
          BY <2>3, <3>4, <3>7 DEF PassedWith, perm
        <4>2. at[c].ok = (mode.coll \subseteq perm.grant \cup perm.inherited)
          BY <4>1
        <4> QED BY <2>2, <3>5, <4>2
      <3> QED BY <3>6, <3>7
    <2>4. ASSUME NEW r \in RecsThere, recIn[r] \cap Lowers(s) # {}, ~HasAdminPerm(r)
          PROVE  mode.data \subseteq Allowed(r)
      <3>1. PICK c \in recIn[r] \cap Lowers(s) : RecordPassed(r, mode, FALSE, at[c].data)
        BY <2>2, <2>4
      <3>2. c \in PColls /\ r \in PRecs /\ r \notin PColls
        BY <1>2 DEF Lowers
      <3>3. Owner(r) = OwnerOf[c] /\ Owner(c) = OwnerOf[c]
        BY <3>2, OwnerIn DEF PermIInv, Owner
      <3>4. ~HasAdminPerm(s)
        BY <1>5, <2>4, <3>3, SameAdmin DEF HasAdminPerm
      <3>5. at[c].data \subseteq Full(c) /\ Full(c) \subseteq Inherited(r)
        BY <1>5, <3>2, <3>4, PassedGives, InheritedIs
      <3> HIDE DEF at
      <3> QED BY <1>3, <2>4, <3>1, <3>5
    <2>5. \A r \in RecsThere : r # s
      BY <1>2, <1>5
    <2> QED BY <1>5, <2>3, <2>4, <2>5
  <1> QED BY <1>4, <1>5 DEF There, RecsThere

\* A transfer or deletion goes ahead only when each collection and record it
\* reaches is permitted (_preprocessItemsRecursive), though the walk asks nothing
\* more below a collection that hands down enough, and a record is asked for in
\* one of its collections only.
THEOREM WalksPermit == PermsCleanSpec => []ItemsPermitted
  <1>1. PermsCleanSpec => []PermIInv
    BY CleanIsPerms, PermsInductive, PTL
  <1> QED BY <1>1, WalksFindAll, PassedPermitted, PTL


-----------------------------------------------------------------------------
\* What expandSearchCollections goes through: one step of the walk down, and the
\* walk, of a collection and what is handed down to it.
Visited == PColls \X SUBSET Perms
DownStep(down, x) ==
  LET d == x[1]
      inh == InhgrantAt(d) \cup x[2]
  IN IF ~Readable \subseteq GrantAt(d) \cup x[2] THEN {}
     ELSE IF Readable \subseteq inh THEN Taken(d)
     ELSE {d} \cup UNION {down[<<e, inh>>] : e \in ChildrenOf(d)}
IsDown(down) == down = [x \in Visited |-> DownStep(down, x)]
Down == CHOOSE down : IsDown(down)

LEMMA InhgrantType ==
  ASSUME PermIInv, NEW c
  PROVE  InhgrantAt(c) \in SUBSET Perms
  <1>1. \A e \in acl : e.inhgrant \in SUBSET Perms
    BY DEF PermIInv, PermTypeOK
  <1>2. \A e \in FoundAt(c) : e \in acl
    BY DEF FoundAt
  <1>3. PublicAt({c}) \in SUBSET Perms
    BY DEF PublicAt, PERM_PUBLIC
  <1> QED BY <1>1, <1>2, <1>3 DEF InhgrantAt

\* There is such a walk: level by level, from the lowest.
LEMMA DownExists ==
  ASSUME PermIInv
  PROVE  \E down : IsDown(down)
  <1> DEFINE N == Cardinality(PColls)
             Rest(x) == N - Depth(x[1])
             Upto(down, n) == /\ DOMAIN down = Visited /\ down = [x \in Visited |-> down[x]]
                              /\ \A x \in Visited : Rest(x) < n => down[x] = DownStep(down, x)
             D == {n \in Nat : \E down : Upto(down, n)}
  <1>0. N \in Nat
    BY FS_CardinalityType, PermissionsAssumption
  <1>1. \A x \in Visited : /\ x[1] \in PColls /\ Depth(x[1]) \in Nat /\ Depth(x[1]) > 0
                           /\ Rest(x) \in Nat /\ Rest(x) < N
    BY <1>0, UppersAre DEF Visited
  <1>2. ASSUME NEW x \in Visited, NEW e \in ChildrenOf(x[1])
        PROVE  /\ <<e, InhgrantAt(x[1]) \cup x[2]>> \in Visited
               /\ Rest(<<e, InhgrantAt(x[1]) \cup x[2]>>) < Rest(x)
    <2>1. e \in PColls /\ Depth(x[1]) < Depth(e) /\ Depth(e) \in Nat
      BY <1>1, ChildBelow, UppersAre
    <2>2. InhgrantAt(x[1]) \cup x[2] \in SUBSET Perms
      BY InhgrantType DEF Visited
    <2>3. <<e, InhgrantAt(x[1]) \cup x[2]>> \in Visited
      BY <2>1, <2>2 DEF Visited
    <2> QED BY <1>0, <1>1, <2>1, <2>3
  <1>3. 0 \in D
    <2> DEFINE down == [x \in Visited |-> {}]
    <2>1. Upto(down, 0)
      BY <1>1
    <2> HIDE DEF down, Upto
    <2> QED BY <2>1
  <1>4. ASSUME NEW n \in Nat, n \in D PROVE n + 1 \in D
    <2>1. PICK down : Upto(down, n)
      BY <1>4
    <2> DEFINE new == [x \in Visited |-> IF Rest(x) < n THEN down[x] ELSE DownStep(down, x)]
    <2> HIDE DEF Rest
    <2>2. ASSUME NEW x \in Visited, Rest(x) < n + 1
          PROVE  DownStep(new, x) = DownStep(down, x)
      <3> DEFINE inh == InhgrantAt(x[1]) \cup x[2]
      <3>1. ASSUME NEW e \in ChildrenOf(x[1]) PROVE new[<<e, inh>>] = down[<<e, inh>>]
        <4> DEFINE y == <<e, inh>>
        <4>1. y \in Visited /\ Rest(y) < Rest(x)
          BY <1>2
        <4> HIDE DEF y
        <4>2. Rest(y) < n
          BY <1>1, <2>2, <4>1
        <4>3. new[y] = down[y]
          BY <4>1, <4>2
        <4> HIDE DEF new, inh
        <4> QED BY <4>3 DEF y
      <3> HIDE DEF new
      <3>2. {new[<<e, inh>>] : e \in ChildrenOf(x[1])} = {down[<<e, inh>>] : e \in ChildrenOf(x[1])}
        BY <3>1
      <3> QED BY <3>2 DEF DownStep
    <2>3. ASSUME NEW x \in Visited, Rest(x) < n + 1
          PROVE  new[x] = DownStep(new, x)
      <3>1. new[x] = IF Rest(x) < n THEN down[x] ELSE DownStep(down, x)
        OBVIOUS
      <3>2. Rest(x) < n => down[x] = DownStep(down, x)
        BY <2>1
      <3> HIDE DEF new
      <3> QED BY <2>2, <2>3, <3>1, <3>2
    <2>4. Upto(new, n + 1)
      BY <2>3
    <2> HIDE DEF new, Upto
    <2> QED BY <2>4
  <1>5. N \in D
    <2> HIDE DEF D
    <2>1. Nat \subseteq D
      BY <1>3, <1>4, NatSets
    <2> QED BY <1>0, <2>1
  <1>6. PICK down : Upto(down, N)
    BY <1>5
  <1>7. \A x \in Visited : down[x] = DownStep(down, x)
    BY <1>1, <1>6
  <1>8. down = [x \in Visited |-> down[x]]
    BY <1>6
  <1>9. IsDown(down)
    BY <1>7, <1>8 DEF IsDown
  <1> QED BY <1>9

LEMMA DownIs ==
  ASSUME PermIInv, NEW c \in PColls
  PROVE  Down[<<c, Inherited(c)>>] = DownStep(Down, <<c, Inherited(c)>>)
  <1>1. IsDown(Down)
    BY DownExists DEF Down
  <1>2. \A d \in PColls : InhgrantAt(d) \in SUBSET Perms
    BY InhgrantType
  <1>3. AboveOf(c) \subseteq PColls
    BY UppersAre DEF AboveOf
  <1>4. Inherited(c) \in SUBSET Perms
    BY <1>2, <1>3 DEF Inherited
  <1> DEFINE x == <<c, Inherited(c)>>
  <1>5. x \in Visited
    BY <1>4 DEF Visited
  <1> HIDE DEF x
  <1>6. Down[x] = DownStep(Down, x)
    BY <1>1, <1>5 DEF IsDown
  <1> QED BY <1>6 DEF x

\* The way from one collection to another below it.
LEMMA WaySelf ==
  ASSUME NEW d \in PColls
  PROVE  Way(d, d) = {d}
  <1>1. d \in Lowers(d)
    BY UppersAre DEF Lowers
  <1>2. \A y \in Lowers(d) : d \in Lowers(y) => y = d
    BY PermissionsAssumption DEF Lowers
  <1> QED BY <1>1, <1>2 DEF Way

LEMMA WayIs ==
  ASSUME NEW d \in PColls, NEW e \in ChildrenOf(d), NEW x \in Lowers(e)
  PROVE  x \in Lowers(d) /\ Way(d, x) = {d} \cup Way(e, x)
  <1>1. /\ e \in PColls /\ e \in Lowers(d) /\ Uppers[e] \ {e} = Uppers[d] /\ Lowers(e) \subseteq Lowers(d)
        /\ x \in PColls
    BY ChildBelow DEF Lowers
  <1>2. ASSUME NEW y \in Lowers(d), x \in Lowers(y), y # d PROVE y \in Lowers(e)
    <2>1. y \in PColls /\ d \in Uppers[y] /\ y \in Uppers[x] /\ e \in Uppers[x]
      BY <1>1, <1>2 DEF Lowers
    <2>2. y \in Uppers[e] \/ e \in Uppers[y]
      BY <1>1, <2>1, PermissionsAssumption
    <2>3. ~(y \in Uppers[e] /\ y # e)
      <3>1. y \in Uppers[d] => y = d
        BY <2>1, PermissionsAssumption
      <3> QED BY <1>1, <1>2, <3>1
    <2>4. e \in Uppers[e]
      BY <1>1, UppersAre
    <2> QED BY <2>1, <2>2, <2>3, <2>4 DEF Lowers
  <1>3. d \in Lowers(d)
    BY UppersAre DEF Lowers
  <1> QED BY <1>1, <1>2, <1>3 DEF Way

\* It has one collection more than there are levels.
LEMMA WayLevels ==
  ASSUME NEW d \in PColls, NEW x \in Lowers(d)
  PROVE  Levels(d, x) \in Nat /\ Cardinality(Way(d, x)) = Levels(d, x) + 1
  <1>1. x \in PColls /\ d \in Uppers[x]
    BY DEF Lowers
  <1> DEFINE S == Uppers[x] \ Uppers[d]
  <1>2. Way(d, x) = S \cup {d} /\ d \notin S
    <2>1. ASSUME NEW y \in Way(d, x), y # d PROVE y \in S
      <3>1. y \in PColls /\ d \in Uppers[y] /\ y \in Uppers[x]
        BY DEF Way, Lowers
      <3> QED BY <2>1, <3>1, PermissionsAssumption
    <2>2. ASSUME NEW y \in S PROVE y \in Way(d, x)
      <3>1. y \in PColls
        BY <1>1, UppersAre
      <3>2. d \in Uppers[y]
        BY <1>1, PermissionsAssumption
      <3> QED BY <1>1, <3>1, <3>2 DEF Way, Lowers
    <2>3. d \in Way(d, x) /\ d \in Uppers[d]
      BY <1>1, UppersAre DEF Way, Lowers
    <2> QED BY <2>1, <2>2, <2>3
  <1>3. IsFiniteSet(S)
    BY <1>1, UppersAre, FS_Subset
  <1>4. Levels(d, x) = Cardinality(S)
    BY DEF Levels
  <1> HIDE DEF S
  <1> QED BY <1>2, <1>3, <1>4, FS_AddElement, FS_CardinalityType

\* What of d and the collections below it is reached through readable ones, few of
\* which are such that all below is readable.
Open(d, x) == {y \in Way(d, x) : Readable \subseteq Full(y)}
Reach(d) == {x \in Lowers(d) : /\ \A y \in Way(d, x) : Readable \subseteq Allowed(y)
                               /\ Cardinality(Open(d, x)) <= SearchDepth + 1}

LEMMA ReachIs ==
  ASSUME NEW d \in PColls, Readable \subseteq Allowed(d), ~Readable \subseteq Full(d)
  PROVE  Reach(d) = {d} \cup UNION {Reach(e) : e \in ChildrenOf(d)}
  <1>1. d \in Reach(d)
    <2>1. d \in Lowers(d) /\ Way(d, d) = {d}
      BY UppersAre, WaySelf DEF Lowers
    <2>2. Open(d, d) = {}
      BY <2>1 DEF Open
    <2>3. Cardinality(Open(d, d)) = 0
      BY <2>2, FS_EmptySet
    <2> QED BY <2>1, <2>3, PermissionsAssumption DEF Reach
  <1>2. ASSUME NEW e \in ChildrenOf(d), NEW x \in Lowers(e) PROVE x \in Reach(e) <=> x \in Reach(d)
    <2>1. x \in Lowers(d) /\ Way(d, x) = {d} \cup Way(e, x)
      BY WayIs
    <2>2. Open(d, x) = Open(e, x)
      BY <2>1 DEF Open
    <2> QED BY <2>1, <2>2 DEF Reach
  <1>3. ASSUME NEW x \in Reach(d), x # d PROVE \E e \in ChildrenOf(d) : x \in Reach(e)
    <2>1. PICK e \in ChildrenOf(d) : x \in Lowers(e)
      BY <1>3, LowersAre DEF Reach
    <2> QED BY <1>2, <2>1
  <1>4. \A e \in ChildrenOf(d) : Reach(e) \subseteq Reach(d)
    BY <1>2 DEF Reach
  <1> QED BY <1>1, <1>3, <1>4

\* The walk down finds these.
LEMMA DownReaches ==
  ASSUME PermIInv, PermsExact, NEW c \in PColls
  PROVE  Down[<<c, Inherited(c)>>] = Reach(c)
  <1> DEFINE Wrong == {d \in PColls : Down[<<d, Inherited(d)>>] # Reach(d)}
  <1>1. \A d \in PColls : Allowed(d) = GrantAt(d) \cup Inherited(d)
    BY DEF PermsExact, Found, There
  <1>2. ASSUME NEW d \in PColls, \A e \in ChildrenOf(d) : Down[<<e, Inherited(e)>>] = Reach(e)
        PROVE  Down[<<d, Inherited(d)>>] = Reach(d)
    <2>0. d \in Lowers(d) /\ Full(d) = InhgrantAt(d) \cup Inherited(d)
      BY UppersAre, FullIs DEF Lowers
    <2>1. Down[<<d, Inherited(d)>>]
            = IF ~Readable \subseteq Allowed(d) THEN {}
              ELSE IF Readable \subseteq Full(d) THEN Taken(d)
              ELSE {d} \cup UNION {Down[<<e, Full(d)>>] : e \in ChildrenOf(d)}
      <3> DEFINE inh == InhgrantAt(d) \cup Inherited(d)
      <3>1. DownStep(Down, <<d, Inherited(d)>>)
              = IF ~Readable \subseteq GrantAt(d) \cup Inherited(d) THEN {}
                ELSE IF Readable \subseteq inh THEN Taken(d)
                ELSE {d} \cup UNION {Down[<<e, inh>>] : e \in ChildrenOf(d)}
        BY DEF DownStep
      <3>2. GrantAt(d) \cup Inherited(d) = Allowed(d) /\ inh = Full(d)
        BY <1>1, <2>0
      <3> HIDE DEF inh
      <3> QED BY <3>1, <3>2, DownIs
    <2>2. CASE ~Readable \subseteq Allowed(d)
      <3>1. Reach(d) = {}
        <4>1. ASSUME NEW x \in Lowers(d) PROVE d \in Way(d, x)
          BY <2>0 DEF Way
        <4> QED BY <2>2, <4>1 DEF Reach
      <3> QED BY <2>1, <2>2, <3>1
    <2>3. CASE Readable \subseteq Allowed(d) /\ Readable \subseteq Full(d)
      <3>1. ASSUME NEW y \in Lowers(d) PROVE Readable \subseteq Allowed(y)
        <4>1. y \in PColls /\ d \in Uppers[y]
          BY DEF Lowers
        <4>2. CASE y = d
          BY <2>3, <4>2
        <4>3. CASE y # d
          <5>1. Uppers[d] \subseteq Uppers[y] \ {y}
            BY <4>1, <4>3, PermissionsAssumption
          <5>2. Full(d) \subseteq Inherited(y)
            BY <4>1, <5>1, FullIs DEF Full
          <5> QED BY <1>1, <2>3, <4>1, <5>2
        <4> QED BY <4>2, <4>3
      <3>2. ASSUME NEW x \in Lowers(d) PROVE Open(d, x) = Way(d, x)
        <4>1. \A y \in Lowers(d) : Uppers[d] \subseteq Uppers[y]
          BY PermissionsAssumption DEF Lowers
        <4>2. \A y \in Lowers(d) : Full(d) \subseteq Full(y)
          BY <4>1 DEF Full
        <4> QED BY <2>3, <4>2 DEF Open, Way
      <3>3. Reach(d) = Taken(d)
        <4>1. ASSUME NEW x \in Lowers(d) PROVE x \in Reach(d) <=> Levels(d, x) <= SearchDepth
          <5>1. \A y \in Way(d, x) : Readable \subseteq Allowed(y)
            BY <3>1 DEF Way
          <5>2. Levels(d, x) \in Nat /\ Cardinality(Open(d, x)) = Levels(d, x) + 1
            BY <3>2, WayLevels
          <5> QED BY <5>1, <5>2, PermissionsAssumption DEF Reach
        <4> QED BY <4>1 DEF Reach, Taken
      <3> QED BY <2>1, <2>3, <3>3
    <2>4. CASE Readable \subseteq Allowed(d) /\ ~Readable \subseteq Full(d)
      <3>1. \A e \in ChildrenOf(d) : Down[<<e, Full(d)>>] = Reach(e)
        <4> SUFFICES ASSUME NEW e \in ChildrenOf(d) PROVE Down[<<e, Full(d)>>] = Reach(e)
          OBVIOUS
        <4>1. Inherited(e) = Full(d)
          BY InheritedIs
        <4> HIDE DEF Full
        <4> QED BY <1>2, <4>1
      <3>2. {Down[<<e, Full(d)>>] : e \in ChildrenOf(d)} = {Reach(e) : e \in ChildrenOf(d)}
        BY <3>1
      <3>3. Down[<<d, Inherited(d)>>] = {d} \cup UNION {Reach(e) : e \in ChildrenOf(d)}
        BY <2>1, <2>4, <3>2
      <3> QED BY <2>4, <3>3, ReachIs
    <2> QED BY <2>2, <2>3, <2>4
  <1>3. ASSUME Wrong # {} PROVE FALSE
    <2>1. PICK d \in Wrong : \A e \in Wrong : Depth(e) <= Depth(d)
      BY <1>3, Deepest
    <2>2. ASSUME NEW e \in ChildrenOf(d) PROVE e \notin Wrong /\ e \in PColls
      <3>1. e \in PColls /\ Depth(d) < Depth(e) /\ Depth(d) \in Nat /\ Depth(e) \in Nat
        BY ChildBelow, UppersAre
      <3> HIDE DEF Wrong
      <3> QED BY <2>1, <3>1
    <2>3. \A e \in ChildrenOf(d) : Down[<<e, Inherited(e)>>] = Reach(e)
      BY <2>2
    <2> QED BY <1>2, <2>1, <2>3
  <1> QED BY <1>3

\* What the rules let be inherited from a collection.
LEMMA BequeathedIs == BitsCover => \A c : Bequeathed(c) = Full(c)
  <1> SUFFICES ASSUME BitsCover, NEW c PROVE Bequeathed(c) = Full(c)
    OBVIOUS
  <1>1. \A d : FoundAt(d) = RulesAt(d)
    BY DEF BitsCover, FoundAt, RulesAt
  <1>2. \A d, x : x \in InhgrantAt(d) <=> (\E e \in RulesAt(d) : x \in e.inhgrant) \/ x \in PublicAt({d})
    BY <1>1 DEF InhgrantAt
  <1>3. \A x : x \in PublicAt(Uppers[c]) <=> \E d \in Uppers[c] : x \in PublicAt({d})
    BY DEF PublicAt
  <1>4. \A x : x \in Full(c) <=> \E d \in Uppers[c] : x \in InhgrantAt(d)
    BY DEF Full
  <1>5. \A x : x \in Bequeathed(c) <=> \/ \E d \in Uppers[c] : \E e \in RulesAt(d) : x \in e.inhgrant
                                       \/ x \in PublicAt(Uppers[c])
    BY DEF Bequeathed
  <1>6. \A x : x \in Bequeathed(c) <=> x \in Full(c)
    BY <1>2, <1>3, <1>4, <1>5
  <1> QED BY <1>6 DEF Bequeathed, Full

LEMMA SearchReaches == PermIInv /\ BitsCover => SearchExact
  <1> SUFFICES ASSUME PermIInv, BitsCover, NEW c \in PColls
               PROVE  Expanded(c) = {d \in Lowers(c) :
                        /\ \A x \in Way(c, d) : MaySee(x)
                        /\ Cardinality({x \in Way(c, d) : MaySeeBelow(x)}) <= SearchDepth + 1}
    BY DEF SearchExact
  <1>1. Expanded(c) = IF HasAdminPerm(c) THEN Taken(c)
                      ELSE IF ~Readable \subseteq Local(c, TRUE).grant \cup Local(c, TRUE).inherited THEN {}
                      ELSE IF Readable \subseteq Handed(c) THEN Taken(c)
                      ELSE {c} \cup UNION {Down[<<e, Handed(c)>>] : e \in ChildrenOf(c)}
    BY DEF Expanded, Down, IsDown, DownStep, Visited
  <1>2. \A d : Way(c, d) \subseteq Lowers(c)
    BY DEF Way
  <1>3. CASE HasAdminPerm(c)
    <2>1. \A x \in Lowers(c) : MaySee(x) /\ MaySeeBelow(x)
      BY <1>3, SameAdmin DEF MaySee, MaySeeBelow
    <2>2. ASSUME NEW d \in Lowers(c)
          PROVE  Levels(c, d) <= SearchDepth
                   <=> Cardinality({x \in Way(c, d) : MaySeeBelow(x)}) <= SearchDepth + 1
      <3>1. {x \in Way(c, d) : MaySeeBelow(x)} = Way(c, d)
        BY <1>2, <2>1
      <3>2. Levels(c, d) \in Nat /\ Cardinality(Way(c, d)) = Levels(c, d) + 1
        BY WayLevels
      <3>3. Levels(c, d) <= SearchDepth <=> Cardinality(Way(c, d)) <= SearchDepth + 1
        BY <3>2, PermissionsAssumption
      <3> QED BY <3>1, <3>3
    <2>3. Expanded(c) = Taken(c)
      BY <1>1, <1>3
    <2>4. \A d : \A x \in Way(c, d) : MaySee(x)
      BY <1>2, <2>1
    <2> QED BY <2>2, <2>3, <2>4 DEF Taken
  <1>4. CASE ~HasAdminPerm(c)
    <2>1. /\ Local(c, TRUE).grant \cup Local(c, TRUE).inherited = GrantAt(c) \cup Inherited(c)
          /\ Handed(c) = InhgrantAt(c) \cup Inherited(c)
      BY DEF Local, Handed
    <2>2. Expanded(c) = DownStep(Down, <<c, Inherited(c)>>)
      BY <1>1, <1>4, <2>1 DEF DownStep
    <2>3. Expanded(c) = Reach(c)
      BY <2>2, DownIs, DownReaches, FoundIsAllowed
    <2>4. \A x \in Lowers(c) : MaySee(x) <=> Readable \subseteq Allowed(x)
      BY <1>4, SameAdmin DEF MaySee
    <2>5. \A x \in Lowers(c) : MaySeeBelow(x) <=> Readable \subseteq Full(x)
      BY <1>4, SameAdmin, BequeathedIs DEF MaySeeBelow
    <2>6. ASSUME NEW d \in Lowers(c)
          PROVE  {x \in Way(c, d) : MaySeeBelow(x)} = Open(c, d)
      BY <1>2, <2>5 DEF Open
    <2>7. \A d : \A x \in Way(c, d) : MaySee(x) <=> Readable \subseteq Allowed(x)
      BY <1>2, <2>4
    <2> QED BY <2>3, <2>6, <2>7 DEF Reach
  <1> QED BY <1>3, <1>4

\* A search in a collection covers the collections that are reached from it through
\* readable ones, and no other (expandSearchCollections): what is handed down on
\* the way is what each would inherit.  What it leaves out is what lies further
\* than SearchDepth levels below the first of which all that is below is readable.
THEOREM SearchReachesAll == PermsCleanSpec => []SearchExact
  BY CleanInductive, SearchReaches, PTL



-----------------------------------------------------------------------------
\* Aliases.  A name starts with a word, and numbers come after it.
Chars == AliasWords \cup {RootAlias} \cup Nat
Names == {name \in Seq(Chars) : name # <<>> /\ IsName(name)}
Keys == [owner : Owners \cup {NoOwner}, name : Names]

AliasTypeOK ==
  /\ aOwner \in [AliasAll -> Owners \cup {NoOwner}]
  /\ field \in [AliasAll -> Keys \cup {NoAlias}]
  /\ aKey \in [AliasAll -> Keys \cup {NoAlias}]
  /\ IsFiniteSet(a)

\* What is not there has no alias.
DeadBare == \A o \in AliasAll : aOwner[o] = NoOwner => aKey[o] = NoAlias /\ field[o] = NoAlias

\* An alias is in the field and in a, or in neither.
Both == \A o \in AliasAll : field[o] = NoAlias <=> aKey[o] = NoAlias

AliasIInv == AliasTypeOK /\ DeadBare /\ Both /\ AliasResolves

LEMMA NoAliasApart == NoAlias \notin Keys
  BY AliasesAssumption DEF Keys, Names, Chars

LEMMA KeysOfAre ==
  ASSUME NEW f \in [AliasAll -> Keys \cup {NoAlias}]
  PROVE  /\ \A k : k \in KeysOf(f) <=> k # NoAlias /\ \E o \in AliasAll : f[o] = k
         /\ KeysOf(f) \subseteq Keys
  BY DEF KeysOf, Range

LEMMA RootName == <<RootAlias>> \in Names
  <1>1. <<RootAlias>> \in Seq(Chars) /\ <<RootAlias>> # <<>>
    BY DEF Chars
  <1>2. Head(<<RootAlias>>) = RootAlias /\ Tail(<<RootAlias>>) = <<>>
    OBVIOUS
  <1> QED BY <1>1, <1>2, EmptySeq DEF Names, IsName

LEMMA TypedNames == \A name \in Typed : name = <<>> \/ name \in Names
  <1>1. ASSUME NEW w \in AliasWords PROVE <<w>> \in Names
    <2>1. <<w>> \in Seq(Chars) /\ <<w>> # <<>>
      BY DEF Chars
    <2>2. Head(<<w>>) = w /\ Tail(<<w>>) = <<>>
      OBVIOUS
    <2> QED BY <2>1, <2>2, EmptySeq DEF Names, IsName
  <1>2. ASSUME NEW w \in AliasWords PROVE <<w, 1>> \in Names
    <2>1. <<w, 1>> \in Seq(Chars) /\ <<w, 1>> # <<>>
      BY DEF Chars
    <2>2. Head(<<w, 1>>) = w /\ Tail(<<w, 1>>) = <<1>> /\ <<1>> \in Seq(Nat)
      OBVIOUS
    <2>3. IsName(<<w, 1>>)
      BY <2>2 DEF IsName
    <2> QED BY <2>1, <2>3 DEF Names
  <1> QED BY <1>1, <1>2, RootName DEF Typed

\* A name with a number is a name, and another one for each number.
Numbered(name, n) == name \o IF n = 0 THEN <<>> ELSE <<n>>

LEMMA NumberedNames ==
  ASSUME NEW name \in Names
  PROVE  /\ Numbered(name, 0) = name
         /\ \A n \in Nat : Numbered(name, n) \in Names
         /\ \A m, n \in Nat : Numbered(name, m) = Numbered(name, n) => m = n
  <1>1. name \in Seq(Chars) /\ name # <<>> /\ Len(name) \in Nat \ {0}
    BY EmptySeq DEF Names
  <1>2. Numbered(name, 0) = name
    BY <1>1, ConcatEmptySeq DEF Numbered
  <1>3. ASSUME NEW n \in Nat \ {0}
        PROVE  /\ Numbered(name, n) \in Seq(Chars)
               /\ Len(Numbered(name, n)) = Len(name) + 1
               /\ Numbered(name, n)[Len(name) + 1] = n
               /\ \A i \in 1..Len(name) : Numbered(name, n)[i] = name[i]
    <2>1. <<n>> \in Seq(Chars) /\ Len(<<n>>) = 1 /\ <<n>>[1] = n
      BY DEF Chars
    <2>2. Numbered(name, n) = name \o <<n>>
      BY DEF Numbered
    <2> QED BY <1>1, <2>1, <2>2, ConcatProperties
  <1>4. ASSUME NEW n \in Nat \ {0} PROVE Numbered(name, n) \in Names
    <2> DEFINE s == Numbered(name, n)
    <2>1. s \in Seq(Chars) /\ Len(s) = Len(name) + 1 /\ s # <<>>
      BY <1>1, <1>3, EmptySeq
    <2>2. Head(s) = Head(name)
      <3>1. Head(s) = s[1] /\ Head(name) = name[1]
        BY <1>1, <2>1
      <3> QED BY <1>1, <1>3, <3>1
    <2>3. Len(Tail(s)) = Len(s) - 1 /\ \A i \in 1..Len(Tail(s)) : Tail(s)[i] = s[i + 1]
      BY <2>1, HeadTailProperties
    <2>4. Tail(name) \in Seq(Nat) /\ Len(Tail(name)) = Len(name) - 1
          /\ \A i \in 1..Len(Tail(name)) : Tail(name)[i] = name[i + 1]
      BY <1>1, HeadTailProperties DEF Names, IsName
    <2>5. \A i \in 1..Len(Tail(s)) : Tail(s)[i] \in Nat
      <3> SUFFICES ASSUME NEW i \in 1..Len(name) PROVE s[i + 1] \in Nat
        BY <1>1, <2>1, <2>3
      <3>1. CASE i = Len(name)
        BY <1>1, <1>3, <3>1
      <3>2. CASE i < Len(name)
        <4>1. s[i + 1] = name[i + 1] /\ i \in 1..Len(Tail(name))
          BY <1>1, <1>3, <2>4, <3>2
        <4> QED BY <2>4, <4>1, ElementOfSeq
      <3> QED BY <1>1, <3>1, <3>2
    <2>6. Tail(s) \in Seq(Nat)
      <3>1. Tail(s) \in Seq(Chars)
        BY <2>1, HeadTailProperties
      <3>2. Tail(s) \in [1..Len(Tail(s)) -> Nat] /\ Len(Tail(s)) \in Nat
        BY <2>5, <3>1, LenProperties
      <3> HIDE DEF s
      <3>3. Seq(Nat) = UNION {[1..len -> Nat] : len \in Nat}
        BY SeqDef
      <3>4. [1..Len(Tail(s)) -> Nat] \in {[1..len -> Nat] : len \in Nat}
        BY <3>2
      <3> QED BY <3>2, <3>3, <3>4
    <2> QED BY <2>1, <2>2, <2>6 DEF Names, IsName
  <1>5. ASSUME NEW m \in Nat, NEW n \in Nat, Numbered(name, m) = Numbered(name, n) PROVE m = n
    BY <1>1, <1>2, <1>3, <1>5
  <1> QED BY <1>2, <1>4, <1>5, <1>1 DEF Names

LEMMA AliasInitOK == AliasInit => AliasIInv
  <1> SUFFICES ASSUME AliasInit PROVE AliasIInv
    OBVIOUS
  <1> USE AliasesAssumption
  <1> DEFINE Users == Owners \ Projects
  <1>0. Users \subseteq Owners /\ Owners \subseteq AliasAll /\ NoOwner \notin Users
    BY DEF AliasAll
  <1>1. \A own \in Owners \cup {NoOwner} : Key(own, <<RootAlias>>) \in Keys
    BY RootName DEF Keys, Key
  <1>2. aOwner \in [AliasAll -> Owners \cup {NoOwner}]
    BY <1>0 DEF AliasInit
  <1>3. field \in [AliasAll -> Keys \cup {NoAlias}] /\ aKey \in [AliasAll -> Keys \cup {NoAlias}]
    BY <1>0, <1>1 DEF AliasInit
  <1>4. a = KeysOf(aKey)
    <2>1. \A k : k \in a <=> \E o \in Users : k = Key(o, <<RootAlias>>)
      BY DEF AliasInit
    <2>2. \A k : k \in KeysOf(aKey) <=> k # NoAlias /\ \E o \in AliasAll : aKey[o] = k
      BY <1>3, KeysOfAre
    <2>3. \A o \in AliasAll : aKey[o] = IF o \in Users THEN Key(o, <<RootAlias>>) ELSE NoAlias
      BY DEF AliasInit
    <2>4. ASSUME NEW k \in a PROVE k \in KeysOf(aKey)
      <3>1. PICK o \in Users : k = Key(o, <<RootAlias>>)
        BY <2>1
      <3>2. aKey[o] = k /\ o \in AliasAll
        BY <1>0, <2>3, <3>1
      <3>3. k # NoAlias
        BY <1>0, <1>1, <3>1, NoAliasApart
      <3> QED BY <2>2, <3>2, <3>3
    <2>5. ASSUME NEW k \in KeysOf(aKey) PROVE k \in a
      BY <2>1, <2>2, <2>3
    <2> QED BY <2>4, <2>5
  <1>5. IsFiniteSet(a)
    <2>1. IsFiniteSet(Users)
      BY <1>0, FS_Subset
    <2> DEFINE f == [o \in Users |-> Key(o, <<RootAlias>>)]
    <2>2. a = {Key(o, <<RootAlias>>) : o \in Users}
      BY DEF AliasInit
    <2>3. f \in Surjection(Users, a)
      BY <2>2 DEF Surjection
    <2> QED BY <2>1, <2>3, FS_Surjection
  <1>6. ASSUME NEW o \in AliasAll PROVE Shows(field[o], aKey[o])
    <2>1. CASE o \in Users
      <3>1. field[o] = Key(NoOwner, <<RootAlias>>) /\ aKey[o] = Key(o, <<RootAlias>>)
        BY <2>1 DEF AliasInit
      <3>2. aKey[o].name = <<RootAlias>> /\ aKey[o] # NoAlias
        BY <1>0, <1>1, <2>1, <3>1, NoAliasApart DEF Key
      <3> QED BY <3>1, <3>2 DEF Shows
    <2>2. CASE o \notin Users
      BY <2>2 DEF AliasInit, Shows
    <2> QED BY <2>1, <2>2
  <1>7. ASSUME NEW o \in AliasAll, aKey[o] # NoAlias
        PROVE  /\ aKey[o].owner = aOwner[o] /\ IsName(aKey[o].name)
               /\ \A p \in AliasAll : aKey[p] = aKey[o] => p = o
    <2>1. o \in Users /\ aKey[o] = Key(o, <<RootAlias>>) /\ aOwner[o] = o
      BY <1>0, <1>7 DEF AliasInit
    <2>2. IsName(<<RootAlias>>)
      BY RootName DEF Names
    <2>3. \A p \in AliasAll : aKey[p] = IF p \in Users THEN Key(p, <<RootAlias>>) ELSE NoAlias
      BY DEF AliasInit
    <2>4. ASSUME NEW p \in AliasAll, aKey[p] = aKey[o] PROVE p = o
      <3>1. p \in Users /\ Key(p, <<RootAlias>>) = Key(o, <<RootAlias>>)
        BY <1>7, <2>1, <2>3, <2>4
      <3>2. Key(p, <<RootAlias>>).owner = p /\ Key(o, <<RootAlias>>).owner = o
        BY DEF Key
      <3> QED BY <3>1, <3>2
    <2>5. Key(o, <<RootAlias>>).owner = o /\ Key(o, <<RootAlias>>).name = <<RootAlias>>
      BY DEF Key
    <2> QED BY <2>1, <2>2, <2>4, <2>5
  <1>8. AliasResolves
    BY <1>4, <1>6, <1>7 DEF AliasResolves
  <1>9. DeadBare
    BY <1>0 DEF AliasInit, DeadBare
  <1>10. Both
    BY <1>0, <1>1, NoAliasApart DEF AliasInit, Both
  <1> QED BY <1>2, <1>3, <1>5, <1>8, <1>9, <1>10 DEF AliasIInv, AliasTypeOK

\* An object o that is there gets the key k, which nobody else has, or none; the
\* key it had goes.
LEMMA NewKey ==
  ASSUME AliasIInv, NEW o \in AliasAll, NEW own \in Owners, NEW k \in Keys \cup {NoAlias}, NEW f,
         aOwner' = [aOwner EXCEPT ![o] = own],
         k # NoAlias => k.owner = own /\ k \notin a \ {aKey[o]}, Shows(f, k),
         field' = [field EXCEPT ![o] = f],
         aKey' = [aKey EXCEPT ![o] = k],
         a' = (a \ {aKey[o]}) \cup ({k} \ {NoAlias})
  PROVE  AliasIInv'
  <1> USE AliasesAssumption DEF AliasIInv
  <1>0. f \in Keys \cup {NoAlias} /\ (f = NoAlias <=> k = NoAlias)
    BY NoAliasApart DEF Shows, Keys, Key
  <1>1. own # NoOwner /\ own \in AliasAll
    BY DEF AliasAll
  <1>2. /\ aOwner \in [AliasAll -> Owners \cup {NoOwner}]
        /\ field \in [AliasAll -> Keys \cup {NoAlias}]
        /\ aKey \in [AliasAll -> Keys \cup {NoAlias}]
        /\ IsFiniteSet(a)
    BY DEF AliasTypeOK
  <1>3. /\ aOwner' \in [AliasAll -> Owners \cup {NoOwner}]
        /\ field' \in [AliasAll -> Keys \cup {NoAlias}]
        /\ aKey' \in [AliasAll -> Keys \cup {NoAlias}]
    BY <1>0, <1>2
  <1>4. aKey'[o] = k /\ field'[o] = f /\ aOwner'[o] = own
        /\ \A p \in AliasAll \ {o} : aKey'[p] = aKey[p] /\ field'[p] = field[p] /\ aOwner'[p] = aOwner[p]
    BY <1>2
  <1>5. IsFiniteSet(a')
    <2>1. IsFiniteSet(a \ {aKey[o]})
      BY <1>2, FS_RemoveElement
    <2>2. IsFiniteSet((a \ {aKey[o]}) \cup {k})
      BY <2>1, FS_AddElement
    <2>3. a' \subseteq (a \ {aKey[o]}) \cup {k}
      OBVIOUS
    <2> QED BY <2>2, <2>3, FS_Subset
  <1>6. \A x : x \in a <=> x # NoAlias /\ \E p \in AliasAll : aKey[p] = x
    BY <1>2, KeysOfAre DEF AliasResolves
  <1>7. \A p \in AliasAll \ {o} : aKey[p] # NoAlias => aKey[p] \in a /\ aKey[p] # aKey[o]
    BY <1>6 DEF AliasResolves
  <1>8. a' = KeysOf(aKey')
    <2>1. \A x : x \in KeysOf(aKey') <=> x # NoAlias /\ \E p \in AliasAll : aKey'[p] = x
      BY <1>3, KeysOfAre
    <2>2. ASSUME NEW x \in a' PROVE x \in KeysOf(aKey')
      <3>1. CASE x = k /\ k # NoAlias
        BY <1>4, <2>1, <3>1
      <3>2. CASE x \in a \ {aKey[o]}
        <4>1. PICK p \in AliasAll : aKey[p] = x
          BY <1>6, <3>2
        <4>2. p # o /\ x # NoAlias
          BY <1>6, <3>2, <4>1
        <4> QED BY <1>4, <2>1, <4>1, <4>2
      <3> QED BY <2>2, <3>1, <3>2
    <2>3. ASSUME NEW x \in KeysOf(aKey') PROVE x \in a'
      <3>1. PICK p \in AliasAll : aKey'[p] = x /\ x # NoAlias
        BY <2>1, <2>3
      <3> QED BY <1>4, <1>7, <3>1
    <2> QED BY <2>2, <2>3
  <1>9. \A p \in AliasAll : Shows(field'[p], aKey'[p])
    BY <1>4 DEF AliasResolves
  <1>10. ASSUME NEW q \in AliasAll, aKey'[q] # NoAlias
         PROVE  /\ aKey'[q].owner = aOwner'[q] /\ IsName(aKey'[q].name)
                /\ \A p \in AliasAll : aKey'[p] = aKey'[q] => p = q
    <2>1. k # NoAlias => IsName(k.name)
      BY DEF Keys, Names
    <2>2. \A p \in AliasAll \ {o} : aKey[p] = k => k = NoAlias
      BY <1>7
    <2>3. CASE q = o
      BY <1>4, <1>10, <2>1, <2>2, <2>3
    <2>4. CASE q # o
      BY <1>4, <1>10, <2>2, <2>4 DEF AliasResolves
    <2> QED BY <2>3, <2>4
  <1>11. AliasResolves'
    BY <1>8, <1>9, <1>10 DEF AliasResolves, IsName, Shows
  <1>12. DeadBare'
    BY <1>1, <1>4 DEF DeadBare
  <1>13. Both'
    BY <1>0, <1>4 DEF Both
  <1> QED BY <1>3, <1>5, <1>11, <1>12, <1>13 DEF AliasTypeOK

\* What is created or renamed gets a typed name.
LEMMA NamedStep ==
  ASSUME AliasIInv, NEW o \in AliasAll, NEW own \in Owners, NEW name \in Typed, NEW old,
         old = {aKey[o]} \/ (old = {} /\ aKey[o] = NoAlias),
         aOwner' = [aOwner EXCEPT ![o] = own], Named(o, own, name, old)
  PROVE  AliasIInv'
  <1>0. NoAlias \notin a
    BY KeysOfAre DEF AliasIInv, AliasTypeOK, AliasResolves
  <1>1. a \ old = a \ {aKey[o]}
    BY <1>0
  <1>2. CASE name = <<>>
    <2>1. /\ field' = [field EXCEPT ![o] = NoAlias] /\ aKey' = [aKey EXCEPT ![o] = NoAlias]
          /\ a' = (a \ {aKey[o]}) \cup ({NoAlias} \ {NoAlias})
      BY <1>1, <1>2 DEF Named
    <2>2. Shows(NoAlias, NoAlias)
      BY DEF Shows
    <2> QED BY <2>1, <2>2, NewKey
  <1>3. CASE name # <<>>
    <2>1. name \in Names
      BY <1>3, TypedNames
    <2>2. Key(own, name) \in Keys /\ Key(NoOwner, name) \in Keys
      BY <2>1 DEF Keys, Key
    <2>3. Key(own, name) # NoAlias
      BY <2>2, NoAliasApart
    <2>4. /\ Key(own, name) \notin a \ {aKey[o]}
          /\ field' = [field EXCEPT ![o] = Key(NoOwner, name)]
          /\ aKey' = [aKey EXCEPT ![o] = Key(own, name)]
          /\ a' = (a \ {aKey[o]}) \cup ({Key(own, name)} \ {NoAlias})
      BY <1>1, <1>3, <2>3 DEF Named
    <2>5. Key(own, name).owner = own /\ Shows(Key(NoOwner, name), Key(own, name))
      BY <2>3 DEF Key, Shows
    <2> DEFINE k == Key(own, name)
               f == Key(NoOwner, name)
    <2> HIDE DEF k, f
    <2>6. k \in Keys \cup {NoAlias} /\ k # NoAlias
      BY <2>2, <2>3 DEF k
    <2>7. k.owner = own /\ k \notin a \ {aKey[o]} /\ Shows(f, k)
      BY <2>4, <2>5 DEF k, f
    <2>8. /\ field' = [field EXCEPT ![o] = f] /\ aKey' = [aKey EXCEPT ![o] = k]
          /\ a' = (a \ {aKey[o]}) \cup ({k} \ {NoAlias})
      BY <2>4 DEF k, f
    <2> QED BY <2>6, <2>7, <2>8, NewKey
  <1> QED BY <1>2, <1>3

LEMMA AliasCreateStep ==
  ASSUME AliasIInv, NEW o \in AliasAll, NEW own \in Owners, NEW name \in Typed, AliasCreate(o, own, name)
  PROVE  AliasIInv'
  <1>1. aKey[o] = NoAlias
    BY DEF AliasCreate, AliasIInv, DeadBare
  <1> QED BY <1>1, NamedStep DEF AliasCreate

LEMMA AliasUpdateStep ==
  ASSUME AliasIInv, NEW o \in AliasAll, NEW name \in Typed, AliasUpdate(o, name)
  PROVE  AliasIInv'
  <1>1. aOwner \in [AliasAll -> Owners \cup {NoOwner}] /\ aOwner[o] # NoOwner
    BY DEF AliasIInv, AliasTypeOK, AliasUpdate, AliasLive
  <1>2. aOwner[o] \in Owners /\ aOwner' = [aOwner EXCEPT ![o] = aOwner[o]]
    BY <1>1 DEF AliasUpdate
  <1> QED BY <1>2, NamedStep DEF AliasUpdate

LEMMA GoneStep ==
  ASSUME AliasIInv, NEW X \in SUBSET AliasAll, Gone(X)
  PROVE  AliasIInv'
  <1> USE DEF AliasIInv
  <1>1. /\ aOwner \in [AliasAll -> Owners \cup {NoOwner}]
        /\ field \in [AliasAll -> Keys \cup {NoAlias}]
        /\ aKey \in [AliasAll -> Keys \cup {NoAlias}]
        /\ IsFiniteSet(a)
    BY DEF AliasTypeOK
  <1>2. /\ aOwner' = [o \in AliasAll |-> IF o \in X THEN NoOwner ELSE aOwner[o]]
        /\ field' = [o \in AliasAll |-> IF o \in X THEN NoAlias ELSE field[o]]
        /\ aKey' = [o \in AliasAll |-> IF o \in X THEN NoAlias ELSE aKey[o]]
        /\ a' = a \ {aKey[o] : o \in X}
    BY <1>1 DEF Gone
  <1>3. /\ aOwner' \in [AliasAll -> Owners \cup {NoOwner}]
        /\ field' \in [AliasAll -> Keys \cup {NoAlias}]
        /\ aKey' \in [AliasAll -> Keys \cup {NoAlias}]
    BY <1>1, <1>2
  <1>4. IsFiniteSet(a')
    BY <1>1, <1>2, FS_Difference
  <1>5. a' = KeysOf(aKey')
    <2>1. \A x : x \in a <=> x # NoAlias /\ \E p \in AliasAll : aKey[p] = x
      BY <1>1, KeysOfAre DEF AliasResolves
    <2>2. \A x : x \in KeysOf(aKey') <=> x # NoAlias /\ \E p \in AliasAll : aKey'[p] = x
      BY <1>3, KeysOfAre
    <2>3. ASSUME NEW x \in a' PROVE x \in KeysOf(aKey')
      <3>1. PICK p \in AliasAll : aKey[p] = x /\ x # NoAlias
        BY <1>2, <2>1, <2>3
      <3>2. p \notin X
        BY <1>2, <2>3, <3>1
      <3> QED BY <1>2, <2>2, <3>1, <3>2
    <2>4. ASSUME NEW x \in KeysOf(aKey') PROVE x \in a'
      <3>1. PICK p \in AliasAll : aKey'[p] = x /\ x # NoAlias
        BY <2>2, <2>4
      <3>2. p \notin X /\ aKey[p] = x
        BY <1>2, <3>1
      <3>3. \A o \in X : aKey[o] # x
        BY <3>1, <3>2 DEF AliasResolves
      <3> QED BY <1>2, <2>1, <3>1, <3>2, <3>3
    <2> QED BY <2>3, <2>4
  <1>6. AliasResolves'
    BY <1>2, <1>5 DEF AliasResolves, IsName, Shows
  <1>7. DeadBare'
    BY <1>2 DEF DeadBare
  <1>8. Both'
    BY <1>2 DEF Both
  <1> QED BY <1>3, <1>4, <1>6, <1>7, <1>8 DEF AliasTypeOK

\* As there are fewer keys than numbers, one of the numbers that AliasMove tries
\* makes a name that nobody has, and one of them is the first.
LEMMA FirstFree ==
  ASSUME NEW own, NEW name \in Names, NEW L, IsFiniteSet(L), NEW N \in Nat, Cardinality(L) <= N
  PROVE  \E n \in 0..N : /\ Key(own, Numbered(name, n)) \notin L
                         /\ \A m \in 0..n - 1 : Key(own, Numbered(name, m)) \in L
  <1> DEFINE f == [n \in 0..N |-> Key(own, Numbered(name, n))]
             Free == {n \in 0..N : f[n] \notin L}
  <1>1. Free # {}
    <2> SUFFICES ASSUME Free = {} PROVE FALSE
      OBVIOUS
    <2>1. f \in [0..N -> L]
      OBVIOUS
    <2>2. IsFiniteSet(0..N) /\ Cardinality(0..N) = N + 1
      BY FS_Interval
    <2>3. Cardinality(L) \in Nat
      BY FS_CardinalityType
    <2>4. Cardinality(L) < Cardinality(0..N)
      BY <2>2, <2>3
    <2> HIDE DEF f
    <2>5. PICK x, y \in 0..N : x # y /\ f[x] = f[y]
      BY <2>1, <2>2, <2>4, FS_PigeonHole
    <2> USE DEF f
    <2>6. Key(own, Numbered(name, x)) = Key(own, Numbered(name, y))
      BY <2>5
    <2>7. Key(own, Numbered(name, x)).name = Numbered(name, x) /\ Key(own, Numbered(name, y)).name = Numbered(name, y)
      BY DEF Key
    <2> QED BY <2>5, <2>6, <2>7, NumberedNames
  <1>2. PICK n \in Free : \A m \in Free : ~(m < n)
    <2>1. IsWellFoundedOn(OpToRel(<, Nat), Nat)
      BY NatLessThanWellFounded
    <2>2. Free \subseteq Nat
      OBVIOUS
    <2>3. PICK n \in Free : \A m \in Free : ~(<<m, n>> \in OpToRel(<, Nat))
      BY <1>1, <2>1, <2>2, WFMin
    <2> QED BY <2>2, <2>3 DEF OpToRel
  <1>3. \A m \in 0..n - 1 : f[m] \in L
    BY <1>2
  <1> QED BY <1>2, <1>3

LEMMA AliasMoveStep ==
  ASSUME AliasIInv, NEW r \in AliasRecs, NEW own \in Owners, AliasMove(r, own)
  PROVE  AliasIInv'
  <1>1. r \in AliasAll /\ aOwner' = [aOwner EXCEPT ![r] = own]
    BY DEF AliasMove, AliasAll, AliasObjs
  <1>2. /\ field \in [AliasAll -> Keys \cup {NoAlias}]
        /\ aKey \in [AliasAll -> Keys \cup {NoAlias}]
        /\ IsFiniteSet(a)
    BY DEF AliasIInv, AliasTypeOK
  <1>3. CASE aKey[r] = NoAlias
    <2>1. field[r] = NoAlias /\ UNCHANGED <<field, aKey, a>>
      BY <1>1, <1>3 DEF AliasMove, AliasIInv, Both
    <2>2. field' = [field EXCEPT ![r] = NoAlias] /\ aKey' = [aKey EXCEPT ![r] = NoAlias]
      BY <1>2, <1>3, <2>1
    <2>3. NoAlias \notin a
      BY KeysOfAre DEF AliasIInv, AliasTypeOK, AliasResolves
    <2>4. a' = (a \ {aKey[r]}) \cup ({NoAlias} \ {NoAlias})
      BY <1>3, <2>1, <2>3
    <2>5. Shows(NoAlias, NoAlias)
      BY DEF Shows
    <2> QED BY <1>1, <2>2, <2>4, <2>5, NewKey
  <1>4. CASE aKey[r] # NoAlias
    <2> DEFINE name == aKey[r].name
               left == a \ {aKey[r]}
               IsFirst(n) == /\ Key(own, Numbered(name, n)) \notin left
                             /\ \A m \in 0..n - 1 : Key(own, Numbered(name, m)) \in left
               num == CHOOSE n \in 0..Cardinality(a) : IsFirst(n)
               k == Key(own, Numbered(name, num))
               f == IF num = 0 THEN field[r] ELSE k
    <2>1. /\ field' = IF num = 0 THEN field ELSE [field EXCEPT ![r] = k]
          /\ aKey' = [aKey EXCEPT ![r] = k]
          /\ a' = left \cup {k}
      BY <1>4, Zenon DEF AliasMove, Numbered
    <2>2. aKey[r] \in Keys /\ name \in Names
      BY <1>1, <1>2, <1>4 DEF Keys
    <2>3. IsFiniteSet(left) /\ Cardinality(a) \in Nat /\ Cardinality(left) <= Cardinality(a)
      BY <1>2, FS_Subset, FS_CardinalityType
    <2>4. \E n \in 0..Cardinality(a) : IsFirst(n)
      BY <2>2, <2>3, FirstFree
    <2> HIDE DEF IsFirst
    <2>5. num \in 0..Cardinality(a) /\ IsFirst(num)
      BY <2>4
    <2> HIDE DEF num, name, left
    <2>6. num \in Nat /\ Numbered(name, num) \in Names /\ (num = 0 => Numbered(name, num) = name)
      BY <2>2, <2>3, <2>5, NumberedNames
    <2>7. k \in Keys /\ k.owner = own /\ k.name = Numbered(name, num) /\ k \notin left
      BY <2>5, <2>6 DEF Keys, Key, IsFirst
    <2> HIDE DEF k
    <2>8. k # NoAlias
      BY <2>7, NoAliasApart
    <2>9. Shows(field[r], aKey[r])
      BY <1>1 DEF AliasIInv, AliasResolves
    <2>10. Shows(f, k)
      <3>1. CASE num = 0
        BY <1>4, <2>6, <2>7, <2>8, <2>9, <3>1 DEF Shows, name
      <3>2. CASE num # 0
        <4>1. f = k /\ k = Key(own, k.name)
          BY <2>7, <3>2 DEF Keys, Key
        <4> QED BY <2>8, <4>1 DEF Shows
      <3> QED BY <3>1, <3>2
    <2>11. field' = [field EXCEPT ![r] = f]
      BY <1>1, <1>2, <2>1
    <2>12. a' = (a \ {aKey[r]}) \cup ({k} \ {NoAlias})
      BY <2>1, <2>8 DEF left
    <2> HIDE DEF f
    <2>13. k \notin a \ {aKey[r]}
      BY <2>7 DEF left
    <2> QED BY <1>1, <2>1, <2>7, <2>8, <2>10, <2>11, <2>12, <2>13, NewKey
  <1> QED BY <1>3, <1>4

LEMMA AliasStep == AliasIInv /\ [AliasNext]_aliasVars => AliasIInv'
  <1> SUFFICES ASSUME AliasIInv, [AliasNext]_aliasVars PROVE AliasIInv'
    OBVIOUS
  <1>1. CASE \E o \in AliasAll, own \in Owners, name \in Typed : AliasCreate(o, own, name)
    BY <1>1, AliasCreateStep
  <1>2. CASE \E o \in AliasAll, name \in Typed : AliasUpdate(o, name)
    BY <1>2, AliasUpdateStep
  <1>3. CASE \E o \in AliasObjs : AliasDelete(o)
    BY <1>3, GoneStep DEF AliasDelete, AliasAll
  <1>4. CASE \E p \in Projects : AliasOwnerDelete(p)
    BY <1>4, GoneStep DEF AliasOwnerDelete, AliasLive
  <1>5. CASE \E r \in AliasRecs, own \in Owners : AliasMove(r, own)
    BY <1>5, AliasMoveStep
  <1>6. CASE UNCHANGED aliasVars
    BY <1>6 DEF aliasVars, AliasIInv, AliasTypeOK, DeadBare, Both, AliasResolves, KeysOf, Range, IsName, Shows
  <1> QED BY <1>1, <1>2, <1>3, <1>4, <1>5, <1>6 DEF AliasNext

\* Whatever is created, renamed, deleted and given to others, the documents in a
\* are the aliases of what there is, each of one object and below the owner it has,
\* and the field has the same name, though not always below the present owner.
THEOREM AliasesResolve == AliasSpec => []AliasResolves
  <1>1. AliasSpec => []AliasIInv
    BY AliasInitOK, AliasStep, PTL DEF AliasSpec
  <1>2. AliasIInv => AliasResolves
    BY DEF AliasIInv
  <1> QED BY <1>1, <1>2, PTL
=============================================================================
