---------------------------- MODULE CatalogProofs ----------------------------
(***************************************************************************)
(* Collections are a forest of which no request or task makes anything     *)
(* else, and the topics are those of the collections there are, with any   *)
(* number of collections, records, owners and deletions, and nothing left  *)
(* out: invariants of Spec.  Without the requests that CleanSpec names,    *)
(* every item has a parent and every record the tags of what is above it.  *)
(***************************************************************************)
EXTENDS Catalog, TLAPS, FiniteSetTheorems, SequenceTheorems, WellFoundedInduction

\* What the other parts of Forest rest on: roots stay, what was never created is
\* not there, and what waits to be moved or deleted was created and is no root.
RootsStay == \A r \in Roots : owner[r] = r
UnbornDead == \A x \in unborn : owner[x] = None /\ x \notin Roots
MovedBorn == \A r \in Recs : newColl[r] # None => r \notin unborn
RootsKept == \A t \in Tasks : del[t] # None => del[t].colls \cap Roots = {}
Forest0 == RootsStay /\ UnbornDead /\ MovedBorn /\ RootsKept

IInv == CatalogTypeOK /\ Forest /\ Forest0

\* NoCycle, of any links.
Acyclic(E) == \A S \in (SUBSET Colls) \ {{}} : \E c \in S : ParentsIn(E, c) \cap S = {}

-----------------------------------------------------------------------------
\* Topics and tags of a collection are those there can be.
LEMMA TopicNames ==
  ASSUME NEW p \in Topics \cup {NoTopic}
  PROVE  Names(p) \subseteq AllTags /\ Prefixes(p) \subseteq Paths
  <1>1. CASE p \in Topics
    BY <1>1 DEF AllTags, Paths
  <1>2. CASE p = NoTopic
    BY <1>2 DEF Names, Prefixes, NoTopic
  <1> QED BY <1>1, <1>2

\* What is above a collection are collections.
LEMMA AboveColls ==
  ASSUME NEW E \in SUBSET (Colls \X Items), NEW c \in Colls
  PROVE  Above(E, c) \subseteq Colls
  BY DEF Above, Holders

\* What is above c has all its parents above c.
LEMMA AboveClosed ==
  ASSUME NEW E \in SUBSET (Colls \X Items), NEW c \in Colls,
         NEW e \in E, e[2] \in Above(E, c)
  PROVE  e[1] \in Above(E, c)
  <1>1. e[2] \in Colls
    BY AboveColls
  <1>2. e[1] \in Holders(E)
    BY <1>1 DEF Holders
  <1>3. ASSUME NEW S \in SUBSET Holders(E), UpClosed(E, S \cup {c})
        PROVE  e[1] \in S \cup {c}
    <2>1. e[2] \in S \cup {c}
      BY <1>3 DEF Above
    <2> QED BY <1>3, <2>1 DEF UpClosed
  <1> QED BY <1>2, <1>3 DEF Above

\* Nothing is above what has no parent.
LEMMA AboveRoot ==
  ASSUME NEW E \in SUBSET (Colls \X Items), NEW c \in Colls, \A e \in E : e[2] # c
  PROVE  Above(E, c) = {c}
  <1>1. UpClosed(E, {} \cup {c})
    BY DEF UpClosed
  <1>2. {} \in SUBSET Holders(E)
    OBVIOUS
  <1>3. \A a \in Above(E, c) : a \in {} \cup {c}
    BY <1>1, <1>2 DEF Above
  <1>4. c \in Above(E, c)
    BY DEF Above
  <1> QED BY <1>3, <1>4

\* A link to a collection that is not above the one it is put in makes no cycle.
LEMMA LinkAcyclic ==
  ASSUME NEW E \in SUBSET (Colls \X Items), Acyclic(E),
         NEW d \in Colls, NEW x, x \notin Above(E, d),
         NEW F \in SUBSET (E \cup {<<d, x>>})
  PROVE  Acyclic(F)
  <1> SUFFICES ASSUME NEW S \in (SUBSET Colls) \ {{}},
                      \A c \in S : ParentsIn(F, c) \cap S # {}
               PROVE  FALSE
    BY DEF Acyclic
  <1>1. CASE d \notin S \/ x \notin S
    <2>1. \A c \in S : ParentsIn(E, c) \cap S # {}
      BY <1>1 DEF ParentsIn
    <2> QED BY <2>1 DEF Acyclic
  <1>2. CASE d \in S /\ x \in S
    <2> DEFINE T == S \cap Above(E, d)
    <2>1. d \in T
      BY <1>2 DEF Above
    <2>2. ASSUME NEW c \in T PROVE ParentsIn(E, c) \cap T # {}
      <3>1. PICK p \in S : <<p, c>> \in F
        BY DEF ParentsIn
      <3>2. <<p, c>> \in E
        BY <3>1
      <3>3. p \in Above(E, d)
        BY <3>2, AboveClosed
      <3> QED BY <3>1, <3>2, <3>3 DEF ParentsIn
    <2>3. T \in (SUBSET Colls) \ {{}}
      BY <2>1
    <2> QED BY <2>2, <2>3 DEF Acyclic
  <1> QED BY <1>1, <1>2

\* Fewer links make no cycle.
LEMMA UnlinkAcyclic ==
  ASSUME NEW E, Acyclic(E), NEW F \in SUBSET E
  PROVE  Acyclic(F)
  BY DEF Acyclic, ParentsIn

\* The tags of records stay tags.
LEMMA TagTypes ==
  ASSUME NEW E \in SUBSET (Colls \X Items),
         NEW top \in [Colls -> Topics \cup {NoTopic}]
  PROVE  /\ \A c \in Colls : Context(E, top, c) \subseteq AllTags
         /\ \A r \in Recs : TagsOf(E, top, r) \subseteq AllTags
  <1>1. ASSUME NEW c \in Colls PROVE Context(E, top, c) \subseteq AllTags
    <2>1. \A a \in Above(E, c) : Names(top[a]) \subseteq AllTags
      BY AboveColls, TopicNames
    <2> QED BY <2>1 DEF Context
  <1>2. ASSUME NEW r \in Recs PROVE TagsOf(E, top, r) \subseteq AllTags
    BY <1>1 DEF TagsOf, ParentsIn
  <1> QED BY <1>1, <1>2

LEMMA RefreshedType ==
  ASSUME NEW E \in SUBSET (Colls \X Items),
         NEW top \in [Colls -> Topics \cup {NoTopic}], NEW x,
         catTags \in [Recs -> SUBSET AllTags]
  PROVE  Refreshed(E, top, x) \in [Recs -> SUBSET AllTags]
  BY TagTypes DEF Refreshed

-----------------------------------------------------------------------------
\* Topics and their counts.
TopicTypes(T) == T.set \subseteq Paths /\ T.cnt \in [Paths -> Int]

LEMMA TopicLinkType ==
  ASSUME NEW T, TopicTypes(T), NEW p \in Topics \cup {NoTopic}
  PROVE  TopicTypes(TopicLink(T, p))
  <1>1. Prefixes(p) \subseteq Paths
    BY TopicNames
  <1> QED BY <1>1 DEF TopicTypes, TopicLink

LEMMA TopicUnlinkType ==
  ASSUME CatalogTypeOK, NEW C \in SUBSET Colls
  PROVE  TopicTypes(TopicUnlink(C))
  <1>1. \A q : Cardinality({c \in C : q \in Prefixes(topic[c])}) \in Nat
    <2> TAKE q
    <2>1. IsFiniteSet({c \in C : q \in Prefixes(topic[c])})
      <3>1. {c \in C : q \in Prefixes(topic[c])} \subseteq Colls
        OBVIOUS
      <3> QED BY <3>1, FS_Subset, CatalogAssumption DEF CatalogAssumption
    <2> QED BY <2>1, FS_CardinalityType
  <1>2. \A q \in Paths : collCnt[q] \in Int
    BY DEF CatalogTypeOK
  <1>3. topics \subseteq Paths
    BY DEF CatalogTypeOK
  <1> DEFINE cnt == TopicUnlink(C).cnt
  <1>4. TopicUnlink(C).set \subseteq topics
    BY DEF TopicUnlink
  <1> DEFINE K(q) == Cardinality({c \in C : q \in Prefixes(topic[c])})
             left == UNION {Prefixes(topic[c]) : c \in C}
             gone == {p \in left : \A q \in topics : p \in Prefixes(q) =>
                        /\ q \in left \ Admin
                        /\ \A c \in Colls \ C : topic[c] # q}
  <1>5. cnt \in [Paths -> Int]
    <2>1. cnt = [q \in Paths |-> IF q \in gone THEN 0 ELSE collCnt[q] - K(q)]
      BY Zenon DEF TopicUnlink
    <2>2. \A q \in Paths : collCnt[q] - K(q) \in Int
      <3> HIDE DEF K
      <3>1. \A q : K(q) \in Nat
        BY <1>1 DEF K
      <3> QED BY <3>1, <1>2
    <2> HIDE DEF K, gone, cnt
    <2> QED BY <2>1, <2>2
  <1> QED BY <1>3, <1>4, <1>5 DEF TopicTypes

-----------------------------------------------------------------------------
\* Steps that only unlink: what stays linked keeps its owner.
LEMMA UnlinkForest ==
  ASSUME IInv, item' \in SUBSET item,
         \A e \in item' : owner'[e[1]] = owner[e[1]] /\ owner'[e[2]] = owner[e[2]]
  PROVE  Forest'
  <1>1. RootsUnlinked' /\ SameOwner' /\ OneParent'
    BY DEF IInv, Forest, RootsUnlinked, SameOwner, OneParent
  <1>2. Acyclic(item)
    BY DEF IInv, Forest, NoCycle, Acyclic
  <1>3. Acyclic(item')
    BY <1>2, UnlinkAcyclic
  <1> QED BY <1>1, <1>3 DEF Forest, NoCycle, Acyclic

\* Steps that link one item, x, to a collection d of the same owner, when x is not
\* above d, and a collection is linked nowhere else.
LEMMA LinkForest ==
  ASSUME IInv, NEW d \in Colls, NEW x \in Items,
         item' \in SUBSET (item \cup {<<d, x>>}),
         owner'[x] = owner'[d], owner'[d] # None,
         x \notin Roots, x \notin Above(item, d),
         x \in Colls => \A e \in item' : e[2] = x => e = <<d, x>>,
         \A e \in item' : e # <<d, x>> => /\ owner'[e[1]] = owner[e[1]]
                                          /\ owner'[e[2]] = owner[e[2]]
  PROVE  Forest'
  <1>1. RootsUnlinked'
    BY DEF IInv, Forest, RootsUnlinked
  <1>2. SameOwner'
    BY DEF IInv, Forest, SameOwner
  <1>3. OneParent'
    <2> SUFFICES ASSUME NEW e \in item', NEW f \in item', e[2] \in Colls, e[2] = f[2]
                 PROVE  e = f
      BY DEF OneParent
    <2>1. CASE e[2] = x
      BY <2>1
    <2>2. CASE e[2] # x
      <3>1. e \in item /\ f \in item
        BY <2>2
      <3> QED BY <3>1 DEF IInv, Forest, OneParent
    <2> QED BY <2>1, <2>2
  <1>4. Acyclic(item) /\ item \in SUBSET (Colls \X Items)
    BY DEF IInv, Forest, NoCycle, Acyclic, CatalogTypeOK
  <1>5. Acyclic(item')
    BY <1>4, LinkAcyclic
  <1> QED BY <1>1, <1>2, <1>3, <1>5 DEF Forest, NoCycle, Acyclic

\* Requests that neither create nor ask for what comes later.
LEMMA PlainForest0 ==
  ASSUME IInv, UNCHANGED <<owner, unborn, del, newColl>>
  PROVE  Forest0'
  BY DEF IInv, Forest0, RootsStay, UnbornDead, MovedBorn, RootsKept

LEMMA ForestInit == Init => IInv
  <1> SUFFICES ASSUME Init PROVE IInv
    OBVIOUS
  <1>1. CatalogTypeOK
    <2>1. topics \subseteq Paths
      BY CatalogAssumption DEF CatalogAssumption, Init
    <2>2. /\ owner \in [Items -> Roots \cup {None}]
          /\ unborn \subseteq Items
          /\ item \subseteq Colls \X Items
          /\ topic \in [Colls -> Topics \cup {NoTopic}]
          /\ catTags \in [Recs -> SUBSET AllTags]
          /\ collCnt \in [Paths -> Int]
          /\ newColl \in [Recs -> Colls \cup {None}]
      BY DEF Init
    <2>3. del \in [Tasks -> {None} \cup [colls : SUBSET Colls, recs : SUBSET Recs, twice : BOOLEAN]]
      BY DEF Init
    <2> QED BY <2>1, <2>2, <2>3 DEF CatalogTypeOK
  <1>2. Forest
    BY DEF Init, Forest, RootsUnlinked, SameOwner, OneParent, NoCycle, ParentsIn
  <1>3. Forest0
    BY CatalogAssumption DEF Init, Forest0, RootsStay, UnbornDead, MovedBorn, RootsKept, Items,
       CatalogAssumption
  <1> QED BY <1>1, <1>2, <1>3 DEF IInv

-----------------------------------------------------------------------------
\* POST /coll/create: what was never created has no links.
LEMMA CreateCollStep ==
  ASSUME IInv, NEW c \in Colls, NEW parent \in Colls, NEW top \in Topics \cup {NoTopic},
         CreateColl(c, parent, top)
  PROVE  IInv'
  <1> USE DEF IInv
  <1>1. /\ c \in unborn /\ parent \in Live /\ c \in Items /\ parent \in Items
        /\ owner[c] = None /\ owner[parent] # None /\ c # parent /\ c \notin Roots
    BY DEF CreateColl, Live, Forest0, UnbornDead, Items
  <1>2. \A e \in item : e[1] # c /\ e[2] # c
    BY <1>1 DEF Forest, SameOwner
  <1>3. /\ owner' = [owner EXCEPT ![c] = owner[parent]]
        /\ item' = item \cup {<<parent, c>>}
        /\ unborn' = unborn \ {c}
        /\ UNCHANGED <<del, newColl, catTags>>
        /\ topic' = [topic EXCEPT ![c] = top]
    BY DEF CreateColl, Link
  <1>4. owner[parent] \in Roots /\ item \in SUBSET (Colls \X Items)
    BY <1>1 DEF CatalogTypeOK
  <1>5. CatalogTypeOK'
    <2>1. TopicTypes([set |-> topics, cnt |-> collCnt])
      BY DEF CatalogTypeOK, TopicTypes
    <2>2. TopicTypes(TopicLink([set |-> topics, cnt |-> collCnt], top))
      BY <2>1, TopicLinkType
    <2>3. topics' \subseteq Paths /\ collCnt' \in [Paths -> Int]
      BY <2>2 DEF CreateColl, SetTopics, TopicTypes
    <2>4. /\ owner' \in [Items -> Roots \cup {None}]
          /\ unborn' \subseteq Items
          /\ item' \subseteq Colls \X Items
          /\ topic' \in [Colls -> Topics \cup {NoTopic}]
      BY <1>1, <1>3, <1>4 DEF CatalogTypeOK
    <2> QED BY <1>3, <2>3, <2>4 DEF CatalogTypeOK
  <1>6. Forest0'
    <2>1. RootsStay' /\ MovedBorn' /\ RootsKept'
      BY <1>1, <1>3, CatalogAssumption
      DEF Forest0, RootsStay, MovedBorn, RootsKept, CatalogTypeOK, Items, CatalogAssumption
    <2>2. UnbornDead'
      BY <1>1, <1>3 DEF Forest0, UnbornDead, CatalogTypeOK
    <2> QED BY <2>1, <2>2 DEF Forest0
  <1>7. c \notin Above(item, parent)
    BY <1>1, <1>2 DEF Above, Holders
  <1>8. Forest'
    <2>1. owner'[c] = owner'[parent] /\ owner'[parent] # None
      BY <1>1, <1>3 DEF CatalogTypeOK
    <2>2. \A e \in item : owner'[e[1]] = owner[e[1]] /\ owner'[e[2]] = owner[e[2]]
      BY <1>2, <1>3, <1>4 DEF CatalogTypeOK
    <2> QED BY <1>1, <1>2, <1>3, <1>7, <2>1, <2>2, LinkForest
  <1> QED BY <1>5, <1>6, <1>8

LEMMA CreateRecordStep ==
  ASSUME IInv, NEW r \in Recs, NEW parent \in Colls, CreateRecord(r, parent)
  PROVE  IInv'
  <1> USE DEF IInv
  <1>1. /\ r \in unborn /\ parent \in Live /\ r \in Items /\ parent \in Items
        /\ owner[r] = None /\ owner[parent] # None /\ r # parent
        /\ r \notin Roots /\ r \notin Colls
    BY CatalogAssumption
    DEF CreateRecord, Live, Forest0, UnbornDead, Items, CatalogAssumption
  <1>2. \A e \in item : e[1] # r /\ e[2] # r
    BY <1>1 DEF Forest, SameOwner
  <1>3. /\ owner' = [owner EXCEPT ![r] = owner[parent]]
        /\ item' = item \cup {<<parent, r>>}
        /\ unborn' = unborn \ {r}
        /\ UNCHANGED <<del, newColl, topic, topics, collCnt>>
        /\ catTags' = [catTags EXCEPT ![r] = Context(item, topic, parent)]
    BY DEF CreateRecord, Link, topicVars
  <1>4. owner[parent] \in Roots /\ item \in SUBSET (Colls \X Items)
    BY <1>1 DEF CatalogTypeOK
  <1>5. CatalogTypeOK'
    <2>1. Context(item, topic, parent) \subseteq AllTags
      BY <1>4, TagTypes DEF CatalogTypeOK
    <2>2. catTags' \in [Recs -> SUBSET AllTags]
      BY <1>3, <2>1 DEF CatalogTypeOK
    <2>3. /\ owner' \in [Items -> Roots \cup {None}]
          /\ unborn' \subseteq Items
          /\ item' \subseteq Colls \X Items
      BY <1>1, <1>3, <1>4 DEF CatalogTypeOK
    <2> QED BY <1>3, <2>2, <2>3 DEF CatalogTypeOK
  <1>6. Forest0'
    <2>1. RootsStay' /\ MovedBorn' /\ RootsKept'
      BY <1>1, <1>3, CatalogAssumption
      DEF Forest0, RootsStay, MovedBorn, RootsKept, CatalogTypeOK, Items, CatalogAssumption
    <2>2. UnbornDead'
      BY <1>1, <1>3 DEF Forest0, UnbornDead, CatalogTypeOK
    <2> QED BY <2>1, <2>2 DEF Forest0
  <1>7. r \notin Above(item, parent)
    BY <1>1, <1>4, AboveColls
  <1>8. Forest'
    <2>1. owner'[r] = owner'[parent] /\ owner'[parent] # None
      BY <1>1, <1>3 DEF CatalogTypeOK
    <2>2. \A e \in item : owner'[e[1]] = owner[e[1]] /\ owner'[e[2]] = owner[e[2]]
      BY <1>2, <1>3, <1>4 DEF CatalogTypeOK
    <2> QED BY <1>1, <1>3, <1>7, <2>1, <2>2, LinkForest
  <1> QED BY <1>5, <1>6, <1>8

LEMMA SetTopicStep ==
  ASSUME IInv, NEW c \in Colls, NEW top \in Topics \cup {NoTopic}, SetTopic(c, top)
  PROVE  IInv'
  <1> USE DEF IInv
  <1>1. UNCHANGED <<owner, unborn, item, del, newColl>>
    BY DEF SetTopic, linkVars
  <1>2. CatalogTypeOK'
    <2>1. topic' \in [Colls -> Topics \cup {NoTopic}]
      BY DEF SetTopic, CatalogTypeOK
    <2>2. TopicTypes(TopicLink(TopicUnlink({c}), top))
      BY TopicUnlinkType, TopicLinkType
    <2>3. topics' \subseteq Paths /\ collCnt' \in [Paths -> Int]
      BY <2>2 DEF SetTopic, SetTopics, TopicTypes
    <2>4. catTags' \in [Recs -> SUBSET AllTags]
      BY <2>1, RefreshedType DEF SetTopic, CatalogTypeOK
    <2> QED BY <1>1, <2>1, <2>3, <2>4 DEF CatalogTypeOK
  <1>3. Forest0'
    BY <1>1, PlainForest0
  <1>4. Forest'
    BY <1>1, UnlinkForest
  <1> QED BY <1>2, <1>3, <1>4

-----------------------------------------------------------------------------
\* What requests on links have in common: the type of what they change.
LEMMA LinkTypes ==
  ASSUME IInv, NEW d \in Colls, NEW x \in Items,
         item' \in SUBSET (item \cup {<<d, x>>}),
         catTags' \in [Recs -> SUBSET AllTags],
         UNCHANGED <<owner, unborn, topicVars, del, newColl>>
  PROVE  CatalogTypeOK' /\ Forest0'
  <1>1. CatalogTypeOK'
    BY DEF IInv, CatalogTypeOK, topicVars
  <1> QED BY <1>1, PlainForest0

\* What goes to the root has no other parent, and nothing is above a root.
LEMMA RemoveStep ==
  ASSUME IInv, NEW c \in Colls, NEW x \in Items, Remove(c, x)
  PROVE  IInv'
  <1> USE DEF IInv
  <1> DEFINE left == item \ {<<c, x>>}
             root == owner[c]
  <1>1. /\ <<c, x>> \in item /\ owner[c] # None /\ owner[x] = owner[c]
        /\ x \notin Roots
    BY DEF Remove, Live, Forest, SameOwner, RootsUnlinked
  <1>2. /\ root \in Roots /\ root \in Colls /\ owner[root] = root /\ root # None
    BY <1>1, CatalogAssumption
    DEF CatalogTypeOK, Forest0, RootsStay, Items, CatalogAssumption
  <1>3. UNCHANGED <<owner, unborn, topicVars, del, newColl>>
    BY DEF Remove
  <1>4. \/ item' = left
        \/ item' = left \cup {<<root, x>>} /\ ParentsIn(left, x) = {}
    BY DEF Remove
  <1>5. item \in SUBSET (Colls \X Items)
    BY DEF CatalogTypeOK
  <1>6. catTags' \in [Recs -> SUBSET AllTags]
    <2>1. Refreshed(left, topic, x) \in [Recs -> SUBSET AllTags]
      BY <1>5, RefreshedType DEF CatalogTypeOK
    <2>2. [catTags EXCEPT ![x] = {}] \in [Recs -> SUBSET AllTags]
      BY DEF CatalogTypeOK
    <2>3. catTags' \in {catTags, [catTags EXCEPT ![x] = {}], Refreshed(left, topic, x)}
      BY DEF Remove
    <2> QED BY <2>1, <2>2, <2>3 DEF CatalogTypeOK
  <1>7. CatalogTypeOK' /\ Forest0'
    BY <1>2, <1>3, <1>4, <1>6, LinkTypes
  <1>8. Forest'
    <2>1. CASE item' = left
      BY <1>3, <2>1, UnlinkForest
    <2>2. CASE item' = left \cup {<<root, x>>} /\ ParentsIn(left, x) = {}
      <3>1. x \notin Above(item, root)
        <4>1. Above(item, root) = {root}
          BY <1>2, <1>5, AboveRoot DEF Forest, RootsUnlinked
        <4> QED BY <4>1, <1>1, <1>2
      <3>2. \A e \in left : e[2] # x
        BY <1>5, <2>2 DEF ParentsIn
      <3> QED BY <1>1, <1>2, <1>3, <2>2, <3>1, <3>2, LinkForest
    <2> QED BY <1>4, <2>1, <2>2
  <1> QED BY <1>7, <1>8

LEMMA AddStep ==
  ASSUME IInv, NEW c \in Colls, NEW x \in Items, Add(c, x)
  PROVE  IInv'
  <1> USE DEF IInv
  <1>1. /\ owner[c] # None /\ owner[x] = owner[c] /\ x \notin Roots
        /\ x \in Colls => x \notin Above(item, c)
    BY DEF Add, Live, MayLink
  <1>2. UNCHANGED <<owner, unborn, topicVars, del, newColl>>
    BY DEF Add
  <1>3. /\ item' \in SUBSET (item \cup {<<c, x>>})
        /\ x \in Colls => \A e \in item' : e[2] = x => e = <<c, x>>
    BY DEF Add, Unlinked
  <1>4. item \in SUBSET (Colls \X Items) /\ item' \in SUBSET (Colls \X Items)
    BY <1>3 DEF CatalogTypeOK
  <1>5. catTags' \in [Recs -> SUBSET AllTags]
    <2>1. Refreshed(item', topic, x) \in [Recs -> SUBSET AllTags]
      BY <1>4, RefreshedType DEF CatalogTypeOK
    <2> QED BY <2>1 DEF Add, CatalogTypeOK
  <1>6. CatalogTypeOK' /\ Forest0'
    BY <1>2, <1>3, <1>5, LinkTypes
  <1>7. x \notin Above(item, c)
    BY <1>1, <1>4, AboveColls
  <1>8. Forest'
    BY <1>1, <1>2, <1>3, <1>7, LinkForest
  <1> QED BY <1>6, <1>8

LEMMA MoveStep ==
  ASSUME IInv, NEW src \in Colls, NEW dst \in Colls, NEW x \in Items, Move(src, dst, x)
  PROVE  IInv'
  <1> USE DEF IInv
  <1>1. /\ owner[dst] # None /\ owner[x] = owner[dst] /\ x \notin Roots
        /\ x \in Colls => x \notin Above(item, dst)
    BY DEF Move, Live, MayLink, Forest, SameOwner
  <1>2. UNCHANGED <<owner, unborn, topicVars, del, newColl>>
    BY DEF Move
  <1>3. item' = (item \ {<<src, x>>}) \cup {<<dst, x>>} /\ <<src, x>> \in item
    BY DEF Move
  <1>4. item \in SUBSET (Colls \X Items) /\ item' \in SUBSET (Colls \X Items)
    BY <1>3 DEF CatalogTypeOK
  <1>5. catTags' \in [Recs -> SUBSET AllTags]
    <2>1. Refreshed(item', topic, x) \in [Recs -> SUBSET AllTags]
      BY <1>4, RefreshedType DEF CatalogTypeOK
    <2> QED BY <2>1 DEF Move, CatalogTypeOK
  <1>6. CatalogTypeOK' /\ Forest0'
    BY <1>2, <1>3, <1>5, LinkTypes
  <1>7. x \notin Above(item, dst)
    BY <1>1, <1>4, AboveColls
  <1>8. x \in Colls => \A e \in item' : e[2] = x => e = <<dst, x>>
    BY <1>3 DEF Forest, OneParent
  <1>9. Forest'
    BY <1>1, <1>2, <1>3, <1>7, <1>8, LinkForest
  <1> QED BY <1>6, <1>9

-----------------------------------------------------------------------------
\* Nothing that is selected for deletion is at or above a root.
LEMMA ReachedNoRoot ==
  ASSUME IInv, NEW S \in SUBSET (Live \ Roots)
  PROVE  Reached(S) \cap Roots = {}
  <1> SUFFICES ASSUME NEW c \in Reached(S), c \in Roots PROVE FALSE
    OBVIOUS
  <1>1. Above(item, c) = {c}
    BY AboveRoot DEF Reached, IInv, CatalogTypeOK, Forest, RootsUnlinked
  <1>2. S \cap Above(item, c) = {}
    BY <1>1
  <1>3. Cardinality(S \cap Above(item, c)) = 0
    BY <1>2, FS_EmptySet
  <1> QED BY <1>3 DEF Reached, Visits

LEMMA RequestDeleteStep ==
  ASSUME IInv, NEW t \in Tasks, NEW S \in SUBSET Items, NEW first,
         RequestDelete(t, S, first)
  PROVE  IInv'
  <1> USE DEF IInv
  <1> DEFINE two == \E c \in Reached(S) : Visits(S, c) > 1
             entry == [colls |-> Reached(S), recs |-> ToDelete(S, first), twice |-> two]
  <1>1. UNCHANGED <<owner, unborn, topicVars, catTags, newColl>> /\ item' \in SUBSET item
    BY DEF RequestDelete, Unlinked
  <1>2. del' = [del EXCEPT ![t] = entry] /\ S \in SUBSET (Live \ Roots)
    BY DEF RequestDelete
  <1>3. Reached(S) \in SUBSET Colls /\ ToDelete(S, first) \in SUBSET Recs
    BY DEF Reached, ToDelete
  <1>4. two \in BOOLEAN
    BY Zenon
  <1>5. entry \in [colls : SUBSET Colls, recs : SUBSET Recs, twice : BOOLEAN]
    <2> HIDE DEF two
    <2> QED BY <1>3, <1>4
  <1>6. Reached(S) \cap Roots = {} /\ entry.colls = Reached(S)
    BY <1>2, ReachedNoRoot
  <1> HIDE DEF entry, two
  <1>7. CatalogTypeOK'
    BY <1>1, <1>2, <1>5 DEF CatalogTypeOK, topicVars
  <1>8. Forest0'
    <2>1. RootsStay' /\ UnbornDead' /\ MovedBorn'
      BY <1>1 DEF Forest0, RootsStay, UnbornDead, MovedBorn
    <2>2. RootsKept'
      BY <1>2, <1>6 DEF Forest0, RootsKept, CatalogTypeOK
    <2> QED BY <2>1, <2>2 DEF Forest0
  <1>9. Forest'
    BY <1>1, UnlinkForest
  <1> QED BY <1>7, <1>8, <1>9

LEMMA RunDeleteStep ==
  ASSUME IInv, NEW t \in Tasks, RunDelete(t)
  PROVE  IInv'
  <1> USE DEF IInv
  <1> DEFINE gone == del[t].colls \cup del[t].recs
  <1>1. /\ del[t] \in [colls : SUBSET Colls, recs : SUBSET Recs, twice : BOOLEAN]
        /\ del[t] # None /\ del' = [del EXCEPT ![t] = None] /\ unborn' = unborn
    BY DEF RunDelete, CatalogTypeOK
  <1>2. CASE UNCHANGED <<owner, item, topicVars, catTags, newColl>>
    <2>1. CatalogTypeOK'
      BY <1>1, <1>2 DEF CatalogTypeOK, topicVars
    <2>2. Forest0'
      BY <1>1, <1>2
      DEF Forest0, RootsStay, UnbornDead, MovedBorn, RootsKept, CatalogTypeOK
    <2>3. Forest'
      BY <1>2, UnlinkForest
    <2> QED BY <2>1, <2>2, <2>3
  <1>3. CASE /\ owner' = [x \in Items |-> IF x \in gone THEN None ELSE owner[x]]
             /\ item' = {e \in item : e[1] \notin gone /\ e[2] \notin gone}
             /\ SetTopics(TopicUnlink(del[t].colls))
             /\ topic' = [c \in Colls |-> IF c \in gone THEN NoTopic ELSE topic[c]]
             /\ catTags' = [r \in Recs |-> IF r \in gone THEN {} ELSE catTags[r]]
             /\ newColl' = [r \in Recs |-> IF r \in gone THEN None ELSE newColl[r]]
    <2>1. TopicTypes(TopicUnlink(del[t].colls))
      BY <1>1, TopicUnlinkType
    <2>2. topics' \subseteq Paths /\ collCnt' \in [Paths -> Int]
      BY <1>3, <2>1 DEF SetTopics, TopicTypes
    <2>3. gone \cap Roots = {}
      BY <1>1, CatalogAssumption DEF Forest0, RootsKept, CatalogAssumption
    <2> HIDE DEF gone
    <2>4. CatalogTypeOK'
      <3>1. /\ owner' \in [Items -> Roots \cup {None}]
            /\ topic' \in [Colls -> Topics \cup {NoTopic}]
            /\ catTags' \in [Recs -> SUBSET AllTags]
            /\ newColl' \in [Recs -> Colls \cup {None}]
        BY <1>3 DEF CatalogTypeOK
      <3>2. /\ item' \subseteq Colls \X Items
            /\ del' \in [Tasks -> {None} \cup
                                  [colls : SUBSET Colls, recs : SUBSET Recs, twice : BOOLEAN]]
        BY <1>1, <1>3 DEF CatalogTypeOK
      <3> QED BY <1>1, <2>2, <3>1, <3>2 DEF CatalogTypeOK
    <2>5. Forest0'
      <3>1. RootsStay'
        BY <1>3, <2>3, CatalogAssumption DEF Forest0, RootsStay, Items, CatalogAssumption
      <3>2. UnbornDead' /\ MovedBorn'
        BY <1>1, <1>3 DEF Forest0, UnbornDead, MovedBorn, CatalogTypeOK
      <3>3. RootsKept'
        BY <1>1 DEF Forest0, RootsKept, CatalogTypeOK
      <3> QED BY <3>1, <3>2, <3>3 DEF Forest0
    <2>6. Forest'
      <3>1. \A e \in item' : owner'[e[1]] = owner[e[1]] /\ owner'[e[2]] = owner[e[2]]
        BY <1>3 DEF CatalogTypeOK, Items
      <3>2. item' \in SUBSET item
        BY <1>3
      <3> QED BY <3>1, <3>2, UnlinkForest
    <2> QED BY <2>4, <2>5, <2>6
  <1> QED BY <1>2, <1>3, Zenon DEF RunDelete

-----------------------------------------------------------------------------
LEMMA RequestOwnerChgStep ==
  ASSUME IInv, NEW r \in Recs, NEW c \in Colls, RequestOwnerChg(r, c)
  PROVE  IInv'
  <1> USE DEF IInv
  <1>1. /\ r \notin unborn /\ newColl' = [newColl EXCEPT ![r] = c]
        /\ UNCHANGED <<owner, unborn, item, topicVars, catTags, del>>
    BY DEF RequestOwnerChg, Live, Forest0, UnbornDead, linkVars
  <1>2. CatalogTypeOK'
    BY <1>1 DEF CatalogTypeOK, topicVars
  <1>3. Forest0'
    BY <1>1 DEF Forest0, RootsStay, UnbornDead, MovedBorn, RootsKept, CatalogTypeOK
  <1>4. Forest'
    BY <1>1, UnlinkForest
  <1> QED BY <1>2, <1>3, <1>4

\* The record leaves all its collections for one of the new owner.
LEMMA FinishOwnerChgStep ==
  ASSUME IInv, NEW r \in Recs, FinishOwnerChg(r)
  PROVE  IInv'
  <1> USE DEF IInv
  <1> DEFINE c == newColl[r]
  <1>1. /\ c \in Colls /\ r \notin unborn /\ r \notin Roots /\ r \notin Colls
        /\ c \in Items /\ r \in Items /\ c # r
    BY CatalogAssumption
    DEF FinishOwnerChg, CatalogTypeOK, Forest0, MovedBorn, CatalogAssumption, Items
  <1>2. /\ newColl' = [newColl EXCEPT ![r] = None]
        /\ UNCHANGED <<unborn, topicVars, catTags, del>>
    BY DEF FinishOwnerChg
  <1>3. CASE UNCHANGED <<item, owner>>
    <2>1. CatalogTypeOK' /\ Forest0'
      BY <1>2, <1>3
      DEF Forest0, RootsStay, UnbornDead, MovedBorn, RootsKept, CatalogTypeOK, topicVars
    <2>2. Forest'
      BY <1>3, UnlinkForest
    <2> QED BY <2>1, <2>2
  <1>4. CASE /\ c \in Live
             /\ item' = Unlinked(item, {r}) \cup {<<c, r>>}
             /\ owner' = [owner EXCEPT ![r] = owner[c]]
    <2>1. owner[c] # None /\ owner[c] \in Roots /\ item \in SUBSET (Colls \X Items)
      BY <1>1, <1>4 DEF Live, CatalogTypeOK
    <2>2. CatalogTypeOK'
      <3>1. /\ owner' \in [Items -> Roots \cup {None}]
            /\ item' \subseteq Colls \X Items
            /\ newColl' \in [Recs -> Colls \cup {None}]
        BY <1>1, <1>2, <1>4, <2>1 DEF CatalogTypeOK, Unlinked
      <3> QED BY <1>2, <3>1 DEF CatalogTypeOK, topicVars
    <2>3. Forest0'
      <3>1. RootsStay' /\ UnbornDead'
        BY <1>1, <1>2, <1>4, CatalogAssumption
        DEF Forest0, RootsStay, UnbornDead, CatalogTypeOK, CatalogAssumption, Items
      <3>2. MovedBorn' /\ RootsKept'
        BY <1>2 DEF Forest0, MovedBorn, RootsKept, CatalogTypeOK
      <3> QED BY <3>1, <3>2 DEF Forest0
    <2>4. Forest'
      <3>1. owner'[r] = owner'[c] /\ owner'[c] # None
        BY <1>1, <1>4, <2>1 DEF CatalogTypeOK
      <3>2. \A e \in item' : e # <<c, r>> => /\ e \in item
                                             /\ owner'[e[1]] = owner[e[1]]
                                             /\ owner'[e[2]] = owner[e[2]]
        BY <1>1, <1>4, <2>1 DEF Unlinked, CatalogTypeOK
      <3>3. item' \in SUBSET (item \cup {<<c, r>>})
        BY <3>2
      <3>4. r \notin Above(item, c)
        BY <1>1, <2>1, AboveColls
      <3> QED BY <1>1, <3>1, <3>2, <3>3, <3>4, LinkForest
    <2> QED BY <2>2, <2>3, <2>4
  <1> QED BY <1>3, <1>4, Zenon DEF FinishOwnerChg

-----------------------------------------------------------------------------
LEMMA ForestStep ==
  ASSUME IInv, [Next]_vars
  PROVE  IInv'
  <1>1. CASE UNCHANGED vars
    <2>1. CatalogTypeOK'
      BY <1>1 DEF IInv, CatalogTypeOK, vars, linkVars, topicVars
    <2>2. Forest0'
      BY <1>1, PlainForest0 DEF vars, linkVars
    <2>3. Forest'
      BY <1>1, UnlinkForest DEF vars, linkVars
    <2> QED BY <2>1, <2>2, <2>3 DEF IInv
  <1>2. ASSUME NEW c \in Colls, NEW p \in Colls, NEW top \in Topics \cup {NoTopic},
               CreateColl(c, p, top)
        PROVE  IInv'
    BY <1>2, CreateCollStep
  <1>3. ASSUME NEW r \in Recs, NEW p \in Colls, CreateRecord(r, p) PROVE IInv'
    BY <1>3, CreateRecordStep
  <1>4. ASSUME NEW c \in Colls, NEW top \in Topics \cup {NoTopic}, SetTopic(c, top) PROVE IInv'
    BY <1>4, SetTopicStep
  <1>5. ASSUME NEW c \in Colls, NEW x \in Items, Remove(c, x) PROVE IInv'
    BY <1>5, RemoveStep
  <1>6. ASSUME NEW c \in Colls, NEW x \in Items, Add(c, x) PROVE IInv'
    BY <1>6, AddStep
  <1>7. ASSUME NEW src \in Colls, NEW dst \in Colls, NEW x \in Items, Move(src, dst, x)
        PROVE  IInv'
    BY <1>7, MoveStep
  <1>8. ASSUME NEW t \in Tasks, NEW S \in SUBSET Items, NEW first \in SUBSET (S \cap Recs),
               RequestDelete(t, S, first)
        PROVE  IInv'
    BY <1>8, RequestDeleteStep
  <1>9. ASSUME NEW t \in Tasks, RunDelete(t) PROVE IInv'
    BY <1>9, RunDeleteStep
  <1>10. ASSUME NEW r \in Recs, NEW c \in Colls, RequestOwnerChg(r, c) PROVE IInv'
    BY <1>10, RequestOwnerChgStep
  <1>11. ASSUME NEW r \in Recs, FinishOwnerChg(r) PROVE IInv'
    BY <1>11, FinishOwnerChgStep
  <1> QED BY <1>1, <1>2, <1>3, <1>4, <1>5, <1>6, <1>7, <1>8, <1>9, <1>10, <1>11 DEF Next

\* Whatever is created, linked, moved, published, deleted and given away, each
\* variable keeps its type: a removed topic leaves no count behind, and no record
\* gets a tag that no topic has.
THEOREM CatalogTypes == Spec => []CatalogTypeOK
  <1>1. IInv => CatalogTypeOK
    BY DEF IInv
  <1> QED BY ForestInit, ForestStep, <1>1, PTL DEF Spec

\* Collections are a forest: no request or task, in any order, makes a cycle of
\* collections, gives one a second parent, links a root, or links what belongs
\* to another owner (the rules of /coll/write).
THEOREM ForestAlways == Spec => []Forest
  <1>1. IInv => Forest
    BY DEF IInv
  <1> QED BY ForestInit, ForestStep, <1>1, PTL DEF Spec

-----------------------------------------------------------------------------
\* Topics on a path are the topics above its end.
LEMMA PrefixIs ==
  ASSUME NEW S, NEW p \in Seq(S), NEW q \in Prefixes(p)
  PROVE  /\ q \in Seq(S) /\ q \in Prefixes(q)
         /\ Prefixes(q) \subseteq Prefixes(p)
  <1>1. PICK n \in 1..Len(p) : q = SubSeq(p, 1, n)
    BY DEF Prefixes
  <1>2. \A i \in 1..n : p[i] \in S
    BY <1>1
  <1>3. q \in Seq(S) /\ Len(q) = n
    BY <1>1, <1>2, SubSeqProperties
  <1>4. SubSeq(q, 1, n) = q
    BY <1>3, SubSeqFull
  <1>5. ASSUME NEW m \in 1..n PROVE SubSeq(q, 1, m) \in Prefixes(p)
    <2>1. SubSeq(SubSeq(p, 1, n), 1, m) = SubSeq(p, 1 + 1 - 1, 1 + m - 1)
      BY <1>1, SubSeqOfSubSeq
    <2>2. SubSeq(q, 1, m) = SubSeq(p, 1, m)
      BY <1>1, <2>1
    <2> QED BY <2>2 DEF Prefixes
  <1> QED BY <1>3, <1>4, <1>5 DEF Prefixes

LEMMA TopicPrefixes ==
  ASSUME NEW p \in Topics \cup Admin \cup {NoTopic}, NEW q \in Prefixes(p)
  PROVE  q \in Prefixes(q) /\ Prefixes(q) \subseteq Prefixes(p) /\ p \in Prefixes(p)
  <1>1. p # NoTopic
    BY DEF Prefixes, NoTopic
  <1>2. p \in Seq(Names(p))
    BY <1>1, CatalogAssumption DEF CatalogAssumption
  <1>3. Len(p) >= 1
    BY <1>2 DEF Prefixes
  <1>4. p \in Prefixes(p)
    BY <1>2, <1>3, SubSeqFull DEF Prefixes
  <1> QED BY <1>2, <1>4, PrefixIs

\* Topics that are used by collections of D or kept by the administrators, and how
\* many of D are at or below a topic.
Used(top, D) == UNION {Prefixes(p) : p \in Admin \cup {top[c] : c \in D}}
Under(top, D, q) == {c \in D : q \in Prefixes(top[c])}

LEMMA UnderFinite ==
  ASSUME NEW top, NEW D \in SUBSET Colls, NEW q
  PROVE  IsFiniteSet(Under(top, D, q)) /\ Cardinality(Under(top, D, q)) \in Nat
  <1>1. Under(top, D, q) \subseteq Colls
    BY DEF Under
  <1>2. IsFiniteSet(Under(top, D, q))
    BY <1>1, FS_Subset, CatalogAssumption DEF CatalogAssumption
  <1> QED BY <1>2, FS_CardinalityType

\* Without the collections of C, what the others use is left.
LEMMA TopicUnlinkExact ==
  ASSUME CatalogTypeOK, TopicsExact, NEW C \in SUBSET Colls
  PROVE  /\ TopicUnlink(C).set = Used(topic, Colls \ C)
         /\ \A q \in Paths : TopicUnlink(C).cnt[q] = Cardinality(Under(topic, Colls \ C, q))
  <1> DEFINE left == UNION {Prefixes(topic[c]) : c \in C}
             gone == {p \in left : \A q \in topics : p \in Prefixes(q) =>
                        /\ q \in left \ Admin
                        /\ \A c \in Colls \ C : topic[c] # q}
  <1>1. /\ TopicUnlink(C).set = topics \ gone
        /\ TopicUnlink(C).cnt = [q \in Paths |-> IF q \in gone THEN 0 ELSE
                                   collCnt[q] - Cardinality(Under(topic, C, q))]
    BY Zenon DEF TopicUnlink, Under
  <1>2. topics = Used(topic, Colls)
    BY DEF TopicsExact, Used
  <1>3. \A c \in Colls : topic[c] \in Topics \cup {NoTopic}
    BY DEF CatalogTypeOK
  <1>4. ASSUME NEW p \in Admin \cup {topic[c] : c \in Colls \ C}, NEW q \in Prefixes(p)
        PROVE  q \in topics /\ q \notin gone
    <2>1. p \in Prefixes(p) /\ p \in Topics \cup Admin \cup {NoTopic}
      BY <1>3, <1>4, TopicPrefixes
    <2>2. q \in topics /\ p \in topics
      BY <1>2, <2>1 DEF Used
    <2> QED BY <2>2
  <1>5. ASSUME NEW q \in topics \ gone
        PROVE  q \in Used(topic, Colls \ C)
    <2>1. PICK p \in Admin \cup {topic[c] : c \in Colls} : q \in Prefixes(p)
      BY <1>2 DEF Used
    <2>2. CASE q \notin left
      <3>1. p \in Admin \cup {topic[c] : c \in Colls \ C}
        BY <2>1, <2>2
      <3> QED BY <2>1, <3>1 DEF Used
    <2>3. CASE q \in left
      <3>1. PICK s \in topics : /\ q \in Prefixes(s)
                                /\ ~(s \in left \ Admin /\ \A c \in Colls \ C : topic[c] # s)
        BY <2>3
      <3>2. CASE s \in Admin \/ \E c \in Colls \ C : topic[c] = s
        BY <3>1, <3>2 DEF Used
      <3>3. CASE s \notin left
        <4>1. PICK v \in Admin \cup {topic[c] : c \in Colls} : s \in Prefixes(v)
          BY <1>2 DEF Used
        <4>2. v \in Admin \cup {topic[c] : c \in Colls \ C}
          BY <3>3, <4>1
        <4>3. q \in Prefixes(v)
          BY <1>3, <3>1, <4>1, TopicPrefixes
        <4> QED BY <4>2, <4>3 DEF Used
      <3> QED BY <3>1, <3>2, <3>3
    <2> QED BY <2>2, <2>3
  <1>6. ASSUME NEW q \in Paths
        PROVE  TopicUnlink(C).cnt[q] = Cardinality(Under(topic, Colls \ C, q))
    <2>1. collCnt[q] = Cardinality(Under(topic, Colls, q))
      BY DEF TopicsExact, Under
    <2>2. CASE q \in gone
      <3>1. Under(topic, Colls \ C, q) = {}
        BY <1>4, <2>2 DEF Under
      <3> HIDE DEF gone
      <3> QED BY <1>1, <2>2, <3>1, FS_EmptySet
    <2>3. CASE q \notin gone
      <3>1. /\ Under(topic, Colls, q) \ Under(topic, C, q) = Under(topic, Colls \ C, q)
            /\ Under(topic, Colls, q) \cap Under(topic, C, q) = Under(topic, C, q)
        BY DEF Under
      <3>2. /\ IsFiniteSet(Under(topic, Colls, q)) /\ IsFiniteSet(Under(topic, C, q))
            /\ Cardinality(Under(topic, Colls, q)) \in Nat /\ Cardinality(Under(topic, C, q)) \in Nat
        BY UnderFinite
      <3>3. Cardinality(Under(topic, Colls \ C, q)) =
              Cardinality(Under(topic, Colls, q)) - Cardinality(Under(topic, C, q))
        BY <3>1, <3>2, FS_Difference
      <3> HIDE DEF gone
      <3> QED BY <1>1, <2>1, <2>3, <3>3
    <2> QED BY <2>2, <2>3
  <1>7. TopicUnlink(C).set = Used(topic, Colls \ C)
    <2> HIDE DEF gone, left
    <2>1. \A q \in Used(topic, Colls \ C) : q \in topics \ gone
      BY <1>4 DEF Used
    <2> QED BY <1>1, <1>5, <2>1
  <1> QED BY <1>6, <1>7

\* T is exact for the collections of D.
Exactly(T, top, D) == T.set = Used(top, D) /\ \A q \in Paths : T.cnt[q] = Cardinality(Under(top, D, q))

\* One more collection has a topic.
LEMMA TopicRelinked ==
  ASSUME CatalogTypeOK, NEW c \in Colls, NEW top, topic' = [topic EXCEPT ![c] = top],
         NEW T, Exactly(T, topic, Colls \ {c}), SetTopics(TopicLink(T, top))
  PROVE  TopicsExact'
  <1> DEFINE D == Colls \ {c}
  <1>1. topic'[c] = top /\ \A d \in D : topic'[d] = topic[d]
    BY DEF CatalogTypeOK
  <1>2. Colls = D \cup {c} /\ D \in SUBSET Colls /\ c \in Colls \ D
    OBVIOUS
  <1>3. T.set = Used(topic, D) /\ \A q \in Paths : T.cnt[q] = Cardinality(Under(topic, D, q))
    BY DEF Exactly
  <1> HIDE DEF D
  <1>4. topics' = Used(topic', Colls)
    <2>1. topics' = T.set \cup Prefixes(top)
      BY DEF SetTopics, TopicLink
    <2> QED BY <1>1, <1>2, <1>3, <2>1 DEF Used
  <1>5. ASSUME NEW q \in Paths
        PROVE  collCnt'[q] = Cardinality(Under(topic', Colls, q))
    <2>1. collCnt'[q] = T.cnt[q] + IF q \in Prefixes(top) THEN 1 ELSE 0
      BY <1>5 DEF SetTopics, TopicLink
    <2>2. IsFiniteSet(Under(topic, D, q)) /\ Cardinality(Under(topic, D, q)) \in Nat
      BY <1>2, UnderFinite
    <2>3. CASE q \in Prefixes(top)
      <3>1. Under(topic', Colls, q) = Under(topic, D, q) \cup {c} /\ c \notin Under(topic, D, q)
        BY <1>1, <1>2, <2>3 DEF Under
      <3>2. Cardinality(Under(topic', Colls, q)) = Cardinality(Under(topic, D, q)) + 1
        BY <2>2, <3>1, FS_AddElement
      <3> QED BY <1>3, <2>1, <2>3, <3>2
    <2>4. CASE q \notin Prefixes(top)
      <3>1. Under(topic', Colls, q) = Under(topic, D, q)
        BY <1>1, <1>2, <2>4 DEF Under
      <3> QED BY <1>3, <2>1, <2>2, <2>4, <3>1
    <2> QED BY <2>3, <2>4
  <1> QED BY <1>4, <1>5 DEF TopicsExact, Used, Under

\* What does not exist has no topic.
DeadNoTopic == \A c \in Colls : owner[c] = None => topic[c] = NoTopic
TopicInv == TopicsExact /\ DeadNoTopic

\* Of collections without a topic none counts.
LEMMA NoTopicUnused ==
  ASSUME NEW top, NEW D, NEW B, D \subseteq B, \A c \in B \ D : top[c] = NoTopic
  PROVE  Used(top, B) = Used(top, D) /\ \A q : Under(top, B, q) = Under(top, D, q)
  <1>1. \A c \in B \ D : Prefixes(top[c]) = {}
    BY DEF Prefixes, NoTopic
  <1> QED BY <1>1 DEF Used, Under

LEMMA ExactIs == TopicsExact <=>
                   /\ topics = Used(topic, Colls)
                   /\ \A q \in Paths : collCnt[q] = Cardinality(Under(topic, Colls, q))
  BY DEF TopicsExact, Used, Under

LEMMA TopicStep ==
  ASSUME IInv, TopicInv, [Next]_vars
  PROVE  TopicInv'
  <1> USE DEF IInv, TopicInv
  <1>1. ASSUME UNCHANGED topicVars, \A c \in Colls : owner[c] # None => owner'[c] # None
        PROVE  TopicInv'
    BY <1>1 DEF topicVars, TopicsExact, DeadNoTopic
  <1>2. ASSUME NEW c \in Colls, NEW p \in Colls, NEW top \in Topics \cup {NoTopic}, CreateColl(c, p, top)
        PROVE  TopicInv'
    <2> DEFINE T == [set |-> topics, cnt |-> collCnt]
    <2>1. /\ owner[c] = None /\ owner[p] # None /\ c \in Items
          /\ owner' = [owner EXCEPT ![c] = owner[p]] /\ topic' = [topic EXCEPT ![c] = top]
      BY <1>2 DEF CreateColl, Link, Live, Forest0, UnbornDead, Items
    <2>2. topic[c] = NoTopic /\ topic'[c] = top /\ \A d \in Colls \ {c} : topic'[d] = topic[d]
      BY <2>1 DEF DeadNoTopic, CatalogTypeOK
    <2>3. /\ Used(topic, Colls) = Used(topic, Colls \ {c})
          /\ \A q : Under(topic, Colls, q) = Under(topic, Colls \ {c}, q)
      BY <2>2, NoTopicUnused
    <2>4. Exactly(T, topic, Colls \ {c})
      BY <2>3, ExactIs DEF Exactly
    <2>5. SetTopics(TopicLink(T, top))
      BY <1>2 DEF CreateColl
    <2> HIDE DEF T
    <2>6. TopicsExact'
      BY <2>1, <2>4, <2>5, TopicRelinked
    <2>7. DeadNoTopic'
      BY <2>1, <2>2 DEF DeadNoTopic, CatalogTypeOK
    <2> QED BY <2>6, <2>7
  <1>3. ASSUME NEW c \in Colls, NEW top \in Topics \cup {NoTopic}, SetTopic(c, top)
        PROVE  TopicInv'
    <2> DEFINE T == TopicUnlink({c})
    <2>1. /\ owner[c] # None /\ UNCHANGED owner /\ topic' = [topic EXCEPT ![c] = top]
      BY <1>3 DEF SetTopic, Live, linkVars
    <2>2. topic'[c] = top /\ \A d \in Colls \ {c} : topic'[d] = topic[d]
      BY <2>1 DEF CatalogTypeOK
    <2>3. Exactly(T, topic, Colls \ {c})
      BY TopicUnlinkExact DEF Exactly
    <2>4. SetTopics(TopicLink(T, top))
      BY <1>3 DEF SetTopic
    <2> HIDE DEF T
    <2>6. TopicsExact'
      BY <2>1, <2>3, <2>4, TopicRelinked
    <2>7. DeadNoTopic'
      BY <2>1, <2>2 DEF DeadNoTopic
    <2> QED BY <2>6, <2>7
  <1>4. ASSUME NEW t \in Tasks, RunDelete(t) PROVE TopicInv'
    <2> DEFINE C == del[t].colls
               gone == C \cup del[t].recs
    <2>1. C \in SUBSET Colls /\ del[t].recs \in SUBSET Recs
      BY <1>4 DEF RunDelete, CatalogTypeOK
    <2>2. CASE UNCHANGED <<owner, item, topicVars, catTags, newColl>>
      BY <1>1, <2>2
    <2>3. CASE /\ owner' = [x \in Items |-> IF x \in gone THEN None ELSE owner[x]]
               /\ SetTopics(TopicUnlink(C))
               /\ topic' = [c \in Colls |-> IF c \in gone THEN NoTopic ELSE topic[c]]
      <3>1. \A c \in Colls : c \in gone <=> c \in C
        BY <2>1, CatalogAssumption DEF CatalogAssumption
      <3> HIDE DEF C, gone
      <3>2. \A c \in Colls : topic'[c] = IF c \in C THEN NoTopic ELSE topic[c]
        BY <2>3, <3>1
      <3>3. /\ topics' = Used(topic, Colls \ C)
            /\ \A q \in Paths : collCnt'[q] = Cardinality(Under(topic, Colls \ C, q))
        BY <2>1, <2>3, TopicUnlinkExact DEF SetTopics
      <3>4. /\ Used(topic', Colls \ C) = Used(topic, Colls \ C)
            /\ \A q : Under(topic', Colls \ C, q) = Under(topic, Colls \ C, q)
        BY <3>2 DEF Used, Under
      <3>6. /\ Used(topic', Colls) = Used(topic', Colls \ C)
            /\ \A q : Under(topic', Colls, q) = Under(topic', Colls \ C, q)
        BY <3>2, NoTopicUnused
      <3>7. topics' = Used(topic', Colls) /\ \A q \in Paths : collCnt'[q] = Cardinality(Under(topic', Colls, q))
        BY <3>3, <3>4, <3>6
      <3>8. TopicsExact'
        BY <3>7 DEF TopicsExact, Used, Under
      <3>9. DeadNoTopic'
        BY <2>3, <3>1, <3>2 DEF DeadNoTopic, Items
      <3> QED BY <3>8, <3>9
    <2> QED BY <1>4, <2>2, <2>3, Zenon DEF RunDelete
  <1>5. ASSUME NEW r \in Recs, FinishOwnerChg(r) PROVE TopicInv'
    <2>1. UNCHANGED topicVars /\ \A x \in Items : owner[x] # None => owner'[x] # None
      BY <1>5 DEF FinishOwnerChg, Live, CatalogTypeOK
    <2> QED BY <1>1, <2>1 DEF Items
  <1>6. ASSUME NEW r \in Recs, NEW p \in Colls, CreateRecord(r, p) PROVE TopicInv'
    <2>1. UNCHANGED topicVars /\ \A x \in Items : owner[x] # None => owner'[x] # None
      BY <1>6 DEF CreateRecord, Link, Live, CatalogTypeOK
    <2> QED BY <1>1, <2>1 DEF Items
  <1>7. ASSUME \/ \E c \in Colls, x \in Items : Remove(c, x) \/ Add(c, x)
               \/ \E src, dst \in Colls, x \in Items : Move(src, dst, x)
               \/ \E t \in Tasks, S \in SUBSET Items : \E first : RequestDelete(t, S, first)
               \/ \E r \in Recs, c \in Colls : RequestOwnerChg(r, c)
        PROVE  TopicInv'
    <2>1. UNCHANGED <<owner, topicVars>>
      BY <1>7 DEF Remove, Add, Move, RequestDelete, RequestOwnerChg, linkVars
    <2> QED BY <1>1, <2>1
  <1>8. CASE UNCHANGED vars
    BY <1>1, <1>8 DEF vars, linkVars
  <1> QED BY <1>2, <1>3, <1>4, <1>5, <1>6, <1>7, <1>8 DEF Next

\* The topics there are, and their counts, are those of the collections there are,
\* whatever is published, renamed and deleted.
THEOREM TopicsStayExact == Spec => []TopicsExact
  <1>1. Init => TopicInv
    <2> SUFFICES ASSUME Init PROVE TopicInv
      OBVIOUS
    <2>1. \A c \in Colls : topic[c] = NoTopic
      BY DEF Init
    <2>2. /\ Used(topic, Colls) = Used(topic, {})
          /\ \A q : Under(topic, Colls, q) = Under(topic, {}, q)
      BY <2>1, NoTopicUnused
    <2>3. Used(topic, Colls) = UNION {Prefixes(p) : p \in Admin} /\ \A q : Under(topic, Colls, q) = {}
      BY <2>2 DEF Used, Under
    <2>4. topics = Used(topic, Colls) /\ \A q \in Paths : collCnt[q] = Cardinality(Under(topic, Colls, q))
      BY <2>3, FS_EmptySet DEF Init
    <2> QED BY <2>1, <2>4, ExactIs DEF TopicInv, DeadNoTopic
  <1>2. TopicInv => TopicsExact
    BY DEF TopicInv
  <1>3. IInv /\ TopicInv /\ [Next]_vars => IInv' /\ TopicInv'
    BY ForestStep, TopicStep
  <1> QED BY <1>1, <1>2, <1>3, ForestInit, PTL DEF Spec

-----------------------------------------------------------------------------
\* Above, of any links E: the least set that has c and the parents of its members.
Links == SUBSET (Colls \X Items)
SingleParent(E) == \A e, f \in E : e[2] \in Colls /\ e[2] = f[2] => e = f

LEMMA AboveSelf == ASSUME NEW E, NEW c PROVE c \in Above(E, c)
  BY DEF Above

LEMMA AboveLeast ==
  ASSUME NEW E \in Links, NEW c \in Colls, NEW S, c \in S, UpClosed(E, S)
  PROVE  Above(E, c) \subseteq S
  <1> DEFINE H == S \cap Holders(E)
  <1>1. H \in SUBSET Holders(E)
    OBVIOUS
  <1>2. ASSUME NEW e \in E, e[2] \in H \cup {c} PROVE e[1] \in H \cup {c}
    <2>1. e[2] \in S /\ e[2] \in Colls
      BY <1>2 DEF Holders, Links
    <2>2. e[1] \in S /\ e[1] \in Holders(E)
      BY <2>1 DEF UpClosed, Holders
    <2> QED BY <2>2
  <1>3. UpClosed(E, H \cup {c})
    BY <1>2 DEF UpClosed
  <1>4. \A a \in Above(E, c) : a \in H \cup {c}
    BY <1>1, <1>3 DEF Above
  <1> QED BY <1>4

LEMMA AboveUp ==
  ASSUME NEW E \in Links, NEW c \in Colls
  PROVE  Above(E, c) \in SUBSET Colls /\ UpClosed(E, Above(E, c))
  BY AboveColls, AboveClosed DEF UpClosed, Links

LEMMA AboveTrans ==
  ASSUME NEW E \in Links, NEW c \in Colls, NEW a \in Above(E, c)
  PROVE  Above(E, a) \subseteq Above(E, c)
  BY AboveUp, AboveLeast

LEMMA AboveVia ==
  ASSUME NEW E \in Links, NEW e \in E, e[2] \in Colls
  PROVE  e[1] \in Above(E, e[2]) /\ Above(E, e[1]) \subseteq Above(E, e[2])
  <1>1. e[1] \in Above(E, e[2])
    BY AboveUp, AboveSelf DEF UpClosed
  <1> QED BY <1>1, AboveTrans

\* Links that do not lead to what is above c make no difference.
LEMMA SameAbove ==
  ASSUME NEW E \in Links, NEW F \in Links, NEW c \in Colls,
         \A e \in Colls \X Items : e[2] \in Above(E, c) => (e \in E <=> e \in F)
  PROVE  Above(F, c) = Above(E, c)
  <1>1. Above(F, c) \subseteq Above(E, c)
    <2>1. UpClosed(F, Above(E, c))
      BY AboveUp DEF UpClosed, Links
    <2> QED BY <2>1, AboveLeast, AboveSelf
  <1>2. Above(E, c) \subseteq Above(F, c)
    <2>1. UpClosed(E, Above(F, c))
      BY <1>1, AboveUp DEF UpClosed, Links
    <2> QED BY <2>1, AboveLeast, AboveSelf
  <1> QED BY <1>1, <1>2

\* With one parent each, what is above c is a chain.
LEMMA AboveParent ==
  ASSUME NEW E \in Links, SingleParent(E), NEW e \in E, e[2] \in Colls
  PROVE  Above(E, e[2]) \subseteq {e[2]} \cup Above(E, e[1])
  <1> DEFINE S == {e[2]} \cup Above(E, e[1])
  <1>1. e[1] \in Colls
    BY DEF Links
  <1>2. ASSUME NEW f \in E, f[2] \in S PROVE f[1] \in S
    <2>1. CASE f[2] = e[2]
      BY <2>1, AboveSelf DEF SingleParent
    <2>2. CASE f[2] \in Above(E, e[1])
      BY <1>1, <2>2, AboveUp DEF UpClosed
    <2> QED BY <1>2, <2>1, <2>2
  <1>3. UpClosed(E, S) /\ e[2] \in S
    BY <1>2 DEF UpClosed
  <1> HIDE DEF S
  <1>4. Above(E, e[2]) \subseteq S
    BY <1>3, AboveLeast
  <1> QED BY <1>4 DEF S

LEMMA AboveChain ==
  ASSUME NEW E \in Links, SingleParent(E), NEW c \in Colls,
         NEW a \in Above(E, c), NEW b \in Above(E, c)
  PROVE  a \in Above(E, b) \/ b \in Above(E, a)
  <1> DEFINE S == {x \in Above(E, c) : a \in Above(E, x) \/ x \in Above(E, a)}
  <1>1. a \in Colls /\ b \in Colls
    BY AboveUp
  <1>2. c \in S
    BY AboveSelf
  <1>3. ASSUME NEW e \in E, e[2] \in S PROVE e[1] \in S
    <2>1. e[2] \in Colls /\ e[1] \in Above(E, c)
      BY <1>3, AboveUp DEF UpClosed
    <2>2. CASE e[2] \in Above(E, a)
      BY <1>1, <2>1, <2>2, AboveUp DEF UpClosed
    <2>3. CASE a \in Above(E, e[2])
      <3>1. a = e[2] \/ a \in Above(E, e[1])
        BY <2>1, <2>3, AboveParent
      <3>2. CASE a = e[2]
        BY <1>3, <2>1, <3>2, AboveVia
      <3> QED BY <2>1, <3>1, <3>2
    <2> QED BY <1>3, <2>2, <2>3
  <1>4. UpClosed(E, S)
    BY <1>3 DEF UpClosed
  <1> HIDE DEF S
  <1>5. b \in S
    BY <1>2, <1>4, AboveLeast
  <1> QED BY <1>5 DEF S

-----------------------------------------------------------------------------
\* Links from what has no tags give no tags.
LEMMA ContextVia ==
  ASSUME NEW E \in Links, NEW top, NEW c \in Colls, NEW a \in Above(E, c)
  PROVE  Names(top[a]) \subseteq Context(E, top, c) /\ Context(E, top, a) \subseteq Context(E, top, c)
  BY AboveTrans DEF Context

LEMMA ContextKept ==
  ASSUME NEW E \in Links, NEW F \in Links, NEW top, NEW c \in Colls,
         \A e \in E \ F : e[2] \in Colls => Context(E, top, e[1]) = {}
  PROVE  Context(E, top, c) \subseteq Context(F, top, c)
  <1> DEFINE S == Above(F, c) \cup {a \in Colls : Context(E, top, a) = {}}
  <1>1. ASSUME NEW e \in E, e[2] \in S PROVE e[1] \in S
    <2>0. e \in Colls \X Items /\ e[1] \in Colls
      BY DEF Links
    <2>1. e[2] \in Colls
      BY <1>1, AboveUp
    <2>2. CASE Context(E, top, e[2]) = {}
      <3>1. Context(E, top, e[1]) = {}
        BY <2>1, <2>2, AboveVia, ContextVia
      <3> QED BY <2>0, <3>1
    <2>3. CASE e \in F /\ e[2] \in Above(F, c)
      BY <2>3, AboveUp DEF UpClosed
    <2>4. CASE e \notin F
      BY <2>0, <2>1, <2>4
    <2> QED BY <1>1, <2>2, <2>3, <2>4
  <1>2. UpClosed(E, S) /\ c \in S
    BY <1>1, AboveSelf DEF UpClosed
  <1> HIDE DEF S
  <1>3. Above(E, c) \subseteq S
    BY <1>2, AboveLeast
  <1>4. ASSUME NEW a \in Above(E, c) PROVE Names(top[a]) \subseteq Context(F, top, c)
    <2>1. a \in Above(F, c) \/ Context(E, top, a) = {}
      BY <1>3 DEF S
    <2>2. CASE Context(E, top, a) = {}
      BY <2>2, AboveSelf DEF Context
    <2>3. CASE a \in Above(F, c)
      BY <2>3 DEF Context
    <2> QED BY <2>1, <2>2, <2>3
  <1> QED BY <1>4 DEF Context

LEMMA PlainLinks ==
  ASSUME NEW E \in Links, NEW F \in Links, NEW top,
         \A e \in E \ F : Context(E, top, e[1]) = {},
         \A e \in F \ E : Context(F, top, e[1]) = {}
  PROVE  \A r \in Recs : TagsOf(F, top, r) = TagsOf(E, top, r)
  <1>1. ASSUME NEW c \in Colls PROVE Context(F, top, c) = Context(E, top, c)
    <2>1. Context(E, top, c) \subseteq Context(F, top, c)
      BY ContextKept
    <2>2. Context(F, top, c) \subseteq Context(E, top, c)
      BY ContextKept
    <2> QED BY <2>1, <2>2
  <1>2. ASSUME NEW r \in Recs, NEW c \in ParentsIn(E, r)
        PROVE  Context(E, top, c) \subseteq TagsOf(F, top, r)
    <2>1. <<c, r>> \in E /\ c \in Colls
      BY DEF ParentsIn
    <2>2. CASE <<c, r>> \in F
      BY <1>1, <2>1, <2>2 DEF TagsOf, ParentsIn
    <2>3. CASE <<c, r>> \notin F
      BY <2>1, <2>3
    <2> QED BY <2>2, <2>3
  <1>3. ASSUME NEW r \in Recs, NEW c \in ParentsIn(F, r)
        PROVE  Context(F, top, c) \subseteq TagsOf(E, top, r)
    <2>1. <<c, r>> \in F /\ c \in Colls
      BY DEF ParentsIn
    <2>2. CASE <<c, r>> \in E
      BY <1>1, <2>1, <2>2 DEF TagsOf, ParentsIn
    <2>3. CASE <<c, r>> \notin E
      BY <2>1, <2>3
    <2> QED BY <2>2, <2>3
  <1> QED BY <1>2, <1>3 DEF TagsOf

\* Only x gets other links or another topic: what x is not above keeps its tags.
DiffersAt(E, F, x) == \A e \in Colls \X Items : e[2] # x => (e \in E <=> e \in F)

LEMMA ContextElse ==
  ASSUME NEW E \in Links, NEW F \in Links, NEW x, DiffersAt(E, F, x), NEW c \in Colls,
         x \notin Above(E, c), NEW top, NEW pot, \A a \in Colls \ {x} : pot[a] = top[a]
  PROVE  Context(F, pot, c) = Context(E, top, c) /\ x \notin Above(F, c)
  <1>1. Above(F, c) = Above(E, c)
    BY SameAbove DEF DiffersAt
  <1>2. \A a \in Above(E, c) : pot[a] = top[a]
    BY AboveUp
  <1> QED BY <1>1, <1>2 DEF Context

LEMMA TagsElse ==
  ASSUME NEW E \in Links, NEW F \in Links, NEW x, DiffersAt(E, F, x), NEW r \in Recs, r # x,
         \A c \in ParentsIn(E, r) : x \notin Above(E, c),
         NEW top, NEW pot, \A a \in Colls \ {x} : pot[a] = top[a]
  PROVE  TagsOf(F, pot, r) = TagsOf(E, top, r)
  <1>1. ParentsIn(F, r) = ParentsIn(E, r)
    BY DEF ParentsIn, DiffersAt, Items
  <1>2. \A c \in ParentsIn(E, r) : Context(F, pot, c) = Context(E, top, c)
    BY ContextElse DEF ParentsIn
  <1> QED BY <1>1, <1>2 DEF TagsOf

\* What is refreshed below x is right, when it was right and only x has changed.
LEMMA RefreshedRight ==
  ASSUME item \in Links, NEW F \in Links, NEW x, DiffersAt(item, F, x),
         NEW pot, \A a \in Colls \ {x} : pot[a] = topic[a],
         NEW r \in Recs, catTags[r] = TagsOf(item, topic, r)
  PROVE  Refreshed(F, pot, x)[r] = TagsOf(F, pot, r)
  <1>1. CASE r = x \/ \E c \in ParentsIn(F, r) : x \in Above(F, c)
    BY <1>1 DEF Refreshed
  <1>2. CASE ~(r = x \/ \E c \in ParentsIn(F, r) : x \in Above(F, c))
    <2>1. DiffersAt(F, item, x)
      BY DEF DiffersAt
    <2>2. TagsOf(item, topic, r) = TagsOf(F, pot, r)
      BY <1>2, <2>1, TagsElse
    <2> QED BY <1>2, <2>2 DEF Refreshed
  <1> QED BY <1>1, <1>2

-----------------------------------------------------------------------------
\* The invariant of CleanSpec.  Roots have no topic; one deletion waits at a time,
\* and what is about to go is unlinked, holds no collection that is not to go, has
\* no topic, and is nobody's only parent.
RootsPlain == \A r \in Roots : topic[r] = NoTopic
Gone(t) == del[t].colls \cup del[t].recs
AboutToGo(t) ==
  /\ ~del[t].twice /\ Gone(t) \subseteq Live
  /\ \A e \in item : e[2] \notin Gone(t)
  /\ \A e \in item : e[1] \in del[t].colls => e[2] \in Recs
  /\ \A c \in del[t].colls : topic[c] = NoTopic
  /\ \A x \in Live \ (Roots \cup Gone(t)) : \E c \in ParentsIn(item, x) : c \notin Gone(t)
OnePending == \A t, u \in Tasks : del[t] # None /\ del[u] # None => t = u
Linked == \A x \in Live \ Roots : ParentsIn(item, x) # {}
Pending == /\ OnePending
           /\ Quiet => Linked
           /\ \A t \in Tasks : del[t] # None => AboutToGo(t)
CInv == IInv /\ RootsPlain /\ PublicExact /\ Pending

LEMMA PendingHasParent == IInv /\ Pending => HasParent
  <1> SUFFICES ASSUME IInv, Pending, NEW x \in Live \ Roots, ParentsIn(item, x) = {}
               PROVE  \E t \in Tasks : del[t] # None /\ x \in Gone(t)
    BY DEF HasParent, Gone
  <1>1. PICK t \in Tasks : del[t] # None
    BY DEF Pending, Linked, Quiet
  <1>2. AboutToGo(t)
    BY <1>1 DEF Pending
  <1> QED BY <1>1, <1>2 DEF AboutToGo

\* What the steps use of the other invariants.
LEMMA Facts ==
  ASSUME IInv
  PROVE  /\ item \in Links /\ SingleParent(item)
         /\ \A e \in item : /\ e \in Colls \X Items /\ e[1] \in Live /\ e[2] \in Live
                            /\ e[2] \notin Roots
         /\ \A x \in Live : owner[x] \in Roots /\ owner[x] \in Colls
         /\ Roots \subseteq Live /\ \A x \in unborn : x \notin Live /\ x \notin Roots
         /\ Colls \cap Recs = {}
  <1>1. item \in Links
    BY DEF IInv, CatalogTypeOK, Links
  <1>2. \A e \in item : e[1] \in Live /\ e[2] \in Live
    BY <1>1 DEF IInv, Forest, SameOwner, Live, Links, Items
  <1>3. \A x \in Live : owner[x] \in Roots /\ owner[x] \in Colls
    BY CatalogAssumption DEF Live, IInv, CatalogTypeOK
  <1>4. Roots \subseteq Live
    BY CatalogAssumption DEF Live, Items, IInv, Forest0, RootsStay
  <1>5. \A x \in unborn : x \notin Live /\ x \notin Roots
    BY DEF IInv, Forest0, UnbornDead, Live
  <1> QED BY <1>1, <1>2, <1>3, <1>4, <1>5, CatalogAssumption
          DEF IInv, Forest, OneParent, SingleParent, RootsUnlinked, Links

\* Roots give no tags, whatever is linked below them.
LEMMA RootContext ==
  ASSUME NEW E \in Links, NEW r \in Roots, \A e \in E : e[2] # r, NEW top, top[r] = NoTopic
  PROVE  Context(E, top, r) = {}
  <1>1. r \in Colls
    BY CatalogAssumption
  <1>2. Above(E, r) = {r}
    BY <1>1, AboveRoot DEF Links
  <1>3. Names(NoTopic) = {}
    BY DEF Names, NoTopic
  <1> QED BY <1>2, <1>3 DEF Context

\* When no deletion waits and none is asked for, nothing is about to go.
LEMMA QuietPending ==
  ASSUME Quiet, del' = del, Linked'
  PROVE  Pending'
  BY DEF Quiet, Pending, OnePending

LEMMA CreateCollClean ==
  ASSUME CInv, Quiet, NEW c \in Colls, NEW p \in Colls, NEW top \in Topics \cup {NoTopic},
         CreateColl(c, p, top)
  PROVE  (RootsPlain /\ PublicExact /\ Pending)'
  <1> USE DEF CInv
  <1> DEFINE F == item \cup {<<p, c>>}
  <1>1. /\ c \in unborn /\ p \in Live /\ item' = F /\ owner' = [owner EXCEPT ![c] = owner[p]]
        /\ topic' = [topic EXCEPT ![c] = top] /\ UNCHANGED <<catTags, del>>
    BY DEF CreateColl, Link
  <1>2. /\ owner \in [Items -> Roots \cup {None}] /\ topic \in [Colls -> Topics \cup {NoTopic}]
    BY DEF IInv, CatalogTypeOK
  <1>3. c \in Items /\ owner[p] # None /\ c \notin Live /\ c \notin Roots /\ c \notin Recs
    BY <1>1, Facts DEF Items, Live
  <1>4. Live' = Live \cup {c}
    BY <1>1, <1>2, <1>3 DEF Live
  <1>5. RootsPlain'
    BY <1>1, <1>2, <1>3, CatalogAssumption DEF RootsPlain
  <1>6. F \in Links /\ DiffersAt(item, F, c)
    BY <1>3, Facts DEF Links, DiffersAt
  <1>7. ASSUME NEW r \in Recs, r \in Live' PROVE catTags'[r] = TagsOf(item', topic', r)
    <2>1. r \in Live /\ catTags[r] = TagsOf(item, topic, r) /\ r # c
      BY <1>3, <1>4, <1>7 DEF PublicExact
    <2>2. ASSUME NEW d \in ParentsIn(item, r) PROVE c \notin Above(item, d)
      <3>1. c \notin Holders(item)
        BY <1>3, Facts DEF Holders
      <3>2. d # c
        BY <1>3, Facts DEF ParentsIn
      <3> QED BY <3>1, <3>2 DEF Above
    <2>3. \A a \in Colls \ {c} : topic'[a] = topic[a]
      BY <1>1, <1>2
    <2>4. TagsOf(F, topic', r) = TagsOf(item, topic, r)
      BY <1>6, <2>1, <2>2, <2>3, Facts, TagsElse
    <2> QED BY <1>1, <2>1, <2>4
  <1>8. PublicExact'
    BY <1>7 DEF PublicExact
  <1>9. Linked'
    <2> SUFFICES ASSUME NEW x \in Live', x \notin Roots PROVE ParentsIn(F, x) # {}
      BY <1>1 DEF Linked
    <2>1. CASE x = c
      BY <2>1 DEF ParentsIn
    <2>2. CASE x \in Live
      BY <2>2 DEF Pending, Linked, ParentsIn
    <2> QED BY <1>4, <2>1, <2>2
  <1> QED BY <1>1, <1>5, <1>8, <1>9, QuietPending

LEMMA CreateRecordClean ==
  ASSUME CInv, Quiet, NEW r \in Recs, NEW p \in Colls, CreateRecord(r, p)
  PROVE  (RootsPlain /\ PublicExact /\ Pending)'
  <1> USE DEF CInv
  <1> DEFINE F == item \cup {<<p, r>>}
  <1>1. /\ r \in unborn /\ p \in Live /\ item' = F /\ owner' = [owner EXCEPT ![r] = owner[p]]
        /\ catTags' = [catTags EXCEPT ![r] = Context(item, topic, p)]
        /\ UNCHANGED <<topic, del>>
    BY DEF CreateRecord, Link, topicVars
  <1>2. owner \in [Items -> Roots \cup {None}] /\ catTags \in [Recs -> SUBSET AllTags]
    BY DEF IInv, CatalogTypeOK
  <1>3. r \in Items /\ owner[p] # None /\ r \notin Live /\ r \notin Colls
    BY <1>1, Facts DEF Items, Live
  <1>4. Live' = Live \cup {r}
    BY <1>1, <1>2, <1>3 DEF Live
  <1>5. RootsPlain'
    BY <1>1 DEF RootsPlain
  <1>6. F \in Links /\ DiffersAt(item, F, r)
    BY <1>3, Facts DEF Links, DiffersAt
  <1>7. \A d \in Colls : Context(F, topic, d) = Context(item, topic, d)
    <2>1. \A d \in Colls : r \notin Above(item, d)
      BY <1>3, Facts, AboveUp
    <2> QED BY <1>6, <2>1, Facts, ContextElse
  <1>8. ASSUME NEW q \in Recs, q \in Live' PROVE catTags'[q] = TagsOf(item', topic', q)
    <2>1. CASE q = r
      <3>1. ParentsIn(F, r) = {p}
        BY <1>3, Facts DEF ParentsIn
      <3> QED BY <1>1, <1>2, <1>7, <2>1, <3>1 DEF TagsOf
    <2>2. CASE q # r
      <3>1. catTags'[q] = TagsOf(item, topic, q)
        BY <1>1, <1>2, <1>4, <1>8, <2>2 DEF PublicExact
      <3>2. ParentsIn(F, q) = ParentsIn(item, q)
        BY <2>2 DEF ParentsIn
      <3> QED BY <1>1, <1>7, <3>1, <3>2 DEF TagsOf, ParentsIn
    <2> QED BY <2>1, <2>2
  <1>9. PublicExact'
    BY <1>8 DEF PublicExact
  <1>10. Linked'
    <2> SUFFICES ASSUME NEW x \in Live', x \notin Roots PROVE ParentsIn(F, x) # {}
      BY <1>1 DEF Linked
    <2>1. CASE x = r
      BY <2>1 DEF ParentsIn
    <2>2. CASE x \in Live
      BY <2>2 DEF Pending, Linked, ParentsIn
    <2> QED BY <1>4, <2>1, <2>2
  <1> QED BY <1>1, <1>5, <1>9, <1>10, QuietPending

LEMMA SetTopicClean ==
  ASSUME CInv, Quiet, NEW c \in Colls \ Roots, NEW top \in Topics \cup {NoTopic}, SetTopic(c, top)
  PROVE  (RootsPlain /\ PublicExact /\ Pending)'
  <1> USE DEF CInv
  <1>1. /\ topic' = [topic EXCEPT ![c] = top] /\ catTags' = Refreshed(item, topic', c)
        /\ UNCHANGED <<owner, item, del>>
    BY DEF SetTopic, linkVars
  <1>2. \A a \in Colls \ {c} : topic'[a] = topic[a]
    BY <1>1 DEF IInv, CatalogTypeOK
  <1>3. RootsPlain'
    BY <1>2, CatalogAssumption DEF RootsPlain
  <1>4. DiffersAt(item, item, c)
    BY DEF DiffersAt
  <1>5. \A r \in Recs \cap Live : catTags[r] = TagsOf(item, topic, r)
    BY DEF PublicExact
  <1>6. ASSUME NEW r \in Recs \cap Live PROVE catTags'[r] = TagsOf(item, topic', r)
    <2>1. Refreshed(item, topic', c)[r] = TagsOf(item, topic', r)
      BY <1>2, <1>4, <1>5, Facts, RefreshedRight
    <2> QED BY <1>1, <2>1
  <1>7. PublicExact'
    BY <1>1, <1>6 DEF PublicExact, Live
  <1>8. Linked'
    BY <1>1 DEF Pending, Linked, Live
  <1> QED BY <1>1, <1>3, <1>7, <1>8, QuietPending

\* Links to x that change while nothing else does, and what becomes of the tags.
LEMMA LinksClean ==
  ASSUME CInv, Quiet, NEW F \in Links, NEW x \in Items, DiffersAt(item, F, x),
         x \in Live \ Roots => ParentsIn(F, x) # {},
         item' = F, UNCHANGED <<owner, topic, del>>,
         \A r \in Recs \cap Live : catTags'[r] = TagsOf(F, topic, r)
  PROVE  (RootsPlain /\ PublicExact /\ Pending)'
  <1> USE DEF CInv
  <1>1. ASSUME NEW y \in Live \ Roots PROVE ParentsIn(F, y) # {}
    <2>1. CASE y = x
      BY <2>1
    <2>2. CASE y # x
      <3>1. ParentsIn(F, y) = ParentsIn(item, y)
        BY <2>2 DEF DiffersAt, ParentsIn, Live
      <3> QED BY <3>1 DEF Pending, Linked
    <2> QED BY <2>1, <2>2
  <1>2. Linked'
    BY <1>1 DEF Linked, Live
  <1>3. RootsPlain' /\ PublicExact'
    BY DEF RootsPlain, PublicExact, Live
  <1> QED BY <1>2, <1>3, QuietPending

\* The tags stay right when links change that give none.
LEMMA PlainChange ==
  ASSUME CInv, NEW F \in Links,
         \A e \in item \ F : Context(item, topic, e[1]) = {},
         \A e \in F \ item : Context(F, topic, e[1]) = {}
  PROVE  \A r \in Recs \cap Live : catTags[r] = TagsOf(F, topic, r)
  <1>1. \A r \in Recs : TagsOf(F, topic, r) = TagsOf(item, topic, r)
    BY Facts, PlainLinks DEF CInv
  <1> QED BY <1>1 DEF CInv, PublicExact

\* and when what is below x is refreshed.
LEMMA FreshChange ==
  ASSUME CInv, NEW F \in Links, NEW x, DiffersAt(item, F, x), NEW r \in Recs \cap Live
  PROVE  Refreshed(F, topic, x)[r] = TagsOf(F, topic, r)
  <1>1. catTags[r] = TagsOf(item, topic, r)
    BY DEF CInv, PublicExact
  <1> QED BY <1>1, Facts, RefreshedRight DEF CInv

\* A collection that x is not above has the tags it had.
LEMMA LinkContext ==
  ASSUME CInv, NEW F \in Links, NEW x, DiffersAt(item, F, x), NEW c \in Colls,
         x \in Colls => x \notin Above(item, c)
  PROVE  Context(F, topic, c) = Context(item, topic, c)
  <1>1. x \notin Above(item, c)
    BY Facts, AboveUp DEF CInv
  <1> QED BY <1>1, Facts, ContextElse DEF CInv

LEMMA RemoveClean ==
  ASSUME CInv, Quiet, NEW c \in Colls, NEW x \in Items, CleanRemove(c, x), Remove(c, x)
  PROVE  (RootsPlain /\ PublicExact /\ Pending)'
  <1> USE DEF CInv
  <1> DEFINE left == item \ {<<c, x>>}
             root == owner[c]
             loose == ParentsIn(left, x) = {}
             F == IF loose THEN left \cup {<<root, x>>} ELSE left
             pub == Context(item, topic, c) # {}
  <1>1. /\ c \in Live /\ <<c, x>> \in item /\ item' = F /\ UNCHANGED <<owner, topic, del>>
        /\ catTags' = CASE ~pub -> catTags
                        [] pub /\ x \in Recs -> [catTags EXCEPT ![x] = {}]
                        [] OTHER -> Refreshed(left, topic, x)
    BY DEF Remove, topicVars
  <1>2. /\ root \in Roots /\ root \in Colls /\ x \in Live \ Roots
        /\ \A e \in F : e[2] \notin Roots
    BY <1>1, Facts
  <1>3. left \in Links /\ F \in Links /\ DiffersAt(item, F, x) /\ DiffersAt(item, left, x)
    BY <1>2, Facts DEF Links, DiffersAt
  <1>4. ParentsIn(F, x) # {}
    <2>1. CASE loose
      BY <1>2, <2>1 DEF ParentsIn
    <2> QED BY <2>1
  <1>5. Context(F, topic, root) = {}
    <2>1. topic[root] = NoTopic /\ \A e \in F : e[2] # root
      BY <1>2 DEF RootsPlain
    <2> HIDE DEF F
    <2> QED BY <1>2, <1>3, <2>1, RootContext
  <1>6. \A e \in F \ left : e[1] = root
    OBVIOUS
  <1>7. left \subseteq F /\ left \subseteq item /\ item \ F \subseteq {<<c, x>>} /\ F \ item \subseteq F \ left
    OBVIOUS
  <1>8. ASSUME NEW r \in Recs \cap Live PROVE catTags'[r] = TagsOf(F, topic, r)
    <2>1. CASE ~pub
      <3>1. /\ \A e \in item \ F : Context(item, topic, e[1]) = {}
            /\ \A e \in F \ item : Context(F, topic, e[1]) = {}
        <4> HIDE DEF F, left, root
        <4> QED BY <1>5, <1>6, <1>7, <2>1
      <3> HIDE DEF F
      <3>2. catTags[r] = TagsOf(F, topic, r)
        BY <1>3, <3>1, PlainChange
      <3> QED BY <1>1, <2>1, <3>2
    <2>2. CASE pub
      <3>1. TagsOf(F, topic, r) = TagsOf(left, topic, r)
        <4>1. \A e \in left \ F : Context(left, topic, e[1]) = {}
          BY <1>7
        <4>2. \A e \in F \ left : Context(F, topic, e[1]) = {}
          BY <1>5, <1>6
        <4> HIDE DEF F, left
        <4> QED BY <1>3, <4>1, <4>2, PlainLinks
      <3>2. Refreshed(left, topic, x)[r] = TagsOf(left, topic, r)
        <4> HIDE DEF left
        <4> QED BY <1>3, FreshChange
      <3>3. CASE x \notin Recs
        BY <1>1, <2>2, <3>1, <3>2, <3>3
      <3>4. CASE x \in Recs
        <4>1. catTags' = [catTags EXCEPT ![x] = {}]
          BY <1>1, <2>2, <3>4
        <4>2. CASE r # x
          <5>1. x \notin Colls
            BY <3>4, Facts
          <5>2. \A d \in ParentsIn(left, r) : x \notin Above(left, d)
            <6> HIDE DEF left
            <6> QED BY <1>3, <5>1, AboveUp DEF ParentsIn
          <5>3. Refreshed(left, topic, x)[r] = catTags[r]
            <6>1. ~\E d \in ParentsIn(left, r) : x \in Above(left, d)
              BY <5>2
            <6> QED BY <4>2, <6>1 DEF Refreshed
          <5>4. catTags'[r] = catTags[r]
            BY <4>1, <4>2 DEF IInv, CatalogTypeOK
          <5> QED BY <3>1, <3>2, <5>3, <5>4
        <4>3. CASE r = x
          <5>1. ASSUME NEW d \in ParentsIn(left, x) PROVE Context(left, topic, d) = {}
            <6>1. d \in ParentsIn(item, x) \ {c} /\ d \in Colls
              BY DEF ParentsIn
            <6>2. Context(item, topic, d) = {}
              BY <2>2, <3>4, <6>1 DEF CleanRemove, Public
            <6>3. Context(left, topic, d) \subseteq Context(item, topic, d)
              <7>1. \A e \in left \ item : e[2] \in Colls => Context(left, topic, e[1]) = {}
                BY <1>7
              <7> HIDE DEF left
              <7> QED BY <1>3, <6>1, <7>1, Facts, ContextKept
            <6> QED BY <6>2, <6>3
          <5>2. TagsOf(left, topic, x) = {}
            BY <5>1 DEF TagsOf
          <5>3. catTags'[x] = {}
            BY <3>4, <4>1 DEF IInv, CatalogTypeOK
          <5> QED BY <3>1, <4>3, <5>2, <5>3
        <4> QED BY <4>2, <4>3
      <3> QED BY <3>3, <3>4
    <2> QED BY <2>1, <2>2
  <1> HIDE DEF F
  <1> QED BY <1>1, <1>3, <1>4, <1>8, LinksClean

LEMMA AddClean ==
  ASSUME CInv, Quiet, NEW c \in Colls, NEW x \in Items, CleanAdd(c, x), Add(c, x)
  PROVE  (RootsPlain /\ PublicExact /\ Pending)'
  <1> USE DEF CInv
  <1> DEFINE F == (IF x \in Colls THEN Unlinked(item, {x}) ELSE item) \cup {<<c, x>>}
  <1>1. /\ MayLink(c, x) /\ item' = F /\ UNCHANGED <<owner, topic, del>>
        /\ catTags' = IF Context(item, topic, c) # {} THEN Refreshed(F, topic, x) ELSE catTags
    BY DEF Add, topicVars
  <1>2. F \in Links /\ DiffersAt(item, F, x) /\ ParentsIn(F, x) # {}
    BY Facts DEF Links, DiffersAt, Unlinked, ParentsIn
  <1>3. /\ \A e \in F \ item : e[1] = c
        /\ \A e \in item \ F : x \in Colls /\ e[1] \in ParentsIn(item, x)
    BY Facts DEF Unlinked, ParentsIn
  <1> HIDE DEF F
  <1>4. ASSUME NEW r \in Recs \cap Live PROVE catTags'[r] = TagsOf(F, topic, r)
    <2>1. CASE Public(c)
      BY <1>1, <1>2, <2>1, FreshChange DEF Public
    <2>2. CASE ~Public(c)
      <3>1. Context(F, topic, c) = {}
        BY <1>1, <1>2, <2>2, LinkContext DEF MayLink, Public
      <3>2. \A e \in item \ F : Context(item, topic, e[1]) = {}
        BY <1>3, <2>2 DEF CleanAdd, Public
      <3>3. catTags[r] = TagsOf(F, topic, r)
        BY <1>2, <1>3, <3>1, <3>2, PlainChange
      <3> QED BY <1>1, <2>2, <3>3 DEF Public
    <2> QED BY <2>1, <2>2
  <1> QED BY <1>1, <1>2, <1>4, LinksClean

LEMMA MoveClean ==
  ASSUME CInv, Quiet, NEW src \in Colls, NEW dst \in Colls, NEW x \in Items, Move(src, dst, x)
  PROVE  (RootsPlain /\ PublicExact /\ Pending)'
  <1> USE DEF CInv
  <1> DEFINE F == (item \ {<<src, x>>}) \cup {<<dst, x>>}
  <1>1. /\ MayLink(dst, x) /\ item' = F /\ UNCHANGED <<owner, topic, del>>
        /\ catTags' = IF Context(item, topic, src) \cup Context(item, topic, dst) # {}
                      THEN Refreshed(F, topic, x) ELSE catTags
    BY DEF Move, topicVars
  <1>2. F \in Links /\ DiffersAt(item, F, x) /\ ParentsIn(F, x) # {}
    BY Facts DEF Links, DiffersAt, ParentsIn
  <1>3. /\ \A e \in F \ item : e[1] = dst
        /\ \A e \in item \ F : e[1] = src
    OBVIOUS
  <1> HIDE DEF F
  <1>4. ASSUME NEW r \in Recs \cap Live PROVE catTags'[r] = TagsOf(F, topic, r)
    <2>1. CASE Context(item, topic, src) \cup Context(item, topic, dst) # {}
      BY <1>1, <1>2, <2>1, FreshChange
    <2>2. CASE Context(item, topic, src) \cup Context(item, topic, dst) = {}
      <3>1. Context(F, topic, dst) = {}
        BY <1>1, <1>2, <2>2, LinkContext DEF MayLink
      <3>2. catTags[r] = TagsOf(F, topic, r)
        BY <1>2, <1>3, <2>2, <3>1, PlainChange
      <3> QED BY <1>1, <2>2, <3>2
    <2> QED BY <2>1, <2>2
  <1> QED BY <1>1, <1>2, <1>4, LinksClean

LEMMA RequestOwnerChgClean ==
  ASSUME CInv, Quiet, NEW r \in Recs, NEW c \in Colls, RequestOwnerChg(r, c)
  PROVE  (RootsPlain /\ PublicExact /\ Pending)'
  <1>1. UNCHANGED <<owner, item, topic, catTags, del>>
    BY DEF RequestOwnerChg, linkVars, topicVars
  <1>2. Linked' /\ RootsPlain' /\ PublicExact'
    BY <1>1 DEF CInv, Pending, Linked, Live, RootsPlain, PublicExact
  <1> QED BY <1>1, <1>2, QuietPending

LEMMA FinishOwnerChgClean ==
  ASSUME CInv, Quiet, NEW r \in Recs, FinishOwnerChg(r),
         newColl[r] # None => catTags[r] = {} /\ ~Public(newColl[r])
  PROVE  (RootsPlain /\ PublicExact /\ Pending)'
  <1> USE DEF CInv
  <1> DEFINE c == newColl[r]
             F == Unlinked(item, {r}) \cup {<<c, r>>}
  <1>1. /\ c \in Colls /\ catTags[r] = {} /\ Context(item, topic, c) = {}
        /\ UNCHANGED <<topic, catTags, del>> /\ owner \in [Items -> Roots \cup {None}]
    BY DEF FinishOwnerChg, IInv, CatalogTypeOK, Public, topicVars
  <1>2. CASE c \notin Live
    <2>1. UNCHANGED <<owner, item>>
      BY <1>2 DEF FinishOwnerChg
    <2>2. Linked' /\ RootsPlain' /\ PublicExact'
      BY <1>1, <2>1 DEF Pending, Linked, Live, RootsPlain, PublicExact
    <2> QED BY <1>1, <2>2, QuietPending
  <1>3. CASE c \in Live
    <2>1. item' = F /\ owner' = [owner EXCEPT ![r] = owner[c]] /\ owner[c] # None
      BY <1>3 DEF FinishOwnerChg, Live
    <2>2. F \in Links /\ DiffersAt(item, F, r) /\ ParentsIn(F, r) = {c} /\ r \in Items /\ r \notin Colls
      BY <1>1, Facts DEF Links, DiffersAt, Unlinked, ParentsIn, Items
    <2>3. /\ \A e \in F \ item : e[1] = c
          /\ \A e \in item \ F : e[2] = r
      BY DEF Unlinked
    <2>4. Live' = Live \cup {r}
      BY <1>1, <2>1, <2>2 DEF Live
    <2> HIDE DEF F
    <2>5. Context(F, topic, c) = {}
      BY <1>1, <2>2, LinkContext
    <2>6. TagsOf(F, topic, r) = {}
      BY <2>2, <2>5 DEF TagsOf
    <2>7. TagsOf(item, topic, r) = {}
      <3>1. CASE r \in Live
        BY <1>1, <3>1 DEF PublicExact
      <3>2. CASE r \notin Live
        <4>1. ParentsIn(item, r) = {}
          BY <3>2, Facts DEF ParentsIn
        <4> QED BY <4>1 DEF TagsOf
      <3> QED BY <3>1, <3>2
    <2>8. \A e \in item \ F : Context(item, topic, e[1]) = {}
      <3> SUFFICES ASSUME NEW e \in item \ F PROVE Context(item, topic, e[1]) = {}
        OBVIOUS
      <3>1. e[1] \in ParentsIn(item, r)
        BY <2>3, Facts DEF ParentsIn
      <3> QED BY <2>7, <3>1 DEF TagsOf
    <2>9. \A q \in Recs \cap Live : catTags[q] = TagsOf(F, topic, q)
      BY <2>2, <2>3, <2>5, <2>8, PlainChange
    <2>10. PublicExact' /\ RootsPlain'
      BY <1>1, <2>1, <2>4, <2>6, <2>9 DEF PublicExact, RootsPlain
    <2>11. Linked'
      <3> SUFFICES ASSUME NEW x \in Live', x \notin Roots PROVE ParentsIn(F, x) # {}
        BY <2>1 DEF Linked
      <3>1. CASE x = r
        BY <2>2, <3>1
      <3>2. CASE x # r
        <4>1. x \in Live /\ ParentsIn(F, x) = ParentsIn(item, x)
          BY <2>2, <2>4, <3>2 DEF DiffersAt, ParentsIn, Live
        <4> QED BY <4>1 DEF Pending, Linked
      <3> QED BY <3>1, <3>2
    <2> QED BY <1>1, <2>10, <2>11, QuietPending
  <1> QED BY <1>2, <1>3

-----------------------------------------------------------------------------
\* Deletion.  Induction over numbers and subsets, by the least that is not in C.
LEMMA NatSets ==
  ASSUME NEW C, 0 \in C, \A n \in Nat : n \in C => n + 1 \in C
  PROVE  Nat \subseteq C
  <1> SUFFICES ASSUME Nat \ C # {} PROVE FALSE
    OBVIOUS
  <1>1. PICK n \in Nat \ C : \A m \in Nat \ C : ~(<<m, n>> \in OpToRel(<, Nat))
    BY NatLessThanWellFounded, WFMin
  <1>2. \A m \in Nat \ C : ~(m < n)
    BY <1>1 DEF OpToRel
  <1>3. n - 1 \in Nat /\ n - 1 \in C
    BY <1>2
  <1> QED BY <1>3

\* The collections that hold a record, each visited once, count it once each.
LEMMA CountOnce ==
  ASSUME NEW S, NEW r \in Recs, r \notin S, IsFiniteSet(ParentsIn(item, r)),
         \A c \in ParentsIn(item, r) : Visits(S, c) = 1
  PROVE  Count(S, r) = Cardinality(ParentsIn(item, r))
  <1> DEFINE here == ParentsIn(item, r)
             First(C) == CHOOSE c \in C : TRUE
             Step(g, C) == IF C = {} THEN 0 ELSE Visits(S, First(C)) + g[C \ {First(C)}]
             IsCount(g) == g = [C \in SUBSET here |-> Step(g, C)]
             v == CHOOSE g : IsCount(g)
  <1>1. Count(S, r) = v[here] + 0
    <2> HIDE DEF v
    <2>1. v = CHOOSE g : g = [C \in SUBSET here |->
                IF C = {} THEN 0
                ELSE LET c == CHOOSE c \in C : TRUE IN Visits(S, c) + g[C \ {c}]]
      BY DEF v
    <2> QED BY <2>1 DEF Count
  <1>2. \A C \in SUBSET here : IsFiniteSet(C) /\ Cardinality(C) \in Nat
    BY FS_Subset, FS_CardinalityType
  <1>3. ASSUME NEW C \in SUBSET here, C # {}
        PROVE  /\ First(C) \in C /\ C \ {First(C)} \in SUBSET here /\ Visits(S, First(C)) = 1
               /\ Cardinality(C) = 1 + Cardinality(C \ {First(C)})
    <2>1. First(C) \in C
      BY <1>3
    <2> HIDE DEF First
    <2>2. Cardinality(C \ {First(C)}) = Cardinality(C) - 1
      BY <1>2, <2>1, FS_RemoveElement
    <2> QED BY <1>2, <2>1, <2>2
  <1> HIDE DEF First
  <1>4. IsCount(v)
    <2> DEFINE g == [C \in SUBSET here |-> Cardinality(C)]
    <2>1. ASSUME NEW C \in SUBSET here PROVE g[C] = Step(g, C)
      <3>1. CASE C = {}
        BY <3>1, FS_EmptySet
      <3>2. CASE C # {}
        BY <1>3, <3>2
      <3> QED BY <3>1, <3>2
    <2>2. IsCount(g)
      BY <2>1
    <2> HIDE DEF g, IsCount
    <2> QED BY <2>2
  <1>5. \A C \in SUBSET here : v[C] = Step(v, C)
    BY <1>4
  <1> HIDE DEF v
  <1> DEFINE D == {n \in Nat : \A C \in SUBSET here : Cardinality(C) = n => v[C] = n}
  <1>6. 0 \in D
    BY <1>2, <1>5, FS_EmptySet
  <1>7. ASSUME NEW n \in Nat, n \in D PROVE n + 1 \in D
    <2> SUFFICES ASSUME NEW C \in SUBSET here, Cardinality(C) = n + 1 PROVE v[C] = n + 1
      OBVIOUS
    <2>1. C # {}
      BY FS_EmptySet
    <2>2. /\ C \ {First(C)} \in SUBSET here /\ Visits(S, First(C)) = 1
          /\ Cardinality(C \ {First(C)}) = n
      BY <1>2, <1>3, <2>1
    <2>3. v[C] = 1 + v[C \ {First(C)}] /\ v[C \ {First(C)}] = n
      BY <1>5, <1>7, <2>1, <2>2
    <2> QED BY <2>3
  <1> HIDE DEF D
  <1>8. Nat \subseteq D
    BY <1>6, <1>7, NatSets
  <1>9. v[here] = Cardinality(here)
    BY <1>2, <1>8 DEF D
  <1> QED BY <1>1, <1>2, <1>9

\* In a selection without overlaps each collection is visited at most once, from
\* the one selected collection at or above it, and what is below it is visited too.
LEMMA VisitedOnce ==
  ASSUME CInv, NEW S \in SUBSET Live, CleanSelection(S), NEW c \in Reached(S)
  PROVE  Visits(S, c) = 1
  <1>1. c \in Colls /\ Visits(S, c) > 0
    BY DEF Reached
  <1>2. Above(item, c) \in SUBSET Colls
    BY <1>1, Facts, AboveUp DEF CInv
  <1>3. S \cap Above(item, c) # {}
    BY <1>1, FS_EmptySet DEF Visits
  <1>4. PICK a : a \in S \cap Above(item, c)
    BY <1>3
  <1>5. ASSUME NEW b \in S \cap Above(item, c) PROVE b = a
    <2>1. a \in Above(item, b) \/ b \in Above(item, a)
      BY <1>1, <1>4, Facts, AboveChain DEF CInv
    <2> QED BY <1>2, <1>4, <2>1 DEF CleanSelection
  <1>6. S \cap Above(item, c) = {a}
    BY <1>4, <1>5
  <1> QED BY <1>6, FS_Singleton DEF Visits

LEMMA ReachedDown ==
  ASSUME CInv, NEW S \in SUBSET Live, NEW c \in Colls \cap Live,
         NEW a \in Above(item, c), a \in Reached(S)
  PROVE  c \in Reached(S)
  <1>1. a \in Colls /\ Above(item, a) \subseteq Above(item, c)
    BY Facts, AboveTrans DEF CInv, Reached
  <1>2. S \cap Above(item, a) # {}
    BY FS_EmptySet DEF Reached, Visits
  <1>3. IsFiniteSet(S \cap Above(item, c)) /\ S \cap Above(item, c) # {}
    <2>1. Above(item, c) \in SUBSET Colls
      BY Facts, AboveUp DEF CInv
    <2>2. S \cap Above(item, c) \in SUBSET Colls
      BY <2>1
    <2> QED BY <1>1, <1>2, <2>2, CatalogAssumption, FS_Subset
  <1>4. Cardinality(S \cap Above(item, c)) \in Nat /\ Cardinality(S \cap Above(item, c)) # 0
    BY <1>3, FS_CardinalityType, FS_EmptySet
  <1> QED BY <1>4 DEF Reached, Visits

\* What is asked for is about to go: it has no links any more, except to records
\* that are somewhere else too.
LEMMA RequestDeleteClean ==
  ASSUME CInv, Quiet, NEW t \in Tasks, NEW S \in SUBSET (Items \ Roots), CleanSelection(S),
         RequestDelete(t, S, S \cap Recs)
  PROVE  (RootsPlain /\ PublicExact /\ Pending)'
  <1> USE DEF CInv
  <1> DEFINE R == Reached(S)
             D == ToDelete(S, S \cap Recs)
             F == Unlinked(item, R \cup D)
  <1>1. /\ S \in SUBSET Live /\ R \in SUBSET (Colls \cap Live) /\ D \in SUBSET (Recs \cap Live)
        /\ \A r \in Recs : Met(S, r) => catTags[r] = {}
        /\ \A c \in R : topic[c] = NoTopic
        /\ \A r \in D : Met(S, r)
        /\ item' = F /\ UNCHANGED <<owner, topic, catTags>>
    BY DEF RequestDelete, Reached, ToDelete, topicVars
  <1>2. ~\E c \in R : Visits(S, c) > 1
    BY <1>1, VisitedOnce
  <1>3. del' = [del EXCEPT ![t] = [colls |-> R, recs |-> D, twice |-> \E c \in R : Visits(S, c) > 1]]
    BY DEF RequestDelete
  <1>4. del'[t] # None /\ del'[t].colls = R /\ del'[t].recs = D /\ ~del'[t].twice
    <2>1. del'[t].twice = (\E c \in R : Visits(S, c) > 1) /\ del'[t].colls = R /\ del'[t].recs = D
      BY <1>3 DEF IInv, CatalogTypeOK
    <2>2. del'[t].colls = R /\ del'[t].recs = D /\ ~del'[t].twice
      BY <1>2, <2>1
    <2>3. del'[t] # None
      <3>1. t \in DOMAIN del /\ R \in SUBSET Colls /\ D \in SUBSET Recs
        BY <1>1 DEF IInv, CatalogTypeOK
      <3> HIDE DEF R, D
      <3> DEFINE two == \E c \in R : Visits(S, c) > 1
                 entry == [colls |-> R, recs |-> D, twice |-> two]
      <3>2. two \in BOOLEAN
        BY Zenon
      <3>3. del'[t] = entry
        BY <1>3, <3>1
      <3> HIDE DEF two
      <3>4. entry \in [colls : SUBSET Colls, recs : SUBSET Recs, twice : BOOLEAN]
        BY <3>1, <3>2
      <3> QED BY <3>3, <3>4, NoneAssumption
    <2> QED BY <2>2, <2>3
  <1>5. \A u \in Tasks \ {t} : del'[u] = None
    BY <1>3 DEF Quiet, IInv, CatalogTypeOK
  <1>6. \A r \in Recs, c \in R : c \in ParentsIn(item, r) => Met(S, r)
    BY DEF Met
  <1> HIDE DEF R, D
  <1>7. \A e \in item : e[1] \in R /\ e[2] \in Colls => e[2] \in R
    <2> SUFFICES ASSUME NEW e \in item, e[1] \in R, e[2] \in Colls PROVE e[2] \in R
      OBVIOUS
    <2>1. e[2] \in Live /\ e[1] \in Above(item, e[2])
      BY Facts, AboveVia
    <2> QED BY <1>1, <2>1, ReachedDown DEF R
  <1>8. ASSUME NEW x \in Live \ (Roots \cup R \cup D) PROVE \E c \in ParentsIn(item, x) : c \notin R \cup D
    <2>1. ParentsIn(item, x) # {} /\ ParentsIn(item, x) \in SUBSET Colls
      BY DEF Pending, Linked, ParentsIn
    <2>2. \A c \in ParentsIn(item, x) : c \notin D
      BY <1>1, <2>1, Facts
    <2>3. CASE x \in Colls
      <3>1. PICK c \in Colls : <<c, x>> \in item
        BY <2>1 DEF ParentsIn
      <3>2. c \notin R
        BY <1>7, <1>8, <2>3, <3>1
      <3> QED BY <2>2, <3>1, <3>2 DEF ParentsIn
    <2>4. CASE x \in Recs /\ ParentsIn(item, x) \subseteq R
      <3>1. Met(S, x)
        BY <1>6, <2>1, <2>4
      <3>2. x \notin S
        BY <1>8, <2>4, <3>1 DEF D, ToDelete
      <3>3. IsFiniteSet(ParentsIn(item, x))
        BY <2>1, CatalogAssumption, FS_Subset
      <3>4. \A c \in ParentsIn(item, x) : Visits(S, c) = 1
        BY <1>1, <2>4, VisitedOnce DEF R
      <3>5. Count(S, x) = Cardinality(ParentsIn(item, x))
        BY <2>4, <3>2, <3>3, <3>4, CountOnce
      <3>6. x \in D
        BY <1>8, <2>4, <3>1, <3>5 DEF D, ToDelete
      <3> QED BY <1>8, <3>6
    <2> QED BY <2>2, <2>3, <2>4 DEF Live, Items
  <1>9. /\ F \in SUBSET item /\ F \in Links /\ \A e \in F : e[2] \notin R \cup D
        /\ \A x : x \notin R \cup D => ParentsIn(F, x) = ParentsIn(item, x)
    BY Facts DEF Unlinked, ParentsIn, Links
  <1>10. \A e \in item : e[2] \notin R \cup D => e \in F
    BY DEF Unlinked
  <1> HIDE DEF F
  <1>11. AboutToGo(t)'
    <2>1. \A e \in F : e[1] \in R => e[2] \in Recs
      <3> SUFFICES ASSUME NEW e \in F, e[1] \in R, e[2] \notin Recs PROVE FALSE
        OBVIOUS
      <3>1. e \in item /\ e[2] \in Colls
        BY <1>9, Facts DEF Links, Items
      <3> QED BY <1>7, <1>9, <3>1
    <2>2. \A x \in Live \ (Roots \cup R \cup D) : \E c \in ParentsIn(F, x) : c \notin R \cup D
      BY <1>8, <1>9
    <2>3. R \cup D \subseteq Live /\ Live' = Live
      BY <1>1 DEF Live
    <2> QED BY <1>1, <1>4, <1>9, <2>1, <2>2, <2>3 DEF AboutToGo, Gone
  <1>12. Pending'
    <2>1. \A u \in Tasks : del'[u] # None => u = t
      BY <1>5
    <2> QED BY <1>4, <1>11, <2>1 DEF Pending, OnePending, Quiet
  <1>13. ASSUME NEW d \in Colls \cap Live, d \notin R
         PROVE  Context(F, topic, d) = Context(item, topic, d)
    <2>1. Above(item, d) \in SUBSET Colls /\ \A a \in Above(item, d) : a \notin R
      BY <1>1, <1>13, Facts, AboveUp, ReachedDown DEF R
    <2>2. \A e \in Colls \X Items : e[2] \in Above(item, d) => (e \in item <=> e \in F)
      BY <1>1, <1>9, <1>10, <2>1, Facts
    <2>3. Above(F, d) = Above(item, d)
      BY <1>9, <2>2, Facts, SameAbove
    <2> QED BY <2>3 DEF Context
  <1>14. \A d \in Colls : Context(F, topic, d) \subseteq Context(item, topic, d)
    BY <1>9, Facts, ContextKept
  <1>15. ASSUME NEW r \in Recs \cap Live PROVE catTags[r] = TagsOf(F, topic, r)
    <2>1. catTags[r] = TagsOf(item, topic, r)
      BY DEF PublicExact
    <2>2. CASE r \in D
      <3>1. ParentsIn(F, r) = {}
        BY <1>9, <2>2 DEF ParentsIn
      <3>2. TagsOf(F, topic, r) = {}
        BY <3>1 DEF TagsOf
      <3> QED BY <1>1, <2>2, <3>2
    <2>3. CASE r \notin D
      <3>1. ParentsIn(F, r) = ParentsIn(item, r) /\ r \notin R
        BY <1>1, <1>9, <2>3, Facts
      <3>2. ASSUME NEW d \in ParentsIn(item, r)
            PROVE  Context(F, topic, d) = Context(item, topic, d)
        <4>1. d \in Colls \cap Live
          BY Facts DEF ParentsIn
        <4>2. CASE d \in R
          <5>1. catTags[r] = {}
            BY <1>1, <1>6, <4>2
          <5>2. Context(item, topic, d) = {}
            BY <2>1, <5>1 DEF TagsOf
          <5> QED BY <1>14, <4>1, <5>2
        <4> QED BY <1>13, <4>1, <4>2
      <3> QED BY <2>1, <3>1, <3>2 DEF TagsOf
    <2> QED BY <2>2, <2>3
  <1>16. RootsPlain' /\ PublicExact'
    BY <1>1, <1>15 DEF RootsPlain, PublicExact, Live
  <1> QED BY <1>12, <1>16

\* What goes leaves nothing without a parent, and takes no tags away.
LEMMA RunDeleteClean ==
  ASSUME CInv, NEW t \in Tasks, RunDelete(t)
  PROVE  (RootsPlain /\ PublicExact /\ Pending)'
  <1> USE DEF CInv
  <1> DEFINE C == del[t].colls
             gone == C \cup del[t].recs
             E == item'
             top == topic'
  <1>1. /\ AboutToGo(t) /\ del[t] # None /\ del' = [del EXCEPT ![t] = None]
        /\ C \in SUBSET Colls /\ del[t].recs \in SUBSET Recs
    BY DEF RunDelete, Pending, IInv, CatalogTypeOK
  <1>2. ~del[t].twice /\ gone \subseteq Live
    BY <1>1 DEF AboutToGo, Gone
  <1>3. /\ owner' = [x \in Items |-> IF x \in gone THEN None ELSE owner[x]]
        /\ item' = {e \in item : e[1] \notin gone /\ e[2] \notin gone}
        /\ topic' = [c \in Colls |-> IF c \in gone THEN NoTopic ELSE topic[c]]
        /\ catTags' = [r \in Recs |-> IF r \in gone THEN {} ELSE catTags[r]]
    BY <1>2, Zenon DEF RunDelete
  <1>4. \A c \in Colls : c \in gone <=> c \in C
    BY <1>1, CatalogAssumption
  <1>5. /\ \A e \in item : e[2] \notin gone
        /\ \A e \in item : e[1] \in C => e[2] \in Recs
        /\ \A c \in C : topic[c] = NoTopic
        /\ \A x \in Live \ (Roots \cup gone) : \E c \in ParentsIn(item, x) : c \notin gone
    BY <1>1 DEF AboutToGo, Gone
  <1> HIDE DEF C, gone
  <1>6. Live' = Live \ gone
    BY <1>3 DEF Live
  <1>7. Quiet'
    BY <1>1 DEF Quiet, Pending, OnePending, IInv, CatalogTypeOK
  <1>8. Linked'
    <2> SUFFICES ASSUME NEW x \in Live \ gone, x \notin Roots PROVE ParentsIn(E, x) # {}
      BY <1>6 DEF Linked
    <2>1. PICK c \in ParentsIn(item, x) : c \notin gone
      BY <1>5
    <2>2. c \in ParentsIn(E, x)
      BY <1>3, <2>1 DEF ParentsIn
    <2> QED BY <2>2
  <1>9. Pending'
    BY <1>7, <1>8 DEF Pending, OnePending, Quiet
  <1>10. E \in Links /\ E \in SUBSET item
    BY <1>3, Facts DEF Links
  <1>11. ASSUME NEW d \in Colls \ C PROVE Context(E, top, d) = Context(item, topic, d)
    <2>1. UpClosed(item, Colls \ C)
      BY <1>5, Facts DEF UpClosed
    <2>2. Above(item, d) \subseteq Colls \ C
      BY <1>11, <2>1, Facts, AboveLeast
    <2>3. \A e \in item : e[2] \in Above(item, d) => e[1] \in Above(item, d)
      BY <1>11, Facts, AboveUp DEF UpClosed
    <2>4. \A e \in Colls \X Items : e[2] \in Above(item, d) => (e \in item <=> e \in E)
      BY <1>3, <1>4, <1>10, <2>2, <2>3
    <2>5. Above(E, d) = Above(item, d)
      BY <1>10, <1>11, <2>4, Facts, SameAbove
    <2>6. \A a \in Above(item, d) : top[a] = topic[a]
      BY <1>3, <1>4, <2>2
    <2> HIDE DEF E, top
    <2> QED BY <2>5, <2>6 DEF Context
  <1>12. ASSUME NEW d \in C PROVE Context(item, topic, d) = {}
    <2>1. d \in Colls /\ \A e \in item : e[2] # d
      BY <1>1, <1>4, <1>5, <1>12
    <2>2. Above(item, d) = {d}
      BY <2>1, Facts, AboveRoot DEF Links
    <2>3. Names(NoTopic) = {}
      BY DEF Names, NoTopic
    <2> QED BY <1>5, <1>12, <2>2, <2>3 DEF Context
  <1>13. ASSUME NEW r \in Recs \cap Live, r \notin gone PROVE TagsOf(E, top, r) = TagsOf(item, topic, r)
    <2>1. ParentsIn(E, r) = ParentsIn(item, r) \ C
      BY <1>3, <1>4, <1>13 DEF ParentsIn
    <2>2. ParentsIn(item, r) \in SUBSET Colls
      BY DEF ParentsIn
    <2> HIDE DEF E, top
    <2>3. \A d \in ParentsIn(E, r) : Context(E, top, d) = Context(item, topic, d)
      BY <1>11, <2>1, <2>2
    <2>4. \A d \in ParentsIn(item, r) : d \in ParentsIn(E, r) \/ Context(item, topic, d) = {}
      BY <1>12, <2>1
    <2> QED BY <2>1, <2>3, <2>4 DEF TagsOf
  <1>14. \A r \in Recs \cap Live : r \notin gone => catTags'[r] = TagsOf(E, top, r)
    BY <1>3, <1>13 DEF PublicExact
  <1>15. RootsPlain' /\ PublicExact'
    <2>1. PublicExact'
      BY <1>6, <1>14 DEF PublicExact
    <2>2. RootsPlain'
      BY <1>3, CatalogAssumption DEF RootsPlain
    <2> QED BY <2>1, <2>2
  <1> QED BY <1>9, <1>15

\* Each step of CleanSpec keeps its invariant.
LEMMA CleanStep ==
  ASSUME CInv, [CleanNext]_vars
  PROVE  CInv'
  <1> DEFINE Right == RootsPlain /\ PublicExact /\ Pending
  <1>1. CASE UNCHANGED vars
    <2>1. Right'
      BY <1>1 DEF CInv, vars, linkVars, topicVars, RootsPlain, PublicExact, Live, Pending, OnePending,
                  Quiet, Linked, AboutToGo, Gone
    <2>2. IInv'
      BY <1>1, ForestStep DEF CInv
    <2> QED BY <2>1, <2>2 DEF CInv
  <1>2. ASSUME NEW c \in Colls, NEW p \in Colls, NEW top \in Topics \cup {NoTopic}, Quiet,
               CreateColl(c, p, top)
        PROVE  CInv'
    BY <1>2, CreateCollClean, CreateCollStep DEF CInv
  <1>3. ASSUME NEW r \in Recs, NEW p \in Colls, Quiet, CreateRecord(r, p) PROVE CInv'
    BY <1>3, CreateRecordClean, CreateRecordStep DEF CInv
  <1>4. ASSUME NEW c \in Colls \ Roots, NEW top \in Topics \cup {NoTopic}, Quiet, SetTopic(c, top)
        PROVE  CInv'
    BY <1>4, SetTopicClean, SetTopicStep DEF CInv
  <1>5. ASSUME NEW c \in Colls, NEW x \in Items, Quiet, CleanRemove(c, x), Remove(c, x) PROVE CInv'
    BY <1>5, RemoveClean, RemoveStep DEF CInv
  <1>6. ASSUME NEW c \in Colls, NEW x \in Items, Quiet, CleanAdd(c, x), Add(c, x) PROVE CInv'
    BY <1>6, AddClean, AddStep DEF CInv
  <1>7. ASSUME NEW src \in Colls, NEW dst \in Colls, NEW x \in Items, Quiet, Move(src, dst, x)
        PROVE  CInv'
    BY <1>7, MoveClean, MoveStep DEF CInv
  <1>8. ASSUME NEW r \in Recs, NEW c \in Colls, Quiet, RequestOwnerChg(r, c) PROVE CInv'
    BY <1>8, RequestOwnerChgClean, RequestOwnerChgStep DEF CInv
  <1>9. ASSUME NEW r \in Recs, Quiet, newColl[r] # None => catTags[r] = {} /\ ~Public(newColl[r]),
               FinishOwnerChg(r)
        PROVE  CInv'
    BY <1>9, FinishOwnerChgClean, FinishOwnerChgStep DEF CInv
  <1>10. ASSUME NEW t \in Tasks, NEW S \in SUBSET (Items \ Roots), Quiet, CleanSelection(S),
                RequestDelete(t, S, S \cap Recs)
         PROVE  CInv'
    <2>1. (RootsPlain /\ PublicExact /\ Pending)'
      BY <1>10, RequestDeleteClean
    <2>2. IInv'
      BY <1>10, RequestDeleteStep DEF CInv
    <2> QED BY <2>1, <2>2 DEF CInv
  <1>11. ASSUME NEW t \in Tasks, RunDelete(t) PROVE CInv'
    BY <1>11, RunDeleteClean, RunDeleteStep DEF CInv
  <1> QED BY <1>1, <1>2, <1>3, <1>4, <1>5, <1>6, <1>7, <1>8, <1>9, <1>10, <1>11 DEF CleanNext

LEMMA CleanInit == Init => CInv
  <1> SUFFICES ASSUME Init PROVE CInv
    OBVIOUS
  <1>1. Live = Roots /\ item = {} /\ \A t \in Tasks : del[t] = None
    BY CatalogAssumption DEF Init, Live, Items
  <1>2. Pending
    BY <1>1 DEF Pending, OnePending, Linked
  <1>3. RootsPlain /\ PublicExact
    BY <1>1, CatalogAssumption DEF Init, RootsPlain, PublicExact
  <1> QED BY <1>2, <1>3, ForestInit DEF CInv

\* Every record and collection has a parent, except what is about to be deleted
\* (rule 4 of /coll/write), as long as deletions do not overlap and nothing comes
\* between the request and the task: a record that loses all its collections is
\* counted out, each collection is visited once, and Remove links to the root.
THEOREM ParentsKept == CleanSpec => []HasParent
  <1>1. CInv => HasParent
    BY PendingHasParent DEF CInv
  <1> QED BY CleanInit, CleanStep, <1>1, PTL DEF CleanSpec

\* A record has the category tags of all the public collections above it, and is
\* public when there is one (catalogUpdateRecord, catalogUpdateColl in support.js),
\* without the requests that CleanSpec leaves out: the walk of each request reaches
\* every record whose tags it can change.
THEOREM PublicStaysExact == CleanSpec => []PublicExact
  <1>1. CInv => PublicExact
    BY DEF CInv
  <1> QED BY CleanInit, CleanStep, <1>1, PTL DEF CleanSpec
=============================================================================
