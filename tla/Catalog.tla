------------------------------- MODULE Catalog -------------------------------
(***************************************************************************)
(* Collections, the items linked to them, and the catalog of published     *)
(* data (core/database/foxx/api: coll_router.js, support.js; the creation  *)
(* of records in data_router.js; deletion and change of owner in tasks.js  *)
(* and process.js).  A collection with a topic is public, and so is every  *)
(* record below it; a record keeps the category tags it gets from all the  *)
(* public collections above it.                                            *)
(*                                                                         *)
(* A request is one transaction.  Whoever asks may ask for everything:     *)
(* permissions and quotas only refuse.  A list of items is a list of       *)
(* requests: the context of the collection that is changed is the same for *)
(* all of them, as none is above it.  A record is public exactly when it   *)
(* has category tags, as each place that sets one sets the other.          *)
(***************************************************************************)
EXTENDS Integers, Sequences, FiniteSets

CONSTANTS Colls, Recs,
          Roots,    \* root collections, one of each user or project
          Topics,   \* topics, each a sequence of names
          Admin,    \* topics that are kept when no collection uses them
          Tasks,    \* deletions that are asked for
          MaxItems, \* g_lib.MAX_COLL_ITEMS
          None

Items == Colls \cup Recs
NoTopic == <<>>
Prefixes(p) == {SubSeq(p, 1, n) : n \in 1..Len(p)}
Paths == UNION {Prefixes(p) : p \in Topics}
Names(p) == {p[i] : i \in 1..Len(p)}
AllTags == UNION {Names(p) : p \in Topics}

ASSUME CatalogAssumption ==
  /\ IsFiniteSet(Colls) /\ Colls \cap Recs = {}
  /\ Roots \subseteq Colls
  /\ \A p \in Topics \cup Admin : p \in Seq(Names(p))
  /\ NoTopic \notin Topics /\ \A p \in Admin : Prefixes(p) \subseteq Paths
  /\ MaxItems \in Nat
  /\ None \notin Colls

ASSUME NoneAssumption == None \notin [colls : SUBSET Colls, recs : SUBSET Recs, twice : BOOLEAN]

VARIABLES owner,    \* root collection of the owner of each item, None if there is no item
          unborn,   \* items that were never created
          item,     \* item edges <<collection, item>>
          topic,    \* topic of each collection
          catTags,  \* cat_tags of each record
          topics,   \* documents in t
          collCnt,  \* coll_cnt of each
          del,      \* state of the deletion tasks that are waiting
          newColl   \* loc.new_coll: where a change of owner puts a record

linkVars == <<owner, unborn, item>>
topicVars == <<topic, topics, collCnt>>
vars == <<linkVars, topicVars, catTags, del, newColl>>

Live == {x \in Items : owner[x] # None}

-----------------------------------------------------------------------------
\* The item graph.  Above is what isSrcParentOfDest and catalogCalcParCtxt walk
\* through: c, and what is in every set that has the parents of c and of its
\* own members.
ParentsIn(E, x) == {c \in Colls : <<c, x>> \in E}
ItemsIn(E, c) == {x \in Items : <<c, x>> \in E}
Holders(E) == {e[1] : e \in {f \in E : f[2] \in Colls}}
UpClosed(E, S) == \A e \in E : e[2] \in S => e[1] \in S
Above(E, c) == {c} \cup {a \in Holders(E) : \A S \in SUBSET Holders(E) :
                                              UpClosed(E, S \cup {c}) => a \in S \cup {c}}
Unlinked(E, X) == {e \in E : e[2] \notin X}

\* catalogCalcParCtxt: tags of a collection with those of the collections above.
\* The collection is public in that context when there are any.
Context(E, top, c) == UNION {Names(top[a]) : a \in Above(E, c)}

\* Category tags a record should have: those of all its parents.
TagsOf(E, top, r) == UNION {Context(E, top, c) : c \in ParentsIn(E, r)}

\* catalogUpdateColl and catalogUpdateRecord: the records below x, or x itself,
\* are given the tags of all their parents.
Refreshed(E, top, x) ==
  [r \in Recs |->
     IF r = x \/ \E c \in ParentsIn(E, r) : x \in Above(E, c)
     THEN TagsOf(E, top, r) ELSE catTags[r]]

-----------------------------------------------------------------------------
\* topicLink: every topic on the path is found or made.
TopicLink(T, p) ==
  [set |-> T.set \cup Prefixes(p),
   cnt |-> [q \in Paths |-> T.cnt[q] + IF q \in Prefixes(p) THEN 1 ELSE 0]]

\* Mutant: a topic goes with its first collection.
TopicUnlink_first(C) ==
  LET left == UNION {Prefixes(topic[c]) : c \in C}
      gone == {p \in left : \A q \in topics : p \in Prefixes(q) => q \in left \ Admin}
  IN [set |-> topics \ gone,
      cnt |-> [q \in Paths |-> IF q \in gone THEN 0 ELSE
                 collCnt[q] - Cardinality({c \in C : q \in Prefixes(topic[c])})]]

\* topicUnlink of each collection of C: the paths are counted down, and from
\* their ends up the topics that nothing else is linked to are removed.
TopicUnlink(C) ==
  LET left == UNION {Prefixes(topic[c]) : c \in C}
      gone == {p \in left : \A q \in topics : p \in Prefixes(q) =>
                 /\ q \in left \ Admin
                 /\ \A c \in Colls \ C : topic[c] # q}
  IN [set |-> topics \ gone,
      cnt |-> [q \in Paths |-> IF q \in gone THEN 0 ELSE
                 collCnt[q] - Cardinality({c \in C : q \in Prefixes(topic[c])})]]

SetTopics(T) == topics' = T.set /\ collCnt' = T.cnt

-----------------------------------------------------------------------------
\* Everybody has a root collection, and some topics were there from the start.
Init == /\ owner = [x \in Items |-> IF x \in Roots THEN x ELSE None]
        /\ unborn = Items \ Roots
        /\ item = {}
        /\ topic = [c \in Colls |-> NoTopic]
        /\ catTags = [r \in Recs |-> {}]
        /\ topics = UNION {Prefixes(p) : p \in Admin}
        /\ collCnt = [p \in Paths |-> 0]
        /\ del = [t \in Tasks |-> None]
        /\ newColl = [r \in Recs |-> None]

\* What a new item x of owner own is given, in collection c.
Link(x, c, own) == /\ item' = item \cup {<<c, x>>}
                   /\ owner' = [owner EXCEPT ![x] = own]
                   /\ unborn' = unborn \ {x}

\* POST /coll/create
CreateColl(c, parent, top) ==
  /\ c \in unborn \cap Colls /\ parent \in Live
  /\ Link(c, parent, owner[parent])
  /\ topic' = [topic EXCEPT ![c] = top]
  /\ SetTopics(TopicLink([set |-> topics, cnt |-> collCnt], top))
  /\ UNCHANGED <<catTags, del, newColl>>

\* recordCreate
CreateRecord(r, parent) ==
  /\ r \in unborn \cap Recs /\ parent \in Live
  /\ Cardinality(ItemsIn(item, parent)) < MaxItems
  /\ Link(r, parent, owner[parent])
  /\ catTags' = [catTags EXCEPT ![r] = Context(item, topic, parent)]
  /\ UNCHANGED <<topicVars, del, newColl>>

\* POST /coll/update, as to the topic of the collection.
SetTopic(c, top) ==
  /\ c \in Live
  /\ top # topic[c]
  /\ topic' = [topic EXCEPT ![c] = top]
  /\ SetTopics(TopicLink(TopicUnlink({c}), top))
  /\ catTags' = Refreshed(item, topic', c)
  /\ UNCHANGED <<linkVars, del, newColl>>

-----------------------------------------------------------------------------
\* Mutant: nothing goes to the root.
Remove_only(c, x) ==
  /\ c \in Live /\ <<c, x>> \in item
  /\ item' = item \ {<<c, x>>}
  /\ catTags' = IF Context(item, topic, c) # {} THEN Refreshed(item', topic, x) ELSE catTags
  /\ UNCHANGED <<owner, unborn, topicVars, del, newColl>>

\* GET /coll/write with "remove".  What has no parent left goes to the root; the
\* context it gets there is an empty one, whatever the root is.
Remove(c, x) ==
  /\ c \in Live /\ <<c, x>> \in item
  /\ LET left == item \ {<<c, x>>}
         loose == ParentsIn(left, x) = {}
         root == owner[c]
         pub == Context(item, topic, c) # {}
     IN /\ loose => Cardinality(ItemsIn(left, root)) <= MaxItems
        /\ item' = IF loose THEN left \cup {<<root, x>>} ELSE left
        /\ catTags' = CASE ~pub -> catTags
                        [] pub /\ x \in Recs -> [catTags EXCEPT ![x] = {}]
                        [] OTHER -> Refreshed(left, topic, x)
  /\ UNCHANGED <<owner, unborn, topicVars, del, newColl>>

\* Mutant: only a link to the collection itself is refused.
MayLink_self(c, x) == /\ x \notin Roots /\ x # c
                      /\ <<c, x>> \notin item

\* The conditions on a new link (the rules of coll_router.js).
MayLink(c, x) == /\ x \notin Roots
                 /\ x \in Colls => x \notin Above(item, c)
                 /\ <<c, x>> \notin item

\* GET /coll/write with "add".  A collection leaves its other parent.
Add(c, x) ==
  /\ c \in Live /\ x \in Live
  /\ MayLink(c, x) /\ owner[x] = owner[c]
  /\ Cardinality(ItemsIn(item, c)) < MaxItems
  /\ item' = (IF x \in Colls THEN Unlinked(item, {x}) ELSE item) \cup {<<c, x>>}
  /\ catTags' = IF Context(item, topic, c) # {} THEN Refreshed(item', topic, x) ELSE catTags
  /\ UNCHANGED <<owner, unborn, topicVars, del, newColl>>

\* Mutant: only what gets published is looked at.
Move_publishes(src, dst, x) ==
  /\ src \in Live /\ dst \in Live
  /\ owner[src] = owner[dst]
  /\ <<src, x>> \in item /\ MayLink(dst, x)
  /\ item' = (item \ {<<src, x>>}) \cup {<<dst, x>>}
  /\ Cardinality(ItemsIn(item', dst)) <= MaxItems
  /\ catTags' = IF Context(item, topic, dst) # {} THEN Refreshed(item', topic, x) ELSE catTags
  /\ UNCHANGED <<owner, unborn, topicVars, del, newColl>>

\* GET /coll/move
Move(src, dst, x) ==
  /\ src \in Live /\ dst \in Live
  /\ owner[src] = owner[dst]
  /\ <<src, x>> \in item /\ MayLink(dst, x)
  /\ item' = (item \ {<<src, x>>}) \cup {<<dst, x>>}
  /\ Cardinality(ItemsIn(item', dst)) <= MaxItems
  /\ catTags' = IF Context(item, topic, src) \cup Context(item, topic, dst) # {}
                THEN Refreshed(item', topic, x) ELSE catTags
  /\ UNCHANGED <<owner, unborn, topicVars, del, newColl>>

-----------------------------------------------------------------------------
\* preprocessItems for a deletion.  S is what is selected; first are the records
\* in S that come before every collection of S that holds them.  A collection is
\* visited once for each selected one at or above it, and a record is counted
\* each time it is met, except that one of first is deleted whatever its count.
Visits(S, c) == Cardinality(S \cap Above(item, c))
Reached(S) == {c \in Colls \cap Live : Visits(S, c) > 0}
Met(S, r) == \/ r \in S
             \/ ParentsIn(item, r) \cap Reached(S) # {}
Count(S, r) ==
  LET here == ParentsIn(item, r)
      visits[C \in SUBSET here] ==
        IF C = {} THEN 0
        ELSE LET c == CHOOSE c \in C : TRUE IN Visits(S, c) + visits[C \ {c}]
  IN visits[here] + IF r \in S THEN 1 ELSE 0
ToDelete(S, first) ==
  {r \in Recs \cap Live : Met(S, r) /\ \/ r \in first
                                       \/ Count(S, r) = Cardinality(ParentsIn(item, r))}

\* taskInitRecCollDelete: what will be deleted is unlinked at once.  The list of
\* collections has the ones that were visited twice, twice.
RequestDelete(t, S, first) ==
  LET recs == ToDelete(S, first) IN
  /\ del[t] = None
  /\ S # {} /\ S \subseteq Live \ Roots /\ first \subseteq S \cap Recs
  /\ \A r \in S \cap Recs : r \notin first => ParentsIn(item, r) \cap Reached(S) # {}
  /\ \A r \in Recs : Met(S, r) => catTags[r] = {}
  /\ \A c \in Reached(S) : topic[c] = NoTopic
  /\ \A r \in recs : newColl[r] = None
  /\ del' = [del EXCEPT ![t] = [colls |-> Reached(S), recs |-> recs,
                                twice |-> \E c \in Reached(S) : Visits(S, c) > 1]]
  /\ item' = Unlinked(item, Reached(S) \cup recs)
  /\ UNCHANGED <<owner, unborn, topicVars, catTags, newColl>>

\* Step 0 of taskRunRecCollDelete, one transaction: it fails, and the task with
\* it, when a collection or record is not there, or not there any more.
RunDelete(t) ==
  /\ del[t] # None
  /\ LET gone == del[t].colls \cup del[t].recs IN
     IF del[t].twice \/ ~ gone \subseteq Live
     THEN UNCHANGED <<owner, item, topicVars, catTags, newColl>>
     ELSE /\ owner' = [x \in Items |-> IF x \in gone THEN None ELSE owner[x]]
          /\ item' = {e \in item : e[1] \notin gone /\ e[2] \notin gone}
          /\ SetTopics(TopicUnlink(del[t].colls))
          /\ topic' = [c \in Colls |-> IF c \in gone THEN NoTopic ELSE topic[c]]
          /\ catTags' = [r \in Recs |-> IF r \in gone THEN {} ELSE catTags[r]]
          /\ newColl' = [r \in Recs |-> IF r \in gone THEN None ELSE newColl[r]]
  /\ del' = [del EXCEPT ![t] = None]
  /\ UNCHANGED unborn

-----------------------------------------------------------------------------
\* taskInitRecOwnerChg, for one record, which it locks.
RequestOwnerChg(r, c) ==
  /\ r \in Live /\ c \in Live
  /\ newColl[r] = None /\ catTags[r] = {}
  /\ owner[r] # owner[c]
  /\ newColl' = [newColl EXCEPT ![r] = c]
  /\ UNCHANGED <<linkVars, topicVars, catTags, del>>

\* recMoveFini or recMoveExt; the collection must still be there.
FinishOwnerChg(r) ==
  /\ newColl[r] # None
  /\ LET c == newColl[r] IN
     IF c \in Live
     THEN /\ item' = Unlinked(item, {r}) \cup {<<c, r>>}
          /\ owner' = [owner EXCEPT ![r] = owner[c]]
     ELSE UNCHANGED <<item, owner>>
  /\ newColl' = [newColl EXCEPT ![r] = None]
  /\ UNCHANGED <<unborn, topicVars, catTags, del>>

Next == \/ \E c, p \in Colls, top \in Topics \cup {NoTopic} : CreateColl(c, p, top)
        \/ \E r \in Recs, p \in Colls : CreateRecord(r, p)
        \/ \E c \in Colls, top \in Topics \cup {NoTopic} : SetTopic(c, top)
        \/ \E c \in Colls, x \in Items : Remove(c, x)
        \/ \E c \in Colls, x \in Items : Add(c, x)
        \/ \E src, dst \in Colls, x \in Items : Move(src, dst, x)
        \/ \E t \in Tasks, S \in SUBSET Items :
             \E first \in SUBSET (S \cap Recs) : RequestDelete(t, S, first)
        \/ \E t \in Tasks : RunDelete(t)
        \/ \E r \in Recs, c \in Colls : RequestOwnerChg(r, c)
        \/ \E r \in Recs : FinishOwnerChg(r)

Spec == Init /\ [][Next]_vars

\* The same without what leaves records published, or not, that should not be
\* (or should), and items without a parent: a record is unlinked from one of two
\* public collections, a public collection is linked into one that is not, a
\* root is published, a record is moved to an owner's public collection; what is
\* selected for deletion overlaps, or other requests come before it is deleted.
Public(c) == Context(item, topic, c) # {}
Quiet == \A t \in Tasks : del[t] = None
CleanRemove(c, x) ==
  x \in Recs /\ Public(c) => \A d \in ParentsIn(item, x) \ {c} : ~Public(d)
CleanAdd(c, x) == x \in Colls /\ ~Public(c) => \A d \in ParentsIn(item, x) : ~Public(d)
CleanSelection(S) == \A c \in S \cap Colls : S \cap Above(item, c) = {c}

CleanNext ==
  \/ /\ Quiet
     /\ \/ \E c, p \in Colls, top \in Topics \cup {NoTopic} : CreateColl(c, p, top)
        \/ \E r \in Recs, p \in Colls : CreateRecord(r, p)
        \/ \E c \in Colls \ Roots, top \in Topics \cup {NoTopic} : SetTopic(c, top)
        \/ \E c \in Colls, x \in Items : CleanRemove(c, x) /\ Remove(c, x)
        \/ \E c \in Colls, x \in Items : CleanAdd(c, x) /\ Add(c, x)
        \/ \E src, dst \in Colls, x \in Items : Move(src, dst, x)
        \/ \E r \in Recs, c \in Colls : RequestOwnerChg(r, c)
        \/ \E r \in Recs : /\ newColl[r] # None => catTags[r] = {} /\ ~Public(newColl[r])
                           /\ FinishOwnerChg(r)
        \/ \E t \in Tasks, S \in SUBSET (Items \ Roots) :
             CleanSelection(S) /\ RequestDelete(t, S, S \cap Recs)
  \/ \E t \in Tasks : RunDelete(t)

CleanSpec == Init /\ [][CleanNext]_vars
-----------------------------------------------------------------------------
\* Type of the variables.
CatalogTypeOK ==
  /\ owner \in [Items -> Roots \cup {None}]
  /\ unborn \subseteq Items
  /\ item \subseteq Colls \X Items
  /\ topic \in [Colls -> Topics \cup {NoTopic}]
  /\ catTags \in [Recs -> SUBSET AllTags]
  /\ topics \subseteq Paths
  /\ collCnt \in [Paths -> Int]
  /\ del \in [Tasks -> {None} \cup [colls : SUBSET Colls, recs : SUBSET Recs, twice : BOOLEAN]]
  /\ newColl \in [Recs -> Colls \cup {None}]

\* Rules 1, 3, 5 and 6 of coll_router.js /write: root collections are not
\* linked, links stay with one owner, a collection has one parent, and no
\* collection is below itself.  The walks of isSrcParentOfDest,
\* catalogCalcParCtxt, getParents and hasCommonAccessScope end because of it.
RootsUnlinked == \A e \in item : e[2] \notin Roots
SameOwner == \A e \in item : owner[e[1]] # None /\ owner[e[1]] = owner[e[2]]
OneParent == \A e, f \in item : e[2] \in Colls /\ e[2] = f[2] => e = f
NoCycle == \A S \in (SUBSET Colls) \ {{}} : \E c \in S : ParentsIn(item, c) \cap S = {}
Forest == RootsUnlinked /\ SameOwner /\ OneParent /\ NoCycle

\* coll_cnt of a topic is the number of collections at or below it, and the
\* topics in the database are those that are used and those of the
\* administrators, whatever is published, renamed and deleted (topicLink,
\* topicUnlink).
TopicsExact ==
  /\ \A p \in Paths : collCnt[p] = Cardinality({c \in Colls : p \in Prefixes(topic[c])})
  /\ topics = UNION {Prefixes(p) : p \in Admin \cup {topic[c] : c \in Colls}}

\* "This recursive function updates data record public flag and category tags
\* based on current public status of all parent collections" (support.js): a
\* record has the category tags of all the public collections above it, and is
\* public when there is one.
PublicExact == \A r \in Recs \cap Live : catTags[r] = TagsOf(item, topic, r)

\* "All records and collections must have at least one parent (except root)"
\* (coll_router.js), unless they are about to be deleted.
HasParent == \A x \in Live \ Roots : \/ ParentsIn(item, x) # {}
                                     \/ \E t \in Tasks : /\ del[t] # None
                                                         /\ x \in del[t].colls \cup del[t].recs
=============================================================================
