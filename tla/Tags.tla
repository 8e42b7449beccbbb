--------------------------------- MODULE Tags ---------------------------------
(***************************************************************************)
(* Tags of data records and collections, and the count the database keeps  *)
(* of each (core/database/foxx/api: addTags and removeTags of support.js,  *)
(* and who calls them).  A request is one transaction.                     *)
(*                                                                         *)
(* recordUpdate looks tags up with the operator "in" of JavaScript, which  *)
(* asks an array for a property and not for an element.  It finds a tag    *)
(* that is an index of the array, and one that is a name every array has   *)
(* (length, map, sort, keys), whether the list has that tag or not, and no *)
(* other tag.                                                              *)
(*                                                                         *)
(* The database counts tags in small letters.  Two spellings of a tag are  *)
(* compared as they are and counted as one; here a tag has one spelling.   *)
(***************************************************************************)
EXTENDS Integers, Sequences, FiniteSets, Functions

CONSTANTS TagRecs, TagColls, \* data records and collections
          TagNames,          \* tags
          IndexOf,           \* function: the number that a tag is, for those that are
          ArrayNames,        \* tags that are property names of every array
          MaxTags,           \* bound: tags in a list
          NoList

Tagged == TagRecs \cup TagColls
TagLists == UNION {[1..n -> TagNames] : n \in 0..MaxTags}

ASSUME TagsAssumption ==
  /\ IsFiniteSet(Tagged) /\ TagRecs \cap TagColls = {}
  /\ IsFiniteSet(TagNames) /\ DOMAIN IndexOf \subseteq TagNames /\ ArrayNames \subseteq TagNames
  /\ MaxTags \in Nat
  /\ NoList \notin TagLists

VARIABLES tags,   \* tags of each record and collection, NoList if it is not there
          count   \* count of each document in tag, 0 if there is none

tagVars == <<tags, count>>

-----------------------------------------------------------------------------
Times(t, list) == Cardinality({i \in DOMAIN list : list[i] = t})

\* addTags and removeTags, of the tags of list that are in X.
AddTags(cnt, list, X) == [t \in TagNames |-> IF t \in X THEN cnt[t] + Times(t, list) ELSE cnt[t]]
RemoveTags(cnt, list, X) ==
  [t \in TagNames |-> CASE t \notin X -> cnt[t]
                       [] t \in X /\ Times(t, list) < cnt[t] -> cnt[t] - Times(t, list)
                       [] OTHER -> 0]

\* `t in list`
IsIn(t, list) == t \in ArrayNames \/ (t \in DOMAIN IndexOf /\ IndexOf[t] < Len(list))
Includes(list, t) == t \in Range(list)

TagsInit == /\ tags = [o \in Tagged |-> NoList]
            /\ count = [t \in TagNames |-> 0]

\* recordCreate, POST /coll/create
TagsCreate(o, list) ==
  /\ tags[o] = NoList
  /\ tags' = [tags EXCEPT ![o] = list]
  /\ count' = AddTags(count, list, TagNames)

\* recordUpdate.  All are added before any is removed.  Nothing is looked up in a
\* list that is empty.
TagsUpdateRecord(r, list) ==
  /\ tags[r] # NoList
  /\ LET old == tags[r]
         NotIn(l) == {t \in TagNames : ~IsIn(t, l)}
     IN count' = IF old = <<>> THEN AddTags(count, list, TagNames)
                 ELSE RemoveTags(AddTags(count, list, NotIn(old)), old, NotIn(list))
  /\ tags' = [tags EXCEPT ![r] = list]

\* POST /coll/update
TagsUpdateColl(c, list) ==
  /\ tags[c] # NoList
  /\ LET old == tags[c]
         NotIn(l) == {t \in TagNames : ~Includes(l, t)}
     IN count' = RemoveTags(AddTags(count, list, NotIn(old)), old, NotIn(list))
  /\ tags' = [tags EXCEPT ![c] = list]

\* recordUpdate with tags_clear
TagsClearRecord(r) ==
  /\ tags[r] # NoList
  /\ tags' = [tags EXCEPT ![r] = <<>>]
  /\ count' = RemoveTags(count, tags[r], TagNames)

\* Mutant: the tags of what is deleted stay counted.
TagsDelete_counted(o) ==
  /\ tags[o] # NoList
  /\ tags' = [tags EXCEPT ![o] = NoList]
  /\ UNCHANGED count

\* _deleteDataRecord(s), _deleteCollection
TagsDelete(o) ==
  /\ tags[o] # NoList
  /\ tags' = [tags EXCEPT ![o] = NoList]
  /\ count' = RemoveTags(count, tags[o], TagNames)

TagsNext == \/ \E o \in Tagged, list \in TagLists : TagsCreate(o, list)
            \/ \E r \in TagRecs, list \in TagLists : TagsUpdateRecord(r, list)
            \/ \E c \in TagColls, list \in TagLists : TagsUpdateColl(c, list)
            \/ \E r \in TagRecs : TagsClearRecord(r)
            \/ \E o \in Tagged : TagsDelete(o)

TagsSpec == TagsInit /\ [][TagsNext]_tagVars

\* The same with no tag twice in the list of a collection.
CleanLists(o) == {list \in TagLists : o \in TagColls => IsInjective(list)}

TagsCleanNext == \/ \E o \in Tagged : \E list \in CleanLists(o) : TagsCreate(o, list)
                 \/ \E r \in TagRecs, list \in TagLists : TagsUpdateRecord(r, list)
                 \/ \E c \in TagColls : \E list \in CleanLists(c) : TagsUpdateColl(c, list)
                 \/ \E r \in TagRecs : TagsClearRecord(r)
                 \/ \E o \in Tagged : TagsDelete(o)

TagsCleanSpec == TagsInit /\ [][TagsCleanNext]_tagVars
-----------------------------------------------------------------------------
\* Where a tag is used, and how often.
Uses(t) == {use \in Tagged \X (1..MaxTags) : /\ tags[use[1]] # NoList
                                             /\ use[2] \in DOMAIN tags[use[1]]
                                             /\ tags[use[1]][use[2]] = t}

\* The tags that recordUpdate takes for what they are.
PlainTags == TagNames \ (ArrayNames \cup DOMAIN IndexOf)

\* "Tags are tracked and reference counted" (docs overview): the count of a tag is
\* the number of times records and collections have it, also when they have tags
\* that recordUpdate finds where they are not.  Of those the count is not kept.
TagsCounted == \A t \in PlainTags : count[t] = Cardinality(Uses(t))
=============================================================================
