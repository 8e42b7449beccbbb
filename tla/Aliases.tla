-------------------------------- MODULE Aliases --------------------------------
(***************************************************************************)
(* Aliases of data records and collections (core/database/foxx/api:        *)
(* recordCreate and recordUpdate of data_router.js, coll_router.js;        *)
(* deletion and change of owner in tasks.js).  An alias is kept twice: in  *)
(* the field alias of the record or collection, for people to see, and as  *)
(* a document in a, whose key is the alias below its owner, and which      *)
(* resolveID, resolveDataID and resolveCollID look up.                     *)
(*                                                                         *)
(* A request is one transaction.  An owner is its root collection.  A name *)
(* is a sequence: what comes after its first element are the numbers that  *)
(* a change of owner may append, "-1" and so on, and users may type.       *)
(***************************************************************************)
EXTENDS Integers, Sequences, FiniteSets, Functions

CONSTANTS AliasRecs, AliasColls, \* data records and collections
          Owners, Projects,      \* root collections of users and projects, of projects
          RootAlias, AliasWords, \* "root", and what names start with
          MaxName,               \* bound: length of a name
          NoAlias, NoOwner

AliasObjs == AliasRecs \cup AliasColls
AliasAll == AliasObjs \cup Owners
IsName(name) == Head(name) \in AliasWords \cup {RootAlias} /\ Tail(name) \in Seq(Nat)

ASSUME AliasesAssumption ==
  /\ IsFiniteSet(AliasAll) /\ AliasObjs \cap Owners = {} /\ Projects \subseteq Owners
  /\ MaxName \in Nat \ {0}
  /\ NoOwner \notin AliasAll
  /\ NoAlias \notin [owner : Owners \cup {NoOwner}, name : Seq(AliasWords \cup {RootAlias} \cup Nat)]

VARIABLES aOwner, \* owner of each object, NoOwner if it is not there
          field,  \* its field alias: a name, or a key as a whole
          aKey,   \* key of the document its alias edge goes to
          a       \* keys of the documents in a

aliasVars == <<aOwner, field, aKey, a>>

Key(own, name) == [owner |-> own, name |-> name]
KeysOf(f) == Range(f) \ {NoAlias}

-----------------------------------------------------------------------------
\* Everybody has a root collection with an alias; projects are made later.
AliasInit ==
  LET Users == Owners \ Projects IN
  /\ aOwner = [o \in AliasAll |-> IF o \in Users THEN o ELSE NoOwner]
  /\ field = [o \in AliasAll |-> IF o \in Users THEN Key(NoOwner, <<RootAlias>>) ELSE NoAlias]
  /\ aKey = [o \in AliasAll |-> IF o \in Users THEN Key(o, <<RootAlias>>) ELSE NoAlias]
  /\ a = {Key(o, <<RootAlias>>) : o \in Users}

AliasLive == {o \in AliasAll : aOwner[o] # NoOwner}

\* Saves an alias that nobody has, or none, for object o of owner own, when old is
\* what was in a of it.
Named(o, own, name, old) ==
  IF name = <<>>
  THEN /\ field' = [field EXCEPT ![o] = NoAlias]
       /\ aKey' = [aKey EXCEPT ![o] = NoAlias]
       /\ a' = a \ old
  ELSE /\ Key(own, name) \notin a \ old
       /\ field' = [field EXCEPT ![o] = Key(NoOwner, name)]
       /\ aKey' = [aKey EXCEPT ![o] = Key(own, name)]
       /\ a' = (a \ old) \cup {Key(own, name)}

\* recordCreate, POST /coll/create, GET /prj/create
AliasCreate(o, own, name) ==
  /\ aOwner[o] = NoOwner
  /\ IF o \in Projects THEN own = o /\ name = <<RootAlias>>
                       ELSE o \in AliasObjs /\ aOwner[own] = own
  /\ aOwner' = [aOwner EXCEPT ![o] = own]
  /\ Named(o, own, name, {})

\* recordUpdate and POST /coll/update, with an alias that may be empty.
AliasUpdate(o, name) ==
  /\ o \in AliasLive
  /\ Named(o, aOwner[o], name, {aKey[o]})
  /\ UNCHANGED aOwner

\* _deleteDataRecord, _deleteDataRecords and _deleteCollection, of the objects X.
Gone(X) == /\ aOwner' = [o \in DOMAIN aOwner |-> IF o \in X THEN NoOwner ELSE aOwner[o]]
           /\ field' = [o \in DOMAIN field |-> IF o \in X THEN NoAlias ELSE field[o]]
           /\ aKey' = [o \in DOMAIN aKey |-> IF o \in X THEN NoAlias ELSE aKey[o]]
           /\ a' = a \ {aKey[o] : o \in X}

AliasDelete(o) == o \in AliasLive \ Owners /\ Gone({o})

\* _projectDelete: all the project owns goes, but for its aliases, which go with
\* what they are of.
AliasOwnerDelete(p) == aOwner[p] = p /\ Gone({o \in AliasLive : aOwner[o] = p})

\* Mutant: the alias stays with the owner it had.
AliasMove_keeps(r, own) ==
  /\ r \in AliasRecs \cap AliasLive
  /\ own \in Owners \ {aOwner[r]} /\ aOwner[own] = own
  /\ aOwner' = [aOwner EXCEPT ![r] = own]
  /\ UNCHANGED <<field, aKey, a>>

\* recMoveFini and recMoveExt, of a record that gets a new owner: the name is
\* given the first number that makes it one nobody has, and if it needed one the
\* field gets the whole key.
AliasMove(r, own) ==
  /\ r \in AliasRecs \cap AliasLive
  /\ own \in Owners \ {aOwner[r]} /\ aOwner[own] = own
  /\ aOwner' = [aOwner EXCEPT ![r] = own]
  /\ IF aKey[r] = NoAlias THEN UNCHANGED <<field, aKey, a>>
     ELSE LET left == a \ {aKey[r]}
              Numbered(n) == Key(own, aKey[r].name \o IF n = 0 THEN <<>> ELSE <<n>>)
              num == CHOOSE n \in 0..Cardinality(a) :
                       Numbered(n) \notin left /\ \A m \in 0..n - 1 : Numbered(m) \in left
          IN /\ Len(Numbered(num).name) <= MaxName
             /\ field' = IF num = 0 THEN field ELSE [field EXCEPT ![r] = Numbered(num)]
             /\ aKey' = [aKey EXCEPT ![r] = Numbered(num)]
             /\ a' = left \cup {Numbered(num)}

\* Names that are typed: a word, or one with a number.
Typed == {<<>>, <<RootAlias>>} \cup {<<w>> : w \in AliasWords} \cup {<<w, 1>> : w \in AliasWords}

AliasNext == \/ \E o \in AliasAll, own \in Owners, name \in Typed : AliasCreate(o, own, name)
             \/ \E o \in AliasAll, name \in Typed : AliasUpdate(o, name)
             \/ \E o \in AliasObjs : AliasDelete(o)
             \/ \E p \in Projects : AliasOwnerDelete(p)
             \/ \E r \in AliasRecs, own \in Owners : AliasMove(r, own)

AliasSpec == AliasInit /\ [][AliasNext]_aliasVars
-----------------------------------------------------------------------------
\* What is shown for a key has its name, alone or below an owner.
Shows(f, k) == IF k = NoAlias THEN f = NoAlias
               ELSE \E own \in Owners \cup {NoOwner} : f = Key(own, k.name)

\* "A scoping prefix is automatically attached to aliases in order to ensure aliases
\* are unique across all users (and projects)" (docs overview): the documents in a
\* are the aliases of what there is, each of one object and below the owner that
\* the object has, whatever is created, renamed, deleted and given to others.  The
\* field has the same name; it may have it below an owner, not always the present
\* one (AliasFieldCurrent).
AliasResolves ==
  /\ a = KeysOf(aKey)
  /\ \A o \in AliasAll : aKey[o] # NoAlias =>
       /\ aKey[o].owner = aOwner[o] /\ IsName(aKey[o].name)
       /\ \A p \in AliasAll : aKey[p] = aKey[o] => p = o
  /\ \A o \in AliasAll : Shows(field[o], aKey[o])

\* "These prefixes consist of the type of the alias owner (...) and the owner ID"
\* (docs overview): the field that people are shown is the name, or the key that
\* resolves.  AliasMove leaves the field as it is when the name is free with the new
\* owner, also when it has the key that an earlier change of owner gave it.
AliasFieldCurrent == \A o \in AliasAll :
  aKey[o] # NoAlias => field[o] \in {Key(NoOwner, aKey[o].name), aKey[o]}
=============================================================================
