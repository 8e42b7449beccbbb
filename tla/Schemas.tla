------------------------------- MODULE Schemas -------------------------------
(***************************************************************************)
(* Schemas, their revisions and references, and the data records that use  *)
(* them (core/database/foxx/api: schema_router.js; schemas of records in   *)
(* recordCreate and recordUpdate of data_router.js and in                  *)
(* _deleteDataRecords of tasks.js).                                        *)
(*                                                                         *)
(* Each request is one transaction but POST /schema/delete, which reads    *)
(* and removes outside of any: what it reads is read at once here, and the *)
(* removal comes later.  Definitions are what they refer to.  Whoever asks *)
(* may ask for everything.                                                 *)
(***************************************************************************)
EXTENDS Integers, FiniteSets

CONSTANTS SchRecs,  \* data records
          MaxDocs,  \* bound: schemas that are made
          SchNames, \* the id of a schema, which its revisions share
          MaxVer,   \* bound: highest version
          NoSch

Versions == 0..MaxVer
SchDocs == 1..MaxDocs   \* keys of sch: a schema that is made takes the next one

ASSUME SchemasAssumption ==
  /\ IsFiniteSet(SchRecs)
  /\ MaxDocs \in Nat /\ MaxVer \in Nat
  /\ NoSch \notin SchDocs
  /\ NoSch \notin [id : SchNames, ver : Versions, cnt : Int, refs : SUBSET (SchNames \X Versions)]

VARIABLES sch,      \* documents in sch, NoSch for one that is not there: id, ver, cnt,
                    \* and by id and version the schemas the definition refers to
          schSpent, \* keys that were taken: 1 to schSpent
          schDep,   \* sch_dep edges
          schVer,   \* sch_ver edges
          recSch,   \* sch_id of each record; NoSch is none, or no record
          removing  \* what was read allows these to be deleted

schVars == <<sch, schSpent, schDep, schVer, recSch, removing>>

-----------------------------------------------------------------------------
SchLive == {s \in SchDocs : sch[s] # NoSch}
NameOf(s) == <<sch[s].id, sch[s].ver>>
Referenced(s) == \E e \in schDep : e[2] = s
Successor(s) == {e[2] : e \in {d \in schVer : d[1] = s}}
Predecessor(s) == {e[1] : e \in {d \in schVer : d[2] = s}}

\* updateSchemaRefs: the edges of s are made anew, to what it refers to.
RefsOK(s, refs) == \A n \in refs : \E x \in SchLive \ {s} : NameOf(x) = n
SetRefs(s, refs) == schDep' = {e \in schDep : e[1] # s} \cup
                              {<<s, x>> : x \in {y \in SchLive \ {s} : NameOf(y) \in refs}}

\* The index of sch: one document for each id and version.
NameFree(s, id, ver) == \A x \in SchLive \ {s} : NameOf(x) # <<id, ver>>

Save(s, id, ver, refs) ==
  /\ s = schSpent + 1 /\ ver \in Versions
  /\ NameFree(s, id, ver) /\ RefsOK(s, refs) /\ <<id, ver>> \notin refs
  /\ sch' = [sch EXCEPT ![s] = [id |-> id, ver |-> ver, cnt |-> 0, refs |-> refs]]
  /\ schSpent' = s
  /\ SetRefs(s, refs)

SchInit == /\ sch = [s \in SchDocs |-> NoSch]
           /\ schSpent = 0
           /\ schDep = {}
           /\ schVer = {}
           /\ recSch = [r \in SchRecs |-> NoSch]
           /\ removing = {}

\* POST /schema/create
SchemaCreate(s, id, refs) ==
  /\ Save(s, id, 0, refs)
  /\ UNCHANGED <<schVer, recSch, removing>>

\* POST /schema/update
SchemaUpdate(s, id, refs) ==
  /\ s \in SchLive
  /\ sch[s].cnt = 0 /\ ~Referenced(s)
  /\ id # sch[s].id => sch[s].ver = 0 /\ Successor(s) = {}
  /\ NameFree(s, id, sch[s].ver)
  /\ RefsOK(s, refs) /\ <<id, sch[s].ver>> \notin refs
  /\ sch' = [sch EXCEPT ![s].id = id, ![s].refs = refs]
  /\ SetRefs(s, refs)
  /\ UNCHANGED <<schSpent, schVer, recSch, removing>>

\* POST /schema/revise
SchemaRevise(s, new, refs) ==
  /\ s \in SchLive
  /\ Successor(s) = {}
  /\ Save(new, sch[s].id, sch[s].ver + 1, refs)
  /\ schVer' = schVer \cup {<<s, new>>}
  /\ UNCHANGED <<recSch, removing>>

\* Mutants: a schema that others refer to is deleted, or one between two others.
Unused_counted(s) == sch[s].cnt = 0 /\ (Successor(s) = {} \/ Predecessor(s) = {})
Unused_between(s) == sch[s].cnt = 0 /\ ~Referenced(s)

\* POST /schema/delete: what it reads, and the removal of the document and of
\* the edges at it.
Unused(s) == /\ sch[s].cnt = 0 /\ ~Referenced(s)
             /\ Successor(s) = {} \/ Predecessor(s) = {}

Removed(s) == /\ sch' = [sch EXCEPT ![s] = NoSch]
              /\ schDep' = {e \in schDep : s \notin {e[1], e[2]}}
              /\ schVer' = {e \in schVer : s \notin {e[1], e[2]}}

SchemaDelete(s) ==
  /\ s \in SchLive \ removing
  /\ Unused(s)
  /\ removing' = removing \cup {s}
  /\ UNCHANGED <<sch, schSpent, schDep, schVer, recSch>>

SchemaDeleteEnd(s) ==
  /\ s \in removing
  /\ removing' = removing \ {s}
  /\ Removed(s)
  /\ UNCHANGED <<schSpent, recSch>>

\* The schema of record r becomes s, or none: the count of s goes up, and that of
\* the one it had down.  recordCreate, recordUpdate and _deleteDataRecords; a
\* schema that is not there is an error in the second, and none in the third.
Counted(S, s, n) == IF s \in SchDocs /\ S[s] # NoSch THEN [S EXCEPT ![s].cnt = @ + n] ELSE S

\* Mutant: the schema that a record had stays counted.
RecordSchema_adds(r, s) ==
  /\ s \in SchLive \cup {NoSch}
  /\ recSch[r] \in SchLive \cup {NoSch}
  /\ recSch' = [recSch EXCEPT ![r] = s]
  /\ sch' = Counted(sch, s, 1)
  /\ UNCHANGED <<schSpent, schDep, schVer, removing>>

RecordSchema(r, s) ==
  /\ s \in SchLive \cup {NoSch}
  /\ recSch[r] \in SchLive \cup {NoSch}
  /\ recSch' = [recSch EXCEPT ![r] = s]
  /\ sch' = Counted(Counted(sch, s, 1), recSch[r], -1)
  /\ UNCHANGED <<schSpent, schDep, schVer, removing>>

RecordDeleted(r) ==
  /\ recSch[r] # NoSch
  /\ recSch' = [recSch EXCEPT ![r] = NoSch]
  /\ sch' = Counted(sch, recSch[r], -1)
  /\ UNCHANGED <<schSpent, schDep, schVer, removing>>

RefSets == SUBSET {NameOf(x) : x \in SchLive}

SchNext ==
  \/ \E s \in SchDocs, id \in SchNames, refs \in RefSets : SchemaCreate(s, id, refs)
  \/ \E s \in SchDocs, id \in SchNames, refs \in RefSets : SchemaUpdate(s, id, refs)
  \/ \E s, new \in SchDocs, refs \in RefSets : SchemaRevise(s, new, refs)
  \/ \E s \in SchDocs : SchemaDelete(s)
  \/ \E s \in SchDocs : SchemaDeleteEnd(s)
  \/ \E r \in SchRecs, s \in SchDocs \cup {NoSch} : RecordSchema(r, s)
  \/ \E r \in SchRecs : RecordDeleted(r)

SchSpec == SchInit /\ [][SchNext]_schVars

\* The same without what comes between the two halves of a deletion, and without
\* a new schema that takes the name of one with revisions left.
SchCleanNext ==
  \/ /\ removing = {}
     /\ \/ \E s \in SchDocs, id \in SchNames, refs \in RefSets :
             (\A x \in SchLive : sch[x].id # id) /\ SchemaCreate(s, id, refs)
        \/ \E s \in SchLive, id \in SchNames, refs \in RefSets :
             (\A x \in SchLive \ {s} : sch[x].id = id => sch[s].id = id) /\ SchemaUpdate(s, id, refs)
        \/ \E s, new \in SchDocs, refs \in RefSets : SchemaRevise(s, new, refs)
        \/ \E s \in SchDocs : SchemaDelete(s)
        \/ \E r \in SchRecs, s \in SchDocs \cup {NoSch} : RecordSchema(r, s)
        \/ \E r \in SchRecs : RecordDeleted(r)
  \/ \E s \in SchDocs : SchemaDeleteEnd(s)

SchCleanSpec == SchInit /\ [][SchCleanNext]_schVars
-----------------------------------------------------------------------------
\* A schema is counted once for each record that has it, so that one in use is
\* not changed or deleted: "Schema is associated with data records - cannot
\* update" (schema_router.js).
SchCounted == \A s \in SchLive : sch[s].cnt = Cardinality({r \in SchRecs : recSch[r] = s})
RecordsServed == \A r \in SchRecs : recSch[r] = NoSch \/ recSch[r] \in SchLive
SchemasHeld == SchCounted /\ RecordsServed

\* Each schema that a definition refers to is there, under that name, and knows
\* it is referred to: "Schema is referenced by another schema - cannot update"
\* (schema_router.js).  No schema comes to refer to itself through others, so that
\* _resolveDeps and the validators of the clients come to an end.
RefsResolve == \A s \in SchLive :
  \A n \in sch[s].refs : \E x \in SchLive : NameOf(x) = n /\ <<s, x>> \in schDep
RefsAcyclic == \A S \in (SUBSET SchDocs) \ {{}} : \E x \in S : \A y \in S : <<x, y>> \notin schDep
RefsSound == RefsResolve /\ RefsAcyclic /\ schDep \subseteq SchLive \X SchLive

\* "Only allow deletion of oldest and newest revisions of schemas"
\* (schema_router.js): the schemas of one id have subsequent versions, each linked
\* to the next, so that the newest is the only one that may be revised.
OneChain == \A s, x \in SchLive : sch[s].id = sch[x].id =>
              /\ NameOf(s) = NameOf(x) => s = x
              /\ sch[s].ver < sch[x].ver =>
                   \E y \in SchLive : /\ NameOf(y) = <<sch[s].id, sch[s].ver + 1>>
                                      /\ <<s, y>> \in schVer
=============================================================================
