-------------------------------- MODULE Notes --------------------------------
(***************************************************************************)
(* Dependencies between data records, and the annotations that follow them *)
(* (core/database/foxx/api: note_router.js, the annotation functions and   *)
(* checkDependencies of support.js, dependencies in recordCreate and       *)
(* recordUpdate of data_router.js, and _deleteDataRecords of tasks.js).    *)
(* An active warning or error on a record puts a note of its own, a child  *)
(* note, on each record that depends on it.                                *)
(*                                                                         *)
(* A request is one transaction.  Whoever asks may ask for everything.     *)
(* Notes on collections are left out: nothing depends on a collection.     *)
(* Questions are as informations; titles, comments and times are left out, *)
(* but for the age of a closed note, which may be any.                     *)
(***************************************************************************)
EXTENDS Integers, FiniteSets, Functions

CONSTANTS NoteRecs,     \* data records
          Aliased,  \* records that are given an alias when they are created
          NoteIds,  \* notes there can be at a time
          Types,    \* types of note in use
          DepTypes, \* types of dependency in use
          NoNote

CLOSED == 0
OPEN == 1
ACTIVE == 2
States == {CLOSED, OPEN, ACTIVE}
NOTE_INFO == 1
NOTE_WARN == 2
NOTE_ERROR == 3

\* DEP_IS_NEW_VERSION_OF is the type that notes do not follow.
VERSION == "version"

Note == [subj : NoteRecs, type : Types, state : States, parent : NoteIds \cup {NoNote}]

ASSUME NotesAssumption ==
  /\ IsFiniteSet(NoteRecs) /\ IsFiniteSet(NoteIds)
  /\ Aliased \subseteq NoteRecs
  /\ Types \subseteq {NOTE_INFO, NOTE_WARN, NOTE_ERROR}
  /\ NoNote \notin NoteRecs \cup NoteIds \cup Note

VARIABLES recs,   \* records in d
          unmade, \* records that were never created
          dep,    \* dep edges <<from, to, type>>
          note    \* documents in n with their note edges, NoNote for a free id

noteVars == <<recs, unmade, dep, note>>

-----------------------------------------------------------------------------
NotesIn(N) == {n \in NoteIds : N[n] # NoNote}
NotesOn(N, r) == {n \in NotesIn(N) : N[n].subj = r}
Children(N, n) == {m \in NotesIn(N) : N[m].parent = n}
Below(N, X) == {m \in NotesIn(N) :
  \A S \in SUBSET NoteIds :
     (X \subseteq S /\ \A k \in NotesIn(N) : N[k].parent \in S => k \in S) => m \in S}

IsWarning(n) == n.type >= NOTE_WARN
ActiveWarning(n) == IsWarning(n) /\ n.state = ACTIVE

\* Dep edges that notes follow.
Follows(D) == {e \in D : e[3] # VERSION}

\* A new note for each pair of a note and a record in P, a set of edges
\* [of, on, ...]: it is open, and of the type of the one it comes from.
Added(N, P, f) ==
  [n \in NoteIds |->
     IF \E q \in P : f[q] = n
     THEN LET q == CHOOSE q \in P : f[q] = n
          IN [subj |-> q.on, type |-> N[q.of].type, state |-> OPEN, parent |-> q.of]
     ELSE N[n]]
Fresh(N, P) == Injection(P, NoteIds \ NotesIn(N))

\* annotationInitDependents: for each dep edge to the record of n.
ForDependents(N, n) ==
  {[of |-> n, on |-> e[1], by |-> e[3]] : e \in {d \in Follows(dep) : d[2] = N[n].subj}}

\* Mutant: only the children are closed.
UpdateDependents_children(N, n, old) ==
  LET new == N[n]
  IN IF new.type = old.type /\ (new.state = ACTIVE <=> old.state = ACTIVE) THEN N
     ELSE [m \in NoteIds |->
             IF m \notin Children(N, n) THEN N[m]
             ELSE [N[m] EXCEPT !.type = new.type,
                               !.state = IF ActiveWarning(new) THEN OPEN ELSE CLOSED]]

\* annotationUpdateDependents, n having been old before.  All that are below are
\* closed, except that the children of an active warning are opened.
UpdateDependents(N, n, old) ==
  LET new == N[n]
      retyped == new.type # old.type
      left == old.state = ACTIVE /\ new.state # ACTIVE
      entered == old.state # ACTIVE /\ new.state = ACTIVE
      reach == IF retyped \/ left THEN Below(N, {n}) \ {n} ELSE Children(N, n)
  IN IF ~(retyped \/ left \/ entered) THEN N
     ELSE [m \in NoteIds |->
             IF m \notin reach THEN N[m]
             ELSE [N[m] EXCEPT !.type = new.type,
                               !.state = IF m \in Children(N, n) /\ ActiveWarning(new)
                                         THEN OPEN ELSE CLOSED]]

\* Mutant: what is below stays.
Deleted_alone(N, X) == [n \in NoteIds |-> IF n \in X THEN NoNote ELSE N[n]]

\* annotationDelete of each note of X.
Deleted(N, X) == LET gone == Below(N, X)
                 IN [n \in NoteIds |-> IF n \in gone THEN NoNote ELSE N[n]]

\* annotationDependenciesUpdated.  Notes on r that come from one of the records
\* in rem go; those a record in add has are taken over, one for each.
Dropped(N, r, rem) ==
  Deleted(N, {n \in NotesOn(N, r) : N[n].parent # NoNote /\ N[N[n].parent].subj \in rem})
ForAdded(N, r, add) ==
  {[of |-> n, on |-> r, by |-> NoNote] :
     n \in {k \in NotesIn(N) : /\ N[k].subj \in add
                               /\ IsWarning(N[k])
                               /\ N[k].state = ACTIVE \/ Children(N, k) # {}}}

Targets(D) == {e[2] : e \in D}

\* Mutant: only two records that depend on each other are found.
DepEnds_direct(D, r) == \A e, d \in D : ~(e[1] = r /\ d[2] = r /\ d[1] = e[2])

\* checkDependencies: the walk from r ends, and does not come back to r.
DepEnds(D, r) ==
  \A S \in (SUBSET NoteRecs) \ {{}} :
     (\A x \in S : \E y \in S : \E t \in DepTypes : <<x, y, t>> \in D)
        => \E U \in SUBSET NoteRecs : /\ r \in U /\ U \cap S = {}
                                      /\ \A e \in D : e[1] \in U => e[2] \in U

-----------------------------------------------------------------------------
NotesInit == /\ recs = {}
             /\ unmade = NoteRecs
             /\ dep = {}
             /\ note = [n \in NoteIds |-> NoNote]

\* recordCreate.  A record may depend on itself, by the alias it is given, since
\* its alias is saved before dependencies are looked up.
RecordCreate(r, D) ==
  /\ r \in unmade
  /\ \A e \in D : e[1] = r /\ e[2] \in recs \cup ({r} \cap Aliased)
  /\ \A d, e \in D : d[2] = e[2] => d = e
  /\ recs' = recs \cup {r}
  /\ unmade' = unmade \ {r}
  /\ dep' = dep \cup D
  /\ LET P == ForAdded(note, r, Targets(Follows(D)))
     IN \E f \in Fresh(note, P) : note' = Added(note, P, f)

\* recordUpdate, as to the dependencies.
UpdateDeps(r, rem, add) ==
  /\ r \in recs /\ rem \cup add # {}
  /\ rem \subseteq dep /\ add \cap (dep \ rem) = {}
  /\ \A e \in rem \cup add : e[1] = r /\ e[2] \in recs
  /\ dep' = (dep \ rem) \cup add
  /\ add # {} => DepEnds(dep', r)
  /\ LET N == Dropped(note, r, Targets(Follows(rem)))
         P == ForAdded(N, r, Targets(Follows(add)))
     IN \E f \in Fresh(N, P) : note' = Added(N, P, f)
  /\ UNCHANGED <<recs, unmade>>

\* Mutant: the edges of those that depend on the record stay.
RecordDelete_edges(r) ==
  /\ r \in recs
  /\ recs' = recs \ {r}
  /\ dep' = {e \in dep : e[1] # r}
  /\ note' = Deleted(note, NotesOn(note, r))
  /\ UNCHANGED unmade

\* _deleteDataRecords, of one record.
RecordDelete(r) ==
  /\ r \in recs
  /\ recs' = recs \ {r}
  /\ dep' = {e \in dep : r \notin {e[1], e[2]}}
  /\ note' = Deleted(note, NotesOn(note, r))
  /\ UNCHANGED unmade

\* POST /note/create
CreateNote(n, r, ty, activate) ==
  /\ r \in recs /\ note[n] = NoNote
  /\ LET N == [note EXCEPT ![n] = [subj |-> r, type |-> ty, parent |-> NoNote,
                                   state |-> IF activate THEN ACTIVE ELSE OPEN]]
         P == IF ActiveWarning(N[n]) THEN ForDependents(N, n) ELSE {}
     IN \E f \in Fresh(N, P) : note' = Added(N, P, f)
  /\ UNCHANGED <<recs, unmade, dep>>

\* Mutant: dependents that have no note yet get none.
UpdateNote_only(n, ty, st) ==
  /\ note[n] # NoNote
  /\ note' = UpdateDependents([note EXCEPT ![n].type = ty, ![n].state = st], n, note[n])
  /\ UNCHANGED <<recs, unmade, dep>>

\* POST /note/update, with a state that is the present one for none.
UpdateNote(n, ty, st) ==
  /\ note[n] # NoNote
  /\ LET N == [note EXCEPT ![n].type = ty, ![n].state = st]
         kids == Children(note, n)
         P == IF kids = {} /\ ActiveWarning(N[n]) THEN ForDependents(N, n) ELSE {}
     IN IF kids # {} THEN note' = UpdateDependents(N, n, note[n])
        ELSE \E f \in Fresh(N, P) : note' = Added(N, P, f)
  /\ UNCHANGED <<recs, unmade, dep>>

\* GET /note/purge, of the notes in X.
Purge(X) ==
  /\ X # {}
  /\ \A n \in X : note[n] # NoNote /\ note[n].state = CLOSED /\ note[n].parent = NoNote
  /\ note' = Deleted(note, X)
  /\ UNCHANGED <<recs, unmade, dep>>

Edges(r) == {r} \X (recs \cup {r}) \X DepTypes
DepsOf(r) == {e \in dep : e[1] = r}

NotesNext == \/ \E r \in unmade : \E D \in SUBSET Edges(r) : RecordCreate(r, D)
             \/ \E r \in recs : \E rem \in SUBSET DepsOf(r), add \in SUBSET Edges(r) :
                  UpdateDeps(r, rem, add)
             \/ \E r \in NoteRecs : RecordDelete(r)
             \/ \E n \in NoteIds, r \in NoteRecs, ty \in Types, a \in BOOLEAN : CreateNote(n, r, ty, a)
             \/ \E n \in NoteIds, ty \in Types, st \in States : UpdateNote(n, ty, st)
             \/ \E X \in SUBSET NoteIds : Purge(X)

NotesSpec == NotesInit /\ [][NotesNext]_noteVars

\* The same without what makes notes miss a dependent, or stay open below one
\* that is not active: a record that depends on itself, a second dependency
\* between the same records, a dependency on a record with a note
\* that was a warning and is none now, and a child note that is activated when
\* its parent is not.
CleanDeps(D) == /\ \A e \in D : e[1] # e[2]
                /\ \A d, e \in D : d[1] = e[1] /\ d[2] = e[2] => d = e
CleanTargets(D) == \A e \in D, n \in NoteIds :
  note[n] # NoNote /\ note[n].subj = e[2] => IsWarning(note[n]) \/ Children(note, n) = {}
CleanState(n, st) == note[n] # NoNote /\ note[n].parent # NoNote /\ st = ACTIVE =>
                       note[note[n].parent].state = ACTIVE

NotesCleanNext ==
  \/ \E r \in unmade : \E D \in SUBSET Edges(r) : CleanDeps(D) /\ CleanTargets(D) /\ RecordCreate(r, D)
  \/ \E r \in recs : \E rem \in SUBSET DepsOf(r), add \in SUBSET Edges(r) :
       CleanDeps((dep \ rem) \cup add) /\ CleanTargets(add) /\ UpdateDeps(r, rem, add)
  \/ \E r \in NoteRecs : RecordDelete(r)
  \/ \E n \in NoteIds, r \in NoteRecs, ty \in Types, a \in BOOLEAN : CreateNote(n, r, ty, a)
  \/ \E n \in NoteIds, ty \in Types, st \in States : CleanState(n, st) /\ UpdateNote(n, ty, st)
  \/ \E X \in SUBSET NoteIds : Purge(X)

NotesCleanSpec == NotesInit /\ [][NotesCleanNext]_noteVars
-----------------------------------------------------------------------------
\* Type of the variables.
NotesTypeOK ==
  /\ recs \subseteq NoteRecs /\ unmade \subseteq NoteRecs \ recs
  /\ dep \subseteq recs \X recs \X DepTypes
  /\ note \in [NoteIds -> Note \cup {NoNote}]
  /\ \A n \in NotesIn(note) : note[n].subj \in recs

\* "Circular dependency detected in references" (checkDependencies): no record
\* depends on itself, directly or not, whatever the type of the dependencies.
DepsAcyclic == \A S \in (SUBSET NoteRecs) \ {{}} :
                 \E x \in S : \A y \in S, t \in DepTypes : <<x, y, t>> \notin dep

\* A child note is on a record that depends on the record of its parent, and
\* there are no more of them there than such dependencies: when dependencies,
\* records and notes go, the notes that came from them go too.
NotesFollowDeps ==
  \A n \in NotesIn(note) : note[n].parent # NoNote =>
    /\ note[n].parent \in NotesIn(note)
    /\ LET r == note[n].subj
           s == note[note[n].parent].subj
       IN Cardinality({m \in Children(note, note[n].parent) : note[m].subj = r})
            <= Cardinality({e \in Follows(dep) : e[1] = r /\ e[2] = s})

\* "if a record has dependent records (via provenance references) and an error or
\* warning annotation is activated, then the dependent records will have new
\* annotations automatically created" (docs overview): an active warning has a
\* child on each dependent.
Covered == \A n \in NotesIn(note) : ActiveWarning(note[n]) =>
             \A e \in Follows(dep) : e[2] = note[n].subj =>
               \E m \in Children(note, n) : note[m].subj = e[1]

\* "For child notes that have already been activated, must recurse to all
\* children as needed" (annotationUpdateDependents): what is below a note that
\* stops being active is closed with it.
ClosedBelow ==
  [][\A n \in NoteIds :
       note[n] # NoNote /\ note'[n] # NoNote /\ note[n].state = ACTIVE /\ note'[n].state # ACTIVE
         => \A m \in Below(note', {n}) \ {n} : note'[m].state = CLOSED]_noteVars
=============================================================================
