------------------------------ MODULE NotesProofs ------------------------------
(***************************************************************************)
(* Proofs about Notes: that no record comes to depend on itself, that      *)
(* notes follow the dependencies they came from, that every dependent of a *)
(* record with an active warning has a note of it, and that what is below  *)
(* a note is closed with it.                                               *)
(*                                                                         *)
(* What is below a set of notes is defined as what is in every set that    *)
(* has them and the children of its members; the first lemmas say what     *)
(* follows.  An operation adds notes, deletes notes with what is below     *)
(* them, or changes their types and states; the next ones say what each of *)
(* the three does to the notes there are.                                  *)
(***************************************************************************)
EXTENDS Notes, TLAPS, FiniteSetTheorems

NoteMap == [NoteIds -> Note \cup {NoNote}]

-----------------------------------------------------------------------------
\* What is below a set of notes.
LEMMA NoteIs ==
  ASSUME NEW N \in NoteMap, NEW n \in NotesIn(N)
  PROVE  /\ n \in NoteIds /\ N[n] \in Note /\ N[n].subj \in NoteRecs /\ N[n].type \in Types
         /\ N[n].state \in States /\ N[n].parent \in NoteIds \cup {NoNote}
  BY DEF NoteMap, NotesIn, Note

LEMMA BelowHas ==
  ASSUME NEW N, NEW X \in SUBSET NotesIn(N)
  PROVE  X \subseteq Below(N, X)
  BY DEF Below

LEMMA BelowDown ==
  ASSUME NEW N, NEW X, NEW m \in NotesIn(N), N[m].parent \in Below(N, X)
  PROVE  m \in Below(N, X)
  BY DEF Below

LEMMA BelowLeast ==
  ASSUME NEW N, NEW X, NEW S \in SUBSET NoteIds, X \subseteq S,
         \A k \in NotesIn(N) : N[k].parent \in S => k \in S
  PROVE  Below(N, X) \subseteq S
  BY DEF Below

LEMMA BelowUp ==
  ASSUME NEW N, NEW X \in SUBSET NotesIn(N), NEW m \in Below(N, X)
  PROVE  m \in X \/ N[m].parent \in Below(N, X)
  <1> SUFFICES ASSUME m \notin X, N[m].parent \notin Below(N, X) PROVE FALSE
    OBVIOUS
  <1> DEFINE S == Below(N, X) \ {m}
  <1>1. S \in SUBSET NoteIds /\ X \subseteq S
    BY BelowHas DEF Below, NotesIn
  <1>2. \A k \in NotesIn(N) : N[k].parent \in S => k \in S
    BY BelowDown
  <1>3. Below(N, X) \subseteq S
    BY <1>1, <1>2, BelowLeast
  <1> QED BY <1>3

LEMMA BelowTrans ==
  ASSUME NEW N, NEW X, NEW x \in Below(N, X)
  PROVE  Below(N, {x}) \subseteq Below(N, X)
  BY DEF Below

LEMMA BelowAlike ==
  ASSUME NEW N, NEW M, NEW X, NotesIn(M) = NotesIn(N),
         \A n \in NotesIn(N) : M[n].parent = N[n].parent
  PROVE  Below(M, X) = Below(N, X) /\ \A n : Children(M, n) = Children(N, n)
  BY DEF Below, Children

-----------------------------------------------------------------------------
\* What the notes are, among the dependencies D: the parent of a note is there, and
\* the note is on a record that depends on that of the parent; there is one for each
\* such record; no note is below itself; above an active note are active notes.
ParentsThere(N) == \A n \in NotesIn(N) : N[n].parent # NoNote => N[n].parent \in NotesIn(N)
AlongDeps(N, D) == \A n \in NotesIn(N) : N[n].parent # NoNote =>
                     \E e \in Follows(D) : e[1] = N[n].subj /\ e[2] = N[N[n].parent].subj
OnceEach(N) == \A n, m \in NotesIn(N) :
  N[n].parent # NoNote /\ N[m].parent = N[n].parent /\ N[m].subj = N[n].subj => n = m
ParentsEnd(N) == \A S \in (SUBSET NotesIn(N)) \ {{}} : \E x \in S : N[x].parent \notin S
ActiveUp(N) == \A n \in NotesIn(N) :
  N[n].parent # NoNote /\ N[n].state = ACTIVE => N[N[n].parent].state = ACTIVE

Shape(N, D) == ParentsThere(N) /\ AlongDeps(N, D) /\ OnceEach(N) /\ ParentsEnd(N)

\* A note that is an active warning, or has been one, has a child on each dependent.
CoveredBy(N, D, n) == \A e \in Follows(D) : e[2] = N[n].subj => \E m \in Children(N, n) : N[m].subj = e[1]
AllCovered(N, D) == \A n \in NotesIn(N) : ActiveWarning(N[n]) \/ Children(N, n) # {} => CoveredBy(N, D, n)

-----------------------------------------------------------------------------
\* Notes go, and what is below them.
LEMMA DeletedIs ==
  ASSUME NEW N \in NoteMap, NEW X \in SUBSET NotesIn(N)
  PROVE  /\ Deleted(N, X) \in NoteMap
         /\ NotesIn(Deleted(N, X)) = NotesIn(N) \ Below(N, X)
         /\ \A n \in NotesIn(Deleted(N, X)) : Deleted(N, X)[n] = N[n] /\ n \notin X
  BY BelowHas DEF Deleted, NoteMap, NotesIn

LEMMA DeletedParents ==
  ASSUME NEW N \in NoteMap, NEW X \in SUBSET NotesIn(N), ParentsThere(N)
  PROVE  ParentsThere(Deleted(N, X))
  BY DeletedIs, BelowDown DEF ParentsThere

LEMMA DeletedShape ==
  ASSUME NEW N \in NoteMap, NEW X \in SUBSET NotesIn(N), NEW D, Shape(N, D), NEW E,
         \A n \in NotesIn(Deleted(N, X)) : N[n].parent # NoNote =>
            \E e \in Follows(E) : e[1] = N[n].subj /\ e[2] = N[N[n].parent].subj
  PROVE  Shape(Deleted(N, X), E)
  <1> DEFINE M == Deleted(N, X)
  <1>1. NotesIn(M) \subseteq NotesIn(N) /\ \A n \in NotesIn(M) : M[n] = N[n]
    BY DeletedIs
  <1>2. ParentsThere(M)
    BY DeletedParents DEF Shape
  <1> HIDE DEF M
  <1>3. AlongDeps(M, E)
    BY <1>1, <1>2 DEF AlongDeps, ParentsThere, M
  <1>4. OnceEach(M)
    BY <1>1 DEF Shape, OnceEach
  <1>5. ParentsEnd(M)
    BY <1>1 DEF Shape, ParentsEnd
  <1> QED BY <1>2, <1>3, <1>4, <1>5 DEF Shape, M

LEMMA DeletedActive ==
  ASSUME NEW N \in NoteMap, NEW X \in SUBSET NotesIn(N), ParentsThere(N), ActiveUp(N)
  PROVE  ActiveUp(Deleted(N, X))
  BY DeletedIs, DeletedParents DEF ParentsThere, ActiveUp

\* What is left of what covered the dependents of a note still does.
LEMMA DeletedCovered ==
  ASSUME NEW N \in NoteMap, NEW X \in SUBSET NotesIn(N), NEW D, AllCovered(N, D), NEW E,
         \A n \in NotesIn(Deleted(N, X)) : \A m \in Children(N, n) \cap X :
            \A e \in Follows(E) : ~(e[1] = N[m].subj /\ e[2] = N[n].subj),
         Follows(E) \subseteq Follows(D)
  PROVE  AllCovered(Deleted(N, X), E)
  <1> DEFINE M == Deleted(N, X)
  <1>1. NotesIn(M) = NotesIn(N) \ Below(N, X) /\ \A n \in NotesIn(M) : M[n] = N[n]
    BY DeletedIs
  <1> SUFFICES ASSUME NEW n \in NotesIn(M), ActiveWarning(M[n]) \/ Children(M, n) # {},
                      NEW e \in Follows(E), e[2] = M[n].subj
               PROVE  \E m \in Children(M, n) : M[m].subj = e[1]
    BY DEF AllCovered, CoveredBy
  <1>2. Children(M, n) \subseteq Children(N, n)
    BY <1>1 DEF Children
  <1>3. PICK m \in Children(N, n) : N[m].subj = e[1]
    BY <1>1, <1>2 DEF AllCovered, CoveredBy
  <1>4. m \in NotesIn(N) /\ N[m].parent = n
    BY DEF Children
  <1>5. m \notin X
    BY <1>1, <1>3
  <1>6. m \notin Below(N, X)
    BY <1>1, <1>4, <1>5, BelowUp
  <1>7. m \in Children(M, n) /\ M[m] = N[m]
    BY <1>1, <1>4, <1>6 DEF Children
  <1> QED BY <1>3, <1>7

-----------------------------------------------------------------------------
\* Notes are added below those there are.
Below1(N, P) == \A q \in P : q.of \in NotesIn(N) /\ q.on \in NoteRecs

LEMMA AddedIs ==
  ASSUME NEW N \in NoteMap, NEW P, Below1(N, P), NEW f \in Fresh(N, P)
  PROVE  /\ Added(N, P, f) \in NoteMap
         /\ \A n \in NotesIn(N) : n \in NotesIn(Added(N, P, f)) /\ Added(N, P, f)[n] = N[n]
         /\ \A q \in P : /\ f[q] \in NotesIn(Added(N, P, f)) \ NotesIn(N)
                         /\ Added(N, P, f)[f[q]] = [subj |-> q.on, type |-> N[q.of].type,
                                                    state |-> OPEN, parent |-> q.of]
         /\ \A n \in NotesIn(Added(N, P, f)) : n \in NotesIn(N) \/ \E q \in P : n = f[q]
  <1> DEFINE M == Added(N, P, f)
             New(q) == [subj |-> q.on, type |-> N[q.of].type, state |-> OPEN, parent |-> q.of]
  <1>1. /\ f \in [P -> NoteIds \ NotesIn(N)]
        /\ \A p, q \in P : f[p] = f[q] => p = q
    BY DEF Fresh, Injection, IsInjective
  <1>2. \A q \in P : New(q) \in Note /\ New(q) # NoNote
    BY NoteIs, NotesAssumption DEF Below1, Note, States, OPEN
  <1>3. ASSUME NEW q \in P PROVE M[f[q]] = New(q)
    <2>1. f[q] \in NoteIds
      BY <1>1
    <2>2. (CHOOSE p \in P : f[p] = f[q]) = q
      BY <1>1
    <2> QED BY <2>1, <2>2 DEF Added
  <1>4. ASSUME NEW n \in NoteIds, \A q \in P : f[q] # n PROVE M[n] = N[n]
    BY <1>4 DEF Added
  <1>5. \A n \in NoteIds : M[n] \in Note \cup {NoNote}
    BY <1>2, <1>3, <1>4 DEF NoteMap
  <1>6. M = [n \in NoteIds |-> M[n]]
    BY DEF Added
  <1> HIDE DEF M, New
  <1>7. M \in NoteMap
    BY <1>5, <1>6 DEF NoteMap
  <1>8. \A n \in NotesIn(N) : n \in NotesIn(M) /\ M[n] = N[n]
    BY <1>1, <1>4 DEF NotesIn
  <1>9. \A q \in P : f[q] \in NotesIn(M) \ NotesIn(N) /\ M[f[q]] = New(q)
    BY <1>1, <1>2, <1>3 DEF NotesIn
  <1>10. \A n \in NotesIn(M) : n \in NotesIn(N) \/ \E q \in P : n = f[q]
    BY <1>4 DEF NotesIn
  <1> QED BY <1>7, <1>8, <1>9, <1>10 DEF M, New

\* Where the parents are there, so are those of the new notes, which have no children.
LEMMA AddedParents ==
  ASSUME NEW N \in NoteMap, NEW P, Below1(N, P), NEW f \in Fresh(N, P), ParentsThere(N)
  PROVE  /\ ParentsThere(Added(N, P, f))
         /\ \A n \in NotesIn(Added(N, P, f)) :
              Added(N, P, f)[n].parent \in NotesIn(N) \cup {NoNote}
  <1> DEFINE M == Added(N, P, f)
  <1> SUFFICES ASSUME NEW n \in NotesIn(M)
               PROVE  M[n].parent \in NotesIn(N) \cup {NoNote}
    BY AddedIs DEF ParentsThere
  <1>1. CASE n \in NotesIn(N)
    BY <1>1, AddedIs DEF ParentsThere
  <1>2. ASSUME NEW q \in P, n = f[q]
        PROVE  M[n].parent \in NotesIn(N) \cup {NoNote}
    <2>1. M[f[q]] = [subj |-> q.on, type |-> N[q.of].type, state |-> OPEN, parent |-> q.of]
      BY AddedIs
    <2> QED BY <1>2, <2>1 DEF Below1
  <1> QED BY <1>1, <1>2, AddedIs

LEMMA AddedShape ==
  ASSUME NEW N \in NoteMap, NEW P, Below1(N, P), NEW f \in Fresh(N, P),
         NEW D, Shape(N, D), NEW E, Follows(D) \subseteq Follows(E),
         \A q \in P : \E e \in Follows(E) : e[1] = q.on /\ e[2] = N[q.of].subj,
         \A q \in P : \A m \in Children(N, q.of) : N[m].subj # q.on,
         \A p, q \in P : p.of = q.of /\ p.on = q.on => p = q
  PROVE  Shape(Added(N, P, f), E)
  <1> DEFINE M == Added(N, P, f)
  <1>1. \A n \in NotesIn(N) : n \in NotesIn(M) /\ M[n] = N[n]
    BY AddedIs
  <1>2. \A q \in P : f[q] \in NotesIn(M) \ NotesIn(N) /\ M[f[q]].subj = q.on /\ M[f[q]].parent = q.of
    <2> SUFFICES ASSUME NEW q \in P
                 PROVE  f[q] \in NotesIn(M) \ NotesIn(N) /\ M[f[q]].subj = q.on /\ M[f[q]].parent = q.of
      OBVIOUS
    <2>1. /\ f[q] \in NotesIn(M) \ NotesIn(N)
          /\ M[f[q]] = [subj |-> q.on, type |-> N[q.of].type, state |-> OPEN, parent |-> q.of]
      BY AddedIs
    <2> QED BY <2>1
  <1>3. \A n \in NotesIn(M) : n \in NotesIn(N) \/ \E q \in P : n = f[q]
    BY AddedIs
  <1>4. ParentsThere(M) /\ \A n \in NotesIn(M) : M[n].parent \in NotesIn(N) \cup {NoNote}
    BY AddedParents DEF Shape
  <1> HIDE DEF M
  <1>5. AlongDeps(M, E)
    <2> SUFFICES ASSUME NEW n \in NotesIn(M), M[n].parent # NoNote
                 PROVE  \E e \in Follows(E) : e[1] = M[n].subj /\ e[2] = M[M[n].parent].subj
      BY DEF AlongDeps
    <2>1. M[n].parent \in NotesIn(N)
      BY <1>4
    <2>2. CASE n \in NotesIn(N)
      BY <1>1, <2>1, <2>2 DEF Shape, AlongDeps
    <2>3. ASSUME NEW q \in P, n = f[q]
          PROVE  \E e \in Follows(E) : e[1] = M[n].subj /\ e[2] = M[M[n].parent].subj
      BY <1>1, <1>2, <2>1, <2>3
    <2> QED BY <1>3, <2>2, <2>3
  <1>6. OnceEach(M)
    <2> SUFFICES ASSUME NEW n \in NotesIn(M), NEW m \in NotesIn(M), M[n].parent # NoNote,
                        M[m].parent = M[n].parent, M[m].subj = M[n].subj
                 PROVE  n = m
      BY DEF OnceEach
    <2>1. CASE n \in NotesIn(N) /\ m \in NotesIn(N)
      BY <1>1, <2>1 DEF Shape, OnceEach
    <2>2. ASSUME NEW q \in P, n = f[q], m \in NotesIn(N)
          PROVE  FALSE
      BY <1>1, <1>2, <2>2 DEF Children
    <2>3. ASSUME NEW q \in P, m = f[q], n \in NotesIn(N)
          PROVE  FALSE
      BY <1>1, <1>2, <2>3 DEF Children
    <2>4. ASSUME NEW q \in P, NEW p \in P, n = f[q], m = f[p]
          PROVE  n = m
      BY <1>2, <2>4
    <2> QED BY <1>3, <2>1, <2>2, <2>3, <2>4
  <1>7. ParentsEnd(M)
    <2> SUFFICES ASSUME NEW S \in (SUBSET NotesIn(M)) \ {{}}
                 PROVE  \E x \in S : M[x].parent \notin S
      BY DEF ParentsEnd
    <2>1. CASE S \cap NotesIn(N) = {}
      <3>1. PICK x \in S : TRUE
        OBVIOUS
      <3>2. M[x].parent \in NotesIn(N) \cup {NoNote}
        BY <1>4
      <3>3. NoNote \notin S
        BY NotesAssumption DEF NotesIn
      <3> QED BY <2>1, <3>1, <3>2, <3>3
    <2>2. CASE S \cap NotesIn(N) # {}
      <3>1. PICK x \in S \cap NotesIn(N) : N[x].parent \notin S \cap NotesIn(N)
        BY <2>2 DEF Shape, ParentsEnd
      <3>2. M[x].parent = N[x].parent /\ M[x].parent \in NotesIn(N) \cup {NoNote} /\ NoNote \notin S
        BY <1>1, <1>4, <3>1, NotesAssumption DEF NotesIn
      <3> QED BY <3>1, <3>2
    <2> QED BY <2>1, <2>2
  <1> QED BY <1>4, <1>5, <1>6, <1>7 DEF Shape, M

LEMMA AddedActive ==
  ASSUME NEW N \in NoteMap, NEW P, Below1(N, P), NEW f \in Fresh(N, P), ParentsThere(N), ActiveUp(N)
  PROVE  ActiveUp(Added(N, P, f))
  <1> DEFINE M == Added(N, P, f)
  <1> SUFFICES ASSUME NEW n \in NotesIn(M), M[n].parent # NoNote, M[n].state = ACTIVE
               PROVE  M[M[n].parent].state = ACTIVE
    BY DEF ActiveUp
  <1>1. CASE n \in NotesIn(N)
    <2>1. M[n] = N[n]
      BY <1>1, AddedIs
    <2>2. N[n].parent \in NotesIn(N)
      BY <1>1, <2>1 DEF ParentsThere
    <2>3. M[N[n].parent] = N[N[n].parent]
      BY <2>2, AddedIs
    <2> QED BY <1>1, <2>1, <2>3 DEF ActiveUp
  <1>2. ASSUME NEW q \in P, n = f[q]
        PROVE  FALSE
    <2>1. M[f[q]] = [subj |-> q.on, type |-> N[q.of].type, state |-> OPEN, parent |-> q.of]
      BY AddedIs
    <2> QED BY <1>2, <2>1 DEF OPEN, ACTIVE
  <1> QED BY <1>1, <1>2, AddedIs

LEMMA AddedCovered ==
  ASSUME NEW N \in NoteMap, NEW P, Below1(N, P), NEW f \in Fresh(N, P), ParentsThere(N), NEW E,
         \A n \in NotesIn(N) : ActiveWarning(N[n]) \/ Children(N, n) # {} \/ (\E q \in P : q.of = n) =>
           \A e \in Follows(E) : e[2] = N[n].subj =>
              (\E m \in Children(N, n) : N[m].subj = e[1]) \/ \E q \in P : q.of = n /\ q.on = e[1]
  PROVE  AllCovered(Added(N, P, f), E)
  <1> DEFINE M == Added(N, P, f)
  <1>1. \A n \in NotesIn(N) : n \in NotesIn(M) /\ M[n] = N[n]
    BY AddedIs
  <1>2. \A q \in P : f[q] \in NotesIn(M) /\ M[f[q]].subj = q.on /\ M[f[q]].parent = q.of /\ M[f[q]].state = OPEN
    <2> SUFFICES ASSUME NEW q \in P
                 PROVE  /\ f[q] \in NotesIn(M) /\ M[f[q]].subj = q.on /\ M[f[q]].parent = q.of
                        /\ M[f[q]].state = OPEN
      OBVIOUS
    <2>1. /\ f[q] \in NotesIn(M)
          /\ M[f[q]] = [subj |-> q.on, type |-> N[q.of].type, state |-> OPEN, parent |-> q.of]
      BY AddedIs
    <2> QED BY <2>1
  <1>3. \A n \in NotesIn(M) : n \in NotesIn(N) \/ \E q \in P : n = f[q]
    BY AddedIs
  <1>4. \A n \in NotesIn(M) : M[n].parent \in NotesIn(N) \cup {NoNote}
    BY AddedParents
  <1> HIDE DEF M
  <1>5. \A n \in NotesIn(M) : ActiveWarning(M[n]) \/ Children(M, n) # {} => n \in NotesIn(N)
    <2> SUFFICES ASSUME NEW n \in NotesIn(M), n \notin NotesIn(N)
                 PROVE  ~ActiveWarning(M[n]) /\ Children(M, n) = {}
      OBVIOUS
    <2>1. PICK q \in P : n = f[q]
      BY <1>3
    <2>2. ~ActiveWarning(M[n])
      BY <1>2, <2>1 DEF ActiveWarning, OPEN, ACTIVE
    <2>3. n # NoNote
      BY NotesAssumption DEF NotesIn
    <2>4. Children(M, n) = {}
      BY <1>4, <2>3 DEF Children
    <2> QED BY <2>2, <2>4
  <1>6. \A n \in NotesIn(N) : Children(M, n) # {} => Children(N, n) # {} \/ \E q \in P : q.of = n
    <2> SUFFICES ASSUME NEW n \in NotesIn(N), NEW m \in Children(M, n)
                 PROVE  Children(N, n) # {} \/ \E q \in P : q.of = n
      OBVIOUS
    <2>1. m \in NotesIn(M) /\ M[m].parent = n
      BY DEF Children
    <2>2. CASE m \in NotesIn(N)
      <3>1. m \in Children(N, n)
        BY <1>1, <2>1, <2>2 DEF Children
      <3> QED BY <3>1
    <2> QED BY <1>2, <1>3, <2>1, <2>2
  <1>7. ASSUME NEW n \in NotesIn(M), ActiveWarning(M[n]) \/ Children(M, n) # {},
               NEW e \in Follows(E), e[2] = M[n].subj
        PROVE  \E m \in Children(M, n) : M[m].subj = e[1]
    <2>1. n \in NotesIn(N) /\ M[n] = N[n]
      BY <1>1, <1>5, <1>7
    <2>2. (\E m \in Children(N, n) : N[m].subj = e[1]) \/ \E q \in P : q.of = n /\ q.on = e[1]
      BY <1>6, <1>7, <2>1
    <2>3. ASSUME NEW m \in Children(N, n), N[m].subj = e[1]
          PROVE  m \in Children(M, n) /\ M[m].subj = e[1]
      BY <1>1, <2>3 DEF Children
    <2>4. ASSUME NEW q \in P, q.of = n, q.on = e[1]
          PROVE  f[q] \in Children(M, n) /\ M[f[q]].subj = e[1]
      BY <1>2, <2>4 DEF Children
    <2> QED BY <2>2, <2>3, <2>4
  <1> QED BY <1>7 DEF AllCovered, CoveredBy, M

-----------------------------------------------------------------------------
\* Types and states change.
Alike(N, M) == /\ NotesIn(M) = NotesIn(N)
               /\ \A n \in NotesIn(N) : M[n].subj = N[n].subj /\ M[n].parent = N[n].parent

LEMMA AlikeShape ==
  ASSUME NEW N, NEW M, Alike(N, M), NEW D, Shape(N, D)
  PROVE  Shape(M, D)
  <1>1. ParentsThere(M)
    BY DEF Alike, Shape, ParentsThere
  <1>2. AlongDeps(M, D)
    BY <1>1 DEF Alike, Shape, AlongDeps, ParentsThere
  <1>3. OnceEach(M)
    BY DEF Alike, Shape, OnceEach
  <1>4. ParentsEnd(M)
    BY DEF Alike, Shape, ParentsEnd
  <1> QED BY <1>1, <1>2, <1>3, <1>4 DEF Shape

LEMMA AlikeCovered ==
  ASSUME NEW N, NEW M, Alike(N, M), NEW D, AllCovered(N, D),
         \A n \in NotesIn(N) : ActiveWarning(M[n]) => ActiveWarning(N[n]) \/ Children(N, n) # {}
  PROVE  AllCovered(M, D)
  <1>1. \A n : Children(M, n) = Children(N, n)
    BY BelowAlike DEF Alike
  <1> SUFFICES ASSUME NEW n \in NotesIn(M), ActiveWarning(M[n]) \/ Children(M, n) # {},
                      NEW e \in Follows(D), e[2] = M[n].subj
               PROVE  \E m \in Children(M, n) : M[m].subj = e[1]
    BY DEF AllCovered, CoveredBy
  <1>2. n \in NotesIn(N) /\ e[2] = N[n].subj /\ (ActiveWarning(N[n]) \/ Children(N, n) # {})
    BY <1>1 DEF Alike
  <1>3. PICK m \in Children(N, n) : N[m].subj = e[1]
    BY <1>2 DEF AllCovered, CoveredBy
  <1>4. m \in NotesIn(N)
    BY DEF Children
  <1> QED BY <1>1, <1>3, <1>4 DEF Alike

\* Nothing is below itself.
LEMMA NoLoop ==
  ASSUME NEW N, ParentsEnd(N), NEW n \in NotesIn(N)
  PROVE  N[n].parent \notin Below(N, {n})
  <1> SUFFICES ASSUME N[n].parent \in Below(N, {n}) PROVE FALSE
    OBVIOUS
  <1> DEFINE S == Below(N, {n})
  <1>1. n \in S /\ S \subseteq NotesIn(N)
    BY BelowHas DEF Below
  <1>2. \A x \in S : N[x].parent \in S
    BY BelowUp
  <1> HIDE DEF S
  <1> QED BY <1>1, <1>2 DEF ParentsEnd

LEMMA NoLoopBelow ==
  ASSUME NEW N, ParentsEnd(N), NEW n \in NotesIn(N), NEW m \in Below(N, {n}), n \in Below(N, {m})
  PROVE  m = n
  <1>1. m \in NotesIn(N)
    BY DEF Below
  <1>2. n = m \/ N[n].parent \in Below(N, {m})
    BY <1>1, BelowUp
  <1>3. Below(N, {m}) \subseteq Below(N, {n})
    BY BelowTrans
  <1> QED BY <1>2, <1>3, NoLoop

\* What annotationUpdateDependents changes: what is below, or the children.
Retyped(new, old) == new.type # old.type
LeftActive(new, old) == old.state = ACTIVE /\ new.state # ACTIVE
Entered(new, old) == old.state # ACTIVE /\ new.state = ACTIVE
Reach(N, n, old) == IF Retyped(N[n], old) \/ LeftActive(N[n], old) THEN Below(N, {n}) \ {n}
                    ELSE IF Entered(N[n], old) THEN Children(N, n) ELSE {}

LEMMA UpdatedIs ==
  ASSUME NEW N \in NoteMap, NEW n \in NotesIn(N), NEW old
  PROVE  /\ UpdateDependents(N, n, old) \in NoteMap
         /\ Alike(N, UpdateDependents(N, n, old))
         /\ \A m \in NotesIn(N) \ Reach(N, n, old) : UpdateDependents(N, n, old)[m] = N[m]
         /\ \A m \in Reach(N, n, old) :
              UpdateDependents(N, n, old)[m].state =
                IF m \in Children(N, n) /\ ActiveWarning(N[n]) THEN OPEN ELSE CLOSED
  <1> DEFINE M == UpdateDependents(N, n, old)
             R == Reach(N, n, old)
             New(m) == [N[m] EXCEPT !.type = N[n].type,
                          !.state = IF m \in Children(N, n) /\ ActiveWarning(N[n]) THEN OPEN ELSE CLOSED]
  <1>1. R \subseteq NotesIn(N)
    BY DEF Reach, Below, Children
  <1>2. M = [m \in NoteIds |-> IF m \notin R THEN N[m] ELSE New(m)]
    <2>1. CASE Retyped(N[n], old) \/ LeftActive(N[n], old)
      BY <2>1 DEF UpdateDependents, Reach, Retyped, LeftActive
    <2>2. CASE ~(Retyped(N[n], old) \/ LeftActive(N[n], old)) /\ Entered(N[n], old)
      BY <2>2 DEF UpdateDependents, Reach, Retyped, LeftActive, Entered
    <2>3. CASE ~(Retyped(N[n], old) \/ LeftActive(N[n], old) \/ Entered(N[n], old))
      <3>1. M = N /\ R = {}
        BY <2>3 DEF UpdateDependents, Reach, Retyped, LeftActive, Entered
      <3> HIDE DEF M, R
      <3> QED BY <3>1 DEF NoteMap
    <2> QED BY <2>1, <2>2, <2>3
  <1>3. \A m \in R : /\ New(m) \in Note /\ New(m).subj = N[m].subj /\ New(m).parent = N[m].parent
                     /\ New(m).state = IF m \in Children(N, n) /\ ActiveWarning(N[n]) THEN OPEN ELSE CLOSED
    <2> SUFFICES ASSUME NEW m \in NotesIn(N)
                 PROVE  /\ New(m) \in Note /\ New(m).subj = N[m].subj /\ New(m).parent = N[m].parent
                        /\ New(m).state = IF m \in Children(N, n) /\ ActiveWarning(N[n]) THEN OPEN ELSE CLOSED
      BY <1>1
    <2> DEFINE st == IF m \in Children(N, n) /\ ActiveWarning(N[n]) THEN OPEN ELSE CLOSED
    <2>1. N[m] \in Note /\ N[n].type \in Types /\ st \in States
      BY NoteIs DEF States
    <2> HIDE DEF st
    <2>2. [N[m] EXCEPT !.type = N[n].type, !.state = st] \in Note
      BY <2>1 DEF Note
    <2>3. /\ [N[m] EXCEPT !.type = N[n].type, !.state = st].subj = N[m].subj
          /\ [N[m] EXCEPT !.type = N[n].type, !.state = st].parent = N[m].parent
          /\ [N[m] EXCEPT !.type = N[n].type, !.state = st].state = st
      BY <2>1 DEF Note
    <2> QED BY <2>2, <2>3 DEF st
  <1> HIDE DEF M, R, New
  <1>4. /\ \A m \in NotesIn(N) \ R : M[m] = N[m]
        /\ \A m \in R : M[m] = New(m)
    BY <1>1, <1>2 DEF NotesIn
  <1>5. M \in NoteMap
    BY <1>2, <1>3 DEF NoteMap
  <1>6. NotesIn(M) = NotesIn(N)
    BY <1>1, <1>2, <1>3, NotesAssumption DEF NotesIn
  <1>7. Alike(N, M)
    BY <1>3, <1>4, <1>6 DEF Alike
  <1>8. \A m \in R : M[m].state = IF m \in Children(N, n) /\ ActiveWarning(N[n]) THEN OPEN ELSE CLOSED
    BY <1>3, <1>4
  <1> QED BY <1>4, <1>5, <1>7, <1>8 DEF M, R

-----------------------------------------------------------------------------
\* The variables have their types, whatever is asked for.
OnRecords(N, R) == \A n \in NotesIn(N) : N[n].subj \in R
TypeInv == NotesTypeOK /\ ParentsThere(note)

LEMMA TypesOfNotes == NotesTypeOK => note \in NoteMap /\ OnRecords(note, recs)
  BY DEF NotesTypeOK, NoteMap, OnRecords

LEMMA AddedOn ==
  ASSUME NEW N \in NoteMap, NEW P, Below1(N, P), NEW f \in Fresh(N, P),
         NEW R, OnRecords(N, R), \A q \in P : q.on \in R
  PROVE  OnRecords(Added(N, P, f), R)
  <1> DEFINE M == Added(N, P, f)
  <1> SUFFICES ASSUME NEW n \in NotesIn(M) PROVE M[n].subj \in R
    BY DEF OnRecords
  <1>1. CASE n \in NotesIn(N)
    BY <1>1, AddedIs DEF OnRecords
  <1>2. ASSUME NEW q \in P, n = f[q] PROVE M[n].subj \in R
    <2>1. M[f[q]] = [subj |-> q.on, type |-> N[q.of].type, state |-> OPEN, parent |-> q.of]
      BY AddedIs
    <2> QED BY <1>2, <2>1
  <1> QED BY <1>1, <1>2, AddedIs

LEMMA DeletedOn ==
  ASSUME NEW N \in NoteMap, NEW X \in SUBSET NotesIn(N), NEW R, OnRecords(N, R)
  PROVE  OnRecords(Deleted(N, X), R)
  BY DeletedIs DEF OnRecords

\* What is added for the dependencies of r, and for the dependents of n.
LEMMA ForAddedIs ==
  ASSUME NEW N, NEW r, NEW T
  PROVE  /\ \A q \in ForAdded(N, r, T) : q.on = r /\ q.of \in NotesIn(N) /\ N[q.of].subj \in T
         /\ \A p, q \in ForAdded(N, r, T) : p.of = q.of => p = q
         /\ \A k \in NotesIn(N) :
              N[k].subj \in T /\ IsWarning(N[k]) /\ (N[k].state = ACTIVE \/ Children(N, k) # {})
                => \E q \in ForAdded(N, r, T) : q.of = k /\ q.on = r
  <1> DEFINE K == {k \in NotesIn(N) : /\ N[k].subj \in T /\ IsWarning(N[k])
                                      /\ N[k].state = ACTIVE \/ Children(N, k) # {}}
  <1>1. ForAdded(N, r, T) = {[of |-> k, on |-> r, by |-> NoNote] : k \in K}
    BY DEF ForAdded
  <1> HIDE DEF K
  <1>2. \A q \in ForAdded(N, r, T) : \E k \in K : q = [of |-> k, on |-> r, by |-> NoNote]
    BY <1>1
  <1>3. ASSUME NEW k \in K PROVE \E q \in ForAdded(N, r, T) : q.of = k /\ q.on = r
    <2>1. [of |-> k, on |-> r, by |-> NoNote] \in ForAdded(N, r, T)
      BY <1>1
    <2> QED BY <2>1
  <1>4. ASSUME NEW q \in ForAdded(N, r, T)
        PROVE  q.on = r /\ q.of \in NotesIn(N) /\ N[q.of].subj \in T
    <2>1. PICK k \in K : q = [of |-> k, on |-> r, by |-> NoNote]
      BY <1>2
    <2> QED BY <2>1 DEF K
  <1>5. ASSUME NEW p \in ForAdded(N, r, T), NEW q \in ForAdded(N, r, T), p.of = q.of
        PROVE  p = q
    <2>1. PICK k \in K : q = [of |-> k, on |-> r, by |-> NoNote]
      BY <1>2
    <2>2. PICK m \in K : p = [of |-> m, on |-> r, by |-> NoNote]
      BY <1>2
    <2> QED BY <1>5, <2>1, <2>2
  <1> QED BY <1>3, <1>4, <1>5 DEF K

LEMMA ForDependentsIs ==
  ASSUME NEW N, NEW n \in NotesIn(N), dep \subseteq recs \X recs \X DepTypes
  PROVE  /\ \A q \in ForDependents(N, n) :
              /\ q.of = n /\ q.on \in recs
              /\ \E e \in Follows(dep) : e[1] = q.on /\ e[2] = N[n].subj
         /\ \A e \in Follows(dep) : e[2] = N[n].subj =>
              \E q \in ForDependents(N, n) : q.of = n /\ q.on = e[1]
  <1>1. \A e \in Follows(dep) : e[1] \in recs
    BY DEF Follows
  <1>2. \A q \in ForDependents(N, n) : \E e \in Follows(dep) :
           e[2] = N[n].subj /\ q = [of |-> n, on |-> e[1], by |-> e[3]]
    BY DEF ForDependents
  <1>3. ASSUME NEW e \in Follows(dep), e[2] = N[n].subj
        PROVE  \E q \in ForDependents(N, n) : q.of = n /\ q.on = e[1]
    <2>1. [of |-> n, on |-> e[1], by |-> e[3]] \in ForDependents(N, n)
      BY <1>3 DEF ForDependents
    <2> QED BY <2>1
  <1>4. ASSUME NEW q \in ForDependents(N, n)
        PROVE  /\ q.of = n /\ q.on \in recs
               /\ \E e \in Follows(dep) : e[1] = q.on /\ e[2] = N[n].subj
    <2>1. PICK e \in Follows(dep) : e[2] = N[n].subj /\ q = [of |-> n, on |-> e[1], by |-> e[3]]
      BY <1>2
    <2> QED BY <1>1, <2>1
  <1> QED BY <1>3, <1>4

\* One for each dependent, where two records have one dependency at most.
SinglePairs(D) == \A d, e \in D : d[1] = e[1] /\ d[2] = e[2] => d = e

LEMMA ForDependentsOnce ==
  ASSUME NEW N, NEW n, SinglePairs(dep), NEW p \in ForDependents(N, n), NEW q \in ForDependents(N, n),
         p.on = q.on
  PROVE  p = q
  <1>1. PICK e \in Follows(dep) : e[2] = N[n].subj /\ q = [of |-> n, on |-> e[1], by |-> e[3]]
    BY DEF ForDependents
  <1>2. PICK d \in Follows(dep) : d[2] = N[n].subj /\ p = [of |-> n, on |-> d[1], by |-> d[3]]
    BY DEF ForDependents
  <1>3. d = e
    BY <1>1, <1>2 DEF SinglePairs, Follows
  <1> QED BY <1>1, <1>2, <1>3

LEMMA ForAddedWhy ==
  ASSUME NEW N, NEW r, NEW T, NEW q \in ForAdded(N, r, T)
  PROVE  ActiveWarning(N[q.of]) \/ Children(N, q.of) # {}
  <1>1. PICK k \in NotesIn(N) : /\ IsWarning(N[k])
                                /\ N[k].state = ACTIVE \/ Children(N, k) # {}
                                /\ q = [of |-> k, on |-> r, by |-> NoNote]
    BY DEF ForAdded
  <1> QED BY <1>1 DEF ActiveWarning

LEMMA ForAddedOn ==
  ASSUME NEW N, NEW r \in NoteRecs, NEW T, NEW R, r \in R
  PROVE  Below1(N, ForAdded(N, r, T)) /\ \A q \in ForAdded(N, r, T) : q.on \in R
  <1>1. Below1(N, ForAdded(N, r, T))
    BY ForAddedIs DEF Below1
  <1>2. \A q \in ForAdded(N, r, T) : q.on = r
    BY ForAddedIs
  <1> QED BY <1>1, <1>2

LEMMA ForDependentsOn ==
  ASSUME NEW N, NEW n \in NotesIn(N), dep \subseteq recs \X recs \X DepTypes, recs \subseteq NoteRecs
  PROVE  /\ Below1(N, ForDependents(N, n))
         /\ \A q \in ForDependents(N, n) : q.on \in recs /\ q.of = n
  <1>1. Below1(N, ForDependents(N, n))
    BY ForDependentsIs DEF Below1
  <1>2. \A q \in ForDependents(N, n) : q.of = n /\ q.on \in recs
    BY ForDependentsIs
  <1> QED BY <1>1, <1>2

-----------------------------------------------------------------------------
\* What the operations make of the notes.
Made(n, r, ty, a) == [note EXCEPT ![n] = [subj |-> r, type |-> ty, parent |-> NoNote,
                                          state |-> IF a THEN ACTIVE ELSE OPEN]]
Changed(n, ty, st) == [note EXCEPT ![n].type = ty, ![n].state = st]

LEMMA CreateNoteMap ==
  ASSUME TypeInv, NEW n \in NoteIds, note[n] = NoNote, NEW r \in recs, NEW ty \in Types, NEW a \in BOOLEAN,
         NEW N, N = Made(n, r, ty, a)
  PROVE  /\ N \in NoteMap /\ NotesIn(N) = NotesIn(note) \cup {n} /\ n \notin NotesIn(note)
         /\ \A k \in NotesIn(note) : N[k] = note[k]
         /\ N[n].subj = r /\ N[n].parent = NoNote
         /\ ParentsThere(N) /\ OnRecords(N, recs) /\ Children(N, n) = {}
  <1> DEFINE new == [subj |-> r, type |-> ty, parent |-> NoNote, state |-> IF a THEN ACTIVE ELSE OPEN]
  <1>1. note \in NoteMap /\ OnRecords(note, recs) /\ r \in NoteRecs
    BY TypesOfNotes DEF TypeInv, NotesTypeOK
  <1>2. new \in Note /\ new # NoNote /\ new.subj = r /\ new.parent = NoNote
    BY <1>1, NotesAssumption DEF Note, States
  <1> HIDE DEF new
  <1>3. N = [note EXCEPT ![n] = new]
    BY DEF new, Made
  <1>4. N \in NoteMap /\ N[n] = new /\ \A k \in NoteIds \ {n} : N[k] = note[k]
    BY <1>1, <1>2, <1>3 DEF NoteMap
  <1>5. NotesIn(N) = NotesIn(note) \cup {n} /\ n \notin NotesIn(note)
    BY <1>2, <1>4 DEF NotesIn
  <1>6. \A k \in NotesIn(note) : N[k] = note[k]
    BY <1>4, <1>5 DEF NotesIn
  <1>7. ParentsThere(N)
    BY <1>2, <1>4, <1>5, <1>6 DEF TypeInv, ParentsThere
  <1>8. OnRecords(N, recs)
    BY <1>1, <1>2, <1>4, <1>5, <1>6 DEF OnRecords
  <1>9. Children(N, n) = {}
    <2> SUFFICES ASSUME NEW m \in NotesIn(N), N[m].parent = n PROVE FALSE
      BY DEF Children
    <2>1. n # NoNote
      BY NotesAssumption
    <2>2. m \in NotesIn(note) /\ note[m].parent = n
      BY <1>2, <1>4, <1>5, <1>6, <2>1
    <2> QED BY <1>5, <2>1, <2>2 DEF TypeInv, ParentsThere
  <1> QED BY <1>2, <1>4, <1>5, <1>6, <1>7, <1>8, <1>9

LEMMA UpdateNoteMap ==
  ASSUME TypeInv, NEW n \in NotesIn(note), NEW ty \in Types, NEW st \in States,
         NEW N, N = Changed(n, ty, st)
  PROVE  /\ N \in NoteMap /\ Alike(note, N) /\ N[n].type = ty /\ N[n].state = st
         /\ \A k \in NotesIn(note) \ {n} : N[k] = note[k]
         /\ ParentsThere(N) /\ OnRecords(N, recs)
  <1> DEFINE new == [[note[n] EXCEPT !.type = ty] EXCEPT !.state = st]
  <1>1. note \in NoteMap /\ OnRecords(note, recs) /\ n \in NoteIds /\ note[n] \in Note
    BY TypesOfNotes, NoteIs DEF TypeInv
  <1>2. /\ new \in Note /\ new.subj = note[n].subj /\ new.parent = note[n].parent
        /\ new.type = ty /\ new.state = st
    BY <1>1 DEF Note
  <1>3. N = [note EXCEPT ![n] = new]
    BY <1>1 DEF NoteMap, Changed
  <1> HIDE DEF new
  <1>4. N \in NoteMap /\ N[n] = new /\ \A k \in NoteIds \ {n} : N[k] = note[k]
    BY <1>1, <1>2, <1>3 DEF NoteMap
  <1>5. NotesIn(N) = NotesIn(note) /\ new # NoNote
    BY <1>2, <1>4, NotesAssumption DEF NotesIn
  <1>6. Alike(note, N)
    BY <1>2, <1>4, <1>5 DEF Alike, NotesIn
  <1>7. ParentsThere(N)
    BY <1>6 DEF Alike, TypeInv, ParentsThere
  <1>8. OnRecords(N, recs)
    BY <1>1, <1>6 DEF Alike, OnRecords
  <1> QED BY <1>2, <1>4, <1>6, <1>7, <1>8 DEF NotesIn

LEMMA AlikeTypes ==
  ASSUME NEW N, NEW M, Alike(N, M), NEW R
  PROVE  (ParentsThere(N) => ParentsThere(M)) /\ (OnRecords(N, R) => OnRecords(M, R))
  BY DEF Alike, ParentsThere, OnRecords

-----------------------------------------------------------------------------
\* Each operation keeps the types.
LEMMA TypeOfStep ==
  ASSUME recs' \subseteq NoteRecs, unmade' \subseteq NoteRecs \ recs',
         dep' \subseteq recs' \X recs' \X DepTypes,
         note' \in NoteMap, OnRecords(note', recs'), ParentsThere(note')
  PROVE  TypeInv'
  BY DEF TypeInv, NotesTypeOK, NoteMap, OnRecords, NotesIn, ParentsThere

LEMMA CreateTypes ==
  ASSUME TypeInv, NEW r \in unmade, NEW D \in SUBSET Edges(r), RecordCreate(r, D)
  PROVE  TypeInv'
  <1> DEFINE P == ForAdded(note, r, Targets(Follows(D)))
  <1>1. /\ \A e \in D : e[1] = r /\ e[2] \in recs \cup ({r} \cap Aliased)
        /\ recs' = recs \cup {r} /\ unmade' = unmade \ {r} /\ dep' = dep \cup D
    BY DEF RecordCreate
  <1>2. PICK f \in Fresh(note, P) : note' = Added(note, P, f)
    BY DEF RecordCreate
  <1>3. note \in NoteMap /\ OnRecords(note, recs') /\ r \in NoteRecs
    BY <1>1, TypesOfNotes DEF TypeInv, NotesTypeOK, OnRecords
  <1>4. Below1(note, P) /\ \A q \in P : q.on \in recs'
    BY <1>1, <1>3, ForAddedOn
  <1> HIDE DEF P
  <1>5. note' \in NoteMap /\ OnRecords(note', recs') /\ ParentsThere(note')
    BY <1>2, <1>3, <1>4, AddedIs, AddedOn, AddedParents DEF TypeInv
  <1>6. dep' \subseteq recs' \X recs' \X DepTypes
    BY <1>1 DEF TypeInv, NotesTypeOK, Edges
  <1>7. recs' \subseteq NoteRecs /\ unmade' \subseteq NoteRecs \ recs'
    BY <1>1, <1>3 DEF TypeInv, NotesTypeOK
  <1> QED BY <1>5, <1>6, <1>7, TypeOfStep

LEMMA DroppedIs ==
  ASSUME TypeInv, NEW r, NEW T
  PROVE  \E X \in SUBSET NotesIn(note) :
           /\ Dropped(note, r, T) = Deleted(note, X)
           /\ X = {n \in NotesOn(note, r) : note[n].parent # NoNote /\ note[note[n].parent].subj \in T}
  BY DEF Dropped, NotesOn

LEMMA UpdateDepsTypes ==
  ASSUME TypeInv, NEW r \in recs, NEW rem \in SUBSET DepsOf(r), NEW add \in SUBSET Edges(r),
         UpdateDeps(r, rem, add)
  PROVE  TypeInv'
  <1> DEFINE N == Dropped(note, r, Targets(Follows(rem)))
             P == ForAdded(N, r, Targets(Follows(add)))
  <1>1. /\ dep' = (dep \ rem) \cup add /\ UNCHANGED <<recs, unmade>>
        /\ \A e \in rem \cup add : e[1] = r /\ e[2] \in recs
    BY DEF UpdateDeps
  <1>2. PICK f \in Fresh(N, P) : note' = Added(N, P, f)
    BY DEF UpdateDeps
  <1>3. note \in NoteMap /\ OnRecords(note, recs) /\ r \in NoteRecs
    BY TypesOfNotes DEF TypeInv, NotesTypeOK
  <1>4. N \in NoteMap /\ OnRecords(N, recs) /\ ParentsThere(N)
    BY <1>3, DroppedIs, DeletedIs, DeletedOn, DeletedParents DEF TypeInv
  <1> HIDE DEF N
  <1>5. Below1(N, P) /\ \A q \in P : q.on \in recs
    BY <1>3, ForAddedOn
  <1> HIDE DEF P
  <1>6. note' \in NoteMap /\ OnRecords(note', recs) /\ ParentsThere(note')
    BY <1>2, <1>4, <1>5, AddedIs, AddedOn, AddedParents
  <1>7. dep' \subseteq recs \X recs \X DepTypes
    BY <1>1 DEF TypeInv, NotesTypeOK, Edges
  <1> QED BY <1>1, <1>6, <1>7, TypeOfStep DEF TypeInv, NotesTypeOK

LEMMA RecordDeleteTypes ==
  ASSUME TypeInv, NEW r \in NoteRecs, RecordDelete(r)
  PROVE  TypeInv'
  <1> DEFINE X == NotesOn(note, r)
  <1>1. /\ recs' = recs \ {r} /\ dep' = {e \in dep : r \notin {e[1], e[2]}}
        /\ note' = Deleted(note, X) /\ unmade' = unmade
    BY DEF RecordDelete
  <1>2. note \in NoteMap /\ OnRecords(note, recs) /\ X \in SUBSET NotesIn(note)
    BY TypesOfNotes DEF TypeInv, NotesOn
  <1>3. note' \in NoteMap /\ ParentsThere(note')
    BY <1>1, <1>2, DeletedIs, DeletedParents DEF TypeInv
  <1>4. OnRecords(note', recs')
    BY <1>1, <1>2, DeletedIs DEF OnRecords, NotesOn
  <1>5. dep' \subseteq recs' \X recs' \X DepTypes
    BY <1>1 DEF TypeInv, NotesTypeOK
  <1> QED BY <1>1, <1>3, <1>4, <1>5, TypeOfStep DEF TypeInv, NotesTypeOK

LEMMA CreateNoteTypes ==
  ASSUME TypeInv, NEW n \in NoteIds, NEW r \in NoteRecs, NEW ty \in Types, NEW a \in BOOLEAN,
         CreateNote(n, r, ty, a)
  PROVE  TypeInv'
  <1> DEFINE N == Made(n, r, ty, a)
             P == IF ActiveWarning(N[n]) THEN ForDependents(N, n) ELSE {}
  <1>1. r \in recs /\ note[n] = NoNote /\ UNCHANGED <<recs, unmade, dep>>
    BY DEF CreateNote
  <1>2. PICK f \in Fresh(N, P) : note' = Added(N, P, f)
    BY DEF CreateNote, Made
  <1>3. N \in NoteMap /\ n \in NotesIn(N) /\ ParentsThere(N) /\ OnRecords(N, recs)
    BY <1>1, CreateNoteMap
  <1> HIDE DEF N
  <1>4. dep \subseteq recs \X recs \X DepTypes /\ recs \subseteq NoteRecs
    BY DEF TypeInv, NotesTypeOK
  <1>5. Below1(N, P) /\ \A q \in P : q.on \in recs
    <2>1. /\ Below1(N, ForDependents(N, n))
          /\ \A q \in ForDependents(N, n) : q.on \in recs
      BY <1>3, <1>4, ForDependentsOn
    <2>2. P = {} \/ P = ForDependents(N, n)
      OBVIOUS
    <2> HIDE DEF P
    <2> QED BY <2>1, <2>2 DEF Below1
  <1> HIDE DEF P
  <1>6. note' \in NoteMap /\ OnRecords(note', recs) /\ ParentsThere(note')
    BY <1>2, <1>3, <1>5, AddedIs, AddedOn, AddedParents
  <1> QED BY <1>1, <1>4, <1>6, TypeOfStep DEF TypeInv, NotesTypeOK

LEMMA UpdateNoteTypes ==
  ASSUME TypeInv, NEW n \in NoteIds, NEW ty \in Types, NEW st \in States, UpdateNote(n, ty, st)
  PROVE  TypeInv'
  <1> DEFINE N == Changed(n, ty, st)
             P == IF Children(note, n) = {} /\ ActiveWarning(N[n]) THEN ForDependents(N, n) ELSE {}
  <1>1. n \in NotesIn(note) /\ UNCHANGED <<recs, unmade, dep>>
    BY DEF UpdateNote, NotesIn
  <1>2. \/ note' = UpdateDependents(N, n, note[n])
        \/ \E f \in Fresh(N, P) : note' = Added(N, P, f)
    BY DEF UpdateNote, Changed
  <1>3. N \in NoteMap /\ n \in NotesIn(N) /\ ParentsThere(N) /\ OnRecords(N, recs)
    BY <1>1, UpdateNoteMap DEF Alike
  <1> HIDE DEF N
  <1>4. dep \subseteq recs \X recs \X DepTypes /\ recs \subseteq NoteRecs
    BY DEF TypeInv, NotesTypeOK
  <1>5. Below1(N, P) /\ \A q \in P : q.on \in recs
    <2>1. /\ Below1(N, ForDependents(N, n))
          /\ \A q \in ForDependents(N, n) : q.on \in recs
      BY <1>3, <1>4, ForDependentsOn
    <2>2. P = {} \/ P = ForDependents(N, n)
      OBVIOUS
    <2> HIDE DEF P
    <2> QED BY <2>1, <2>2 DEF Below1
  <1> HIDE DEF P
  <1>6. note' \in NoteMap /\ OnRecords(note', recs) /\ ParentsThere(note')
    <2>1. CASE note' = UpdateDependents(N, n, note[n])
      BY <1>3, <2>1, UpdatedIs, AlikeTypes
    <2>2. ASSUME NEW f \in Fresh(N, P), note' = Added(N, P, f)
          PROVE  note' \in NoteMap /\ OnRecords(note', recs) /\ ParentsThere(note')
      BY <1>3, <1>5, <2>2, AddedIs, AddedOn, AddedParents
    <2> QED BY <1>2, <2>1, <2>2
  <1> QED BY <1>1, <1>4, <1>6, TypeOfStep DEF TypeInv, NotesTypeOK

LEMMA PurgeTypes ==
  ASSUME TypeInv, NEW X \in SUBSET NoteIds, Purge(X)
  PROVE  TypeInv'
  <1>1. note' = Deleted(note, X) /\ X \in SUBSET NotesIn(note) /\ UNCHANGED <<recs, unmade, dep>>
    BY DEF Purge, NotesIn
  <1>2. note \in NoteMap /\ OnRecords(note, recs)
    BY TypesOfNotes DEF TypeInv
  <1>3. note' \in NoteMap /\ ParentsThere(note') /\ OnRecords(note', recs)
    BY <1>1, <1>2, DeletedIs, DeletedParents, DeletedOn DEF TypeInv
  <1> QED BY <1>1, <1>3, TypeOfStep DEF TypeInv, NotesTypeOK

LEMMA TypeStep == ASSUME TypeInv, [NotesNext]_noteVars PROVE TypeInv'
  <1>1. CASE UNCHANGED noteVars
    BY <1>1 DEF noteVars, TypeInv, NotesTypeOK, ParentsThere, NotesIn
  <1> QED BY <1>1, CreateTypes, UpdateDepsTypes, RecordDeleteTypes, CreateNoteTypes, UpdateNoteTypes,
             PurgeTypes DEF NotesNext

LEMMA TypeInit == NotesInit => TypeInv
  BY DEF NotesInit, TypeInv, NotesTypeOK, ParentsThere, NotesIn

\* The variables have their types: each note is on a record that is there.
THEOREM NotesTyped == NotesSpec => []NotesTypeOK
  BY TypeInit, TypeStep, PTL DEF NotesSpec, TypeInv

-----------------------------------------------------------------------------
\* No record comes to depend on itself.
LEMMA CreateAcyclic ==
  ASSUME TypeInv, DepsAcyclic, NEW r \in unmade, NEW D \in SUBSET Edges(r), CleanDeps(D), RecordCreate(r, D)
  PROVE  DepsAcyclic'
  <1>1. dep' = dep \cup D /\ dep \subseteq recs \X recs \X DepTypes /\ r \notin recs
    BY DEF RecordCreate, TypeInv, NotesTypeOK
  <1>2. \A e \in D : e[1] = r /\ e[2] # r
    BY DEF CleanDeps, Edges
  <1>3. \A x, y, t : <<x, y, t>> \in dep => x # r /\ y # r
    BY <1>1
  <1> SUFFICES ASSUME NEW S \in (SUBSET NoteRecs) \ {{}}
               PROVE  \E x \in S : \A y \in S, t \in DepTypes : <<x, y, t>> \notin dep'
    BY DEF DepsAcyclic
  <1>4. CASE S = {r}
    <2>1. ASSUME NEW t, <<r, r, t>> \in D PROVE FALSE
      BY <1>2, <2>1
    <2> QED BY <1>1, <1>3, <1>4, <2>1
  <1>5. CASE S # {r}
    <2>1. PICK x \in S \ {r} : \A y \in S \ {r}, t \in DepTypes : <<x, y, t>> \notin dep
      BY <1>5 DEF DepsAcyclic
    <2>2. \A y, t : <<x, y, t>> \notin D
      BY <1>2, <2>1
    <2> QED BY <1>1, <1>3, <2>1, <2>2
  <1> QED BY <1>4, <1>5

LEMMA UpdateDepsAcyclic ==
  ASSUME DepsAcyclic, NEW r \in recs, NEW rem \in SUBSET DepsOf(r), NEW add \in SUBSET Edges(r),
         UpdateDeps(r, rem, add)
  PROVE  DepsAcyclic'
  <1>1. /\ dep' = (dep \ rem) \cup add /\ (add # {} => DepEnds(dep', r))
        /\ \A e \in add : e[1] = r
    BY DEF UpdateDeps
  <1>2. CASE add = {}
    BY <1>1, <1>2 DEF DepsAcyclic
  <1>3. CASE add # {}
    <2> SUFFICES ASSUME NEW S \in (SUBSET NoteRecs) \ {{}},
                        \A x \in S : \E y \in S, t \in DepTypes : <<x, y, t>> \in dep'
                 PROVE  FALSE
      BY DEF DepsAcyclic
    <2>1. r \notin S
      <3>1. PICK U \in SUBSET NoteRecs : r \in U /\ U \cap S = {}
        BY <1>1, <1>3 DEF DepEnds
      <3> QED BY <3>1
    <2>2. PICK x \in S : \A y \in S, t \in DepTypes : <<x, y, t>> \notin dep
      BY DEF DepsAcyclic
    <2>3. PICK y \in S, t \in DepTypes : <<x, y, t>> \in dep'
      OBVIOUS
    <2>4. <<x, y, t>> \in add
      BY <1>1, <2>2, <2>3
    <2> QED BY <1>1, <2>1, <2>4
  <1> QED BY <1>2, <1>3

-----------------------------------------------------------------------------
\* The invariant, without what the runs leave out.
CleanInv == /\ TypeInv /\ SinglePairs(dep) /\ DepsAcyclic
            /\ Shape(note, dep) /\ ActiveUp(note) /\ AllCovered(note, dep)

LEMMA CreateStep ==
  ASSUME CleanInv, NEW r \in unmade, NEW D \in SUBSET Edges(r), CleanDeps(D), CleanTargets(D),
         RecordCreate(r, D)
  PROVE  CleanInv'
  <1> DEFINE T == Targets(Follows(D))
             P == ForAdded(note, r, T)
  <1>1. dep' = dep \cup D /\ recs' = recs \cup {r} /\ \A e \in D : e[1] = r
    BY DEF RecordCreate
  <1>2. PICK f \in Fresh(note, P) : note' = Added(note, P, f)
    BY DEF RecordCreate
  <1>3. /\ TypeInv /\ TypeInv' /\ DepsAcyclic' /\ note \in NoteMap /\ OnRecords(note, recs)
        /\ r \in NoteRecs /\ r \notin recs /\ \A e \in dep : e[1] \in recs
    BY CreateTypes, CreateAcyclic, TypesOfNotes DEF CleanInv, TypeInv, NotesTypeOK
  <1>4. SinglePairs(dep')
    BY <1>1, <1>3 DEF CleanInv, SinglePairs, CleanDeps
  <1>5. Follows(dep') = Follows(dep) \cup Follows(D)
    BY <1>1 DEF Follows
  <1>6. /\ Below1(note, P)
        /\ \A q \in P : q.on = r /\ q.of \in NotesIn(note) /\ note[q.of].subj \in T
        /\ \A p, q \in P : p.of = q.of => p = q
    BY <1>3, ForAddedOn, ForAddedIs
  <1>7. \A q \in P : ActiveWarning(note[q.of]) \/ Children(note, q.of) # {}
    BY ForAddedWhy
  <1>8. \A k \in NotesIn(note) :
          note[k].subj \in T /\ IsWarning(note[k]) /\ (note[k].state = ACTIVE \/ Children(note, k) # {})
            => \E q \in P : q.of = k /\ q.on = r
    BY ForAddedIs
  <1> HIDE DEF P
  <1>9. Shape(note', dep')
    <2>1. \A q \in P : \E e \in Follows(dep') : e[1] = q.on /\ e[2] = note[q.of].subj
      BY <1>1, <1>5, <1>6 DEF Targets, Follows
    <2>2. \A q \in P : \A m \in Children(note, q.of) : note[m].subj # q.on
      BY <1>3, <1>6 DEF OnRecords, Children
    <2> QED BY <1>2, <1>3, <1>5, <1>6, <2>1, <2>2, AddedShape DEF CleanInv
  <1>10. ActiveUp(note')
    BY <1>2, <1>3, <1>6, AddedActive DEF CleanInv, TypeInv
  <1>11. AllCovered(note', dep')
    <2> SUFFICES ASSUME NEW n \in NotesIn(note),
                        ActiveWarning(note[n]) \/ Children(note, n) # {} \/ (\E q \in P : q.of = n),
                        NEW e \in Follows(dep'), e[2] = note[n].subj
                 PROVE  (\E m \in Children(note, n) : note[m].subj = e[1]) \/ \E q \in P : q.of = n /\ q.on = e[1]
      BY <1>2, <1>3, <1>6, AddedCovered DEF TypeInv
    <2>1. ActiveWarning(note[n]) \/ Children(note, n) # {}
      BY <1>7
    <2>2. CASE e \in Follows(dep)
      BY <2>1, <2>2 DEF CleanInv, AllCovered, CoveredBy
    <2>3. CASE e \in Follows(D)
      <3>1. e \in D /\ e[1] = r /\ note[n].subj \in T
        BY <1>1, <2>3 DEF Follows, Targets
      <3>2. IsWarning(note[n])
        BY <2>1, <3>1 DEF CleanTargets, ActiveWarning, NotesIn
      <3> QED BY <1>8, <2>1, <3>1, <3>2 DEF ActiveWarning
    <2> QED BY <1>5, <2>2, <2>3
  <1> QED BY <1>3, <1>4, <1>9, <1>10, <1>11 DEF CleanInv

LEMMA UpdateDepsStep ==
  ASSUME CleanInv, NEW r \in recs, NEW rem \in SUBSET DepsOf(r), NEW add \in SUBSET Edges(r),
         CleanDeps((dep \ rem) \cup add), CleanTargets(add), UpdateDeps(r, rem, add)
  PROVE  CleanInv'
  <1> DEFINE R == Targets(Follows(rem))
             T == Targets(Follows(add))
             N == Dropped(note, r, R)
             kept == dep \ rem
             P == ForAdded(N, r, T)
  <1>1. /\ dep' = kept \cup add /\ rem \subseteq dep /\ add \cap kept = {}
        /\ (\A e \in rem : e[1] = r) /\ (\A e \in add : e[1] = r)
    BY DEF UpdateDeps
  <1>2. PICK f \in Fresh(N, P) : note' = Added(N, P, f)
    BY DEF UpdateDeps
  <1>3. /\ TypeInv /\ TypeInv' /\ DepsAcyclic' /\ note \in NoteMap /\ OnRecords(note, recs)
        /\ r \in NoteRecs
    BY UpdateDepsTypes, UpdateDepsAcyclic, TypesOfNotes DEF CleanInv, TypeInv, NotesTypeOK
  <1>4. SinglePairs(dep')
    BY <1>1 DEF SinglePairs, CleanDeps
  <1>5. PICK X \in SUBSET NotesIn(note) :
          /\ N = Deleted(note, X)
          /\ X = {n \in NotesOn(note, r) : note[n].parent # NoNote /\ note[note[n].parent].subj \in R}
    BY <1>3, DroppedIs
  <1>6. /\ N \in NoteMap /\ ParentsThere(N) /\ NotesIn(N) \subseteq NotesIn(note)
        /\ \A n \in NotesIn(N) : N[n] = note[n] /\ n \notin X
    BY <1>3, <1>5, DeletedIs, DeletedParents DEF TypeInv
  <1>7. Shape(N, kept)
    <2>0. ASSUME \A n \in NotesIn(N) : note[n].parent # NoNote =>
                   \E e \in Follows(kept) : e[1] = note[n].subj /\ e[2] = note[note[n].parent].subj
          PROVE  Shape(N, kept)
      <3> HIDE DEF N, kept
      <3> QED BY <1>3, <1>5, <2>0, DeletedShape DEF CleanInv
    <2> SUFFICES ASSUME NEW n \in NotesIn(N), note[n].parent # NoNote
                 PROVE  \E e \in Follows(kept) : e[1] = note[n].subj /\ e[2] = note[note[n].parent].subj
      BY <2>0
    <2>1. PICK e \in Follows(dep) : e[1] = note[n].subj /\ e[2] = note[note[n].parent].subj
      BY <1>6 DEF CleanInv, Shape, AlongDeps
    <2>2. e \notin rem
      <3> SUFFICES ASSUME e \in rem PROVE FALSE
        OBVIOUS
      <3>1. e[1] = r /\ e[2] \in R
        BY <1>1, <2>1 DEF Targets, Follows
      <3> QED BY <1>5, <1>6, <2>1, <3>1 DEF NotesOn
    <2>3. e \in Follows(kept)
      BY <2>1, <2>2 DEF Follows
    <2> QED BY <2>1, <2>3
  <1>8. ActiveUp(N)
    BY <1>3, <1>5, DeletedActive DEF CleanInv, TypeInv
  <1>9. AllCovered(N, kept)
    <2>1. Follows(kept) \subseteq Follows(dep)
      BY DEF Follows
    <2>2. ASSUME NEW n \in NotesIn(N), NEW m \in Children(note, n) \cap X, NEW e \in Follows(kept),
                 e[1] = note[m].subj, e[2] = note[n].subj
          PROVE  FALSE
      <3>1. note[m].subj = r /\ note[m].parent = n /\ note[n].subj \in R
        BY <1>5, <2>2 DEF NotesOn, Children
      <3>2. PICK d \in rem : d[2] = note[n].subj
        BY <3>1 DEF Targets, Follows
      <3>3. d \in dep /\ e \in dep /\ e \notin rem /\ d[1] = r
        BY <1>1 DEF Follows
      <3>4. d = e
        BY <2>2, <3>1, <3>2, <3>3 DEF CleanInv, SinglePairs
      <3> QED BY <3>3, <3>4
    <2> HIDE DEF N, kept
    <2>3. Shape(note, dep) /\ AllCovered(note, dep)
      BY DEF CleanInv
    <2> QED BY <1>3, <1>5, <2>1, <2>2, <2>3, DeletedCovered
  <1>10. Follows(dep') = Follows(kept) \cup Follows(add)
    BY <1>1 DEF Follows
  <1> HIDE DEF N
  <1>11. /\ Below1(N, P)
         /\ \A q \in P : q.on = r /\ q.of \in NotesIn(N) /\ N[q.of].subj \in T
         /\ \A p, q \in P : p.of = q.of => p = q
    BY <1>3, ForAddedOn, ForAddedIs
  <1>12. \A q \in P : ActiveWarning(N[q.of]) \/ Children(N, q.of) # {}
    BY ForAddedWhy
  <1>13. \A k \in NotesIn(N) :
           N[k].subj \in T /\ IsWarning(N[k]) /\ (N[k].state = ACTIVE \/ Children(N, k) # {})
             => \E q \in P : q.of = k /\ q.on = r
    BY ForAddedIs
  <1> HIDE DEF P
  <1>14. Shape(note', dep')
    <2>1. \A q \in P : \E e \in Follows(dep') : e[1] = q.on /\ e[2] = N[q.of].subj
      BY <1>1, <1>10, <1>11 DEF Targets, Follows
    <2>2. ASSUME NEW q \in P, NEW m \in Children(N, q.of), N[m].subj = q.on
          PROVE  FALSE
      <3>1. m \in NotesIn(N) /\ N[m].parent = q.of /\ q.of # NoNote
        BY <1>11, NotesAssumption DEF Children, NotesIn
      <3>2. PICK e \in Follows(kept) : e[1] = r /\ e[2] = N[q.of].subj
        BY <1>7, <1>11, <2>2, <3>1 DEF Shape, AlongDeps
      <3>3. PICK a \in add : a[2] = N[q.of].subj
        BY <1>11 DEF Targets, Follows
      <3>4. e \in kept /\ e = a
        BY <1>1, <1>4, <3>2, <3>3 DEF SinglePairs, Follows
      <3> QED BY <1>1, <3>4
    <2>3. Follows(kept) \subseteq Follows(dep')
      BY <1>10
    <2> HIDE DEF kept
    <2> QED BY <1>2, <1>6, <1>7, <1>11, <2>1, <2>2, <2>3, AddedShape
  <1>15. ActiveUp(note')
    BY <1>2, <1>6, <1>8, <1>11, AddedActive
  <1>16. AllCovered(note', dep')
    <2> SUFFICES ASSUME NEW n \in NotesIn(N),
                        ActiveWarning(N[n]) \/ Children(N, n) # {} \/ (\E q \in P : q.of = n),
                        NEW e \in Follows(dep'), e[2] = N[n].subj
                 PROVE  (\E m \in Children(N, n) : N[m].subj = e[1]) \/ \E q \in P : q.of = n /\ q.on = e[1]
      BY <1>2, <1>6, <1>11, AddedCovered
    <2>1. ActiveWarning(N[n]) \/ Children(N, n) # {}
      BY <1>12
    <2>2. CASE e \in Follows(kept)
      BY <1>9, <2>1, <2>2 DEF AllCovered, CoveredBy
    <2>3. CASE e \in Follows(add)
      <3>1. e \in add /\ e[1] = r /\ N[n].subj \in T
        BY <1>1, <2>3 DEF Follows, Targets
      <3>2. note[n] # NoNote /\ N[n] = note[n] /\ Children(N, n) \subseteq Children(note, n)
        BY <1>6 DEF Children, NotesIn
      <3>3. IsWarning(N[n])
        BY <2>1, <3>1, <3>2 DEF CleanTargets, ActiveWarning, NotesIn
      <3> QED BY <1>13, <2>1, <3>1, <3>3 DEF ActiveWarning
    <2> QED BY <1>10, <2>2, <2>3
  <1> QED BY <1>3, <1>4, <1>14, <1>15, <1>16 DEF CleanInv

LEMMA RecordDeleteStep ==
  ASSUME CleanInv, NEW r \in NoteRecs, RecordDelete(r)
  PROVE  CleanInv'
  <1> DEFINE X == NotesOn(note, r)
             E == {e \in dep : r \notin {e[1], e[2]}}
  <1>1. dep' = E /\ note' = Deleted(note, X)
    BY DEF RecordDelete
  <1>2. /\ TypeInv /\ TypeInv' /\ note \in NoteMap /\ X \in SUBSET NotesIn(note)
    BY RecordDeleteTypes, TypesOfNotes DEF CleanInv, TypeInv, NotesOn
  <1>3. /\ \A n \in NotesIn(note') : note'[n] = note[n] /\ n \in NotesIn(note) /\ n \notin X
        /\ ParentsThere(note')
    BY <1>1, <1>2, DeletedIs, DeletedParents DEF TypeInv
  <1>4. SinglePairs(dep') /\ DepsAcyclic'
    BY <1>1 DEF CleanInv, SinglePairs, DepsAcyclic
  <1>5. Shape(note', dep')
    <2> SUFFICES ASSUME NEW n \in NotesIn(Deleted(note, X)), note[n].parent # NoNote
                 PROVE  \E e \in Follows(E) : e[1] = note[n].subj /\ e[2] = note[note[n].parent].subj
      BY <1>1, <1>2, DeletedShape DEF CleanInv
    <2>1. PICK e \in Follows(dep) : e[1] = note[n].subj /\ e[2] = note[note[n].parent].subj
      BY <1>1, <1>3 DEF CleanInv, Shape, AlongDeps
    <2>2. note[n].parent \in NotesIn(note) /\ note[n].parent \notin X
      BY <1>1, <1>3 DEF ParentsThere
    <2>3. e[1] # r /\ e[2] # r
      BY <1>1, <1>3, <2>1, <2>2 DEF NotesOn
    <2> QED BY <2>1, <2>3 DEF Follows
  <1>6. ActiveUp(note')
    BY <1>1, <1>2, DeletedActive DEF CleanInv, TypeInv
  <1>7. AllCovered(note', dep')
    <2>1. Follows(E) \subseteq Follows(dep)
      BY DEF Follows
    <2>2. \A m \in X, e \in Follows(E) : e[1] # note[m].subj
      BY DEF NotesOn, Follows
    <2> HIDE DEF X, E
    <2> QED BY <1>1, <1>2, <2>1, <2>2, DeletedCovered DEF CleanInv
  <1> QED BY <1>2, <1>4, <1>5, <1>6, <1>7 DEF CleanInv

LEMMA PurgeStep ==
  ASSUME CleanInv, NEW X \in SUBSET NoteIds, Purge(X)
  PROVE  CleanInv'
  <1>1. /\ note' = Deleted(note, X) /\ X \in SUBSET NotesIn(note) /\ UNCHANGED dep
        /\ \A n \in X : note[n].parent = NoNote
    BY DEF Purge, NotesIn
  <1>2. TypeInv /\ TypeInv' /\ note \in NoteMap
    BY PurgeTypes, TypesOfNotes DEF CleanInv, TypeInv
  <1>3. SinglePairs(dep') /\ DepsAcyclic'
    BY <1>1 DEF CleanInv, SinglePairs, DepsAcyclic
  <1>4. Shape(note', dep')
    <2>1. \A n \in NotesIn(Deleted(note, X)) : n \in NotesIn(note)
      BY <1>1, <1>2, DeletedIs
    <2> QED BY <1>1, <1>2, <2>1, DeletedShape DEF CleanInv, Shape, AlongDeps
  <1>5. ActiveUp(note')
    BY <1>1, <1>2, DeletedActive DEF CleanInv, TypeInv
  <1>6. \A n \in NotesIn(Deleted(note, X)) : Children(note, n) \cap X = {}
    BY <1>1, <1>2, DeletedIs, NotesAssumption DEF Children, NotesIn
  <1>7. AllCovered(note', dep')
    BY <1>1, <1>2, <1>6, DeletedCovered DEF CleanInv
  <1> QED BY <1>2, <1>3, <1>4, <1>5, <1>7 DEF CleanInv

\* Notes for all dependents of a note that has no children.
LEMMA DependentsAdded ==
  ASSUME NEW N \in NoteMap, NEW n \in NotesIn(N), Children(N, n) = {},
         dep \subseteq recs \X recs \X DepTypes, recs \subseteq NoteRecs, SinglePairs(dep),
         Shape(N, dep), ActiveUp(N),
         \A k \in NotesIn(N) \ {n} : ActiveWarning(N[k]) \/ Children(N, k) # {} => CoveredBy(N, dep, k),
         NEW P, P = IF ActiveWarning(N[n]) THEN ForDependents(N, n) ELSE {},
         NEW f \in Fresh(N, P)
  PROVE  /\ Shape(Added(N, P, f), dep) /\ ActiveUp(Added(N, P, f))
         /\ AllCovered(Added(N, P, f), dep)
  <1>1. /\ Below1(N, P)
        /\ \A q \in P : q.of = n /\ \E e \in Follows(dep) : e[1] = q.on /\ e[2] = N[n].subj
    <2>1. /\ Below1(N, ForDependents(N, n))
          /\ \A q \in ForDependents(N, n) : q.of = n /\ \E e \in Follows(dep) : e[1] = q.on /\ e[2] = N[n].subj
      BY ForDependentsOn, ForDependentsIs
    <2> QED BY <2>1 DEF Below1
  <1>2. \A p, q \in P : p.on = q.on => p = q
    BY ForDependentsOnce
  <1>3. Shape(Added(N, P, f), dep)
    <2>1. \A q \in P : \E e \in Follows(dep) : e[1] = q.on /\ e[2] = N[q.of].subj
      BY <1>1
    <2>2. \A q \in P : \A m \in Children(N, q.of) : N[m].subj # q.on
      BY <1>1
    <2> QED BY <1>1, <1>2, <2>1, <2>2, AddedShape
  <1>4. ActiveUp(Added(N, P, f))
    BY <1>1, AddedActive DEF Shape
  <1>5. ASSUME NEW k \in NotesIn(N),
               ActiveWarning(N[k]) \/ Children(N, k) # {} \/ (\E q \in P : q.of = k),
               NEW e \in Follows(dep), e[2] = N[k].subj
        PROVE  (\E m \in Children(N, k) : N[m].subj = e[1]) \/ \E q \in P : q.of = k /\ q.on = e[1]
    <2>1. CASE k # n
      BY <1>1, <1>5, <2>1 DEF CoveredBy
    <2>2. CASE k = n
      <3>1. ActiveWarning(N[n]) /\ P = ForDependents(N, n)
        BY <1>5, <2>2
      <3> QED BY <1>5, <2>2, <3>1, ForDependentsIs
    <2> QED BY <2>1, <2>2
  <1>6. AllCovered(Added(N, P, f), dep)
    BY <1>1, <1>5, AddedCovered DEF Shape
  <1> QED BY <1>3, <1>4, <1>6

LEMMA CreateNoteStep ==
  ASSUME CleanInv, NEW n \in NoteIds, NEW r \in NoteRecs, NEW ty \in Types, NEW a \in BOOLEAN,
         CreateNote(n, r, ty, a)
  PROVE  CleanInv'
  <1> DEFINE N == Made(n, r, ty, a)
             P == IF ActiveWarning(N[n]) THEN ForDependents(N, n) ELSE {}
  <1>1. r \in recs /\ note[n] = NoNote /\ UNCHANGED dep
    BY DEF CreateNote
  <1>0. TypeInv
    BY DEF CleanInv
  <1>2. PICK f \in Fresh(N, P) : note' = Added(N, P, f)
    BY DEF CreateNote, Made
  <1>3. /\ TypeInv /\ TypeInv' /\ dep \subseteq recs \X recs \X DepTypes /\ recs \subseteq NoteRecs
        /\ SinglePairs(dep') /\ DepsAcyclic' /\ SinglePairs(dep)
    BY <1>1, CreateNoteTypes DEF CleanInv, TypeInv, NotesTypeOK, SinglePairs, DepsAcyclic
  <1>4. /\ N \in NoteMap /\ NotesIn(N) = NotesIn(note) \cup {n} /\ n \notin NotesIn(note)
        /\ \A k \in NotesIn(note) : N[k] = note[k]
        /\ N[n].parent = NoNote /\ ParentsThere(N) /\ Children(N, n) = {}
    BY <1>0, <1>1, CreateNoteMap
  <1> HIDE DEF N
  <1>5. NoNote \notin NoteIds
    BY NotesAssumption
  <1>6. AlongDeps(N, dep)
    BY <1>3, <1>4 DEF CleanInv, TypeInv, ParentsThere, Shape, AlongDeps
  <1>7. OnceEach(N)
    BY <1>4 DEF CleanInv, Shape, OnceEach
  <1>8. ParentsEnd(N)
    <2> SUFFICES ASSUME NEW S \in (SUBSET NotesIn(N)) \ {{}} PROVE \E x \in S : N[x].parent \notin S
      BY DEF ParentsEnd
    <2>1. NoNote \notin S
      BY <1>5 DEF NotesIn
    <2>2. CASE n \in S
      BY <1>4, <2>1, <2>2
    <2>3. CASE n \notin S
      BY <1>4, <2>3 DEF CleanInv, Shape, ParentsEnd
    <2> QED BY <2>2, <2>3
  <1>9. ActiveUp(N)
    BY <1>3, <1>4 DEF CleanInv, TypeInv, ParentsThere, ActiveUp
  <1>10. ASSUME NEW k \in NotesIn(N) \ {n}, ActiveWarning(N[k]) \/ Children(N, k) # {}
         PROVE  CoveredBy(N, dep, k)
    <2>1. k \in NotesIn(note) /\ N[k] = note[k] /\ k # NoNote
      BY <1>4, <1>5 DEF NotesIn
    <2>2. Children(N, k) = Children(note, k)
      BY <1>4, <2>1 DEF Children
    <2>3. CoveredBy(note, dep, k)
      BY <1>10, <2>1, <2>2 DEF CleanInv, AllCovered
    <2> QED BY <1>4, <2>1, <2>2, <2>3 DEF CoveredBy, Children
  <1>11. Shape(N, dep) /\ n \in NotesIn(N)
    BY <1>4, <1>6, <1>7, <1>8 DEF Shape
  <1>12. P = IF ActiveWarning(N[n]) THEN ForDependents(N, n) ELSE {}
    OBVIOUS
  <1> HIDE DEF P
  <1>13. Shape(note', dep) /\ ActiveUp(note') /\ AllCovered(note', dep)
    BY <1>2, <1>3, <1>4, <1>9, <1>10, <1>11, <1>12, DependentsAdded
  <1> QED BY <1>1, <1>3, <1>13 DEF CleanInv

LEMMA UpdateNoteStep ==
  ASSUME CleanInv, NEW n \in NoteIds, NEW ty \in Types, NEW st \in States, CleanState(n, st),
         UpdateNote(n, ty, st)
  PROVE  CleanInv'
  <1> DEFINE N == Changed(n, ty, st)
             P == IF ActiveWarning(N[n]) THEN ForDependents(N, n) ELSE {}
             M == UpdateDependents(N, n, note[n])
             R == Reach(N, n, note[n])
  <1>1. n \in NotesIn(note) /\ UNCHANGED dep
    BY DEF UpdateNote, NotesIn
  <1>2. \/ Children(note, n) # {} /\ note' = M
        \/ Children(note, n) = {} /\ \E f \in Fresh(N, P) : note' = Added(N, P, f)
    <2>1. CASE Children(note, n) # {}
      BY <2>1 DEF UpdateNote, Changed
    <2>2. CASE Children(note, n) = {}
      <3> DEFINE Q == IF Children(note, n) = {} /\ ActiveWarning(N[n]) THEN ForDependents(N, n) ELSE {}
      <3>1. \E f \in Fresh(N, Q) : note' = Added(N, Q, f)
        BY <2>2 DEF UpdateNote, Changed
      <3>2. Q = P
        BY <2>2
      <3> HIDE DEF N, P, Q
      <3> QED BY <2>2, <3>1, <3>2
    <2> QED BY <2>1, <2>2
  <1>0. TypeInv
    BY DEF CleanInv
  <1>3. /\ TypeInv /\ TypeInv' /\ dep \subseteq recs \X recs \X DepTypes /\ recs \subseteq NoteRecs
        /\ SinglePairs(dep') /\ DepsAcyclic' /\ SinglePairs(dep)
    BY <1>1, UpdateNoteTypes DEF CleanInv, TypeInv, NotesTypeOK, SinglePairs, DepsAcyclic
  <1>4. /\ N \in NoteMap /\ Alike(note, N) /\ N[n].state = st
        /\ \A k \in NotesIn(note) \ {n} : N[k] = note[k]
        /\ ParentsThere(N)
    BY <1>0, <1>1, UpdateNoteMap
  <1> HIDE DEF N
  <1>5. Shape(N, dep) /\ n \in NotesIn(N) /\ (\A k : Children(N, k) = Children(note, k))
    BY <1>1, <1>4, AlikeShape, BelowAlike DEF CleanInv, Alike
  <1>6. CASE Children(note, n) = {}
    <2>1. ActiveUp(N)
      <3> SUFFICES ASSUME NEW m \in NotesIn(N), N[m].parent # NoNote, N[m].state = ACTIVE
                   PROVE  N[N[m].parent].state = ACTIVE
        BY DEF ActiveUp
      <3>1. N[m].parent = note[m].parent /\ m \in NotesIn(note) /\ N[m].parent \in NotesIn(note)
        BY <1>4 DEF Alike, ParentsThere
      <3>2. N[m].parent # n
        BY <1>6, <3>1 DEF Children
      <3>3. note[note[m].parent].state = ACTIVE
        <4>1. CASE m = n
          BY <1>4, <3>1, <4>1 DEF CleanState, NotesIn
        <4>2. CASE m # n
          BY <1>4, <3>1, <4>2 DEF CleanInv, ActiveUp
        <4> QED BY <4>1, <4>2
      <3> QED BY <1>4, <3>1, <3>2, <3>3
    <2>2. ASSUME NEW k \in NotesIn(N) \ {n}, ActiveWarning(N[k]) \/ Children(N, k) # {}
          PROVE  CoveredBy(N, dep, k)
      <3>1. k \in NotesIn(note) /\ N[k] = note[k]
        BY <1>4 DEF Alike
      <3>2. CoveredBy(note, dep, k)
        BY <1>5, <2>2, <3>1 DEF CleanInv, AllCovered
      <3> QED BY <1>4, <1>5, <3>1, <3>2 DEF CoveredBy, Children, Alike
    <2>3. P = IF ActiveWarning(N[n]) THEN ForDependents(N, n) ELSE {}
      OBVIOUS
    <2> HIDE DEF P
    <2>4. PICK f \in Fresh(N, P) : note' = Added(N, P, f)
      BY <1>2, <1>6
    <2>5. Shape(note', dep) /\ ActiveUp(note') /\ AllCovered(note', dep)
      BY <1>3, <1>4, <1>5, <1>6, <2>1, <2>2, <2>3, <2>4, DependentsAdded
    <2> QED BY <1>1, <1>3, <2>5 DEF CleanInv
  <1>7. CASE Children(note, n) # {}
    <2>1. /\ note' = M /\ Alike(N, M) /\ \A m \in NotesIn(N) \ R : M[m] = N[m]
          /\ \A m \in R : M[m].state = OPEN \/ M[m].state = CLOSED
      BY <1>2, <1>4, <1>5, <1>7, UpdatedIs
    <2>2. ParentsEnd(N)
      BY <1>5 DEF Shape
    <2>3. N[n].parent \notin Below(N, {n})
      BY <1>5, <2>2, NoLoop
    <2>4. R \subseteq Below(N, {n}) \ {n}
      <3>1. Below(N, {n}) \subseteq NotesIn(N) /\ n \in Below(N, {n})
        BY <1>5, BelowHas DEF Below
      <3>2. Children(N, n) \subseteq Below(N, {n}) \ {n}
        BY <2>3, <3>1, BelowDown DEF Children
      <3> QED BY <3>2 DEF Reach
    <2> HIDE DEF M, R
    <2>5. ASSUME NEW m \in NotesIn(N), M[m].state = ACTIVE
          PROVE  M[m] = N[m] /\ m \notin R
      <3>1. m \notin R
        BY <2>1, <2>5 DEF OPEN, CLOSED, ACTIVE
      <3> QED BY <2>1, <3>1
    <2>6. Shape(M, dep)
      BY <1>5, <2>1, AlikeShape
    <2>7. Alike(note, M)
      BY <1>4, <2>1 DEF Alike
    <2>8. AllCovered(M, dep)
      <3>1. ASSUME NEW m \in NotesIn(note), ActiveWarning(M[m])
            PROVE  ActiveWarning(note[m]) \/ Children(note, m) # {}
        <4>1. M[m] = N[m]
          BY <1>4, <2>5, <3>1 DEF ActiveWarning, Alike
        <4> QED BY <1>4, <1>7, <3>1, <4>1
      <3> QED BY <2>7, <3>1, AlikeCovered DEF CleanInv
    <2>9. ActiveUp(M)
      <3> SUFFICES ASSUME NEW m \in NotesIn(M), M[m].parent # NoNote, M[m].state = ACTIVE
                   PROVE  M[M[m].parent].state = ACTIVE
        BY DEF ActiveUp
      <3> DEFINE p == note[m].parent
      <3>1. /\ m \in NotesIn(note) /\ m \in NotesIn(N) /\ M[m].parent = p /\ N[m].parent = p /\ p # NoNote
            /\ M[m] = N[m] /\ m \notin R /\ N[m].state = ACTIVE
        BY <1>4, <2>1, <2>5, <2>7 DEF Alike
      <3>2. p \in NotesIn(note) /\ p \in NotesIn(N)
        BY <1>4, <3>1 DEF ParentsThere, Alike
      <3>3. note[p].state = ACTIVE
        <4>1. CASE m = n
          BY <1>4, <3>1, <4>1 DEF CleanState, NotesIn
        <4>2. CASE m # n
          BY <1>4, <3>1, <4>2 DEF CleanInv, ActiveUp
        <4> QED BY <4>1, <4>2
      <3>4. CASE m = n
        <4>1. p \notin R /\ p # n
          BY <1>5, <2>3, <2>4, <3>1, <3>4, BelowHas
        <4> QED BY <1>4, <2>1, <3>1, <3>2, <3>3, <4>1
      <3>5. CASE m # n /\ p = n
        <4>1. n \notin R /\ M[n] = N[n]
          BY <1>5, <2>1, <2>4
        <4>2. m \in Children(N, n) /\ m \in Below(N, {n}) \ {n}
          BY <1>5, <3>1, <3>5, BelowHas, BelowDown DEF Children
        <4>3. st = ACTIVE
          BY <1>4, <3>1, <3>3, <3>5, <4>2 DEF R, Reach, LeftActive
        <4> QED BY <1>4, <3>1, <3>5, <4>1, <4>3
      <3>6. CASE m # n /\ p # n
        <4>1. p \notin R
          <5> SUFFICES ASSUME p \in R PROVE FALSE
            OBVIOUS
          <5>1. CASE Retyped(N[n], note[n]) \/ LeftActive(N[n], note[n])
            <6>1. p \in Below(N, {n})
              BY <2>4
            <6>2. m \in Below(N, {n}) \ {n}
              BY <3>1, <3>6, <6>1, BelowDown
            <6> QED BY <3>1, <5>1, <6>2 DEF R, Reach
          <5>2. CASE ~(Retyped(N[n], note[n]) \/ LeftActive(N[n], note[n]))
            <6>1. p \in Children(N, n) /\ Entered(N[n], note[n])
              BY <5>2 DEF R, Reach
            <6>2. note[p].parent = n /\ n # NoNote /\ note[n].state # ACTIVE
              BY <1>4, <3>2, <6>1, NotesAssumption DEF Children, Alike, Entered
            <6> QED BY <3>2, <3>3, <6>2 DEF CleanInv, ActiveUp
          <5> QED BY <5>1, <5>2
        <4> QED BY <1>4, <2>1, <3>1, <3>2, <3>3, <3>6, <4>1
      <3> QED BY <3>4, <3>5, <3>6
    <2> QED BY <1>1, <1>3, <2>1, <2>6, <2>8, <2>9 DEF CleanInv
  <1> QED BY <1>6, <1>7

LEMMA CleanStep == ASSUME CleanInv, [NotesCleanNext]_noteVars PROVE CleanInv'
  <1>1. CASE UNCHANGED noteVars
    <2>1. UNCHANGED <<recs, unmade, dep, note>>
      BY <1>1 DEF noteVars
    <2>2. TypeInv'
      BY <2>1, TypeStep DEF CleanInv, noteVars
    <2> QED BY <2>1, <2>2 DEF CleanInv, SinglePairs, DepsAcyclic
  <1> QED BY <1>1, CreateStep, UpdateDepsStep, RecordDeleteStep, CreateNoteStep, UpdateNoteStep,
             PurgeStep DEF NotesCleanNext

LEMMA CleanInit == NotesInit => CleanInv
  <1> SUFFICES ASSUME NotesInit PROVE CleanInv
    OBVIOUS
  <1>1. NotesIn(note) = {} /\ dep = {}
    BY DEF NotesInit, NotesIn
  <1>2. Shape(note, dep) /\ ActiveUp(note) /\ AllCovered(note, dep)
    BY <1>1 DEF Shape, ParentsThere, AlongDeps, OnceEach, ParentsEnd, ActiveUp, AllCovered
  <1> QED BY <1>1, <1>2, TypeInit DEF CleanInv, SinglePairs, DepsAcyclic

LEMMA CleanInvariant == NotesCleanSpec => []CleanInv
  BY CleanInit, CleanStep, PTL DEF NotesCleanSpec

\* No record comes to depend on itself, directly or through others.
THEOREM DepsStayAcyclic == NotesCleanSpec => []DepsAcyclic
  BY CleanInvariant, PTL DEF CleanInv

\* A child note is on a dependent of the record of its parent, one for each dependency.
THEOREM NotesFollow == NotesCleanSpec => []NotesFollowDeps
  <1>1. ASSUME CleanInv PROVE NotesFollowDeps
    <2> SUFFICES ASSUME NEW n \in NotesIn(note), note[n].parent # NoNote
                 PROVE  /\ note[n].parent \in NotesIn(note)
                        /\ Cardinality({m \in Children(note, note[n].parent) : note[m].subj = note[n].subj})
                             <= Cardinality({e \in Follows(dep) : /\ e[1] = note[n].subj
                                                                  /\ e[2] = note[note[n].parent].subj})
      BY DEF NotesFollowDeps
    <2> DEFINE p == note[n].parent
               A == {m \in Children(note, p) : note[m].subj = note[n].subj}
               B == {e \in Follows(dep) : e[1] = note[n].subj /\ e[2] = note[p].subj}
    <2>1. p \in NotesIn(note)
      BY <1>1 DEF CleanInv, Shape, ParentsThere
    <2>2. A = {n}
      BY <1>1 DEF CleanInv, Shape, OnceEach, Children
    <2>3. PICK e \in Follows(dep) : e[1] = note[n].subj /\ e[2] = note[p].subj
      BY <1>1 DEF CleanInv, Shape, AlongDeps
    <2>4. B = {e}
      BY <1>1, <2>3 DEF CleanInv, SinglePairs, Follows
    <2> HIDE DEF p, A, B
    <2>5. Cardinality(A) = 1 /\ Cardinality(B) = 1
      BY <2>2, <2>4, FS_Singleton
    <2>6. Cardinality(A) <= Cardinality(B)
      BY <2>5
    <2> QED BY <2>1, <2>6 DEF p, A, B
  <1> QED BY <1>1, CleanInvariant, PTL

\* An active warning has a child on each record that depends on its record.
THEOREM WarningsCovered == NotesCleanSpec => []Covered
  <1>1. CleanInv => Covered
    BY DEF CleanInv, AllCovered, CoveredBy, Covered
  <1> QED BY <1>1, CleanInvariant, PTL

-----------------------------------------------------------------------------
\* What is below a note is closed with it.
ClosedWith(m) ==
  note[m] # NoNote /\ note'[m] # NoNote /\ note[m].state = ACTIVE /\ note'[m].state # ACTIVE
    => \A x \in Below(note', {m}) \ {m} : note'[x].state = CLOSED

LEMMA AloneBelow ==
  ASSUME NEW N, NEW n \in NoteIds, \A m \in NotesIn(N) : N[m].parent # n
  PROVE  Below(N, {n}) \subseteq {n}
  <1>1. {n} \in SUBSET NoteIds /\ \A k \in NotesIn(N) : N[k].parent \in {n} => k \in {n}
    OBVIOUS
  <1> QED BY <1>1, BelowLeast

\* A note that was there before notes are added is as it was; one that was not has nothing below it.
LEMMA AddedCloses ==
  ASSUME NEW N \in NoteMap, ParentsThere(N), NEW P, Below1(N, P), NEW f \in Fresh(N, P),
         note' = Added(N, P, f), NEW m \in NoteIds,
         N[m] # NoNote /\ note[m] # NoNote => N[m].state = note[m].state
  PROVE  ClosedWith(m)
  <1>1. CASE N[m] # NoNote
    <2>1. note'[m] = N[m]
      BY <1>1, AddedIs DEF NotesIn
    <2> QED BY <1>1, <2>1 DEF ClosedWith
  <1>2. CASE N[m] = NoNote
    <2>1. \A k \in NotesIn(note') : note'[k].parent \in NotesIn(N) \cup {NoNote}
      BY AddedParents
    <2>2. \A k \in NotesIn(note') : note'[k].parent # m
      BY <1>2, <2>1, NotesAssumption DEF NotesIn
    <2>3. Below(note', {m}) \subseteq {m}
      BY <2>2, AloneBelow
    <2> QED BY <2>3 DEF ClosedWith
  <1> QED BY <1>1, <1>2

LEMMA DeletedCloses ==
  ASSUME note \in NoteMap, NEW X \in SUBSET NotesIn(note), note' = Deleted(note, X), NEW m \in NoteIds
  PROVE  ClosedWith(m)
  <1>1. note'[m] # NoNote => note'[m] = note[m]
    BY DeletedIs DEF NotesIn
  <1> QED BY <1>1 DEF ClosedWith

LEMMA CreateCloses ==
  ASSUME CleanInv, NEW r \in unmade, NEW D \in SUBSET Edges(r), RecordCreate(r, D), NEW m \in NoteIds
  PROVE  ClosedWith(m)
  <1> DEFINE P == ForAdded(note, r, Targets(Follows(D)))
  <1>1. PICK f \in Fresh(note, P) : note' = Added(note, P, f)
    BY DEF RecordCreate
  <1>2. note \in NoteMap /\ ParentsThere(note) /\ r \in NoteRecs
    BY TypesOfNotes DEF CleanInv, TypeInv, NotesTypeOK
  <1>3. Below1(note, P)
    BY <1>2, ForAddedOn
  <1> HIDE DEF P
  <1> QED BY <1>1, <1>2, <1>3, AddedCloses

LEMMA UpdateDepsCloses ==
  ASSUME CleanInv, NEW r \in recs, NEW rem \in SUBSET DepsOf(r), NEW add \in SUBSET Edges(r),
         UpdateDeps(r, rem, add), NEW m \in NoteIds
  PROVE  ClosedWith(m)
  <1> DEFINE N == Dropped(note, r, Targets(Follows(rem)))
             P == ForAdded(N, r, Targets(Follows(add)))
  <1>1. PICK f \in Fresh(N, P) : note' = Added(N, P, f)
    BY DEF UpdateDeps
  <1>2. TypeInv /\ note \in NoteMap /\ r \in NoteRecs
    BY TypesOfNotes DEF CleanInv, TypeInv, NotesTypeOK
  <1>3. N \in NoteMap /\ ParentsThere(N) /\ \A n \in NotesIn(N) : N[n] = note[n]
    BY <1>2, DroppedIs, DeletedIs, DeletedParents DEF TypeInv
  <1> HIDE DEF N
  <1>4. Below1(N, P)
    BY <1>2, ForAddedOn
  <1> HIDE DEF P
  <1>5. N[m] # NoNote => N[m].state = note[m].state
    BY <1>3 DEF NotesIn
  <1> QED BY <1>1, <1>3, <1>4, <1>5, AddedCloses

LEMMA CreateNoteCloses ==
  ASSUME CleanInv, NEW n \in NoteIds, NEW r \in NoteRecs, NEW ty \in Types, NEW a \in BOOLEAN,
         CreateNote(n, r, ty, a), NEW m \in NoteIds
  PROVE  ClosedWith(m)
  <1> DEFINE N == Made(n, r, ty, a)
             P == IF ActiveWarning(N[n]) THEN ForDependents(N, n) ELSE {}
  <1>1. r \in recs /\ note[n] = NoNote
    BY DEF CreateNote
  <1>2. PICK f \in Fresh(N, P) : note' = Added(N, P, f)
    BY DEF CreateNote, Made
  <1>3. TypeInv /\ dep \subseteq recs \X recs \X DepTypes /\ recs \subseteq NoteRecs
    BY DEF CleanInv, TypeInv, NotesTypeOK
  <1>4. N \in NoteMap /\ n \in NotesIn(N) /\ ParentsThere(N) /\ \A k \in NotesIn(note) : N[k] = note[k]
    BY <1>1, <1>3, CreateNoteMap
  <1> HIDE DEF N
  <1>5. Below1(N, P)
    <2>1. Below1(N, ForDependents(N, n))
      BY <1>3, <1>4, ForDependentsOn
    <2>2. P = {} \/ P = ForDependents(N, n)
      OBVIOUS
    <2> HIDE DEF P
    <2> QED BY <2>1, <2>2 DEF Below1
  <1> HIDE DEF P
  <1>6. note[m] # NoNote => N[m].state = note[m].state
    BY <1>4 DEF NotesIn
  <1> QED BY <1>2, <1>4, <1>5, <1>6, AddedCloses

LEMMA UpdateNoteCloses ==
  ASSUME CleanInv, NEW n \in NoteIds, NEW ty \in Types, NEW st \in States, UpdateNote(n, ty, st),
         NEW m \in NoteIds, note[m] # NoNote, note'[m] # NoNote, note[m].state = ACTIVE,
         note'[m].state # ACTIVE, NEW x \in Below(note', {m}) \ {m}
  PROVE  note'[x].state = CLOSED
  <1> DEFINE N == Changed(n, ty, st)
             P == IF Children(note, n) = {} /\ ActiveWarning(N[n]) THEN ForDependents(N, n) ELSE {}
             M == UpdateDependents(N, n, note[n])
             R == Reach(N, n, note[n])
  <1>1. n \in NotesIn(note) /\ m \in NotesIn(note)
    BY DEF UpdateNote, NotesIn
  <1>2. \/ Children(note, n) # {} /\ note' = M
        \/ Children(note, n) = {} /\ \E f \in Fresh(N, P) : note' = Added(N, P, f)
    BY DEF UpdateNote, Changed
  <1>3. TypeInv /\ dep \subseteq recs \X recs \X DepTypes /\ recs \subseteq NoteRecs
    BY DEF CleanInv, TypeInv, NotesTypeOK
  <1>4. /\ N \in NoteMap /\ Alike(note, N) /\ N[n].state = st
        /\ \A k \in NotesIn(note) \ {n} : N[k] = note[k]
        /\ ParentsThere(N)
    BY <1>1, <1>3, UpdateNoteMap
  <1> HIDE DEF N
  <1>5. Shape(N, dep) /\ n \in NotesIn(N) /\ m \in NotesIn(N) /\ (\A k : Children(N, k) = Children(note, k))
    BY <1>1, <1>4, AlikeShape, BelowAlike DEF CleanInv, Alike
  <1>6. CASE Children(note, n) = {}
    <2>1. Below1(N, P)
      <3>1. Below1(N, ForDependents(N, n))
        BY <1>3, <1>5, ForDependentsOn
      <3>2. P = {} \/ P = ForDependents(N, n)
        OBVIOUS
      <3> HIDE DEF P
      <3> QED BY <3>1, <3>2 DEF Below1
    <2>2. PICK f \in Fresh(N, P) : note' = Added(N, P, f)
      BY <1>2, <1>6
    <2>3. ~ActiveWarning(N[n]) => P = {}
      OBVIOUS
    <2> HIDE DEF P
    <2>4. note'[m] = N[m]
      BY <1>4, <1>5, <2>1, <2>2, AddedIs
    <2>5. m = n /\ ~ActiveWarning(N[n])
      BY <1>1, <1>4, <2>4 DEF ActiveWarning
    <2>6. \A k \in NotesIn(note') : k \in NotesIn(N) /\ note'[k] = N[k]
      BY <1>4, <2>1, <2>2, <2>3, <2>5, AddedIs
    <2>7. \A k \in NotesIn(note') : note'[k].parent # n
      <3>1. Children(N, n) = {}
        BY <1>5, <1>6
      <3> QED BY <2>6, <3>1 DEF Children
    <2>8. Below(note', {n}) \subseteq {n}
      BY <2>7, AloneBelow
    <2> QED BY <2>5, <2>8
  <1>7. CASE Children(note, n) # {}
    <2>1. /\ note' = M /\ Alike(N, M) /\ \A k \in NotesIn(N) \ R : M[k] = N[k]
          /\ \A k \in R : M[k].state = IF k \in Children(N, n) /\ ActiveWarning(N[n]) THEN OPEN ELSE CLOSED
      BY <1>2, <1>4, <1>5, <1>7, UpdatedIs
    <2>2. x \in Below(N, {m}) /\ x # m /\ x \in NotesIn(N)
      <3>1. Below(note', {m}) = Below(N, {m})
        BY <2>1, BelowAlike DEF Alike
      <3> QED BY <3>1 DEF Below
    <2>3. ParentsEnd(N)
      BY <1>5 DEF Shape
    <2>4. CASE m = n
      <3>1. n \notin R => N[n].state # ACTIVE
        BY <1>5, <2>1, <2>4
      <3>2. n \notin R
        <4>1. Children(N, n) \subseteq Below(N, {n}) /\ n \notin Children(N, n)
          <5>1. n \in Below(N, {n}) /\ N[n].parent \notin Below(N, {n})
            BY <1>5, <2>3, NoLoop, BelowHas
          <5> QED BY <5>1, BelowDown DEF Children
        <4> QED BY <4>1 DEF Reach
      <3>3. LeftActive(N[n], note[n]) /\ ~ActiveWarning(N[n])
        BY <2>4, <3>1, <3>2 DEF LeftActive, ActiveWarning
      <3>4. x \in R
        BY <2>2, <2>4, <3>3 DEF Reach
      <3> HIDE DEF M, R
      <3> QED BY <2>1, <3>3, <3>4
    <2>5. CASE m # n
      <3>1. m \in R
        <4> HIDE DEF M, R
        <4> QED BY <1>1, <1>4, <1>5, <2>1, <2>5
      <3>2. Retyped(N[n], note[n]) \/ LeftActive(N[n], note[n])
        <4> SUFFICES ASSUME ~(Retyped(N[n], note[n]) \/ LeftActive(N[n], note[n])) PROVE FALSE
          OBVIOUS
        <4>1. m \in Children(N, n) /\ Entered(N[n], note[n])
          BY <3>1 DEF Reach
        <4>2. note[m].parent = n /\ n # NoNote /\ note[n].state # ACTIVE
          BY <1>1, <1>5, <4>1, NotesAssumption DEF Children, Entered
        <4> QED BY <1>1, <4>2 DEF CleanInv, ActiveUp
      <3>3. R = Below(N, {n}) \ {n}
        BY <3>2 DEF Reach
      <3>4. n \notin Below(N, {m})
        BY <1>5, <2>3, <2>5, <3>1, <3>3, NoLoopBelow
      <3>5. x \in R
        BY <2>2, <3>1, <3>3, <3>4, BelowTrans
      <3>6. x \notin Children(N, n)
        <4>1. N[x].parent \in Below(N, {m})
          BY <1>5, <2>2, BelowUp
        <4> QED BY <3>4, <4>1 DEF Children
      <3> HIDE DEF M, R
      <3> QED BY <2>1, <3>5, <3>6
    <2> QED BY <2>4, <2>5
  <1> QED BY <1>6, <1>7

LEMMA CleanCloses ==
  ASSUME CleanInv, [NotesCleanNext]_noteVars, NEW m \in NoteIds
  PROVE  ClosedWith(m)
  <1>1. CASE UNCHANGED noteVars
    BY <1>1 DEF noteVars, ClosedWith
  <1>2. ASSUME NEW r \in NoteRecs, RecordDelete(r) PROVE ClosedWith(m)
    <2>1. note' = Deleted(note, NotesOn(note, r)) /\ NotesOn(note, r) \in SUBSET NotesIn(note)
      BY <1>2 DEF RecordDelete, NotesOn
    <2> QED BY <2>1, TypesOfNotes, DeletedCloses DEF CleanInv, TypeInv
  <1>3. ASSUME NEW X \in SUBSET NoteIds, Purge(X) PROVE ClosedWith(m)
    <2>1. note' = Deleted(note, X) /\ X \in SUBSET NotesIn(note)
      BY <1>3 DEF Purge, NotesIn
    <2> QED BY <2>1, TypesOfNotes, DeletedCloses DEF CleanInv, TypeInv
  <1>4. ASSUME NEW n \in NoteIds, NEW ty \in Types, NEW st \in States, UpdateNote(n, ty, st)
        PROVE  ClosedWith(m)
    BY <1>4, UpdateNoteCloses DEF ClosedWith
  <1> QED BY <1>1, <1>2, <1>3, <1>4, CreateCloses, UpdateDepsCloses, CreateNoteCloses DEF NotesCleanNext

\* What is below a note that stops being active is closed with it.
THEOREM ClosedTogether == NotesCleanSpec => ClosedBelow
  <1>1. ASSUME CleanInv, [NotesCleanNext]_noteVars
        PROVE  [\A m \in NoteIds : ClosedWith(m)]_noteVars
    BY <1>1, CleanCloses
  <1>2. (\A m \in NoteIds : ClosedWith(m)) <=>
        \A n \in NoteIds :
          note[n] # NoNote /\ note'[n] # NoNote /\ note[n].state = ACTIVE /\ note'[n].state # ACTIVE
            => \A m \in Below(note', {n}) \ {n} : note'[m].state = CLOSED
    BY DEF ClosedWith
  <1> QED BY <1>1, <1>2, CleanInvariant, PTL DEF NotesCleanSpec, ClosedBelow
=============================================================================
