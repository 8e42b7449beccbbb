--------------------------- MODULE RecMoveProofs ---------------------------
(***************************************************************************)
(* Proofs about records that move and are deleted, for any tasks, records, *)
(* owners, repositories and sizes.  Whatever fails and whichever tasks run *)
(* at once, variables keep their types, counts and owners are right, and   *)
(* so are charges and limits but where the history says why not.  In the   *)
(* conditions of CleanSpec the data is where the location of its record    *)
(* says, and moves that end have moved all or, when no call was cut off,   *)
(* taken back the marks of the new owner.                                  *)
(***************************************************************************)
EXTENDS RecMove, FiniteSetTheorems, SequenceTheorems, WellFoundedInduction, TLAPS

\* What the two properties rest on: the types they need, a record that was
\* never created has no location, and a move has a destination.
BooksInv ==
  /\ loc \in [Recs -> Locs \cup {None}]
  /\ owner \in [Recs -> Owners \cup {None}]
  /\ unborn \subseteq Recs
  /\ \A r \in unborn : loc[r] = None
  /\ allocs \subseteq Places
  /\ recCount \in [Places -> Int]
  /\ at \in [Tasks -> Stages]
  /\ DOMAIN job = Tasks
  /\ \A t \in Tasks : at[t] # "none" /\ job[t].kind \in Moves => job[t].dst \in Places
  /\ CountsExact
  /\ OwnersAgree

LEMMA NoneApart == None \notin Owners /\ None \notin Repos /\ None \notin Locs
BY DataAssumption DEF DataAssumption, Locs

LEMMA StoredFinite ==
  ASSUME NEW a, BooksInv
  PROVE  IsFiniteSet(Stored(a)) /\ Cardinality(Stored(a)) \in Nat
<1>1. Stored(a) \subseteq Recs  BY DEF Stored, Live
<1>2. IsFiniteSet(Stored(a))  BY <1>1, FS_Subset, DataAssumption DEF DataAssumption
<1> QED  BY <1>2, FS_CardinalityType

\* Steps that move, create and erase no record leave the books alone.
LEMMA SameBooks ==
  ASSUME BooksInv,
         loc' \in [Recs -> Locs \cup {None}],
         \A r \in Recs : /\ loc[r] = None => loc'[r] = None
                         /\ loc[r] # None => /\ loc'[r] # None
                                             /\ loc'[r].uid = loc[r].uid
                                             /\ loc'[r].repo = loc[r].repo,
         UNCHANGED <<owner, recCount>>, allocs' \subseteq allocs
  PROVE  CountsExact' /\ OwnersAgree'
<1>1. \A a : Stored(a)' = Stored(a)  BY DEF Stored, Live, Place
<1>2. Live' = Live  BY DEF Live
<1>3. CountsExact'  BY <1>1 DEF CountsExact, BooksInv
<1>4. OwnersAgree'  BY <1>2 DEF OwnersAgree, BooksInv, Live
<1> QED  BY <1>3, <1>4

\* Steps that only go on.
LEMMA QuietStep ==
  ASSUME BooksInv, UNCHANGED <<loc, owner, unborn, recCount, job>>,
         allocs' \subseteq allocs,
         at' \in [Tasks -> Stages],
         \A t \in Tasks : at[t] = "none" => at'[t] = "none"
  PROVE  BooksInv'
<1>1. CountsExact' /\ OwnersAgree'  BY SameBooks DEF BooksInv
<1> QED  BY <1>1 DEF BooksInv

LEMMA BooksInit == Init => BooksInv
<1> SUFFICES ASSUME Init PROVE BooksInv  OBVIOUS
<1>1. loc \in [Recs -> Locs \cup {None}]  BY DEF Init, Locs
<1>2. owner \in [Recs -> Owners \cup {None}] /\ allocs \subseteq Places  BY DEF Init
<1>3. unborn \subseteq Recs /\ \A r \in unborn : loc[r] = None  BY DEF Init, Live
<1>4. \A a \in Places : Stored(a) \subseteq Recs /\ IsFiniteSet(Stored(a))
  BY FS_Subset, DataAssumption DEF DataAssumption, Stored, Live
<1>5. \A a \in Places : Cardinality(Stored(a)) \in Int  BY <1>4, FS_CardinalityType
<1>6. recCount \in [Places -> Int] /\ CountsExact  BY <1>2, <1>5 DEF Init, CountsExact
<1>7. OwnersAgree  BY DEF Init, OwnersAgree
<1>8. at \in [Tasks -> Stages] /\ DOMAIN job = Tasks /\ \A t \in Tasks : at[t] = "none"
  BY DEF Init, Stages
<1> QED  BY <1>1, <1>2, <1>3, <1>6, <1>7, <1>8 DEF BooksInv

LEMMA CreateRecordKeeps ==
  ASSUME BooksInv, NEW r \in Recs, NEW a \in Places, CreateRecord(r, a)
  PROVE  BooksInv'
<1> DEFINE l == [uid |-> a[1], repo |-> a[2], newRepo |-> None, newOwner |-> None]
<1>1. /\ r \in unborn /\ loc[r] = None /\ a \in allocs
      /\ loc' = [loc EXCEPT ![r] = l]
      /\ owner' = [owner EXCEPT ![r] = a[1]]
      /\ unborn' = unborn \ {r}
      /\ recCount' = [recCount EXCEPT ![a] = @ + 1]
      /\ UNCHANGED <<allocs, at, job>>
  BY DEF CreateRecord, BooksInv, taskVars, runVars
<1>2. a = <<a[1], a[2]>> /\ a[1] \in Owners /\ a[2] \in Repos  BY DEF Places
<1>3. l \in Locs /\ l # None  BY <1>2, NoneApart DEF Locs
<1>4. Place(l) = a  BY <1>2 DEF Place
<1>5. /\ loc' \in [Recs -> Locs \cup {None}]
      /\ owner' \in [Recs -> Owners \cup {None}]
      /\ recCount' \in [Places -> Int]
  BY <1>1, <1>2, <1>3 DEF BooksInv
<1>6. Stored(a)' = Stored(a) \cup {r} /\ r \notin Stored(a)
  BY <1>1, <1>3, <1>4 DEF Stored, Live, BooksInv, Place
<1>7. \A b : b # a => Stored(b)' = Stored(b)
  BY <1>1, <1>3, <1>4 DEF Stored, Live, BooksInv, Place
<1>8. Cardinality(Stored(a)') = Cardinality(Stored(a)) + 1
  BY <1>6, StoredFinite, FS_AddElement
<1>9. CountsExact'
  <2> SUFFICES ASSUME NEW b \in allocs PROVE recCount'[b] = Cardinality(Stored(b)')
    BY <1>1 DEF CountsExact
  <2>1. recCount[b] = Cardinality(Stored(b)) /\ b \in Places  BY DEF BooksInv, CountsExact
  <2>2. CASE b = a  BY <2>1, <2>2, <1>1, <1>8 DEF BooksInv
  <2>3. CASE b # a  BY <2>1, <2>3, <1>1, <1>7 DEF BooksInv
  <2> QED  BY <2>2, <2>3
<1>10. OwnersAgree'  BY <1>1 DEF OwnersAgree, BooksInv, Live
<1> QED  BY <1>1, <1>5, <1>9, <1>10 DEF BooksInv

LEMMA InitMoveKeeps ==
  ASSUME BooksInv, NEW t \in Tasks, InitMove(t)
  PROVE  BooksInv'
<1> DEFINE R == Current(t).recs  k == job[t].kind  d == job[t].dst
<1>1. /\ at[t] = "run" /\ k \in Moves /\ R \subseteq Live
      /\ loc' = [r \in Recs |-> IF r \in R THEN Marked(loc[r], k, d) ELSE loc[r]]
      /\ UNCHANGED <<owner, unborn, allocs, recCount, at, job>>
  BY DEF InitMove, Called, Moving, CanInit, allocVars, taskVars
<1>2. d \in Places /\ d[1] \in Owners /\ d[2] \in Repos  BY <1>1 DEF BooksInv, Places
<1>3. ASSUME NEW m \in Locs
      PROVE  /\ Marked(m, k, d) \in Locs
             /\ Marked(m, k, d).uid = m.uid /\ Marked(m, k, d).repo = m.repo
  BY <1>2 DEF Marked, Locs
<1>4. \A r \in Recs : r \in R => loc[r] \in Locs  BY <1>1 DEF BooksInv, Live
<1>5. loc' \in [Recs -> Locs \cup {None}]  BY <1>1, <1>3, <1>4 DEF BooksInv
<1>6. \A r \in Recs : /\ loc[r] = None => loc'[r] = None
                      /\ loc[r] # None => /\ loc'[r] # None
                                          /\ loc'[r].uid = loc[r].uid
                                          /\ loc'[r].repo = loc[r].repo
  BY <1>1, <1>3, <1>4, NoneApart DEF Live
<1>7. CountsExact' /\ OwnersAgree'  BY <1>1, <1>5, <1>6, SameBooks
<1>8. \A r \in unborn' : loc'[r] = None  BY <1>1, <1>6 DEF BooksInv
<1> QED  BY <1>1, <1>5, <1>7, <1>8 DEF BooksInv

\* The records of a chunk leave the places that store them for others; each
\* place loses and gains what the counts say.
LEMMA FiniStores ==
  ASSUME BooksInv, NEW t \in Tasks, FiniMove(t)
  PROVE  /\ loc' \in [Recs -> Locs \cup {None}]
         /\ Live' = Live
         /\ \A r \in Live : r \in Recs /\ loc[r] \in Locs
         /\ \A r \in Movers(t) :
              r \in Live /\ Place(loc[r])' = <<NewOwner(loc[r]), loc[r].newRepo>>
         /\ \A a : /\ Stored(a)' = (Stored(a) \ From(t, a)) \cup To(t, a)
                   /\ From(t, a) \subseteq Stored(a)
                   /\ (Stored(a) \ From(t, a)) \cap To(t, a) = {}
<1> DEFINE M == Movers(t)
           l(r) == [repo |-> loc[r].newRepo, uid |-> NewOwner(loc[r]),
                    newRepo |-> None, newOwner |-> None]
<1>1. /\ CanFini(t)
      /\ loc' = [r \in Recs |-> IF r \in M THEN l(r) ELSE loc[r]]
      /\ allocs' = allocs
  BY DEF FiniMove
<1>2. /\ M \subseteq Live /\ M \subseteq Recs
      /\ \A r \in Live : r \in Recs /\ loc[r] \in Locs
  BY DEF Movers, Live, BooksInv
<1>3. ASSUME NEW r \in M
      PROVE  /\ <<NewOwner(loc[r]), loc[r].newRepo>> \in Places
             /\ NewOwner(loc[r]) \in Owners /\ loc[r].newRepo \in Repos
  <2>1. <<NewOwner(loc[r]), loc[r].newRepo>> \in Places  BY <1>1 DEF CanFini, BooksInv
  <2> QED  BY <2>1 DEF Places
<1>4. \A r \in M : /\ l(r) \in Locs /\ l(r) # None
                   /\ Place(l(r)) = <<NewOwner(loc[r]), loc[r].newRepo>>
  <2> SUFFICES ASSUME NEW r \in M
               PROVE  /\ l(r) \in Locs /\ l(r) # None
                      /\ Place(l(r)) = <<NewOwner(loc[r]), loc[r].newRepo>>
    OBVIOUS
  <2>1. NewOwner(loc[r]) \in Owners /\ loc[r].newRepo \in Repos  BY <1>3
  <2>2. l(r) \in Locs  BY <2>1 DEF Locs
  <2>3. Place(l(r)) = <<NewOwner(loc[r]), loc[r].newRepo>>  BY DEF Place
  <2> QED  BY <2>2, <2>3, NoneApart
<1>5. loc' \in [Recs -> Locs \cup {None}]  BY <1>1, <1>2, <1>4 DEF BooksInv
<1>6. Live' = Live  BY <1>1, <1>2, <1>4 DEF Live
<1>7. \A r \in Live : Place(loc[r])' = IF r \in M THEN <<NewOwner(loc[r]), loc[r].newRepo>>
                                              ELSE Place(loc[r])
  BY <1>1, <1>2, <1>4 DEF Place
<1>8. ASSUME NEW a
      PROVE  /\ Stored(a)' = (Stored(a) \ From(t, a)) \cup To(t, a)
             /\ From(t, a) \subseteq Stored(a)
             /\ (Stored(a) \ From(t, a)) \cap To(t, a) = {}
  <2>1. Stored(a)' = {r \in Live : Place(loc[r])' = a}  BY <1>6 DEF Stored
  <2>2. Stored(a)' = (Stored(a) \ From(t, a)) \cup To(t, a)
    BY <1>7, <2>1, <1>2 DEF Stored, From, To
  <2> QED  BY <2>2, <1>2 DEF Stored, From, To
<1>9. \A r \in M : r \in Live /\ Place(loc[r])' = <<NewOwner(loc[r]), loc[r].newRepo>>
  BY <1>2, <1>7
<1> HIDE DEF M, l
<1> QED  BY <1>2, <1>5, <1>6, <1>8, <1>9 DEF M

LEMMA FiniMoveKeeps ==
  ASSUME BooksInv, NEW t \in Tasks, FiniMove(t)
  PROVE  BooksInv'
<1> DEFINE M == Movers(t)
<1>1. /\ \A r \in Recs \ M : loc'[r] = loc[r]
      /\ \A r \in M \cap Recs : loc'[r].uid = NewOwner(loc[r])
      /\ owner' = [r \in Recs |-> IF r \in M /\ loc[r].newOwner # None
                                  THEN loc[r].newOwner ELSE owner[r]]
      /\ recCount' = [a \in Places |->
                        recCount[a] - Cardinality(From(t, a)) + Cardinality(To(t, a))]
      /\ UNCHANGED <<unborn, allocs, at, job>>
  BY DEF FiniMove, taskVars
<1>2. /\ M \subseteq Live /\ M \subseteq Recs
      /\ \A r \in Live : r \in Recs /\ loc[r] \in Locs
  BY DEF Movers, Live, BooksInv
<1>5. loc' \in [Recs -> Locs \cup {None}]  BY FiniStores
<1>6. Live' = Live  BY FiniStores
<1>7. ASSUME NEW a
      PROVE  /\ Stored(a)' = (Stored(a) \ From(t, a)) \cup To(t, a)
             /\ From(t, a) \subseteq Stored(a)
             /\ (Stored(a) \ From(t, a)) \cap To(t, a) = {}
  BY FiniStores
<1>8. ASSUME NEW a \in allocs PROVE recCount'[a] = Cardinality(Stored(a)')
  <2> DEFINE S == Stored(a)  F == From(t, a)  T == To(t, a)
  <2>1. IsFiniteSet(S) /\ Cardinality(S) \in Nat  BY StoredFinite
  <2>2. T \subseteq Recs  BY <1>2 DEF To
  <2>3. IsFiniteSet(T) /\ IsFiniteSet(F) /\ IsFiniteSet(S \ F)
    BY <2>1, <2>2, <1>7, FS_Subset, DataAssumption DEF DataAssumption
  <2>4. Cardinality(T) \in Nat /\ Cardinality(F) \in Nat  BY <2>3, FS_CardinalityType
  <2>5. S \cap F = F /\ (S \ F) \cap T = {}  BY <1>7
  <2>6. Cardinality(S \ F) = Cardinality(S) - Cardinality(F)
    BY <2>1, <2>3, <2>5, FS_Difference
  <2>7. Cardinality((S \ F) \cup T) = Cardinality(S \ F) + Cardinality(T) - 0
    BY <2>3, <2>5, FS_Union, FS_EmptySet
  <2>8. recCount[a] = Cardinality(S) /\ a \in Places  BY DEF BooksInv, CountsExact
  <2>9. recCount'[a] = recCount[a] - Cardinality(F) + Cardinality(T)  BY <1>1, <2>8
  <2>10. Cardinality(S \ F) \in Int  BY <2>1, <2>4, <2>6
  <2>11. Cardinality(Stored(a)') = Cardinality((S \ F) \cup T)  BY <1>7
  <2> QED  BY <2>1, <2>4, <2>6, <2>7, <2>8, <2>9, <2>10, <2>11
<1>9. CountsExact'  BY <1>1, <1>8 DEF CountsExact
<1>10. recCount' \in [Places -> Int]
  <2>1. ASSUME NEW a \in Places
        PROVE  recCount[a] - Cardinality(From(t, a)) + Cardinality(To(t, a)) \in Int
    <3>1. From(t, a) \subseteq Recs /\ To(t, a) \subseteq Recs  BY <1>2 DEF From, To
    <3>2. IsFiniteSet(From(t, a)) /\ IsFiniteSet(To(t, a))
      BY <3>1, FS_Subset, DataAssumption DEF DataAssumption
    <3>3. Cardinality(From(t, a)) \in Nat /\ Cardinality(To(t, a)) \in Nat
      BY <3>2, FS_CardinalityType
    <3> QED  BY <3>3 DEF BooksInv
  <2> QED  BY <1>1, <2>1
<1>11. OwnersAgree'
  <2> SUFFICES ASSUME NEW r \in Live PROVE loc'[r].uid = owner'[r]
    BY <1>6 DEF OwnersAgree
  <2>1. loc[r].uid = owner[r] /\ r \in Recs  BY <1>2 DEF BooksInv, OwnersAgree
  <2>2. CASE r \in M  BY <2>1, <2>2, <1>1 DEF NewOwner
  <2>3. CASE r \notin M  BY <2>1, <2>3, <1>1
  <2> QED  BY <2>2, <2>3
<1>12. owner' \in [Recs -> Owners \cup {None}]
  BY <1>1, <1>2 DEF BooksInv, Locs
<1>13. \A r \in unborn' : loc'[r] = None  BY <1>1, <1>2 DEF BooksInv, Live
<1> QED  BY <1>1, <1>5, <1>9, <1>10, <1>11, <1>12, <1>13 DEF BooksInv

LEMMA EraseRecordsKeeps ==
  ASSUME BooksInv, NEW t \in Tasks, EraseRecords(t)
  PROVE  BooksInv'
<1> DEFINE R == job[t].recs
           E(a) == {r \in R : <<owner[r], loc[r].repo>> = a}
<1>1. /\ R \subseteq Live
      /\ loc' = [r \in Recs |-> IF r \in R THEN None ELSE loc[r]]
      /\ owner' = [r \in Recs |-> IF r \in R THEN None ELSE owner[r]]
      /\ recCount' = [a \in Places |-> recCount[a] - IF a \in allocs
                                                     THEN Cardinality(E(a)) ELSE 0]
      /\ UNCHANGED <<unborn, allocs, at, job>>
  BY DEF EraseRecords, taskVars
<1>2. Live' = Live \ R /\ R \subseteq Recs  BY <1>1 DEF Live
<1>3. ASSUME NEW a PROVE Stored(a)' = Stored(a) \ E(a) /\ E(a) \subseteq Stored(a)
  <2>1. E(a) = {r \in R : Place(loc[r]) = a}
    BY <1>1 DEF Place, BooksInv, OwnersAgree
  <2>2. \A r \in Live \ R : loc'[r] = loc[r]  BY <1>1 DEF Live
  <2>3. Stored(a)' = {r \in Live \ R : Place(loc[r]) = a}
    BY <1>2, <2>2 DEF Stored, Place
  <2> QED  BY <2>1, <2>3, <1>1 DEF Stored
<1>4. ASSUME NEW a PROVE IsFiniteSet(E(a)) /\ Cardinality(E(a)) \in Nat
  <2>1. E(a) \subseteq Recs  BY <1>2
  <2>2. IsFiniteSet(E(a))  BY <2>1, FS_Subset, DataAssumption DEF DataAssumption
  <2> QED  BY <2>2, FS_CardinalityType
<1>5. ASSUME NEW a \in allocs PROVE recCount'[a] = Cardinality(Stored(a)')
  <2>1. IsFiniteSet(Stored(a)) /\ IsFiniteSet(E(a))  BY <1>4, StoredFinite
  <2>2. Stored(a) \cap E(a) = E(a)  BY <1>3
  <2>3. Cardinality(Stored(a) \ E(a)) = Cardinality(Stored(a)) - Cardinality(E(a))
    BY <2>1, <2>2, FS_Difference
  <2>4. recCount[a] = Cardinality(Stored(a)) /\ a \in Places  BY DEF BooksInv, CountsExact
  <2>5. recCount'[a] = recCount[a] - Cardinality(E(a))  BY <1>1, <2>4
  <2> QED  BY <1>3, <2>3, <2>4, <2>5
<1>6. CountsExact'  BY <1>1, <1>5 DEF CountsExact
<1>7. recCount' \in [Places -> Int]
  <2>1. ASSUME NEW a \in Places
        PROVE  recCount[a] - (IF a \in allocs THEN Cardinality(E(a)) ELSE 0) \in Int
    <3>1. recCount[a] \in Int  BY DEF BooksInv
    <3>2. Cardinality(E(a)) \in Nat  BY <1>4
    <3> HIDE DEF E
    <3> QED  BY <3>1, <3>2
  <2> QED  BY <1>1, <2>1
<1>8. OwnersAgree'
  <2>1. \A r \in Live \ R : loc'[r] = loc[r] /\ owner'[r] = owner[r]  BY <1>1 DEF Live
  <2> QED  BY <1>2, <2>1 DEF OwnersAgree, BooksInv
<1>9. /\ loc' \in [Recs -> Locs \cup {None}]
      /\ owner' \in [Recs -> Owners \cup {None}]
      /\ \A r \in unborn' : loc'[r] = None
  BY <1>1 DEF BooksInv
<1> QED  BY <1>1, <1>6, <1>7, <1>8, <1>9 DEF BooksInv

LEMMA RollbackKeeps ==
  ASSUME BooksInv, NEW t \in Tasks, Rollback(t)
  PROVE  BooksInv'
<1> DEFINE l(r) == [loc[r] EXCEPT !.newRepo = None, !.newOwner = None]
<1>1. /\ Reverted(t) \subseteq Live /\ at[t] # "none"
      /\ loc' = [r \in Recs |-> IF r \in Reverted(t) THEN l(r) ELSE loc[r]]
      /\ at' = [at EXCEPT ![t] = "undone"]
      /\ UNCHANGED <<owner, unborn, allocs, recCount, job>>
  BY DEF Rollback, Called, GoTo, allocVars, taskVars
<1>2. \A r \in Reverted(t) : /\ loc[r] \in Locs /\ l(r) \in Locs
                             /\ l(r).uid = loc[r].uid /\ l(r).repo = loc[r].repo
  BY <1>1 DEF BooksInv, Live, Locs
<1>3. loc' \in [Recs -> Locs \cup {None}]  BY <1>1, <1>2 DEF BooksInv
<1>4. \A r \in Recs : /\ loc[r] = None => loc'[r] = None
                      /\ loc[r] # None => /\ loc'[r] # None
                                          /\ loc'[r].uid = loc[r].uid
                                          /\ loc'[r].repo = loc[r].repo
  BY <1>1, <1>2, NoneApart DEF Live
<1>5. CountsExact' /\ OwnersAgree'  BY <1>1, <1>3, <1>4, SameBooks
<1>6. at' \in [Tasks -> Stages] /\ \A u \in Tasks : at'[u] # "none" => at[u] # "none"
  BY <1>1 DEF BooksInv, Stages
<1>7. \A r \in unborn' : loc'[r] = None  BY <1>1, <1>4 DEF BooksInv
<1> QED  BY <1>1, <1>3, <1>5, <1>6, <1>7 DEF BooksInv

LEMMA RequestKeeps ==
  ASSUME BooksInv, NEW t \in Tasks, Request(t)
  PROVE  BooksInv'
<1>1. PICK k, R, d, held : CreateTask(t, k, R, d, held) /\ (k \in Moves => d \in allocs)
  <2>0. "put" \notin Moves /\ "rec_del" \notin Moves /\ "alloc_del" \notin Moves
    BY DEF Moves
  <2>1. CASE CreatePut(t)  BY <2>0, <2>1, Zenon DEF CreatePut
  <2>2. CASE CreateAllocChg(t)  BY <2>2, Zenon DEF CreateAllocChg
  <2>3. CASE CreateOwnerChg(t)  BY <2>3, Zenon DEF CreateOwnerChg
  <2>4. CASE CreateRecDelete(t)  BY <2>0, <2>4, Zenon DEF CreateRecDelete
  <2>5. CASE CreateAllocDelete(t)  BY <2>0, <2>5, Zenon DEF CreateAllocDelete
  <2> QED  BY <2>1, <2>2, <2>3, <2>4, <2>5 DEF Request
<1> DEFINE j == [kind |-> k, recs |-> R, dst |-> d,
                 size |-> [r \in Recs |-> IF r \in R THEN size[r] ELSE 0]]
<1>2. /\ job' = [job EXCEPT ![t] = j]
      /\ at' = [at EXCEPT ![t] = "wait"]
      /\ UNCHANGED <<loc, owner, unborn, allocs, recCount>>
  BY <1>1 DEF CreateTask, GoTo, recVars, allocVars
<1>3. at' \in [Tasks -> Stages] /\ DOMAIN job' = Tasks  BY <1>2 DEF BooksInv, Stages
<1>4. ASSUME NEW u \in Tasks, at'[u] # "none", job'[u].kind \in Moves
      PROVE  job'[u].dst \in Places
  <2>1. CASE u = t  BY <2>1, <1>1, <1>2, <1>4 DEF BooksInv
  <2>2. CASE u # t  BY <2>2, <1>2, <1>4 DEF BooksInv
  <2> QED  BY <2>1, <2>2
<1>5. CountsExact' /\ OwnersAgree'  BY <1>2, SameBooks DEF BooksInv
<1> QED  BY <1>2, <1>3, <1>4, <1>5 DEF BooksInv

\* The other steps of a task: where it goes, and what it leaves alone.
GoesOn(t) ==
  /\ UNCHANGED <<loc, owner, unborn, recCount, job>>
  /\ allocs' \subseteq allocs
  /\ \/ at' = at
     \/ at[t] # "none" /\ \E s \in Stages \ {"none"} : at' = [at EXCEPT ![t] = s]

LEMMA GoesOnKeeps ==
  ASSUME BooksInv, NEW t \in Tasks, GoesOn(t)
  PROVE  BooksInv'
<1>1. at' \in [Tasks -> Stages] /\ \A u \in Tasks : at[u] = "none" => at'[u] = "none"
  <2>1. CASE at' = at  BY <2>1 DEF BooksInv
  <2>2. CASE at[t] # "none" /\ \E s \in Stages \ {"none"} : at' = [at EXCEPT ![t] = s]
    <3>1. PICK s \in Stages \ {"none"} : at' = [at EXCEPT ![t] = s]  BY <2>2
    <3> QED  BY <2>2, <3>1 DEF BooksInv
  <2> QED  BY <2>1, <2>2 DEF GoesOn
<1> QED  BY <1>1, QuietStep DEF GoesOn

LEMMA RunKeeps ==
  ASSUME BooksInv, NEW t \in Tasks, Run(t)
  PROVE  BooksInv'
<1> USE DEF GoesOn, recVars, allocVars, taskVars, Stages
<1>1. CASE InitMove(t)  BY <1>1, InitMoveKeeps
<1>2. CASE FiniMove(t)  BY <1>2, FiniMoveKeeps
<1>3. CASE EraseRecords(t)  BY <1>3, EraseRecordsKeeps
<1>4. CASE Rollback(t)  BY <1>4, RollbackKeeps
<1>5. CASE Begin(t)
  <2>1. GoesOn(t)  BY <1>5 DEF Begin, GoTo
  <2> QED  BY <2>1, GoesOnKeeps
<1>6. CASE Setup(t)
  <2>1. GoesOn(t)  BY <1>6 DEF Setup, Called
  <2> QED  BY <2>1, GoesOnKeeps
<1>7. CASE MoveExternal(t)
  <2>1. GoesOn(t)  BY <1>7 DEF MoveExternal, Called
  <2> QED  BY <2>1, GoesOnKeeps
<1>8. CASE RemoveAlloc(t)
  <2>1. GoesOn(t)  BY <1>8 DEF RemoveAlloc, Called, GoTo
  <2> QED  BY <2>1, GoesOnKeeps
<1>9. CASE Issue(t)
  <2>1. GoesOn(t)  BY <1>9 DEF Issue, Called, GoTo
  <2> QED  BY <2>1, GoesOnKeeps
<1>10. CASE Finish(t)
  <2>1. GoesOn(t)  BY <1>10 DEF Finish, Called, End, GoTo
  <2> QED  BY <2>1, GoesOnKeeps
<1>11. CASE TransferOk(t)
  <2>1. GoesOn(t)  BY <1>11 DEF TransferOk, Outcome, GoTo
  <2> QED  BY <2>1, GoesOnKeeps
<1>12. CASE TransferFails(t)
  <2>1. GoesOn(t)  BY <1>12 DEF TransferFails, Outcome, GoTo
  <2> QED  BY <2>1, GoesOnKeeps
<1>13. CASE TransferRefused(t)
  <2>1. GoesOn(t)  BY <1>13 DEF TransferRefused, Outcome, GoTo
  <2> QED  BY <2>1, GoesOnKeeps
<1>14. CASE UpdateSize(t)
  <2>1. GoesOn(t)  BY <1>14 DEF UpdateSize, Outcome, GoTo
  <2> QED  BY <2>1, GoesOnKeeps
<1>15. CASE SizeFails(t)
  <2>1. GoesOn(t)  BY <1>15 DEF SizeFails, Outcome, GoTo
  <2> QED  BY <2>1, GoesOnKeeps
<1>16. CASE Delete(t)
  <2>1. GoesOn(t)  BY <1>16 DEF Delete, Outcome, GoTo
  <2> QED  BY <2>1, GoesOnKeeps
<1>17. CASE Confirm(t)
  <2>1. GoesOn(t)  BY <1>17 DEF Confirm, GoTo
  <2> QED  BY <2>1, GoesOnKeeps
<1>18. CASE Repeat(t)
  <2>1. GoesOn(t)  BY <1>18 DEF Repeat, Outcome, GoTo
  <2> QED  BY <2>1, GoesOnKeeps
<1>19. CASE Cut(t)
  <2>1. GoesOn(t)  BY <1>19 DEF Cut, Outcome, GoTo
  <2> QED  BY <2>1, GoesOnKeeps
<1>20. CASE Throw(t)
  <2>1. GoesOn(t)  BY <1>20 DEF Throw, GoTo
  <2> QED  BY <2>1, GoesOnKeeps
<1>21. CASE RollbackFails(t)
  <2>1. GoesOn(t)  BY <1>21 DEF RollbackFails, Called, GoTo
  <2> QED  BY <2>1, GoesOnKeeps
<1>22. CASE Complete(t)
  <2>1. GoesOn(t)  BY <1>22 DEF Complete, End, GoTo
  <2> QED  BY <2>1, GoesOnKeeps
<1> QED  BY <1>1, <1>2, <1>3, <1>4, <1>5, <1>6, <1>7, <1>8, <1>9, <1>10, <1>11, <1>12,
           <1>13, <1>14, <1>15, <1>16, <1>17, <1>18, <1>19, <1>20, <1>21, <1>22 DEF Run

LEMMA BooksStep == BooksInv /\ [Next]_vars => BooksInv'
<1> SUFFICES ASSUME BooksInv, [Next]_vars PROVE BooksInv'  OBVIOUS
<1>1. ASSUME NEW r \in Recs, NEW a \in Places, CreateRecord(r, a) PROVE BooksInv'
  BY <1>1, CreateRecordKeeps
<1>2. ASSUME NEW t \in Tasks, Request(t) PROVE BooksInv'  BY <1>2, RequestKeeps
<1>3. ASSUME NEW t \in Tasks, Run(t) PROVE BooksInv'  BY <1>3, RunKeeps
<1>4. CASE UNCHANGED vars
  <2>1. /\ UNCHANGED <<loc, owner, unborn, allocs, recCount, at, job>>
    BY <1>4 DEF vars, recVars, allocVars, taskVars, runVars
  <2> QED  BY <2>1, QuietStep DEF BooksInv
<1> QED  BY <1>1, <1>2, <1>3, <1>4 DEF Next

\* BooksInv holds in every state, whatever is repeated, cut off or fails.
THEOREM BooksKept == Spec => []BooksInv
<1>1. Init => BooksInv  BY BooksInit
<1>2. BooksInv /\ [Next]_vars => BooksInv'  BY BooksStep
<1> QED  BY <1>1, <1>2, PTL DEF Spec

\* rec_count of every allocation is the number of records stored there (recMoveFini,
\* _deleteDataRecords, recordCreate), for any tasks, records and faults.
THEOREM BooksExact == Spec => []CountsExact
<1>1. BooksInv => CountsExact  BY DEF BooksInv
<1> QED  BY <1>1, BooksKept, PTL

\* Every record is stored in a directory of its owner (recMoveFini, recordCreate).
THEOREM StoredWithOwner == Spec => []OwnersAgree
<1>1. BooksInv => OwnersAgree  BY DEF BooksInv
<1> QED  BY <1>1, BooksKept, PTL

-----------------------------------------------------------------------------
\* Types.  A plan is one of the records that are there, cut into disjoint parts.
IsPlan(q, S) ==
  /\ q \in Seq([src : Places, recs : SUBSET Recs])
  /\ \A i \in 1..Len(q) : /\ q[i].recs \subseteq S
                          /\ \E r \in S : q[i].src = <<loc[r].uid, loc[r].repo>>
                          /\ \A r \in q[i].recs : loc[r].repo = q[i].src[2]
  /\ \A r \in S : \E i \in 1..Len(q) : r \in q[i].recs
  /\ \A i, j \in 1..Len(q) : i # j => q[i].recs \cap q[j].recs = {}

LEMMA PlansArePlans ==
  ASSUME loc \in [Recs -> Locs \cup {None}], NEW R \in SUBSET Recs, NEW shared,
         NEW q \in Plans(R, shared)
  PROVE  IsPlan(q, R \cap Live) /\ Len(q) \in 0..Cardinality(R \cap Live)
<1> DEFINE here == R \cap Live
           docs == [src : {Place(loc[r]) : r \in here}, recs : (SUBSET here) \ {{}}]
           parts == {x \in docs : \A r \in x.recs : loc[r].repo = x.src[2]}
<1>1. /\ q \in UNION {[1..n -> parts] : n \in 0..Cardinality(here)}
      /\ UNION {q[i].recs : i \in DOMAIN q} = here
      /\ \A i, j \in DOMAIN q : i # j => q[i].recs \cap q[j].recs = {}
  BY DEF Plans
<1>2. IsFiniteSet(here)  BY FS_Subset, DataAssumption DEF DataAssumption
<1>3. Cardinality(here) \in Nat  BY <1>2, FS_CardinalityType
<1>4. PICK n \in 0..Cardinality(here) : q \in [1..n -> parts]  BY <1>1
<1>5. ASSUME NEW x \in parts
      PROVE  /\ x \in [src : Places, recs : SUBSET Recs]
             /\ x.recs \subseteq here
             /\ \E r \in here : x.src = <<loc[r].uid, loc[r].repo>>
             /\ \A r \in x.recs : loc[r].repo = x.src[2]
  <2>1. PICK r \in here : x.src = Place(loc[r])  OBVIOUS
  <2>2. loc[r] \in Locs  BY DEF Live
  <2>3. x.src \in Places  BY <2>1, <2>2 DEF Place, Places, Locs
  <2>4. x.recs \subseteq here  OBVIOUS
  <2>5. x = [src |-> x.src, recs |-> x.recs]  OBVIOUS
  <2>6. x \in [src : Places, recs : SUBSET Recs]
    <3> HIDE DEF parts, docs
    <3> QED  BY <2>3, <2>4, <2>5
  <2> QED  BY <2>1, <2>4, <2>6 DEF Place
<1> HIDE DEF parts, docs
<1>6. n \in Nat /\ Len(q) = n /\ DOMAIN q = 1..n  BY <1>3, <1>4
<1>7. q \in Seq([src : Places, recs : SUBSET Recs])
  <2> DEFINE X == [src : Places, recs : SUBSET Recs]
  <2>1. \A i \in 1..n : q[i] \in X  BY <1>4, <1>5
  <2>2. q \in [1..n -> X]
    <3> HIDE DEF X
    <3> QED  BY <1>4, <2>1
  <2> HIDE DEF X
  <2>3. q \in Seq(X)  BY <1>6, <2>2
  <2> QED  BY <2>3 DEF X
<1>8. \A r \in here : \E i \in 1..n : r \in q[i].recs  BY <1>1, <1>6
<1> QED  BY <1>1, <1>3, <1>4, <1>5, <1>6, <1>7, <1>8 DEF IsPlan

\* What the steps of a task say of its plan: no transfer or deletion is beyond its
\* end, and a put gets past its first step with one transfer only.
StepsOK(j, s, n, m, q) ==
  /\ s # "none" => j \in Jobs
  /\ s = "none" => n = 0
  /\ s \notin {"none", "over"} =>
       /\ j.kind \notin {"put", "rec_del"} => j.dst \in Places
       /\ j.kind = "put" => \E r \in Recs : j.recs = {r}
       /\ s = "wait" => n = 0
       /\ s = "undo" => n < 0
       /\ s \in {"cmd", "done"} => n >= 1 \/ (j.kind = "alloc_del" /\ n = 0)
       /\ n # 0 /\ j.kind = "put" => m = Len(q) + 3
       /\ n # 0 /\ j.kind = "alloc_chg" => m = 4 * Len(q) + 2
       /\ n # 0 /\ j.kind = "owner_chg" => m = 4 * Len(q) + 3
       /\ j.kind = "rec_del" => m = Len(q) + 2
       /\ j.kind = "put" /\ (n >= 2 \/ (n = 1 /\ s \in {"cmd", "done"})) => m = 4
StepsKept(t) == StepsOK(job[t], at[t], step[t], steps[t], xfr[t])

DataTypes == /\ loc \in [Recs -> Locs \cup {None}]
             /\ owner \in [Recs -> Owners \cup {None}]
             /\ size \in [Recs -> 0..MaxSize]
             /\ unborn \subseteq Recs
             /\ allocs \subseteq Places
             /\ recCount \in [Places -> Int]
             /\ DOMAIN dataSize = Places
             /\ disk \in [Recs -> [Places -> {NoFile} \cup 0..MaxSize]]
TaskTypes == /\ job \in [Tasks -> Jobs \cup {None}]
             /\ locked \in [Tasks -> SUBSET (Recs \cup Places)]
             /\ before \in [Tasks -> SUBSET Tasks]
             /\ xfr \in [Tasks -> Seq([src : Places, recs : SUBSET Recs])]
             /\ step \in [Tasks -> Int] /\ steps \in [Tasks -> Nat]
             /\ at \in [Tasks -> Stages]
             /\ err \in [Tasks -> BOOLEAN]
TypeInv == DataTypes /\ TaskTypes /\ \A t \in Tasks : StepsKept(t)

\* What a step of t leaves of the others.
OnlyTask(t) == \A u \in Tasks \ {t} : /\ job'[u] = job[u] /\ at'[u] = at[u]
                                      /\ step'[u] = step[u] /\ steps'[u] = steps[u]
                                      /\ xfr'[u] = xfr[u]

Leads(j, s, n, m, z, k) ==
  /\ s \notin {"none", "over"} /\ z \notin {"none", "wait"}
  /\ z = "undo" => k < 0
  /\ z \in {"cmd", "done"} => k >= 1 \/ (j.kind = "alloc_del" /\ k = 0)
  /\ k # 0 => n # 0 \/ j.kind = "alloc_del"
  /\ j.kind = "put" /\ (k >= 2 \/ (k = 1 /\ z \in {"cmd", "done"})) => m = 4

LEMMA StepsGoOn ==
  ASSUME NEW j, NEW s, NEW n, NEW m, NEW q, StepsOK(j, s, n, m, q),
         NEW z, NEW k, Leads(j, s, n, m, z, k)
  PROVE  StepsOK(j, z, k, m, q)
<1> USE DEF Leads
<1> DEFINE l == Len(q)
<1> HIDE DEF l
<1>1. StepsOK(j, z, k, m, q) <=>
        (j \in Jobs /\ (z # "over" =>
          /\ j.kind \notin {"put", "rec_del"} => j.dst \in Places
          /\ j.kind = "put" => \E r \in Recs : j.recs = {r}
          /\ k # 0 /\ j.kind = "put" => m = l + 3
          /\ k # 0 /\ j.kind = "alloc_chg" => m = 4 * l + 2
          /\ k # 0 /\ j.kind = "owner_chg" => m = 4 * l + 3
          /\ j.kind = "rec_del" => m = l + 2))
  BY DEF StepsOK, l
<1>2. /\ j \in Jobs
      /\ j.kind \notin {"put", "rec_del"} => j.dst \in Places
      /\ j.kind = "put" => \E r \in Recs : j.recs = {r}
      /\ n # 0 /\ j.kind = "put" => m = l + 3
      /\ n # 0 /\ j.kind = "alloc_chg" => m = 4 * l + 2
      /\ n # 0 /\ j.kind = "owner_chg" => m = 4 * l + 3
      /\ j.kind = "rec_del" => m = l + 2
  BY DEF StepsOK, l
<1> QED  BY <1>1, <1>2

LEMMA OthersKeepSteps ==
  ASSUME TypeInv, NEW t \in Tasks, OnlyTask(t), DataTypes', TaskTypes', StepsKept(t)'
  PROVE  TypeInv'
<1>1. \A u \in Tasks \ {t} : StepsKept(u)'  BY DEF TypeInv, StepsKept, OnlyTask
<1> QED  BY <1>1 DEF TypeInv

\* Most steps change a task's step, stage and error only.
Ticks(t) == /\ UNCHANGED <<job, locked, before, xfr, steps>>
            /\ step' \in [Tasks -> Int] /\ at' \in [Tasks -> Stages]
            /\ err' \in [Tasks -> BOOLEAN]
            /\ \A u \in Tasks \ {t} : step'[u] = step[u] /\ at'[u] = at[u]

LEMMA TickKeepsTypes ==
  ASSUME TypeInv, NEW t \in Tasks, Ticks(t), DataTypes',
         StepsOK(job[t], at'[t], step'[t], steps[t], xfr[t])
  PROVE  TypeInv'
<1>1. TaskTypes'  BY DEF Ticks, TypeInv, TaskTypes
<1>2. OnlyTask(t) /\ StepsKept(t)'  BY DEF Ticks, OnlyTask, StepsKept
<1> QED  BY <1>1, <1>2, OthersKeepSteps

LEMMA TypeInit == Init => TypeInv
<1> SUFFICES ASSUME Init PROVE TypeInv  OBVIOUS
<1>1. DataTypes
  <2>1. /\ loc \in [Recs -> Locs \cup {None}] /\ owner \in [Recs -> Owners \cup {None}]
        /\ unborn \subseteq Recs /\ allocs \subseteq Places
        /\ recCount \in [Places -> Int]
    BY BooksInit DEF BooksInv
  <2>2. size \in [Recs -> 0..MaxSize] /\ DOMAIN dataSize = Places  BY DEF Init
  <2>3. disk \in [Recs -> [Places -> {NoFile} \cup 0..MaxSize]]  BY <2>2 DEF Init
  <2> QED  BY <2>1, <2>2, <2>3 DEF DataTypes
<1>2. TaskTypes  BY DEF Init, TaskTypes, Stages
<1>3. \A t \in Tasks : StepsKept(t)  BY DEF Init, StepsKept, StepsOK
<1> QED  BY <1>1, <1>2, <1>3 DEF TypeInv

LEMMA CreateRecordTypes ==
  ASSUME TypeInv, NEW r \in Recs, NEW a \in Places, CreateRecord(r, a)
  PROVE  TypeInv'
<1> DEFINE l == [uid |-> a[1], repo |-> a[2], newRepo |-> None, newOwner |-> None]
<1>1. a[1] \in Owners /\ a[2] \in Repos  BY DEF Places
<1>2. l \in Locs  BY <1>1 DEF Locs
<1>3. /\ loc' = [loc EXCEPT ![r] = l] /\ owner' = [owner EXCEPT ![r] = a[1]]
      /\ unborn' = unborn \ {r} /\ recCount' = [recCount EXCEPT ![a] = @ + 1]
      /\ UNCHANGED <<size, allocs, dataSize, disk, taskVars, runVars>>
  BY DEF CreateRecord
<1> HIDE DEF l
<1>4. DataTypes'  BY <1>1, <1>2, <1>3 DEF TypeInv, DataTypes
<1>5. TaskTypes' /\ \A t \in Tasks : StepsKept(t)'
  BY <1>3 DEF TypeInv, TaskTypes, StepsKept, taskVars, runVars
<1> QED  BY <1>4, <1>5 DEF TypeInv

LEMMA RequestTypes ==
  ASSUME TypeInv, NEW t \in Tasks, Request(t)
  PROVE  TypeInv'
<1>1. PICK k \in AllKinds, R \in SUBSET Recs, d \in Places \cup {None},
           held \in SUBSET (Recs \cup Places) :
        /\ CreateTask(t, k, R, d, held)
        /\ k \notin {"put", "rec_del"} => d \in Places
        /\ k = "put" => \E r \in Recs : R = {r}
        /\ k # "rec_del" => xfr' = xfr
        /\ k = "rec_del" => \E q \in Plans(R, TRUE) : /\ xfr' = [xfr EXCEPT ![t] = q]
                                                      /\ steps' = [steps EXCEPT ![t] = Len(q) + 2]
        /\ k = "alloc_del" => steps' = [steps EXCEPT ![t] = 2]
        /\ k \notin {"rec_del", "alloc_del"} => steps' = steps
  <2> USE DEF AllKinds, TypeInv, DataTypes
  <2>1. Live \subseteq Recs  BY DEF Live
  <2>2. CASE CreatePut(t)
    <3>1. PICK r \in Live : CreateTask(t, "put", {r}, None, {r}) /\ NoPlan
      BY <2>2 DEF CreatePut
    <3> DEFINE R == {r}  h == {r}
    <3>2. R \in SUBSET Recs /\ h \in SUBSET (Recs \cup Places)  BY <2>1
    <3>3. /\ CreateTask(t, "put", R, None, h) /\ xfr' = xfr /\ steps' = steps
          /\ \E x \in Recs : R = {x}
      BY <2>1, <3>1, Zenon DEF NoPlan
    <3> HIDE DEF R, h
    <3> QED  BY <3>2, <3>3
  <2>3. CASE CreateAllocChg(t)
    <3>1. PICK R \in SUBSET Live, a \in allocs :
            CreateTask(t, "alloc_chg", R, a, {r \in R : loc[r].repo # a[2]}) /\ NoPlan
      BY <2>3 DEF CreateAllocChg
    <3> DEFINE h == {r \in R : loc[r].repo # a[2]}
    <3>2. h \in SUBSET (Recs \cup Places)  BY <2>1
    <3> HIDE DEF h
    <3> QED  BY <2>1, <3>1, <3>2 DEF NoPlan, h
  <2>4. CASE CreateOwnerChg(t)
    <3>1. PICK R \in SUBSET Live, a \in allocs :
            CreateTask(t, "owner_chg", R, a, {r \in R : Place(loc[r]) # a} \cup {a}) /\ NoPlan
      BY <2>4 DEF CreateOwnerChg
    <3> DEFINE h == {r \in R : Place(loc[r]) # a} \cup {a}
    <3>2. h \in SUBSET (Recs \cup Places)  BY <2>1
    <3> HIDE DEF h
    <3> QED  BY <2>1, <3>1, <3>2 DEF NoPlan, h
  <2>5. CASE CreateRecDelete(t)
    <3>1. PICK R \in (SUBSET Live) \ {{}} :
            /\ CreateTask(t, "rec_del", R, None, {})
            /\ \E q \in Plans(R, TRUE) : /\ xfr' = [xfr EXCEPT ![t] = q]
                                         /\ steps' = [steps EXCEPT ![t] = Len(q) + 2]
      BY <2>5 DEF CreateRecDelete
    <3> DEFINE h == {}
    <3>2. h \in SUBSET (Recs \cup Places)  OBVIOUS
    <3>3. CreateTask(t, "rec_del", R, None, h)  BY <3>1
    <3> HIDE DEF h
    <3> QED  BY <2>1, <3>1, <3>2, <3>3
  <2>6. CASE CreateAllocDelete(t)
    <3>1. PICK a \in allocs : /\ CreateTask(t, "alloc_del", {}, a, {a})
                              /\ xfr' = xfr /\ steps' = [steps EXCEPT ![t] = 2]
      BY <2>6 DEF CreateAllocDelete
    <3> DEFINE R == {}  h == {a}
    <3>2. R \in SUBSET Recs /\ h \in SUBSET (Recs \cup Places)  OBVIOUS
    <3>3. CreateTask(t, "alloc_del", R, a, h)  BY <3>1
    <3> HIDE DEF R, h
    <3> QED  BY <3>1, <3>2, <3>3
  <2> QED  BY <2>2, <2>3, <2>4, <2>5, <2>6 DEF Request
<1> DEFINE j == [kind |-> k, recs |-> R, dst |-> d,
                 size |-> [r \in Recs |-> IF r \in R THEN size[r] ELSE 0]]
<1>2. /\ at[t] = "none" /\ job' = [job EXCEPT ![t] = j]
      /\ locked' = [locked EXCEPT ![t] = held]
      /\ before' = [before EXCEPT ![t] = {u \in Tasks : Active(u) /\ locked[u] \cap held # {}}]
      /\ at' = [at EXCEPT ![t] = "wait"]
      /\ UNCHANGED <<recVars, allocVars, disk, step, err>>
  BY <1>1 DEF CreateTask, GoTo
<1>3. j \in Jobs
  <2>1. [r \in Recs |-> IF r \in R THEN size[r] ELSE 0] \in [Recs -> 0..MaxSize]
    BY DataAssumption DEF DataAssumption, TypeInv, DataTypes
  <2> QED  BY <2>1 DEF Jobs
<1>4. j.kind = k /\ j.recs = R /\ j.dst = d  OBVIOUS
<1> HIDE DEF j
<1>5. DataTypes'  BY <1>2 DEF TypeInv, DataTypes, recVars, allocVars
<1>6. /\ xfr' \in [Tasks -> Seq([src : Places, recs : SUBSET Recs])]
      /\ steps' \in [Tasks -> Nat]
      /\ \A u \in Tasks \ {t} : xfr'[u] = xfr[u] /\ steps'[u] = steps[u]
      /\ k = "rec_del" => steps'[t] = Len(xfr'[t]) + 2
  <2> USE DEF TypeInv, TaskTypes
  <2>1. CASE k = "rec_del"
    <3>1. PICK q \in Plans(R, TRUE) : /\ xfr' = [xfr EXCEPT ![t] = q]
                                      /\ steps' = [steps EXCEPT ![t] = Len(q) + 2]
      BY <1>1, <2>1
    <3>2. IsPlan(q, R \cap Live)  BY PlansArePlans DEF DataTypes
    <3>3. q \in Seq([src : Places, recs : SUBSET Recs])  BY <3>2 DEF IsPlan
    <3>4. Len(q) \in Nat  BY <3>3, LenProperties
    <3> DEFINE X == Seq([src : Places, recs : SUBSET Recs])
    <3> HIDE DEF X
    <3>5. xfr \in [Tasks -> X] /\ q \in X  BY <3>3 DEF X
    <3>6. /\ xfr' \in [Tasks -> X] /\ xfr'[t] = q
          /\ \A u \in Tasks \ {t} : xfr'[u] = xfr[u]
      BY <3>1, <3>5
    <3>7. /\ steps' \in [Tasks -> Nat] /\ steps'[t] = Len(q) + 2
          /\ \A u \in Tasks \ {t} : steps'[u] = steps[u]
      BY <3>1, <3>4
    <3> QED  BY <3>6, <3>7 DEF X
  <2>2. CASE k # "rec_del"
    <3>1. xfr' = xfr  BY <1>1, <2>2
    <3>2. steps' = steps \/ steps' = [steps EXCEPT ![t] = 2]  BY <1>1, <2>2
    <3>3. steps' \in [Tasks -> Nat] /\ \A u \in Tasks \ {t} : steps'[u] = steps[u]
      BY <3>2
    <3> QED  BY <2>2, <3>1, <3>3
  <2> QED  BY <2>1, <2>2
<1>7. TaskTypes'  BY <1>1, <1>2, <1>3, <1>6 DEF TypeInv, TaskTypes, Stages
<1>8. OnlyTask(t)  BY <1>2, <1>6 DEF OnlyTask, TypeInv, TaskTypes
<1>9. StepsKept(t)'
  <2>1. job'[t] = j /\ at'[t] = "wait" /\ step'[t] = 0
    BY <1>2 DEF TypeInv, TaskTypes, StepsKept, StepsOK
  <2>2. /\ k \notin {"put", "rec_del"} => j.dst \in Places
        /\ k = "put" => \E r \in Recs : j.recs = {r}
        /\ k = "rec_del" => steps'[t] = Len(xfr'[t]) + 2
    BY <1>1, <1>4, <1>6
  <2>3. StepsOK(j, "wait", 0, steps'[t], xfr'[t])  BY <1>3, <1>4, <2>2 DEF StepsOK
  <2> QED  BY <2>1, <2>3 DEF StepsKept
<1> QED  BY <1>5, <1>7, <1>8, <1>9, OthersKeepSteps

LEMMA SetupTypes ==
  ASSUME TypeInv, NEW t \in Tasks, Setup(t)
  PROVE  TypeInv'
<1> USE DEF TypeInv, TaskTypes
<1> DEFINE R == job[t].recs  k == job[t].kind
           n(q) == CASE k = "put" -> Len(q) + 3 [] k = "alloc_chg" -> 4 * Len(q) + 2
                     [] OTHER -> 4 * Len(q) + 3
<1>1. /\ at[t] = "run" /\ step[t] = 0 /\ k \in Moves \cup {"put"}
      /\ step' = [step EXCEPT ![t] = 1]
      /\ UNCHANGED <<recVars, allocVars, disk, taskVars, at, err>>
  BY DEF Setup, Called
<1>2. PICK q \in Plans(R, k = "put") : /\ xfr' = [xfr EXCEPT ![t] = q]
                                       /\ steps' = [steps EXCEPT ![t] = n(q)]
  BY DEF Setup
<1>3. StepsOK(job[t], at[t], step[t], steps[t], xfr[t])  BY DEF StepsKept
<1>4. job[t] \in Jobs /\ R \in SUBSET Recs  BY <1>1, <1>3 DEF StepsOK, Jobs
<1>5. IsPlan(q, R \cap Live) /\ Len(q) \in 0..Cardinality(R \cap Live)
  BY <1>4, PlansArePlans DEF DataTypes
<1> DEFINE X == Seq([src : Places, recs : SUBSET Recs])
<1>6. q \in X  BY <1>5 DEF IsPlan
<1>7. Len(q) \in Nat  BY <1>6, LenProperties
<1>8. n(q) \in Nat  BY <1>1, <1>7 DEF Moves
<1> HIDE DEF X
<1>9. xfr \in [Tasks -> X]  BY DEF X
<1>10. xfr' \in [Tasks -> X] /\ xfr'[t] = q  BY <1>2, <1>6, <1>9
<1>11. steps' \in [Tasks -> Nat] /\ steps'[t] = n(q)
  <2> HIDE DEF n
  <2> QED  BY <1>2, <1>8
<1>12. TaskTypes'
  <2>1. step' \in [Tasks -> Int]  BY <1>1
  <2>2. UNCHANGED <<job, locked, before, at, err>>  BY <1>1 DEF taskVars
  <2> HIDE DEF n
  <2> QED  BY <1>10, <1>11, <2>1, <2>2 DEF X
<1>13. DataTypes'  BY <1>1 DEF DataTypes, recVars, allocVars
<1>14. OnlyTask(t)
  <2> HIDE DEF n
  <2> QED  BY <1>1, <1>2 DEF OnlyTask, taskVars
<1>15. StepsKept(t)'
  <2>1. /\ job'[t] = job[t] /\ at'[t] = "run" /\ step'[t] = 1
        /\ steps'[t] = n(q) /\ xfr'[t] = q
    BY <1>1, <1>10, <1>11 DEF taskVars
  <2> QED  BY <1>1, <1>3, <1>7, <2>1 DEF StepsKept, StepsOK, Moves
<1> QED  BY <1>12, <1>13, <1>14, <1>15, OthersKeepSteps

\* A task that ends forgets its plan.
LEMMA EndTypes ==
  ASSUME TypeInv, NEW t \in Tasks, End(t), at[t] # "none"
  PROVE  TypeInv'
<1> USE DEF TypeInv, TaskTypes
<1> DEFINE X == Seq([src : Places, recs : SUBSET Recs])
<1>1. /\ at' = [at EXCEPT ![t] = "over"] /\ locked' = [locked EXCEPT ![t] = {}]
      /\ before' = [u \in Tasks |-> before[u] \ {t}]
      /\ xfr' = [xfr EXCEPT ![t] = <<>>] /\ step' = [step EXCEPT ![t] = 0]
      /\ steps' = [steps EXCEPT ![t] = 0] /\ err' = [err EXCEPT ![t] = FALSE]
      /\ UNCHANGED <<recVars, allocVars, disk, job>>
  BY DEF End, GoTo
<1>2. <<>> \in X  BY EmptySeq
<1> HIDE DEF X
<1>3. xfr \in [Tasks -> X]  BY DEF X
<1>4. xfr' \in [Tasks -> X]  BY <1>1, <1>2, <1>3
<1>5. TaskTypes'
  <2>1. before' \in [Tasks -> SUBSET Tasks]  BY <1>1
  <2>2. locked' \in [Tasks -> SUBSET (Recs \cup Places)]  BY <1>1
  <2>3. /\ step' \in [Tasks -> Int] /\ steps' \in [Tasks -> Nat]
        /\ at' \in [Tasks -> Stages] /\ err' \in [Tasks -> BOOLEAN]
    BY <1>1 DEF Stages
  <2> QED  BY <1>1, <1>4, <2>1, <2>2, <2>3 DEF X
<1>6. DataTypes'  BY <1>1 DEF DataTypes, recVars, allocVars
<1>7. OnlyTask(t)  BY <1>1 DEF OnlyTask
<1>8. StepsKept(t)'  BY <1>1 DEF StepsKept, StepsOK
<1> QED  BY <1>5, <1>6, <1>7, <1>8, OthersKeepSteps

\* The plan of a task in its steps is long enough.
LEMMA InPlan ==
  ASSUME TypeInv, NEW t \in Tasks, Moving(t), Active(t)
  PROVE  /\ step[t] >= 1 /\ Substep(t) \in 0..3
         /\ job[t].dst \in Places
         /\ (step[t] - Base(t)) \div 4 + 1 \in 1..Len(xfr[t])
         /\ Current(t) \in [src : Places, recs : SUBSET Recs]
<1>1. /\ StepsOK(job[t], at[t], step[t], steps[t], xfr[t])
      /\ step[t] \in Int /\ steps[t] \in Nat
      /\ xfr[t] \in Seq([src : Places, recs : SUBSET Recs])
  BY DEF TypeInv, StepsKept, TaskTypes
<1>2. Len(xfr[t]) \in Nat  BY <1>1, LenProperties
<1>3. /\ job[t].kind \in Moves /\ Base(t) \in 1..2 /\ step[t] >= Base(t)
      /\ step[t] <= steps[t] - 2
  BY <1>1 DEF Moving, Base
<1>4. at[t] \notin {"none", "over"}  BY DEF Active
<1>5. steps[t] = 4 * Len(xfr[t]) + Base(t) + 1 /\ job[t].dst \in Places
  <2> DEFINE n == Len(xfr[t])
  <2>1. /\ job[t].dst \in Places
        /\ job[t].kind = "alloc_chg" => steps[t] = 4 * n + 2
        /\ job[t].kind = "owner_chg" => steps[t] = 4 * n + 3
    <3> HIDE DEF n
    <3> QED  BY <1>1, <1>3, <1>4 DEF StepsOK, Moves, n
  <2>2. n \in Nat  BY <1>2
  <2> HIDE DEF n
  <2>3. steps[t] = 4 * n + Base(t) + 1  BY <1>3, <2>1, <2>2 DEF Moves, Base
  <2> QED  BY <2>1, <2>3 DEF n
<1>6. (step[t] - Base(t)) \div 4 + 1 \in 1..Len(xfr[t])
  <2> DEFINE x == step[t] - Base(t)  n == Len(xfr[t])
  <2>1. x \in Nat /\ x <= 4 * n - 1  BY <1>1, <1>2, <1>3, <1>5
  <2> HIDE DEF x, n
  <2>2. n \in Nat => x \div 4 + 1 \in 1..n  BY <2>1
  <2> QED  BY <1>2, <2>2 DEF x, n
<1>7. Current(t) \in [src : Places, recs : SUBSET Recs]
  BY <1>1, <1>6, ElementOfSeq DEF Current
<1>8. Substep(t) \in 0..3  BY <1>1, <1>3 DEF Substep
<1> QED  BY <1>1, <1>3, <1>5, <1>6, <1>7, <1>8

LEMMA PutDoc ==
  ASSUME TypeInv, NEW t \in Tasks, Active(t), job[t].kind = "put",
         step[t] # 0, steps[t] = 4
  PROVE  /\ Len(xfr[t]) = 1 /\ Doc(t) = xfr[t][1]
         /\ xfr[t][1] \in [src : Places, recs : SUBSET Recs]
<1>1. /\ StepsOK(job[t], at[t], step[t], steps[t], xfr[t])
      /\ xfr[t] \in Seq([src : Places, recs : SUBSET Recs])
  BY DEF TypeInv, StepsKept, TaskTypes
<1>2. Len(xfr[t]) \in Nat  BY <1>1, LenProperties
<1>3. steps[t] = Len(xfr[t]) + 3  BY <1>1 DEF StepsOK, Active
<1>4. Len(xfr[t]) = 1
  <2> DEFINE n == Len(xfr[t])
  <2>1. n \in Nat /\ steps[t] = n + 3 /\ steps[t] = 4  BY <1>2, <1>3
  <2> HIDE DEF n
  <2>2. n = 1  BY <2>1
  <2> QED  BY <2>2 DEF n
<1>5. 1 \in 1..Len(xfr[t])  BY <1>4
<1>6. xfr[t][1] \in [src : Places, recs : SUBSET Recs]  BY <1>1, <1>5, ElementOfSeq
<1>7. Doc(t) = xfr[t][1]  BY DEF Doc, Moves
<1> QED  BY <1>4, <1>6, <1>7

LEMMA TransferDoc ==
  ASSUME TypeInv, NEW t \in Tasks, Active(t), TransferDue(t)
  PROVE  /\ Doc(t) \in [src : Places, recs : SUBSET Recs]
         /\ Target(t) \in Places /\ step[t] >= 1
<1>1. CASE job[t].kind = "put" /\ step[t] = 1 /\ steps[t] = 4
  BY <1>1, PutDoc DEF Target
<1>2. CASE Moving(t) /\ Substep(t) = 1
  <2>1. job[t].kind \in Moves  BY <1>2 DEF Moving
  <2> QED  BY <1>2, <2>1, InPlan DEF Doc, Target, Moves
<1> QED  BY <1>1, <1>2 DEF TransferDue

LEMMA WriteTypes ==
  ASSUME TypeInv, NEW t \in Tasks, Active(t), TransferDue(t), NEW S \in SUBSET Found(t),
         Write(t, S), UNCHANGED <<recVars, allocVars>>
  PROVE  DataTypes'
<1> DEFINE F == {NoFile} \cup 0..MaxSize
<1>1. Doc(t).src \in Places /\ Target(t) \in Places  BY TransferDoc
<1>2. PICK n \in 0..MaxSize :
        disk' = [r \in Recs |-> IF r \notin S THEN disk[r] ELSE
                  [disk[r] EXCEPT ![Target(t)] =
                     IF job[t].kind = "put" THEN n ELSE disk[r][Doc(t).src]]]
  BY DEF Write
<1> HIDE DEF F
<1>3. disk \in [Recs -> [Places -> F]] /\ n \in F  BY DEF TypeInv, DataTypes, F
<1>4. ASSUME NEW r \in Recs
      PROVE  [disk[r] EXCEPT ![Target(t)] =
                IF job[t].kind = "put" THEN n ELSE disk[r][Doc(t).src]] \in [Places -> F]
  BY <1>1, <1>3
<1>5. disk' \in [Recs -> [Places -> F]]  BY <1>2, <1>3, <1>4
<1> QED  BY <1>5 DEF TypeInv, DataTypes, recVars, allocVars, F

\* Steps of the database on the data of a record.
LEMMA MoveTypes ==
  ASSUME TypeInv, NEW t \in Tasks,
         InitMove(t) \/ FiniMove(t) \/ EraseRecords(t) \/ Rollback(t), BooksInv
  PROVE  DataTypes'
<1> USE DEF TypeInv, DataTypes, BooksInv
<1>1. BooksInv'
  BY InitMoveKeeps, FiniMoveKeeps, EraseRecordsKeeps, RollbackKeeps
<1>2. size' \in [Recs -> 0..MaxSize]
  <2>1. CASE EraseRecords(t)
    <3>1. size' = [r \in Recs |-> IF r \in job[t].recs THEN 0 ELSE size[r]]
      BY <2>1 DEF EraseRecords
    <3> QED  BY <3>1, DataAssumption DEF DataAssumption
  <2>2. CASE size' = size  BY <2>2
  <2> QED  BY <2>1, <2>2 DEF InitMove, FiniMove, Rollback
<1>3. DOMAIN dataSize' = Places /\ UNCHANGED <<unborn, allocs, disk>>
  BY DEF InitMove, FiniMove, EraseRecords, Rollback, allocVars
<1> QED  BY <1>1, <1>2, <1>3

LEMMA OnDiskTyped ==
  ASSUME TypeInv, NEW t \in Tasks, at[t] = "cmd", SizeDue(t), CanSize(t)
  PROVE  OnDisk(t) \in 0..MaxSize /\ PutRec(t) \in Recs
<1>1. Active(t) /\ job[t].kind = "put" /\ step[t] = 2  BY DEF Active, SizeDue
<1>2. steps[t] = 4  BY <1>1 DEF TypeInv, StepsKept, StepsOK, Active
<1>3. xfr[t][1] \in [src : Places, recs : SUBSET Recs] /\ Doc(t) = xfr[t][1]
  BY <1>1, <1>2, PutDoc
<1>4. Target(t) \in Places  BY <1>1, <1>3 DEF Target
<1>5. PutRec(t) \in Recs  BY DEF CanSize, Live
<1>6. disk[PutRec(t)][Target(t)] \in {NoFile} \cup 0..MaxSize
  BY <1>4, <1>5 DEF TypeInv, DataTypes
<1>7. MaxSize \in Nat  BY DataAssumption DEF DataAssumption
<1> QED  BY <1>5, <1>6, <1>7 DEF OnDisk

LEMMA RunTypes ==
  ASSUME TypeInv, BooksInv, NEW t \in Tasks, Run(t)
  PROVE  TypeInv'
<1> DEFINE j == job[t]  s == at[t]  n == step[t]  m == steps[t]  q == xfr[t]
<1>0. StepsOK(j, s, n, m, q) /\ n \in Int /\ m \in Nat /\ s \in Stages
  BY DEF TypeInv, StepsKept, TaskTypes
<1> USE DEF Ticks, taskVars, TypeInv, TaskTypes, Stages
<1>1. CASE InitMove(t)
  <2>1. DataTypes'  BY <1>1, MoveTypes
  <2>2. Ticks(t) /\ at'[t] = "run" /\ step'[t] = n + 1  BY <1>1 DEF InitMove, Called
  <2>3. n >= 1 /\ s = "run"  BY <1>1, InPlan DEF InitMove, Called, Active
  <2>4. StepsOK(j, "run", n + 1, m, q)
    BY <1>0, <1>1, <2>3 DEF StepsOK, InitMove, Moving, Moves
  <2> QED  BY <2>1, <2>2, <2>4, TickKeepsTypes
<1>2. CASE FiniMove(t)
  <2>1. DataTypes'  BY <1>2, MoveTypes
  <2>2. Ticks(t) /\ at'[t] = "run" /\ step'[t] = n + 1  BY <1>2 DEF FiniMove, Called
  <2>3. n >= 1 /\ s = "run"  BY <1>2, InPlan DEF FiniMove, Called, Active
  <2>4. StepsOK(j, "run", n + 1, m, q)
    BY <1>0, <1>2, <2>3 DEF StepsOK, FiniMove, Moving, Moves
  <2> QED  BY <2>1, <2>2, <2>4, TickKeepsTypes
<1>3. CASE EraseRecords(t)
  <2>1. DataTypes'  BY <1>3, MoveTypes
  <2>2. Ticks(t) /\ at'[t] = "run" /\ step'[t] = 1  BY <1>3 DEF EraseRecords, Called
  <2>3. StepsOK(j, "run", 1, m, q)  BY <1>0, <1>3 DEF StepsOK, EraseRecords, Called
  <2> QED  BY <2>1, <2>2, <2>3, TickKeepsTypes
<1>4. CASE Rollback(t)
  <2>1. DataTypes'  BY <1>4, MoveTypes
  <2>3. RevertStep(t) \in 0..3  BY <1>0 DEF RevertStep
  <2>4. /\ Ticks(t) /\ at'[t] = "undone"
        /\ step'[t] = n \/ step'[t] = n - RevertStep(t)
    <3>1. /\ step' = [step EXCEPT ![t] = IF Reverted(t) = {} THEN @ ELSE @ - RevertStep(t)]
          /\ at' = [at EXCEPT ![t] = "undone"]
          /\ UNCHANGED <<job, locked, before, xfr, steps, err>>
      BY <1>4 DEF Rollback, GoTo
    <3>2. RevertStep(t) \in Int  BY <2>3
    <3> QED  BY <1>0, <3>1, <3>2
  <2>5. n < 0 /\ s \in {"undo", "run"}  BY <1>0, <1>4 DEF StepsOK, Rollback, Called
  <2>6. step'[t] \in Int /\ step'[t] < 0  BY <1>0, <2>3, <2>4, <2>5
  <2>7. StepsOK(j, "undone", step'[t], m, q)  
    <3>1. Leads(j, s, n, m, "undone", step'[t])  BY <2>5, <2>6 DEF Leads
    <3> HIDE DEF j, s, n, m, q
    <3> QED  BY <1>0, <3>1, StepsGoOn
  <2> QED  BY <2>1, <2>4, <2>7, TickKeepsTypes
<1>5. CASE Setup(t)  BY <1>5, SetupTypes
<1>6. CASE Finish(t)
  <2>1. End(t) /\ at[t] # "none"  BY <1>6 DEF Finish, Called
  <2> QED  BY <2>1, EndTypes
<1>7. CASE Complete(t)
  <2>1. End(t) /\ at[t] # "none"  BY <1>7 DEF Complete
  <2> QED  BY <2>1, EndTypes
<1>8. CASE Begin(t)
  <2>1. DataTypes'  BY <1>8 DEF Begin, DataTypes, recVars, allocVars
  <2>2. Ticks(t) /\ at'[t] = "run" /\ step'[t] = n
    BY <1>8 DEF Begin, Called, Outcome, GoTo
  <2>3. StepsOK(j, "run", n, m, q)
    BY <1>0, <1>8 DEF StepsOK, Begin, Called
  <2> QED  BY <2>1, <2>2, <2>3, TickKeepsTypes
<1>9. CASE MoveExternal(t)
  <2>1. DataTypes'  BY <1>9 DEF MoveExternal, DataTypes, recVars, allocVars
  <2>2. Ticks(t) /\ at'[t] = "run" /\ step'[t] = 2
    BY <1>9 DEF MoveExternal, Called, Outcome, GoTo
  <2>3. StepsOK(j, "run", 2, m, q)
    BY <1>0, <1>9 DEF StepsOK, MoveExternal, Called
  <2> QED  BY <2>1, <2>2, <2>3, TickKeepsTypes
<1>10. CASE RemoveAlloc(t)
  <2>1. DataTypes'  BY <1>10 DEF RemoveAlloc, DataTypes, recVars, allocVars
  <2>2. Ticks(t) /\ at'[t] = "cmd" /\ step'[t] = n
    BY <1>10 DEF RemoveAlloc, Called, Outcome, GoTo
  <2>3. StepsOK(j, "cmd", n, m, q)
    BY <1>0, <1>10 DEF StepsOK, RemoveAlloc, Called
  <2> QED  BY <2>1, <2>2, <2>3, TickKeepsTypes
<1>11. CASE Issue(t)
  <2>1. DataTypes'  BY <1>11 DEF Issue, DataTypes, recVars, allocVars
  <2>2. Ticks(t) /\ at'[t] = "cmd" /\ step'[t] = n
    BY <1>11 DEF Issue, Called, Outcome, GoTo
  <2>3. StepsOK(j, "cmd", n, m, q)
    <3>1. s = "run" /\ (TransferDue(t) \/ DeleteDue(t) \/ SizeDue(t))
      BY <1>11 DEF Issue, Called
    <3>2. n >= 1
      <4>1. Moving(t) => n >= 1  BY <3>1, InPlan DEF Active
      <4> QED  BY <1>0, <3>1, <4>1 DEF TransferDue, DeleteDue, SizeDue
    <3>3. j.kind = "put" => m = 4
      <4>1. j.kind = "put" /\ n >= 2 => m = 4
        <5> HIDE DEF j, s, n, m, q
        <5> QED  BY <1>0, <3>1 DEF StepsOK, s
      <4>2. j.kind = "put" => ~Moving(t) /\ ~DeleteDue(t)
        BY DEF Moving, Moves, DeleteDue
      <4> QED  BY <3>1, <4>1, <4>2 DEF TransferDue, SizeDue
    <3>4. Leads(j, s, n, m, "cmd", n)  BY <1>0, <3>1, <3>2, <3>3 DEF Leads
    <3> HIDE DEF j, s, n, m, q
    <3> QED  BY <1>0, <3>4, StepsGoOn
  <2> QED  BY <2>1, <2>2, <2>3, TickKeepsTypes
<1>12. CASE SizeFails(t)
  <2>1. DataTypes'  BY <1>12 DEF SizeFails, DataTypes, recVars, allocVars
  <2>2. Ticks(t) /\ at'[t] = "run" /\ step'[t] = n
    BY <1>12 DEF SizeFails, Called, Outcome, GoTo
  <2>3. StepsOK(j, "run", n, m, q)
    BY <1>0, <1>12 DEF StepsOK, SizeFails, Called
  <2> QED  BY <2>1, <2>2, <2>3, TickKeepsTypes
<1>13. CASE TransferRefused(t)
  <2>1. DataTypes'  BY <1>13 DEF TransferRefused, DataTypes, recVars, allocVars
  <2>2. Ticks(t) /\ at'[t] = "run" /\ step'[t] = n
    BY <1>13 DEF TransferRefused, Called, Outcome, GoTo
  <2>3. StepsOK(j, "run", n, m, q)
    BY <1>0, <1>13 DEF StepsOK, TransferRefused, Called
  <2> QED  BY <2>1, <2>2, <2>3, TickKeepsTypes
<1>14. CASE Confirm(t)
  <2>1. DataTypes'  BY <1>14 DEF Confirm, DataTypes, recVars, allocVars
  <2>2. Ticks(t) /\ at'[t] = "run" /\ step'[t] = n + 1
    BY <1>14 DEF Confirm, Called, Outcome, GoTo
  <2>3. StepsOK(j, "run", n + 1, m, q)
    <3>1. s = "done"  BY <1>14 DEF Confirm
    <3>2. n >= 1 \/ (j.kind = "alloc_del" /\ n = 0)  BY <1>0, <3>1 DEF StepsOK
    <3>3. j.kind = "put" => m = 4  BY <1>0, <3>1, <3>2 DEF StepsOK
    <3>4. Leads(j, s, n, m, "run", n + 1)  BY <1>0, <3>1, <3>2, <3>3 DEF Leads
    <3> HIDE DEF j, s, n, m, q
    <3> QED  BY <1>0, <3>4, StepsGoOn
  <2> QED  BY <2>1, <2>2, <2>3, TickKeepsTypes
<1>15. CASE Repeat(t)
  <2>1. DataTypes'  BY <1>15 DEF Repeat, DataTypes, recVars, allocVars
  <2>2. Ticks(t) /\ at'[t] = "run" /\ step'[t] = n
    BY <1>15 DEF Repeat, Called, Outcome, GoTo
  <2>3. StepsOK(j, "run", n, m, q)
    BY <1>0, <1>15 DEF StepsOK, Repeat, Called
  <2> QED  BY <2>1, <2>2, <2>3, TickKeepsTypes
<1>16. CASE Cut(t)
  <2>1. DataTypes'  BY <1>16 DEF Cut, DataTypes, recVars, allocVars
  <2>2. Ticks(t) /\ at'[t] = "run" /\ step'[t] = n
    BY <1>16 DEF Cut, Called, Outcome, GoTo
  <2>3. StepsOK(j, "run", n, m, q)
    BY <1>0, <1>16 DEF StepsOK, Cut, Called
  <2> QED  BY <2>1, <2>2, <2>3, TickKeepsTypes
<1>17. CASE RollbackFails(t)
  <2>1. DataTypes'  BY <1>17 DEF RollbackFails, DataTypes, recVars, allocVars
  <2>2. Ticks(t) /\ at'[t] = "undone" /\ step'[t] = n
    BY <1>17 DEF RollbackFails, Called, Outcome, GoTo
  <2>3. StepsOK(j, "undone", n, m, q)
    BY <1>0, <1>17 DEF StepsOK, RollbackFails, Called
  <2> QED  BY <2>1, <2>2, <2>3, TickKeepsTypes
<1>18. CASE Throw(t)
  <2>1. DataTypes'  BY <1>18 DEF Throw, DataTypes, recVars, allocVars
  <2>2. /\ Ticks(t) /\ s = "run"
        /\ n > 0 => at'[t] = "undo" /\ step'[t] = -n
        /\ n <= 0 => at'[t] = "undone" /\ step'[t] = n
    BY <1>18, <1>0 DEF Throw, GoTo
  <2>3. StepsOK(j, at'[t], step'[t], m, q)
    <3>1. CASE n > 0
      <4>1. Leads(j, s, n, m, "undo", -n)  BY <1>0, <2>2, <3>1 DEF Leads
      <4>2. StepsOK(j, "undo", -n, m, q)
        <5> HIDE DEF j, s, n, m, q
        <5> QED  BY <1>0, <4>1, StepsGoOn
      <4> QED  BY <2>2, <3>1, <4>2
    <3>2. CASE n <= 0
      <4>1. Leads(j, s, n, m, "undone", n)  BY <1>0, <2>2, <3>2 DEF Leads
      <4>2. StepsOK(j, "undone", n, m, q)
        <5> HIDE DEF j, s, n, m, q
        <5> QED  BY <1>0, <4>1, StepsGoOn
      <4> QED  BY <2>2, <3>2, <4>2
    <3> QED  BY <1>0, <3>1, <3>2
  <2> QED  BY <2>1, <2>2, <2>3, TickKeepsTypes
<1>19. CASE TransferOk(t)
  <2>1. s = "cmd" /\ TransferDue(t) /\ Active(t)  BY <1>19 DEF TransferOk, Active
  <2>2. DataTypes'  BY <1>19, <2>1, WriteTypes DEF TransferOk
  <2>3. Ticks(t) /\ at'[t] = "done" /\ step'[t] = n  BY <1>19 DEF TransferOk, Outcome, GoTo
  <2>4. StepsOK(j, "done", n, m, q)  BY <1>0, <2>1 DEF StepsOK
  <2> QED  BY <2>2, <2>3, <2>4, TickKeepsTypes
<1>20. CASE TransferFails(t)
  <2>1. s = "cmd" /\ TransferDue(t) /\ Active(t)  BY <1>20 DEF TransferFails, Active
  <2>2. DataTypes'  BY <1>20, <2>1, WriteTypes DEF TransferFails
  <2>3. Ticks(t) /\ at'[t] = "run" /\ step'[t] = n  BY <1>20 DEF TransferFails, Outcome, GoTo
  <2>4. StepsOK(j, "run", n, m, q)  BY <1>0, <2>1 DEF StepsOK
  <2> QED  BY <2>2, <2>3, <2>4, TickKeepsTypes
<1>21. CASE UpdateSize(t)
  <2>1. OnDisk(t) \in 0..MaxSize /\ PutRec(t) \in Recs /\ s = "cmd"
    BY <1>21, OnDiskTyped DEF UpdateSize
  <2>2. /\ size' = [size EXCEPT ![PutRec(t)] = OnDisk(t)]
        /\ DOMAIN dataSize' = DOMAIN dataSize
        /\ UNCHANGED <<loc, owner, unborn, allocs, recCount, disk>>
    BY <1>21 DEF UpdateSize
  <2>3. DataTypes'  BY <2>1, <2>2 DEF DataTypes
  <2>4. Ticks(t) /\ at'[t] = "done" /\ step'[t] = n  BY <1>21 DEF UpdateSize, Outcome, GoTo
  <2>5. StepsOK(j, "done", n, m, q)  BY <1>0, <2>1 DEF StepsOK
  <2> QED  BY <2>3, <2>4, <2>5, TickKeepsTypes
<1>22. CASE Delete(t)
  <2>1. PICK S : Wipe(S)  BY <1>22 DEF Delete
  <2>2. disk' \in [Recs -> [Places -> {NoFile} \cup 0..MaxSize]]
    BY <2>1 DEF Wipe, DataTypes
  <2>3. DataTypes'  BY <1>22, <2>2 DEF Delete, DataTypes, recVars, allocVars
  <2>4. s = "cmd" /\ Ticks(t) /\ at'[t] \in {"done", "run"} /\ step'[t] = n
    BY <1>22 DEF Delete, Outcome, GoTo
  <2>5. StepsOK(j, at'[t], n, m, q)  BY <1>0, <2>4 DEF StepsOK
  <2> QED  BY <2>3, <2>4, <2>5, TickKeepsTypes
<1> QED  BY <1>1, <1>2, <1>3, <1>4, <1>5, <1>6, <1>7, <1>8, <1>9, <1>10, <1>11, <1>12, <1>13, <1>14, <1>15, <1>16, <1>17, <1>18, <1>19, <1>20, <1>21, <1>22 DEF Run

\* What is known of a task that is going on.
LEMMA ActiveTask ==
  ASSUME TypeInv, NEW t \in Tasks, Active(t)
  PROVE  /\ job[t] \in Jobs /\ job[t].recs \in SUBSET Recs /\ job[t].kind \in AllKinds
         /\ job[t].size \in [Recs -> 0..MaxSize]
         /\ job[t].kind \notin {"put", "rec_del"} => job[t].dst \in Places /\ job[t].dst # None
         /\ job[t].kind = "put" => \E r \in Recs : job[t].recs = {r}
         /\ xfr[t] \in Seq([src : Places, recs : SUBSET Recs]) /\ Len(xfr[t]) \in Nat
         /\ step[t] \in Int /\ steps[t] \in Nat
<1>1. StepsOK(job[t], at[t], step[t], steps[t], xfr[t])  BY DEF TypeInv, StepsKept
<1>2. job[t] \in Jobs  BY <1>1 DEF StepsOK, Active
<1>3. /\ job[t].kind \notin {"put", "rec_del"} => job[t].dst \in Places
      /\ job[t].kind = "put" => \E r \in Recs : job[t].recs = {r}
  BY <1>1 DEF StepsOK, Active
<1>4. None \notin Places  BY DataAssumption DEF DataAssumption
<1>5. /\ xfr[t] \in Seq([src : Places, recs : SUBSET Recs])
      /\ step[t] \in Int /\ steps[t] \in Nat
  BY DEF TypeInv, TaskTypes
<1>6. Len(xfr[t]) \in Nat  BY <1>5, LenProperties
<1> QED  BY <1>2, <1>3, <1>4, <1>5, <1>6 DEF Jobs

\* Types need the books, which are kept with them.
LEMMA TypeStep == TypeInv /\ BooksInv /\ [Next]_vars => TypeInv'
<1> SUFFICES ASSUME TypeInv, BooksInv, [Next]_vars PROVE TypeInv'  OBVIOUS
<1>1. ASSUME NEW r \in Recs, NEW a \in Places, CreateRecord(r, a) PROVE TypeInv'
  BY <1>1, CreateRecordTypes
<1>2. ASSUME NEW t \in Tasks, Request(t) PROVE TypeInv'  BY <1>2, RequestTypes
<1>3. ASSUME NEW t \in Tasks, Run(t) PROVE TypeInv'  BY <1>3, RunTypes
<1>4. CASE UNCHANGED vars
  BY <1>4 DEF TypeInv, DataTypes, TaskTypes, StepsKept, vars, recVars, allocVars,
              taskVars, runVars
<1> QED  BY <1>1, <1>2, <1>3, <1>4 DEF Next

\* Types and books are kept together, in every state.
THEOREM TypesKept == Spec => [](TypeInv /\ BooksInv)
<1>1. Init => TypeInv /\ BooksInv  BY TypeInit, BooksInit
<1> QED  BY <1>1, TypeStep, BooksStep, PTL DEF Spec

\* What is noted of a step: the places of records that move by outdated sizes, and
\* those that get records for which no room was kept.
Noting == /\ stale \subseteq stale' /\ crowded \subseteq crowded'
          /\ stale' \cup crowded' \subseteq stale \cup crowded \cup Places
          /\ \A t \in Tasks, r \in Relocated : GetsOn(t) /\ Outdated(t, r) =>
               Place(loc[r]) \in stale' /\ Place(loc'[r]) \in stale'
          /\ \A a \in Filled : NotKept(a) => a \in crowded'

LEMMA NoteNotes ==
  ASSUME TypeInv, TypeInv', Note
  PROVE  Noting
<1>1. ASSUME NEW r \in Relocated PROVE Place(loc[r]) \in Places /\ Place(loc'[r]) \in Places
  <2>1. loc[r] \in Locs /\ loc'[r] \in Locs
    BY DEF Relocated, Live, TypeInv, DataTypes
  <2> QED  BY <2>1 DEF Locs, Place, Places
<1>2. Filled \subseteq Places  BY DEF Filled
<1> QED  BY <1>1, <1>2 DEF Note, Noting

\* Steps that move no record, or erase some, have nothing to note.
LEMMA NothingToNote ==
  ASSUME TypeInv, TypeInv', UNCHANGED <<stale, crowded>>,
         \A r \in Live : loc'[r] = None \/ Place(loc'[r]) = Place(loc[r]),
         \A a \in Places : recCount'[a] <= recCount[a]
  PROVE  Noting
<1>1. Relocated = {}  BY DEF Relocated
<1>2. Filled = {}
  <2>1. \A a \in Places : recCount[a] \in Int /\ recCount'[a] \in Int
    BY DEF TypeInv, DataTypes
  <2> QED  BY <2>1 DEF Filled
<1> QED  BY <1>1, <1>2 DEF Noting

LEMMA StillNotes ==
  ASSUME TypeInv, TypeInv', UNCHANGED <<stale, crowded, loc, recCount>>
  PROVE  Noting
<1>1. \A a \in Places : recCount'[a] <= recCount[a]  BY DEF TypeInv, DataTypes
<1> QED  BY <1>1, NothingToNote

\* Marks do not move a record.
LEMMA MarksNote ==
  ASSUME TypeInv, TypeInv', NEW t \in Tasks, InitMove(t) \/ Rollback(t)
  PROVE  Noting
<1>1. UNCHANGED <<stale, crowded, recCount>>  BY DEF InitMove, Rollback, allocVars
<1>2. \A a \in Places : recCount'[a] <= recCount[a]  BY <1>1 DEF TypeInv, DataTypes
<1>3. ASSUME NEW r \in Live PROVE Place(loc'[r]) = Place(loc[r])
  <2>1. r \in Recs /\ loc[r] \in Locs  BY DEF Live, TypeInv, DataTypes
  <2>2. ASSUME NEW k, NEW d PROVE Place(Marked(loc[r], k, d)) = Place(loc[r])
    BY <2>1 DEF Marked, Locs, Place
  <2>3. ASSUME NEW l, l = [loc[r] EXCEPT !.newRepo = None, !.newOwner = None]
        PROVE  Place(l) = Place(loc[r])
    BY <2>1, <2>3 DEF Locs, Place
  <2>4. CASE InitMove(t)  BY <2>1, <2>2, <2>4 DEF InitMove
  <2>5. CASE Rollback(t)  BY <2>1, <2>3, <2>5 DEF Rollback
  <2> QED  BY <2>4, <2>5
<1> QED  BY <1>1, <1>2, <1>3, NothingToNote

LEMMA EraseNotes ==
  ASSUME TypeInv, TypeInv', NEW t \in Tasks, EraseRecords(t)
  PROVE  Noting
<1> DEFINE R == job[t].recs
           E(a) == {r \in R : <<owner[r], loc[r].repo>> = a}
<1>1. /\ UNCHANGED <<stale, crowded>> /\ R \subseteq Live
      /\ loc' = [r \in Recs |-> IF r \in R THEN None ELSE loc[r]]
      /\ recCount' = [a \in Places |-> recCount[a] - IF a \in allocs
                                                     THEN Cardinality(E(a)) ELSE 0]
  BY DEF EraseRecords
<1>2. ASSUME NEW a \in Places PROVE recCount'[a] <= recCount[a]
  <2>1. E(a) \subseteq Recs  BY <1>1 DEF Live
  <2>2. Cardinality(E(a)) \in Nat
    BY <2>1, FS_Subset, FS_CardinalityType, DataAssumption DEF DataAssumption
  <2>3. recCount[a] \in Int  BY DEF TypeInv, DataTypes
  <2> HIDE DEF E
  <2> QED  BY <1>1, <2>2, <2>3
<1>3. \A r \in Live : loc'[r] = None \/ Place(loc'[r]) = Place(loc[r])
  BY <1>1 DEF Live, Place
<1> QED  BY <1>1, <1>2, <1>3, NothingToNote

LEMMA StepNotes ==
  ASSUME TypeInv, BooksInv, [Next]_vars
  PROVE  Noting
<1> USE DEF allocVars, recVars
<1>1. TypeInv'  BY TypeStep
<1>2. ASSUME NEW r \in Recs, NEW a \in Places, CreateRecord(r, a) PROVE Noting
  BY <1>1, <1>2, NoteNotes DEF CreateRecord
<1>3. ASSUME NEW t \in Tasks, Request(t) PROVE Noting
  <2>1. \E k, R, d, held : CreateTask(t, k, R, d, held)
    BY <1>3, Zenon DEF Request, CreatePut, CreateAllocChg, CreateOwnerChg,
                       CreateRecDelete, CreateAllocDelete
  <2>2. UNCHANGED <<stale, crowded, loc, recCount>>  BY <2>1 DEF CreateTask
  <2> QED  BY <1>1, <2>2, StillNotes
<1>4. ASSUME NEW t \in Tasks, Run(t) PROVE Noting
  <2>1. CASE InitMove(t) \/ Rollback(t)  BY <1>1, <2>1, MarksNote
  <2>2. CASE EraseRecords(t)  BY <1>1, <2>2, EraseNotes
  <2>3. CASE FiniMove(t)  BY <1>1, <2>3, NoteNotes DEF FiniMove
  <2>4. CASE Begin(t) \/ Setup(t) \/ MoveExternal(t) \/ RemoveAlloc(t) \/ Issue(t)
    <3>1. UNCHANGED <<stale, crowded, loc, recCount>>
      BY <2>4 DEF Begin, Setup, MoveExternal, RemoveAlloc, Issue
    <3> QED  BY <1>1, <3>1, StillNotes
  <2>5. CASE TransferOk(t) \/ TransferFails(t) \/ TransferRefused(t) \/ UpdateSize(t)
             \/ SizeFails(t) \/ Delete(t) \/ Confirm(t)
    <3>1. UNCHANGED <<stale, crowded, loc, recCount>>
      BY <2>5 DEF TransferOk, TransferFails, TransferRefused, UpdateSize, SizeFails,
                  Delete, Confirm
    <3> QED  BY <1>1, <3>1, StillNotes
  <2>6. CASE Finish(t) \/ Complete(t) \/ Repeat(t) \/ Cut(t) \/ Throw(t) \/ RollbackFails(t)
    <3>1. UNCHANGED <<stale, crowded, loc, recCount>>
      BY <2>6 DEF Finish, Complete, End, Repeat, Cut, Throw, RollbackFails
    <3> QED  BY <1>1, <3>1, StillNotes
  <2> QED  BY <1>4, <2>1, <2>2, <2>3, <2>4, <2>5, <2>6 DEF Run
<1>5. CASE UNCHANGED vars
  <2>1. UNCHANGED <<stale, crowded, loc, recCount>>  BY <1>5 DEF vars
  <2> QED  BY <1>1, <2>1, StillNotes
<1> QED  BY <1>2, <1>3, <1>4, <1>5 DEF Next

\* Every variable keeps its type, whatever the plans, faults and repetitions: no
\* transfer or deletion is beyond the end of the plan of its task (taskRunRecAllocChg,
\* taskRunRecOwnerChg, taskRunDataPut, taskRunRecCollDelete).
THEOREM TypeCorrect == Spec => []TypeOK
<1> DEFINE Noted == stale \cup crowded \subseteq Places
<1>1. Init => Noted  BY DEF Init
<1>2. TypeInv /\ BooksInv /\ Noted /\ [Next]_vars => Noted'
  BY StepNotes DEF Noting
<1>3. TypeInv /\ Noted => TypeOK  BY DEF TypeInv, TypeOK, DataTypes, TaskTypes
<1> QED  BY <1>1, <1>2, <1>3, TypesKept, PTL DEF Spec

-----------------------------------------------------------------------------
\* Induction, over numbers and over the subsets of a finite set, by the least one
\* that is not in C.
LEMMA NatSets ==
  ASSUME NEW C, 0 \in C, \A n \in Nat : n \in C => n + 1 \in C
  PROVE  Nat \subseteq C
  <1> SUFFICES ASSUME Nat \ C # {} PROVE FALSE
    OBVIOUS
  <1>1. PICK n \in Nat \ C : \A m \in Nat \ C : ~(<<m, n>> \in OpToRel(<, Nat))
    BY NatLessThanWellFounded, WFMin
  <1>2. \A m \in Nat \ C : ~(m < n)
    BY <1>1 DEF OpToRel
  <1>3. n - 1 \in Nat /\ n - 1 \in C
    BY <1>2
  <1> QED BY <1>3

\* The element that the folds take first.
Pick(s) == CHOOSE x \in s : TRUE

LEMMA PickRest ==
  ASSUME NEW T, IsFiniteSet(T), NEW s \in SUBSET T, s # {}
  PROVE  /\ Pick(s) \in s /\ s \ {Pick(s)} \in SUBSET T
         /\ Cardinality(s) \in Nat \ {0} /\ Cardinality(s \ {Pick(s)}) = Cardinality(s) - 1
  <1>1. Pick(s) \in s
    BY DEF Pick
  <1>2. IsFiniteSet(s)
    BY FS_Subset
  <1> QED BY <1>1, <1>2, FS_RemoveElement, FS_CardinalityType, FS_EmptySet

LEMMA SubsetSets ==
  ASSUME NEW T, IsFiniteSet(T), NEW C, {} \in C,
         \A s \in SUBSET T : s # {} /\ s \ {Pick(s)} \in C => s \in C
  PROVE  SUBSET T \subseteq C
  <1> DEFINE D == {n \in Nat : \A s \in SUBSET T : Cardinality(s) = n => s \in C}
  <1>1. \A s \in SUBSET T : IsFiniteSet(s) /\ Cardinality(s) \in Nat
    BY FS_Subset, FS_CardinalityType
  <1>2. 0 \in D
    BY <1>1, FS_EmptySet
  <1>3. \A n \in Nat : n \in D => n + 1 \in D
    <2> SUFFICES ASSUME NEW n \in D, NEW s \in SUBSET T, Cardinality(s) = n + 1 PROVE s \in C
      OBVIOUS
    <2>1. s # {}
      BY FS_EmptySet
    <2>2. Cardinality(s \ {Pick(s)}) = n /\ s \ {Pick(s)} \in SUBSET T
      BY <2>1, PickRest
    <2> QED BY <2>1, <2>2
  <1> HIDE DEF D
  <1>4. Nat \subseteq D
    BY <1>2, <1>3, NatSets
  <1> QED BY <1>1, <1>4 DEF D

\* A sum over a finite set is what the fold computes for it, step by step.
SumStep(f, g, s) == IF s = {} THEN 0 ELSE f[Pick(s)] + g[s \ {Pick(s)}]
IsSum(f, g, T) == g = [s \in SUBSET T |-> SumStep(f, g, s)]

LEMMA SumExists ==
  ASSUME NEW T, IsFiniteSet(T), NEW f
  PROVE  \E g : IsSum(f, g, T)
  <1> DEFINE UpTo(g, n) == \A s \in SUBSET T : Cardinality(s) <= n => g[s] = SumStep(f, g, s)
             C == {n \in Nat : \E g : g = [s \in SUBSET T |-> g[s]] /\ UpTo(g, n)}
  <1>1. \A s \in SUBSET T : IsFiniteSet(s) /\ Cardinality(s) \in Nat
    BY FS_Subset, FS_CardinalityType
  <1>2. 0 \in C
    <2> DEFINE g == [s \in SUBSET T |-> 0]
    <2>1. \A s \in SUBSET T : Cardinality(s) <= 0 => s = {}
      BY <1>1, FS_EmptySet
    <2>2. g = [s \in SUBSET T |-> g[s]] /\ UpTo(g, 0)
      BY <2>1 DEF SumStep
    <2> QED BY <2>2
  <1>3. ASSUME NEW n \in Nat, n \in C PROVE n + 1 \in C
    <2>1. PICK g : g = [s \in SUBSET T |-> g[s]] /\ UpTo(g, n)
      BY <1>3
    <2> DEFINE h == [s \in SUBSET T |-> IF Cardinality(s) <= n THEN g[s] ELSE SumStep(f, g, s)]
    <2>2. \A s \in SUBSET T : h[s] = SumStep(f, g, s) \/ Cardinality(s) > n + 1
      BY <1>1, <2>1
    <2>3. ASSUME NEW s \in SUBSET T, Cardinality(s) <= n + 1 PROVE SumStep(f, h, s) = SumStep(f, g, s)
      <3>1. CASE s = {}
        BY <3>1 DEF SumStep
      <3>2. CASE s # {}
        <4>1. s \ {Pick(s)} \in SUBSET T /\ Cardinality(s \ {Pick(s)}) <= n
          BY <1>1, <2>3, <3>2, PickRest
        <4>2. h[s \ {Pick(s)}] = g[s \ {Pick(s)}]
          BY <4>1
        <4> QED BY <3>2, <4>2 DEF SumStep
      <3> QED BY <3>1, <3>2
    <2>4. UpTo(h, n + 1)
      BY <1>1, <2>1, <2>2, <2>3
    <2>5. h = [s \in SUBSET T |-> h[s]]
      OBVIOUS
    <2>6. \E x : x = [s \in SUBSET T |-> x[s]] /\ UpTo(x, n + 1)
      <3> HIDE DEF h, UpTo
      <3> QED BY <2>4, <2>5
    <2> HIDE DEF UpTo
    <2> QED BY <2>6
  <1> HIDE DEF C
  <1>4. Cardinality(T) \in C
    BY <1>1, <1>2, <1>3, NatSets
  <1>5. PICK g : g = [s \in SUBSET T |-> g[s]] /\ UpTo(g, Cardinality(T))
    BY <1>4 DEF C
  <1>6. \A s \in SUBSET T : Cardinality(s) <= Cardinality(T)
    BY FS_Subset
  <1>7. g = [s \in SUBSET T |-> SumStep(f, g, s)]
    BY <1>5, <1>6
  <1> QED BY <1>7 DEF IsSum

\* Sums of naturals are naturals.
LEMMA SumNat ==
  ASSUME NEW T, IsFiniteSet(T), NEW f, \A t \in T : f[t] \in Nat, NEW g, IsSum(f, g, T)
  PROVE  \A s \in SUBSET T : g[s] \in Nat
  <1> DEFINE C == {s \in SUBSET T : g[s] \in Nat}
  <1>1. \A s \in SUBSET T : g[s] = SumStep(f, g, s)
    BY DEF IsSum
  <1>2. {} \in C
    BY <1>1 DEF SumStep
  <1>3. ASSUME NEW s \in SUBSET T, s # {}, s \ {Pick(s)} \in C PROVE s \in C
    BY <1>1, <1>3, PickRest DEF SumStep
  <1> HIDE DEF C
  <1>4. SUBSET T \subseteq C
    BY <1>2, <1>3, SubsetSets
  <1> QED BY <1>4 DEF C

\* The sum of part of T is the one that the fold over T goes through.
LEMMA SumIs ==
  ASSUME NEW T, IsFiniteSet(T), NEW f
  PROVE  \E g : IsSum(f, g, T) /\ SumOver(f, T) = g[T]
<1> DEFINE g == CHOOSE g : g = [s \in SUBSET T |-> IF s = {} THEN 0
                                   ELSE LET x == CHOOSE x \in s : TRUE IN f[x] + g[s \ {x}]]
<1>1. SumOver(f, T) = g[T]  BY Zenon DEF SumOver, MapThenSumSet, MapThenFoldSet
<1>2. g = CHOOSE x : IsSum(f, x, T)  BY Zenon DEF IsSum, SumStep, Pick
<1> HIDE DEF g
<1> QED  BY <1>1, <1>2, SumExists

\* Sums depend on the values in the set only, and not on the set they are part of.
LEMMA SumSub ==
  ASSUME NEW T, IsFiniteSet(T), NEW f, NEW g, IsSum(f, g, T),
         NEW S \in SUBSET T, NEW e, NEW h, IsSum(e, h, S), \A x \in S : e[x] = f[x]
  PROVE  g[S] = h[S]
<1> DEFINE C == {s \in SUBSET S : g[s] = h[s]}
<1>1. IsFiniteSet(S)  BY FS_Subset
<1>2. \A s \in SUBSET S : g[s] = SumStep(f, g, s) /\ h[s] = SumStep(e, h, s)  BY DEF IsSum
<1>3. {} \in C  BY <1>2 DEF SumStep
<1>4. ASSUME NEW s \in SUBSET S, s # {}, s \ {Pick(s)} \in C PROVE s \in C
  <2>1. Pick(s) \in S /\ s \ {Pick(s)} \in SUBSET S  BY <1>1, <1>4, PickRest
  <2>2. /\ e[Pick(s)] = f[Pick(s)] /\ g[s \ {Pick(s)}] = h[s \ {Pick(s)}]
        /\ g[s] = SumStep(f, g, s) /\ h[s] = SumStep(e, h, s)
    BY <1>2, <1>4, <2>1
  <2> QED  BY <1>4, <2>2 DEF SumStep
<1> HIDE DEF C
<1>5. SUBSET S \subseteq C  BY <1>1, <1>3, <1>4, SubsetSets
<1> QED  BY <1>5 DEF C

LEMMA SumSame ==
  ASSUME NEW S, IsFiniteSet(S), NEW f, NEW e, \A x \in S : e[x] = f[x]
  PROVE  SumOver(e, S) = SumOver(f, S)
<1>1. PICK g : IsSum(f, g, S) /\ SumOver(f, S) = g[S]  BY SumIs
<1>2. PICK h : IsSum(e, h, S) /\ SumOver(e, S) = h[S]  BY SumIs
<1>3. g[S] = h[S]  BY <1>1, <1>2, SumSub
<1> QED  BY <1>1, <1>2, <1>3

\* Whichever element is taken first.
SumsTo(f, g, T) == /\ \A s \in SUBSET T : g[s] \in Nat
                   /\ g[{}] = 0
                   /\ \A s \in SUBSET T : \A x \in s : g[s] = f[x] + g[s \ {x}]

LEMMA SumAny ==
  ASSUME NEW T, IsFiniteSet(T), NEW f, \A t \in T : f[t] \in Nat, NEW g, IsSum(f, g, T)
  PROVE  SumsTo(f, g, T)
<1> DEFINE D == {n \in Nat : \A s \in SUBSET T : Cardinality(s) = n =>
                               \A x \in s : g[s] = f[x] + g[s \ {x}]}
<1>1. \A s \in SUBSET T : IsFiniteSet(s) /\ Cardinality(s) \in Nat
  BY FS_Subset, FS_CardinalityType
<1>2. \A s \in SUBSET T : g[s] \in Nat /\ g[s] = SumStep(f, g, s)  BY SumNat DEF IsSum
<1>3. 0 \in D  BY <1>1, FS_EmptySet
<1>4. ASSUME NEW n \in Nat, n \in D PROVE n + 1 \in D
  <2> SUFFICES ASSUME NEW s \in SUBSET T, Cardinality(s) = n + 1, NEW x \in s
               PROVE  g[s] = f[x] + g[s \ {x}]
    OBVIOUS
  <2> DEFINE p == Pick(s)
  <2>1. p \in s /\ g[s] = f[p] + g[s \ {p}]  BY <1>1, <1>2, PickRest DEF SumStep
  <2>2. CASE x = p  BY <2>1, <2>2
  <2>3. CASE x # p
    <3> HIDE DEF p
    <3>1. /\ s \ {p} \in SUBSET T /\ s \ {x} \in SUBSET T
          /\ Cardinality(s \ {p}) = n /\ Cardinality(s \ {x}) = n
      <4>1. \A y \in s : Cardinality(s \ {y}) = Cardinality(s) - 1
        BY <1>1, FS_RemoveElement
      <4> QED  BY <2>1, <4>1
    <3>2. x \in s \ {p} /\ p \in s \ {x}  BY <2>1, <2>3
    <3>3. g[s \ {p}] = f[x] + g[(s \ {p}) \ {x}]  BY <1>4, <3>1, <3>2
    <3>4. g[s \ {x}] = f[p] + g[(s \ {x}) \ {p}]  BY <1>4, <3>1, <3>2
    <3>5. (s \ {p}) \ {x} = (s \ {x}) \ {p} /\ (s \ {p}) \ {x} \in SUBSET T  OBVIOUS
    <3> DEFINE c == g[(s \ {p}) \ {x}]
    <3>6. f[x] \in Nat /\ f[p] \in Nat /\ c \in Nat  BY <1>2, <2>1, <3>5
    <3>7. g[s \ {p}] = f[x] + c /\ g[s \ {x}] = f[p] + c  BY <3>3, <3>4, <3>5
    <3> HIDE DEF c
    <3> QED  BY <2>1, <3>6, <3>7
  <2> QED  BY <2>2, <2>3
<1> HIDE DEF D
<1>5. Nat \subseteq D  BY <1>3, <1>4, NatSets
<1>6. \A s \in SUBSET T : \A x \in s : g[s] = f[x] + g[s \ {x}]  BY <1>1, <1>5 DEF D
<1>7. g[{}] = 0  BY <1>2 DEF SumStep
<1> QED  BY <1>2, <1>6, <1>7 DEF SumsTo

\* One function gives the sums of all the sets of records.
LEMMA SumTable ==
  ASSUME NEW f, \A r \in Recs : f[r] \in Nat
  PROVE  \E g : SumsTo(f, g, Recs) /\ \A S \in SUBSET Recs : SumOver(f, S) = g[S]
<1>0. IsFiniteSet(Recs)  BY DataAssumption DEF DataAssumption
<1>1. PICK g : IsSum(f, g, Recs)  BY <1>0, SumExists
<1>2. SumsTo(f, g, Recs)  BY <1>0, <1>1, SumAny
<1>3. ASSUME NEW S \in SUBSET Recs PROVE SumOver(f, S) = g[S]
  <2>1. IsFiniteSet(S)  BY <1>0, FS_Subset
  <2>2. PICK h : IsSum(f, h, S) /\ SumOver(f, S) = h[S]  BY <2>1, SumIs
  <2>3. g[S] = h[S]  BY <1>0, <1>1, <2>2, SumSub
  <2> QED  BY <2>2, <2>3
<1> QED  BY <1>2, <1>3

LEMMA SumOut ==
  ASSUME NEW f, \A r \in Recs : f[r] \in Nat, NEW S \in SUBSET Recs, NEW x \in S
  PROVE  /\ SumOver(f, S) = f[x] + SumOver(f, S \ {x})
         /\ SumOver(f, S) \in Nat /\ SumOver(f, S \ {x}) \in Nat
<1>1. PICK g : SumsTo(f, g, Recs) /\ \A s \in SUBSET Recs : SumOver(f, s) = g[s]
  BY SumTable
<1>2. S \ {x} \in SUBSET Recs  OBVIOUS
<1> QED  BY <1>1, <1>2 DEF SumsTo

\* The sum over two sets of which neither has what the other has.
LEMMA SumJoin ==
  ASSUME NEW f, \A r \in Recs : f[r] \in Nat,
         NEW A \in SUBSET Recs, NEW B \in SUBSET Recs, A \cap B = {}
  PROVE  /\ SumOver(f, A \cup B) = SumOver(f, A) + SumOver(f, B)
         /\ SumOver(f, A) \in Nat /\ SumOver(f, B) \in Nat
<1>1. PICK g : SumsTo(f, g, Recs) /\ \A s \in SUBSET Recs : SumOver(f, s) = g[s]
  BY SumTable
<1>2. IsFiniteSet(B)  BY FS_Subset, DataAssumption DEF DataAssumption
<1> DEFINE C == {s \in SUBSET B : g[A \cup s] = g[A] + g[s]}
<1>3. {} \in C
  <2>1. A \cup {} = A /\ g[A] \in Nat /\ g[{}] = 0  BY <1>1 DEF SumsTo
  <2> QED  BY <2>1
<1>4. ASSUME NEW s \in SUBSET B, s # {}, s \ {Pick(s)} \in C PROVE s \in C
  <2> DEFINE p == Pick(s)
  <2>1. p \in s  BY <1>4 DEF Pick
  <2>2. (A \cup s) \ {p} = A \cup (s \ {p})  BY <2>1
  <2>3. /\ g[A \cup s] = f[p] + g[(A \cup s) \ {p}]
        /\ g[s] = f[p] + g[s \ {p}]
    BY <1>1, <2>1 DEF SumsTo
  <2>4. g[A \cup (s \ {p})] = g[A] + g[s \ {p}]  BY <1>4
  <2> DEFINE a == g[A]  c == g[s \ {p}]
  <2>5. f[p] \in Nat /\ a \in Nat /\ c \in Nat  BY <1>1, <2>1 DEF SumsTo
  <2>6. g[A \cup s] = f[p] + (a + c) /\ g[s] = f[p] + c  BY <2>2, <2>3, <2>4
  <2> HIDE DEF a, c, p
  <2>7. g[A \cup s] = a + g[s]  BY <2>5, <2>6
  <2> QED  BY <2>7 DEF a
<1> HIDE DEF C
<1>5. SUBSET B \subseteq C  BY <1>2, <1>3, <1>4, SubsetSets
<1>6. g[A \cup B] = g[A] + g[B]  BY <1>5 DEF C
<1> QED  BY <1>1, <1>6 DEF SumsTo

-----------------------------------------------------------------------------
\* The books with their history, for any tasks in any order.
SizesRight == \A a \in allocs \ stale : dataSize[a] = SumOver(size, Stored(a))
LimitsRight == \A a \in allocs \ crowded : recCount[a] <= RecLimit[a]

\* Charges are numbers, and records that were never created have no data.
Sizes == /\ dataSize \in [Places -> Int]
         /\ \A r \in unborn : size[r] = 0
         /\ SizesRight

\* The commands of a move are its second and its last substep: none comes between
\* the look at the destination and its use but the transfer.
AtCommand(t) == at[t] \in {"cmd", "done"} /\ job[t].kind \in Moves =>
                  Moving(t) /\ Substep(t) \in {1, 3}

\* What a task has looked for is still there when it uses it.
Room(t) == LET d == job[t].dst IN
  HasLooked(t) /\ d \in allocs \ crowded =>
    recCount[d] + Cardinality(Current(t).recs) <= RecLimit[d]

Rooms == LimitsRight /\ \A t \in Tasks : AtCommand(t) /\ Room(t)

NotedInv == TypeInv /\ BooksInv /\ Sizes /\ Rooms

LEMMA IntCounts ==
  ASSUME NotedInv, TypeInv', NEW a \in Places
  PROVE  recCount[a] \in Int /\ recCount'[a] \in Int /\ RecLimit[a] \in Nat
BY DataAssumption DEF DataAssumption, NotedInv, TypeInv, DataTypes

\* Whoever brings records to a place another task counts on is noted.
LEMMA RoomStays ==
  ASSUME NotedInv, TypeInv', Noting, allocs' \subseteq allocs, NEW u \in Tasks,
         HasLooked(u)' => HasLooked(u) /\ job'[u] = job[u] /\ Current(u)' = Current(u)
  PROVE  Room(u)'
<1> SUFFICES ASSUME NEW d, d = job[u].dst, HasLooked(u), HasLooked(u)', d \in allocs,
                    d \notin crowded', job'[u] = job[u], Current(u)' = Current(u)
             PROVE  recCount'[d] + Cardinality(Current(u).recs) <= RecLimit[d]
  BY DEF Room
<1>1. d \in Places /\ d \notin crowded  BY DEF Noting, NotedInv, TypeInv, DataTypes
<1>2. recCount[d] + Cardinality(Current(u).recs) <= RecLimit[d]
  BY <1>1 DEF NotedInv, Rooms, Room
<1>3. Current(u).recs \subseteq Recs  BY InPlan DEF HasLooked, NotedInv
<1>4. Cardinality(Current(u).recs) \in Nat
  BY <1>3, FS_Subset, FS_CardinalityType, DataAssumption DEF DataAssumption
<1>5. ~(recCount'[d] > recCount[d])
  <2>1. NotKept(d)  BY DEF NotKept
  <2> QED  BY <1>1, <2>1 DEF Noting, Filled
<1>6. PICK c, n, m, l : /\ c = Cardinality(Current(u).recs) /\ n = recCount[d]
                        /\ m = recCount'[d] /\ l = RecLimit[d]
  OBVIOUS
<1>7. n \in Int /\ m \in Int /\ l \in Nat  BY <1>1, <1>6, IntCounts
<1> QED  BY <1>2, <1>4, <1>5, <1>6, <1>7

\* Places that get no records keep to their limit.
LEMMA LimitsStay ==
  ASSUME NotedInv, TypeInv', Noting, allocs' \subseteq allocs,
         \A a \in Places : recCount'[a] <= recCount[a]
  PROVE  LimitsRight'
<1> SUFFICES ASSUME NEW a \in allocs, a \notin crowded' PROVE recCount'[a] <= RecLimit[a]
  BY DEF LimitsRight
<1>1. a \in Places /\ a \notin crowded  BY DEF Noting, NotedInv, TypeInv, DataTypes
<1>2. recCount[a] <= RecLimit[a] /\ recCount'[a] <= recCount[a]
  BY <1>1 DEF NotedInv, Rooms, LimitsRight
<1> QED  BY <1>1, <1>2, IntCounts

LEMMA RoomsStay ==
  ASSUME NotedInv, TypeInv', Noting, allocs' \subseteq allocs, LimitsRight',
         NEW t \in Tasks, OnlyTask(t), AtCommand(t)',
         HasLooked(t)' => Room(t)' \/ (HasLooked(t) /\ job'[t] = job[t] /\ Current(t)' = Current(t))
  PROVE  Rooms'
<1>1. ASSUME NEW u \in Tasks \ {t} PROVE AtCommand(u)' /\ Room(u)'
  <2>1. /\ UNCHANGED <<job[u], at[u], step[u], steps[u], xfr[u]>>
    BY DEF OnlyTask
  <2>2. UNCHANGED <<Moving(u), Substep(u), Current(u), Active(u)>>
    BY <2>1 DEF Moving, Substep, Current, Base, Active
  <2>3. AtCommand(u)'  BY <2>1, <2>2 DEF NotedInv, Rooms, AtCommand
  <2>4. HasLooked(u)' => HasLooked(u)  BY <2>2 DEF HasLooked
  <2> QED  BY <2>1, <2>2, <2>3, <2>4, RoomStays
<1>2. Room(t)'
  <2>1. CASE HasLooked(t)' /\ ~Room(t)'  BY <2>1, RoomStays
  <2> QED  BY <2>1 DEF Room
<1> QED  BY <1>1, <1>2 DEF Rooms

\* Steps that leave the books alone.
LEMMA BooksAlone ==
  ASSUME NotedInv, TypeInv', Noting, allocs' \subseteq allocs,
         UNCHANGED <<size, unborn, recCount, dataSize>>, \A a : Stored(a)' = Stored(a),
         NEW t \in Tasks, OnlyTask(t), AtCommand(t)',
         HasLooked(t)' => Room(t)' \/ (HasLooked(t) /\ job'[t] = job[t] /\ Current(t)' = Current(t))
  PROVE  Sizes' /\ Rooms'
<1>1. Sizes'  BY DEF Noting, NotedInv, Sizes, SizesRight
<1>2. \A a \in Places : recCount'[a] <= recCount[a]  BY DEF NotedInv, TypeInv, DataTypes
<1>3. LimitsRight'  BY <1>2, LimitsStay
<1> QED  BY <1>1, <1>3, RoomsStay

\* A task of which neither the plan nor the step changes.
LEMMA SameStep ==
  ASSUME NEW t, UNCHANGED <<job[t], step[t], steps[t], xfr[t]>>
  PROVE  UNCHANGED <<Moving(t), Substep(t), Current(t)>>
BY DEF Moving, Substep, Current, Base

\* Moves begin with substep 0.
LEMMA NotMoving ==
  ASSUME TypeInv', NEW t \in Tasks, Active(t)',
         step'[t] < Base(t)' \/ step'[t] = Base(t)'
  PROVE  ~HasLooked(t)' /\ (step'[t] < Base(t)' => ~Moving(t)')
<1>1. step'[t] \in Int /\ Base(t)' \in 1..2  BY DEF TypeInv, TaskTypes, Base
<1>2. CASE step'[t] < Base(t)'  BY <1>1, <1>2 DEF Moving, HasLooked
<1>3. CASE step'[t] = Base(t)'
  <2>1. Substep(t)' = 0  BY <1>1, <1>3 DEF Substep
  <2> QED  BY <1>1, <1>3, <2>1 DEF HasLooked
<1> QED  BY <1>2, <1>3

LEMMA InitBooks == Init => Sizes /\ Rooms
<1> SUFFICES ASSUME Init PROVE Sizes /\ Rooms  OBVIOUS
<1>1. /\ size \in [Recs -> 0..MaxSize] /\ allocs \subseteq Places
      /\ dataSize = [a \in Places |-> SumOver(size, Stored(a))]
      /\ \A r \in unborn : size[r] = 0
      /\ \A a \in allocs : recCount[a] <= RecLimit[a]
      /\ at = [t \in Tasks |-> "none"]
  BY DEF Init
<1>2. \A r \in Recs : size[r] \in Nat
  BY <1>1, DataAssumption DEF DataAssumption
<1>3. dataSize \in [Places -> Int]
  <2>1. ASSUME NEW a \in Places PROVE SumOver(size, Stored(a)) \in Int
    <3>1. Stored(a) \in SUBSET Recs /\ {} \in SUBSET Recs /\ Stored(a) \cap {} = {}
      BY DEF Stored, Live
    <3>2. SumOver(size, Stored(a)) \in Nat  BY <1>2, <3>1, SumJoin
    <3> QED  BY <3>2
  <2> QED  BY <1>1, <2>1
<1>4. \A t \in Tasks : AtCommand(t) /\ Room(t)
  BY <1>1 DEF AtCommand, Room, HasLooked, Active
<1> QED  BY <1>1, <1>3, <1>4 DEF Sizes, SizesRight, Rooms, LimitsRight

LEMMA CreateRecordBooks ==
  ASSUME NotedInv, TypeInv', Noting, NEW r \in Recs, NEW a \in Places, CreateRecord(r, a)
  PROVE  Sizes' /\ Rooms'
<1> DEFINE l == [uid |-> a[1], repo |-> a[2], newRepo |-> None, newOwner |-> None]
<1>1. /\ r \in unborn /\ a \in allocs /\ recCount[a] < RecLimit[a]
      /\ loc' = [loc EXCEPT ![r] = l]
      /\ unborn' = unborn \ {r}
      /\ recCount' = [recCount EXCEPT ![a] = @ + 1]
      /\ UNCHANGED <<size, allocs, dataSize, job, xfr, step, steps, at>>
  BY DEF CreateRecord, taskVars, runVars
<1>2. l \in Locs /\ Place(l) = a  BY DEF Places, Locs, Place
<1>3. loc[r] = None /\ size[r] = 0  BY <1>1 DEF NotedInv, BooksInv, Sizes
<1> HIDE DEF l
<1>4. /\ loc'[r] = l /\ l # None /\ Place(loc'[r]) = a
      /\ \A x \in Recs \ {r} : loc'[x] = loc[x]
  BY <1>1, <1>2, NoneApart DEF NotedInv, TypeInv, DataTypes
<1>5. Live' = Live \cup {r} /\ r \notin Live  BY <1>3, <1>4 DEF Live
<1>6. ASSUME NEW b
      PROVE  /\ b # a => Stored(b)' = Stored(b)
             /\ Stored(a)' = Stored(a) \cup {r} /\ Stored(a) \cap {r} = {}
  <2>1. \A x \in Live : x # r /\ Place(loc[x])' = Place(loc[x])
    BY <1>4, <1>5 DEF Live, Place
  <2>2. Place(loc[r])' = a  BY <1>4 DEF Place
  <2> QED  BY <1>5, <2>1, <2>2 DEF Stored
<1>7. \A x \in Recs : size[x] \in Nat
  BY DataAssumption DEF NotedInv, TypeInv, DataTypes, DataAssumption
<1>8. SizesRight'
  <2> SUFFICES ASSUME NEW b \in allocs, b \notin stale'
               PROVE  dataSize[b] = SumOver(size, Stored(b)')
    BY <1>1 DEF SizesRight
  <2>1. dataSize[b] = SumOver(size, Stored(b))  BY DEF Noting, NotedInv, Sizes, SizesRight
  <2>2. CASE b = a
    <3>1. PICK A \in SUBSET Recs : r \in A /\ A \ {r} = Stored(a) /\ A = Stored(a)'
      <4>1. Stored(a) \cup {r} \in SUBSET Recs  BY DEF Stored, Live
      <4> QED  BY <1>6, <4>1
    <3>2. /\ SumOver(size, A) = size[r] + SumOver(size, A \ {r})
          /\ SumOver(size, A \ {r}) \in Nat
      BY <1>7, <3>1, SumOut
    <3> QED  BY <1>3, <2>1, <2>2, <3>1, <3>2
  <2>3. CASE b # a  BY <1>6, <2>1, <2>3
  <2> QED  BY <2>2, <2>3
<1>9. Sizes'  BY <1>1, <1>8 DEF NotedInv, Sizes
<1>10. LimitsRight'
  <2> SUFFICES ASSUME NEW b \in allocs, b \notin crowded' PROVE recCount'[b] <= RecLimit[b]
    BY <1>1 DEF LimitsRight
  <2>1. b \in Places /\ recCount[b] <= RecLimit[b]
    BY DEF Noting, NotedInv, TypeInv, DataTypes, Rooms, LimitsRight
  <2>2. CASE b = a
    <3>1. recCount'[a] = recCount[a] + 1  BY <1>1 DEF NotedInv, TypeInv, DataTypes
    <3> QED  BY <1>1, <2>1, <2>2, <3>1, IntCounts
  <2>3. CASE b # a
    <3>1. recCount'[b] = recCount[b]  BY <1>1, <2>3
    <3> QED  BY <2>1, <3>1
  <2> QED  BY <2>2, <2>3
<1>11. ASSUME NEW u \in Tasks PROVE AtCommand(u)' /\ Room(u)'
  <2>1. UNCHANGED <<Moving(u), Substep(u), Current(u), Active(u), job[u], at[u]>>
    BY <1>1 DEF Moving, Substep, Current, Base, Active
  <2>2. AtCommand(u)'  BY <2>1 DEF NotedInv, Rooms, AtCommand
  <2>3. HasLooked(u)' => HasLooked(u)  BY <2>1 DEF HasLooked
  <2> QED  BY <1>1, <2>1, <2>2, <2>3, RoomStays
<1> QED  BY <1>9, <1>10, <1>11 DEF Rooms

LEMMA RequestBooks ==
  ASSUME NotedInv, TypeInv', Noting, NEW t \in Tasks, Request(t)
  PROVE  Sizes' /\ Rooms'
<1>1. PICK k, R, d, held :
        /\ CreateTask(t, k, R, d, held)
        /\ \A u \in Tasks \ {t} : xfr'[u] = xfr[u] /\ steps'[u] = steps[u]
  <2>1. CASE CreatePut(t)  BY <2>1, Zenon DEF CreatePut, NoPlan
  <2>2. CASE CreateAllocChg(t)  BY <2>2, Zenon DEF CreateAllocChg, NoPlan
  <2>3. CASE CreateOwnerChg(t)  BY <2>3, Zenon DEF CreateOwnerChg, NoPlan
  <2>4. CASE CreateRecDelete(t)
    <3>1. PICK R : /\ CreateTask(t, "rec_del", R, None, {})
                   /\ \E q : /\ xfr' = [xfr EXCEPT ![t] = q]
                             /\ steps' = [steps EXCEPT ![t] = Len(q) + 2]
      BY <2>4, Zenon DEF CreateRecDelete
    <3>2. \A u \in Tasks \ {t} : xfr'[u] = xfr[u] /\ steps'[u] = steps[u]  BY <3>1
    <3> QED  BY <3>1, <3>2
  <2>5. CASE CreateAllocDelete(t)
    <3>1. PICK a : /\ CreateTask(t, "alloc_del", {}, a, {a})
                   /\ xfr' = xfr /\ steps' = [steps EXCEPT ![t] = 2]
      BY <2>5, Zenon DEF CreateAllocDelete
    <3>2. \A u \in Tasks \ {t} : xfr'[u] = xfr[u] /\ steps'[u] = steps[u]  BY <3>1
    <3> QED  BY <3>1, <3>2
  <2> QED  BY <2>1, <2>2, <2>3, <2>4, <2>5 DEF Request
<1>2. /\ \A u \in Tasks \ {t} : job'[u] = job[u] /\ at'[u] = at[u]
      /\ at[t] = "none" /\ at'[t] = "wait"
      /\ UNCHANGED <<loc, size, unborn, allocs, recCount, dataSize, step>>
  BY <1>1 DEF CreateTask, GoTo, recVars, allocVars, NotedInv, TypeInv, TaskTypes
<1>3. OnlyTask(t)  BY <1>1, <1>2 DEF OnlyTask
<1>4. step'[t] = 0  BY <1>2 DEF NotedInv, TypeInv, StepsKept, StepsOK
<1>5. Active(t)' /\ step'[t] < Base(t)'  BY <1>2, <1>4 DEF Active, Base
<1>6. ~HasLooked(t)'  BY <1>5, NotMoving
<1>7. AtCommand(t)'  BY <1>2 DEF AtCommand
<1>8. \A a : Stored(a)' = Stored(a)  BY <1>2 DEF Stored, Live, Place
<1> QED  BY <1>2, <1>3, <1>6, <1>7, <1>8, BooksAlone

LEMMA InitMoveBooks ==
  ASSUME NotedInv, TypeInv', Noting, NEW t \in Tasks, InitMove(t)
  PROVE  Sizes' /\ Rooms'
<1>1. /\ at[t] = "run" /\ Moving(t) /\ Substep(t) = 0 /\ CanInit(t)
      /\ step' = [step EXCEPT ![t] = @ + 1]
      /\ loc' = [r \in Recs |-> IF r \in Current(t).recs
                                THEN Marked(loc[r], job[t].kind, job[t].dst) ELSE loc[r]]
      /\ UNCHANGED <<size, unborn, allocs, recCount, dataSize, job, xfr, steps, at>>
  BY DEF InitMove, Called, allocVars, taskVars
<1>2. Active(t)  BY <1>1 DEF Active
<1>3. \A a : Stored(a)' = Stored(a)
  <2>1. Current(t).recs \subseteq Live /\ job[t].dst \in Places
    BY <1>1, <1>2, InPlan DEF CanInit, NotedInv
  <2>2. ASSUME NEW m \in Locs
        PROVE  /\ Marked(m, job[t].kind, job[t].dst) \in Locs
               /\ Place(Marked(m, job[t].kind, job[t].dst)) = Place(m)
    BY <2>1 DEF Marked, Locs, Place, Places
  <2>3. \A r \in Live : r \in Recs /\ loc[r] \in Locs
    BY DEF Live, NotedInv, TypeInv, DataTypes
  <2>4. Live' = Live /\ \A r \in Live : Place(loc[r])' = Place(loc[r])
    BY <1>1, <2>1, <2>2, <2>3, NoneApart DEF Live, Place
  <2> QED  BY <2>4 DEF Stored
<1>4. OnlyTask(t)  BY <1>1 DEF OnlyTask, NotedInv, TypeInv, TaskTypes
<1>5. AtCommand(t)'  BY <1>1 DEF AtCommand
<1>6. Current(t)' = Current(t)
  <2>1. /\ step[t] \in Int /\ Base(t) \in 1..2 /\ step'[t] = step[t] + 1
        /\ UNCHANGED <<Base(t), xfr[t]>>
    BY <1>1 DEF Base, NotedInv, TypeInv, TaskTypes
  <2> DEFINE n == step[t] - Base(t)
  <2>2. n \in Int /\ n % 4 = 0 /\ (step[t] - Base(t))' = n + 1  BY <1>1, <2>1 DEF Substep
  <2> HIDE DEF n
  <2>3. (n + 1) \div 4 = n \div 4  BY <2>2
  <2> QED  BY <2>1, <2>2, <2>3 DEF Current, n
<1>7. Room(t)'  BY <1>1, <1>6 DEF Room, CanInit
<1> QED  BY <1>1, <1>3, <1>4, <1>5, <1>7, BooksAlone

LEMMA RollbackBooks ==
  ASSUME NotedInv, TypeInv', Noting, NEW t \in Tasks, Rollback(t)
  PROVE  Sizes' /\ Rooms'
<1>1. /\ Reverted(t) \subseteq Live
      /\ at[t] = "undo" \/ (at[t] = "run" /\ step[t] < 0)
      /\ loc' = [r \in Recs |-> IF r \in Reverted(t)
                                THEN [loc[r] EXCEPT !.newRepo = None, !.newOwner = None]
                                ELSE loc[r]]
      /\ step' = [step EXCEPT ![t] = IF Reverted(t) = {} THEN @ ELSE @ - RevertStep(t)]
      /\ at' = [at EXCEPT ![t] = "undone"]
      /\ UNCHANGED <<size, unborn, allocs, recCount, dataSize, job, xfr, steps>>
  BY DEF Rollback, Called, GoTo, allocVars, taskVars
<1>2. \A a : Stored(a)' = Stored(a)
  <2>1. ASSUME NEW m \in Locs, NEW l, l = [m EXCEPT !.newRepo = None, !.newOwner = None]
        PROVE  l \in Locs /\ Place(l) = Place(m)
    BY <2>1 DEF Locs, Place
  <2>2. \A r \in Live : r \in Recs /\ loc[r] \in Locs
    BY DEF Live, NotedInv, TypeInv, DataTypes
  <2>3. Live' = Live /\ \A r \in Live : Place(loc[r])' = Place(loc[r])
    BY <1>1, <2>1, <2>2, NoneApart DEF Live, Place
  <2> QED  BY <2>3 DEF Stored
<1>3. OnlyTask(t)  BY <1>1 DEF OnlyTask, NotedInv, TypeInv, TaskTypes
<1>4. AtCommand(t)'  BY <1>1 DEF AtCommand, NotedInv, TypeInv, TaskTypes
<1>5. step[t] < 0 /\ step[t] \in Int
  BY <1>1 DEF NotedInv, TypeInv, TaskTypes, StepsKept, StepsOK
<1>6. RevertStep(t) \in 0..3  BY <1>5 DEF RevertStep
<1>7. step'[t] < 0 /\ step'[t] \in Int
  <2>1. step'[t] = IF Reverted(t) = {} THEN step[t] ELSE step[t] - RevertStep(t)
    BY <1>1 DEF NotedInv, TypeInv, TaskTypes
  <2> QED  BY <1>5, <1>6, <2>1
<1>8. ~HasLooked(t)'
  <2>1. Active(t)'  BY <1>1 DEF Active, NotedInv, TypeInv, TaskTypes
  <2>2. step'[t] < Base(t)'  BY <1>7 DEF Base
  <2> QED  BY <2>1, <2>2, NotMoving
<1> QED  BY <1>1, <1>2, <1>3, <1>4, <1>8, BooksAlone

LEMMA EraseBooks ==
  ASSUME NotedInv, TypeInv', Noting, NEW t \in Tasks, EraseRecords(t)
  PROVE  Sizes' /\ Rooms'
<1> DEFINE R == job[t].recs
           E(a) == {r \in R : <<owner[r], loc[r].repo>> = a}
<1>1. /\ at[t] = "run" /\ step[t] = 0 /\ job[t].kind = "rec_del" /\ R \subseteq Live
      /\ loc' = [r \in Recs |-> IF r \in R THEN None ELSE loc[r]]
      /\ recCount' = [a \in Places |-> recCount[a] - IF a \in allocs
                                                     THEN Cardinality(E(a)) ELSE 0]
      /\ dataSize' = [a \in Places |-> dataSize[a] - IF a \in allocs
                                                     THEN SumOver(size, E(a)) ELSE 0]
      /\ size' = [r \in Recs |-> IF r \in R THEN 0 ELSE size[r]]
      /\ step' = [step EXCEPT ![t] = 1]
      /\ UNCHANGED <<unborn, allocs, disk, job, xfr, steps, at>>
  BY DEF EraseRecords, Called, taskVars
<1>2. Active(t)  BY <1>1 DEF Active
<1>3. R \in SUBSET Recs  BY <1>2, ActiveTask DEF NotedInv
<1>4. Live' = Live \ R /\ \A r \in Recs \ R : loc'[r] = loc[r] /\ size'[r] = size[r]
  BY <1>1 DEF Live
<1>5. ASSUME NEW a
      PROVE  /\ Stored(a)' = Stored(a) \ E(a) /\ E(a) \subseteq Stored(a)
             /\ Stored(a) \in SUBSET Recs /\ E(a) \in SUBSET R
  <2>1. E(a) = {r \in R : Place(loc[r]) = a}
    BY <1>1 DEF Place, NotedInv, BooksInv, OwnersAgree
  <2>2. \A r \in Live \ R : r \in Recs /\ Place(loc[r])' = Place(loc[r])
    BY <1>4 DEF Live, Place
  <2>3. Stored(a)' = {r \in Live \ R : Place(loc[r]) = a}  BY <1>4, <2>2 DEF Stored
  <2>4. Stored(a) = {r \in Live : Place(loc[r]) = a} /\ Live \subseteq Recs
    BY DEF Stored, Live
  <2> HIDE DEF E
  <2> QED  BY <1>1, <2>1, <2>3, <2>4
<1> HIDE DEF E
<1>6. \A r \in Recs : size[r] \in Nat /\ size'[r] \in Nat
  <2>1. size \in [Recs -> 0..MaxSize] /\ MaxSize \in Nat
    BY DataAssumption DEF NotedInv, TypeInv, DataTypes, DataAssumption
  <2> QED  BY <1>1, <2>1
<1>7. \A S \in SUBSET Recs : IsFiniteSet(S) /\ Cardinality(S) \in Nat
  BY FS_Subset, FS_CardinalityType, DataAssumption DEF DataAssumption
<1>8. ASSUME NEW a \in Places
      PROVE  /\ dataSize'[a] \in Int
             /\ a \in allocs \ stale' => dataSize'[a] = SumOver(size', Stored(a)')
  <2> DEFINE A == Stored(a) \ E(a)  B == E(a)
  <2>1. /\ A \in SUBSET Recs /\ B \in SUBSET Recs /\ A \cap B = {} /\ Stored(a) = A \cup B
        /\ Stored(a)' = A
    BY <1>3, <1>5
  <2>2. \A r \in A : size'[r] = size[r]
    <3>1. Stored(a)' \subseteq Live'  BY DEF Stored
    <3>2. A \cap R = {}  BY <1>4, <2>1, <3>1
    <3> QED  BY <1>4, <2>1, <3>2
  <2> HIDE DEF A
  <2>3. SumOver(size', A) = SumOver(size, A)  BY <1>7, <2>1, <2>2, SumSame
  <2>4. dataSize[a] \in Int  BY DEF NotedInv, Sizes
  <2>5. a \in allocs \ stale' => dataSize[a] = SumOver(size, A \cup B)
    BY <2>1 DEF Noting, NotedInv, Sizes, SizesRight
  <2>6. dataSize'[a] = dataSize[a] - IF a \in allocs THEN SumOver(size, B) ELSE 0  BY <1>1
  <2> HIDE DEF B
  <2>7. /\ SumOver(size, A \cup B) = SumOver(size, A) + SumOver(size, B)
        /\ SumOver(size, A) \in Nat /\ SumOver(size, B) \in Nat
    BY <1>6, <2>1, SumJoin
  <2> QED  BY <2>1, <2>3, <2>4, <2>5, <2>6, <2>7
<1>9. Sizes'
  <2>1. SizesRight'  BY <1>1, <1>8 DEF SizesRight, NotedInv, TypeInv, DataTypes
  <2>2. dataSize' = [a \in Places |-> dataSize'[a]]  BY <1>1
  <2>3. dataSize' \in [Places -> Int]  BY <1>8, <2>2
  <2>4. \A r \in unborn' : size'[r] = 0
    BY <1>1 DEF NotedInv, TypeInv, DataTypes, Sizes
  <2> QED  BY <2>1, <2>3, <2>4 DEF Sizes
<1>10. \A a \in Places : recCount'[a] <= recCount[a]
  <2> SUFFICES ASSUME NEW a \in Places PROVE recCount'[a] <= recCount[a]  OBVIOUS
  <2>1. Cardinality(E(a)) \in Nat  BY <1>3, <1>5, <1>7
  <2> QED  BY <1>1, <2>1, IntCounts
<1>11. LimitsRight'  BY <1>1, <1>10, LimitsStay
<1>12. OnlyTask(t)  BY <1>1 DEF OnlyTask, NotedInv, TypeInv, TaskTypes
<1>13. AtCommand(t)' /\ ~HasLooked(t)'  BY <1>1 DEF AtCommand, HasLooked, Moving, Moves
<1> QED  BY <1>1, <1>9, <1>11, <1>12, <1>13, RoomsStay

\* The size of a record and the charge of its place move by the same amount.
LEMMA UpdateSizeBooks ==
  ASSUME NotedInv, TypeInv', Noting, NEW t \in Tasks, UpdateSize(t)
  PROVE  Sizes' /\ Rooms'
<1>1. PICK p, f, a : p = PutRec(t) /\ f = OnDisk(t) /\ a = Charged(t)  OBVIOUS
<1> DEFINE sum == dataSize[a] - size[p] + f
<1>2. /\ at[t] = "cmd" /\ SizeDue(t) /\ CanSize(t)
      /\ p \in Live /\ (f # size[p] => a \in allocs)
      /\ size' = [size EXCEPT ![p] = f]
      /\ dataSize' = IF f = size[p] THEN dataSize
                     ELSE [dataSize EXCEPT ![a] = IF sum < 0 THEN 0 ELSE sum]
      /\ at' = [at EXCEPT ![t] = "done"]
      /\ UNCHANGED <<loc, unborn, allocs, recCount, job, xfr, step, steps>>
  BY <1>1 DEF UpdateSize, CanSize, Outcome, GoTo, taskVars
<1>3. p \in Recs /\ loc[p] \in Locs /\ a = Place(loc[p]) /\ a \in Places
  <2>1. p \in Recs /\ loc[p] \in Locs  BY <1>2 DEF Live, NotedInv, TypeInv, DataTypes
  <2>2. owner[p] = loc[p].uid  BY <1>2 DEF NotedInv, BooksInv, OwnersAgree
  <2> QED  BY <1>1, <2>1, <2>2 DEF Charged, Place, Places, Locs
<1>4. f \in Nat
  <2>1. f \in 0..MaxSize  BY <1>1, <1>2, OnDiskTyped DEF NotedInv
  <2> QED  BY <2>1, DataAssumption DEF DataAssumption
<1>5. size \in [Recs -> 0..MaxSize] /\ MaxSize \in Nat /\ dataSize \in [Places -> Int]
  BY DataAssumption DEF NotedInv, TypeInv, DataTypes, Sizes, DataAssumption
<1>6. /\ size'[p] = f
      /\ \A r \in Recs : size[r] \in Nat /\ size'[r] \in Nat /\ (r # p => size'[r] = size[r])
  BY <1>2, <1>3, <1>4, <1>5
<1>7. \A b : Stored(b)' = Stored(b)  BY <1>2 DEF Live, Stored, Place
<1>8. sum \in Int /\ dataSize' \in [Places -> Int]
  <2>1. dataSize[a] \in Int /\ size[p] \in Nat  BY <1>3, <1>5, <1>6
  <2>2. sum \in Int  BY <1>4, <2>1
  <2> HIDE DEF sum
  <2>3. (IF sum < 0 THEN 0 ELSE sum) \in Int  BY <2>2
  <2> QED  BY <1>2, <1>5, <2>2, <2>3
<1>9. ASSUME NEW b \in allocs, b \notin stale' PROVE dataSize'[b] = SumOver(size', Stored(b))
  <2>1. dataSize[b] = SumOver(size, Stored(b)) /\ b \in Places
    BY <1>9 DEF Noting, NotedInv, Sizes, SizesRight, TypeInv, DataTypes
  <2>2. Stored(b) \in SUBSET Recs  BY DEF Stored, Live
  <2>3. \A S \in SUBSET Recs : p \notin S => SumOver(size', S) = SumOver(size, S)
    <3> SUFFICES ASSUME NEW S \in SUBSET Recs, p \notin S
                 PROVE  SumOver(size', S) = SumOver(size, S)
      OBVIOUS
    <3>1. IsFiniteSet(S)  BY FS_Subset, DataAssumption DEF DataAssumption
    <3>2. \A r \in S : size'[r] = size[r]  BY <1>6
    <3> QED  BY <3>1, <3>2, SumSame
  <2>4. CASE f = size[p]
    <3>1. size' = size /\ dataSize' = dataSize  BY <1>2, <1>3, <1>5, <2>4
    <3> QED  BY <2>1, <3>1
  <2>5. CASE f # size[p] /\ b = a
    <3>1. PICK A \in SUBSET Recs : A = Stored(b) /\ p \in A
      BY <1>2, <1>3, <2>2, <2>5 DEF Stored
    <3>2. A \ {p} \in SUBSET Recs /\ p \notin A \ {p}  OBVIOUS
    <3>3. /\ SumOver(size, A) = size[p] + SumOver(size, A \ {p})
          /\ SumOver(size, A \ {p}) \in Nat
      BY <1>6, <3>1, SumOut
    <3>4. SumOver(size', A) = size'[p] + SumOver(size', A \ {p})  BY <1>6, <3>1, SumOut
    <3>5. SumOver(size', A \ {p}) = SumOver(size, A \ {p})  BY <2>3, <3>2
    <3>6. size[p] \in Nat  BY <1>3, <1>6
    <3>7. sum = f + SumOver(size, A \ {p}) /\ sum \in Nat
      BY <1>4, <2>1, <2>5, <3>1, <3>3, <3>6
    <3>8. SumOver(size', A) = sum  BY <1>6, <3>4, <3>5, <3>7
    <3> HIDE DEF sum
    <3>9. dataSize'[b] = IF sum < 0 THEN 0 ELSE sum  BY <1>2, <1>3, <1>5, <2>5
    <3>10. ~(sum < 0)  BY <3>7
    <3> QED  BY <3>1, <3>8, <3>9, <3>10
  <2>6. CASE f # size[p] /\ b # a
    <3>1. p \notin Stored(b)  BY <1>3, <2>6 DEF Stored
    <3>2. SumOver(size', Stored(b)) = SumOver(size, Stored(b))  BY <2>2, <2>3, <3>1
    <3>3. dataSize'[b] = dataSize[b]  BY <1>2, <1>5, <2>1, <2>6
    <3> QED  BY <2>1, <3>2, <3>3
  <2> QED  BY <2>4, <2>5, <2>6
<1>10. Sizes'
  <2>1. SizesRight'  BY <1>2, <1>7, <1>9 DEF SizesRight
  <2>2. p \notin unborn  BY <1>2 DEF Live, NotedInv, BooksInv
  <2>3. \A r \in unborn' : size'[r] = 0
    BY <1>2, <1>6, <2>2 DEF NotedInv, TypeInv, DataTypes, Sizes
  <2> QED  BY <1>8, <2>1, <2>3 DEF Sizes
<1>11. LimitsRight'
  <2>1. \A b \in Places : recCount'[b] <= recCount[b]  BY <1>2 DEF NotedInv, TypeInv, DataTypes
  <2> QED  BY <1>2, <2>1, LimitsStay
<1>12. OnlyTask(t)  BY <1>2 DEF OnlyTask, NotedInv, TypeInv, TaskTypes
<1>13. AtCommand(t)' /\ ~HasLooked(t)'
  BY <1>2 DEF AtCommand, HasLooked, Moving, Moves, SizeDue
<1> QED  BY <1>2, <1>10, <1>11, <1>12, <1>13, RoomsStay

\* A chunk leaves its places for others. What stays at a place cancels out; of what
\* comes and goes, the task has the right sizes, or the place is noted.
LEMMA FiniMoveBooks ==
  ASSUME NotedInv, TypeInv', Noting, NEW t \in Tasks, FiniMove(t)
  PROVE  Sizes' /\ Rooms'
<1> DEFINE s == job[t].size  C == Current(t).recs
<1>1. /\ at[t] = "run" /\ Moving(t) /\ Substep(t) = 2
      /\ recCount' = [a \in Places |->
                        recCount[a] - Cardinality(From(t, a)) + Cardinality(To(t, a))]
      /\ dataSize' = [a \in Places |-> dataSize[a] - SumOver(s, From(t, a))
                                                   + SumOver(s, To(t, a))]
      /\ step' = [step EXCEPT ![t] = @ + 1]
      /\ UNCHANGED <<size, unborn, allocs, job, xfr, steps, at>>
  BY DEF FiniMove, Called, taskVars
<1>2. Active(t) /\ HasLooked(t)  BY <1>1 DEF Active, HasLooked
<1>3. C \in SUBSET Recs /\ s \in [Recs -> 0..MaxSize]
  BY <1>1, <1>2, InPlan, ActiveTask DEF NotedInv
<1>4. \A r \in Recs : size[r] \in Nat /\ s[r] \in Nat
  BY <1>3, DataAssumption DEF NotedInv, TypeInv, DataTypes, DataAssumption
<1>5. step[t] \in Int /\ step'[t] = step[t] + 1 /\ GetsOn(t)
  BY <1>1 DEF NotedInv, TypeInv, TaskTypes, GetsOn
<1>6. \A a : From(t, a) \in SUBSET C /\ To(t, a) \in SUBSET C  BY DEF From, To, Movers
<1>7. \A S \in SUBSET Recs : IsFiniteSet(S) /\ Cardinality(S) \in Nat
  BY FS_Subset, FS_CardinalityType, DataAssumption DEF DataAssumption
<1> HIDE DEF s, C
<1>8. ASSUME NEW a \in Places
      PROVE  /\ dataSize'[a] \in Int
             /\ a \in allocs \ stale' => dataSize'[a] = SumOver(size, Stored(a)')
  <2>1. PICK F, T, S : F = From(t, a) /\ T = To(t, a) /\ S = Stored(a)  OBVIOUS
  <2>2. PICK K, G, U, A : K = F \cap T /\ G = F \ K /\ U = T \ K /\ A = S \ G  OBVIOUS
  <2>3. /\ Stored(a)' = (S \ F) \cup T /\ F \subseteq S /\ S \in SUBSET Recs
        /\ F \in SUBSET Recs /\ T \in SUBSET Recs
    BY <1>3, <1>6, <2>1, FiniStores DEF NotedInv, Stored, Live
  <2>4. /\ K \in SUBSET Recs /\ G \in SUBSET Recs /\ U \in SUBSET Recs /\ A \in SUBSET Recs
        /\ F = G \cup K /\ G \cap K = {} /\ T = U \cup K /\ U \cap K = {}
        /\ S = A \cup G /\ A \cap G = {} /\ Stored(a)' = A \cup U
    BY <2>2, <2>3
  <2>5. U \cap S = {}
    <3>1. \A r \in U : r \in Movers(t) /\ r \notin F  BY <2>1, <2>2 DEF To
    <3>2. \A r \in Movers(t) : r \in S => r \in F  BY <2>1 DEF From, Stored
    <3> QED  BY <3>1, <3>2
  <2>6. a \notin stale' => \A r \in G \cup U : s[r] = size[r]
    <3> SUFFICES ASSUME a \notin stale', NEW r \in G \cup U PROVE s[r] = size[r]  OBVIOUS
    <3>1. /\ r \in Movers(t) /\ r \in Live
          /\ Place(loc[r])' = <<NewOwner(loc[r]), loc[r].newRepo>>
      BY <2>1, <2>2, FiniStores DEF From, To, NotedInv
    <3>2. (Place(loc[r]) = a) # (Place(loc[r])' = a)
      BY <2>1, <2>2, <3>1 DEF From, To
    <3>3. r \in Relocated
      <4>1. loc'[r] # None  BY <3>1, FiniStores DEF NotedInv, Live
      <4> QED  BY <3>1, <3>2, <4>1 DEF Relocated, Place
    <3>4. Outdated(t, r) => Place(loc[r]) \in stale' /\ Place(loc'[r]) \in stale'
      BY <1>5, <3>3 DEF Noting
    <3>5. ~Outdated(t, r)  BY <3>2, <3>4 DEF Place
    <3> QED  BY <3>5 DEF Outdated, s
  <2>7. /\ SumOver(s, F) = SumOver(s, G) + SumOver(s, K)
        /\ SumOver(s, G) \in Nat /\ SumOver(s, K) \in Nat
    BY <1>4, <2>4, SumJoin
  <2>8. SumOver(s, T) = SumOver(s, U) + SumOver(s, K) /\ SumOver(s, U) \in Nat
    BY <1>4, <2>4, SumJoin
  <2>9. dataSize'[a] = dataSize[a] - SumOver(s, F) + SumOver(s, T) /\ dataSize[a] \in Int
    BY <1>1, <2>1 DEF NotedInv, Sizes
  <2>10. dataSize'[a] \in Int  BY <2>7, <2>8, <2>9
  <2>11. ASSUME a \in allocs, a \notin stale' PROVE dataSize'[a] = SumOver(size, Stored(a)')
    <3>1. dataSize[a] = SumOver(size, S)
      BY <2>1, <2>11 DEF Noting, NotedInv, Sizes, SizesRight
    <3>2. SumOver(s, G) = SumOver(size, G)
      <4>1. \A r \in G : s[r] = size[r]  BY <2>6, <2>11
      <4> QED  BY <1>7, <2>4, <4>1, SumSame
    <3>3. SumOver(s, U) = SumOver(size, U)
      <4>1. \A r \in U : s[r] = size[r]  BY <2>6, <2>11
      <4> QED  BY <1>7, <2>4, <4>1, SumSame
    <3>4. SumOver(size, A \cup G) = SumOver(size, A) + SumOver(size, G)
          /\ SumOver(size, A) \in Nat
      BY <1>4, <2>4, SumJoin
    <3>5. A \cap U = {}  BY <2>4, <2>5
    <3>6. SumOver(size, A \cup U) = SumOver(size, A) + SumOver(size, U)
      BY <1>4, <2>4, <3>5, SumJoin
    <3> QED  BY <2>4, <2>7, <2>8, <2>9, <3>1, <3>2, <3>3, <3>4, <3>6
  <2> QED  BY <2>10, <2>11
<1>9. Sizes'
  <2>1. SizesRight'  BY <1>1, <1>8 DEF SizesRight, NotedInv, TypeInv, DataTypes
  <2>2. dataSize' = [a \in Places |-> dataSize'[a]]  BY <1>1
  <2>3. dataSize' \in [Places -> Int]  BY <1>8, <2>2
  <2>4. \A r \in unborn' : size'[r] = 0  BY <1>1 DEF NotedInv, Sizes
  <2> QED  BY <2>1, <2>3, <2>4 DEF Sizes
<1>10. LimitsRight'
  <2> SUFFICES ASSUME NEW a \in allocs, a \notin crowded' PROVE recCount'[a] <= RecLimit[a]
    BY <1>1 DEF LimitsRight
  <2>1. a \in Places /\ a \notin crowded  BY DEF Noting, NotedInv, TypeInv, DataTypes
  <2>2. recCount[a] <= RecLimit[a]  BY <2>1 DEF NotedInv, Rooms, LimitsRight
  <2>3. CASE recCount'[a] > recCount[a]
    <3>1. ~NotKept(a)  BY <2>1, <2>3 DEF Noting, Filled
    <3>2. job[t].dst = a  BY <1>5, <3>1 DEF NotKept
    <3>3. recCount[a] + Cardinality(C) <= RecLimit[a]
      BY <1>2, <2>1, <3>2 DEF NotedInv, Rooms, Room, C
    <3>4. Cardinality(To(t, a)) <= Cardinality(C) /\ Cardinality(To(t, a)) \in Nat
      BY <1>3, <1>6, <1>7, FS_Subset
    <3>5. Cardinality(From(t, a)) \in Nat /\ Cardinality(C) \in Nat  BY <1>3, <1>6, <1>7
    <3>6. recCount'[a] = recCount[a] - Cardinality(From(t, a)) + Cardinality(To(t, a))
      BY <1>1, <2>1
    <3> QED  BY <2>1, <3>3, <3>4, <3>5, <3>6, IntCounts
  <2>4. CASE ~(recCount'[a] > recCount[a])  BY <2>1, <2>2, <2>4, IntCounts
  <2> QED  BY <2>3, <2>4
<1>11. OnlyTask(t)  BY <1>1 DEF OnlyTask, NotedInv, TypeInv, TaskTypes
<1>12. AtCommand(t)'  BY <1>1 DEF AtCommand
<1>13. ~HasLooked(t)'
  <2>1. Base(t) \in 1..2 /\ Base(t)' = Base(t)  BY <1>1 DEF Base
  <2> DEFINE n == step[t] - Base(t)
  <2>2. n \in Int /\ n % 4 = 2 /\ (step[t] - Base(t))' = n + 1
    BY <1>1, <1>5, <2>1 DEF Substep
  <2> HIDE DEF n
  <2>3. (n + 1) % 4 = 3  BY <2>2
  <2>4. Substep(t)' = 3  BY <2>2, <2>3 DEF Substep
  <2> QED  BY <2>4 DEF HasLooked
<1> QED  BY <1>1, <1>9, <1>10, <1>11, <1>12, <1>13, RoomsStay

\* The other steps of a task leave records and allocations alone, and its plan
\* and step too, ...
Rests(t) ==
  /\ UNCHANGED <<loc, size, unborn, recCount, dataSize, job, step, steps, xfr>>
  /\ allocs' \subseteq allocs
  /\ \E z \in Stages : at' = [at EXCEPT ![t] = z]
  /\ at[t] \notin {"none", "over"}

LEMMA RestsBooks ==
  ASSUME NotedInv, TypeInv', Noting, NEW t \in Tasks, Rests(t),
         at'[t] = "cmd" /\ job[t].kind \in Moves => Moving(t) /\ Substep(t) \in {1, 3},
         at'[t] = "done" => at[t] = "cmd"
  PROVE  Sizes' /\ Rooms'
<1>1. UNCHANGED <<Moving(t), Substep(t), Current(t)>>  BY SameStep DEF Rests
<1>2. OnlyTask(t)  BY DEF OnlyTask, Rests, NotedInv, TypeInv, TaskTypes
<1>3. AtCommand(t)'  BY <1>1 DEF AtCommand, Rests, NotedInv, Rooms
<1>4. HasLooked(t)' => HasLooked(t)  BY <1>1 DEF HasLooked, Active, Rests
<1>5. \A a : Stored(a)' = Stored(a)  BY DEF Rests, Stored, Live, Place
<1> QED  BY <1>1, <1>2, <1>3, <1>4, <1>5, BooksAlone DEF Rests

\* ... or take it to a step before the look, or behind the use, of a chunk.
Passes(t) ==
  /\ UNCHANGED <<loc, size, unborn, recCount, dataSize, job>>
  /\ allocs' \subseteq allocs
  /\ OnlyTask(t) /\ at'[t] \notin {"cmd", "done"}
  /\ at'[t] \in {"none", "over"} \/ step'[t] < Base(t) \/ step'[t] = Base(t)

LEMMA PassesBooks ==
  ASSUME NotedInv, TypeInv', Noting, NEW t \in Tasks, Passes(t)
  PROVE  Sizes' /\ Rooms'
<1>1. Base(t)' = Base(t)  BY DEF Passes, Base
<1>2. ~HasLooked(t)'
  <2>1. CASE Active(t)'  BY <1>1, <2>1, NotMoving DEF Passes, Active
  <2> QED  BY <2>1 DEF HasLooked
<1>3. AtCommand(t)'  BY DEF Passes, AtCommand
<1>4. \A a : Stored(a)' = Stored(a)  BY DEF Passes, Stored, Live, Place
<1> QED  BY <1>2, <1>3, <1>4, BooksAlone DEF Passes

LEMMA ConfirmBooks ==
  ASSUME NotedInv, TypeInv', Noting, NEW t \in Tasks, Confirm(t)
  PROVE  Sizes' /\ Rooms'
<1>1. /\ at[t] = "done"
      /\ step' = [step EXCEPT ![t] = @ + 1] /\ at' = [at EXCEPT ![t] = "run"]
      /\ UNCHANGED <<loc, size, unborn, allocs, recCount, dataSize, job, xfr, steps>>
  BY DEF Confirm, GoTo, recVars, allocVars, taskVars
<1>2. OnlyTask(t)  BY <1>1 DEF OnlyTask, NotedInv, TypeInv, TaskTypes
<1>3. AtCommand(t)'  BY <1>1 DEF AtCommand, NotedInv, TypeInv, TaskTypes
<1>4. \A a : Stored(a)' = Stored(a)  BY <1>1 DEF Stored, Live, Place
<1>5. ASSUME HasLooked(t)' PROVE HasLooked(t) /\ Current(t)' = Current(t)
  <2>1. job[t].kind \in Moves  BY <1>1, <1>5 DEF HasLooked, Moving
  <2>2. Moving(t) /\ Substep(t) \in {1, 3} /\ Active(t)
    BY <1>1, <2>1 DEF NotedInv, Rooms, AtCommand, Active
  <2>3. /\ step[t] \in Int /\ Base(t) \in 1..2 /\ step'[t] = step[t] + 1
        /\ UNCHANGED <<Base(t), xfr[t]>>
    BY <1>1 DEF Base, NotedInv, TypeInv, TaskTypes
  <2> DEFINE n == step[t] - Base(t)
  <2>4. n \in Int /\ (step[t] - Base(t))' = n + 1  BY <2>3
  <2> HIDE DEF n
  <2>5. Substep(t) = n % 4 /\ Substep(t)' = (n + 1) % 4  BY <2>4 DEF Substep, n
  <2>6. Substep(t)' \in {1, 2}  BY <1>5 DEF HasLooked
  <2>7. n % 4 = 1
    <3>1. n % 4 = 3 => (n + 1) % 4 = 0  BY <2>4
    <3> QED  BY <2>2, <2>5, <2>6, <3>1
  <2>8. (n + 1) \div 4 = n \div 4  BY <2>4, <2>7
  <2>9. Current(t)' = Current(t)  BY <2>3, <2>4, <2>8 DEF Current, n
  <2>10. HasLooked(t)  BY <2>2, <2>5, <2>7 DEF HasLooked
  <2> QED  BY <2>9, <2>10
<1> QED  BY <1>1, <1>2, <1>3, <1>4, <1>5, BooksAlone

LEMMA RunBooks ==
  ASSUME NotedInv, TypeInv', Noting, NEW t \in Tasks, Run(t)
  PROVE  Sizes' /\ Rooms'
<1> USE DEF recVars, allocVars, taskVars, Stages
<1>0. at \in [Tasks -> Stages] /\ step \in [Tasks -> Int]  BY DEF NotedInv, TypeInv, TaskTypes
<1>1. CASE InitMove(t)  BY <1>1, InitMoveBooks
<1>2. CASE FiniMove(t)  BY <1>2, FiniMoveBooks
<1>3. CASE EraseRecords(t)  BY <1>3, EraseBooks
<1>4. CASE UpdateSize(t)  BY <1>4, UpdateSizeBooks
<1>5. CASE Rollback(t)  BY <1>5, RollbackBooks
<1>6. CASE Confirm(t)  BY <1>6, ConfirmBooks
<1>7. CASE Begin(t)
  <2>1. Rests(t) /\ at'[t] = "run"  BY <1>0, <1>7 DEF Begin, Rests, GoTo
  <2> QED  BY <2>1, RestsBooks
<1>8. CASE RemoveAlloc(t)
  <2>1. Rests(t) /\ at'[t] = "cmd"  BY <1>0, <1>8 DEF RemoveAlloc, Rests, GoTo, Called
  <2>2. job[t].kind \notin Moves  BY <1>8 DEF RemoveAlloc, Moves
  <2> QED  BY <2>1, <2>2, RestsBooks
<1>9. CASE Issue(t)
  <2>1. Rests(t) /\ at'[t] = "cmd"  BY <1>0, <1>9 DEF Issue, Rests, GoTo, Called
  <2>2. job[t].kind \in Moves => Moving(t) /\ Substep(t) \in {1, 3}
    BY <1>9 DEF Issue, Moves, TransferDue, SizeDue, DeleteDue
  <2> QED  BY <2>1, <2>2, RestsBooks
<1>10. CASE TransferOk(t)
  <2>1. Rests(t) /\ at'[t] = "done" /\ at[t] = "cmd"
    BY <1>0, <1>10 DEF TransferOk, Rests, Outcome, GoTo
  <2> QED  BY <2>1, RestsBooks
<1>11. CASE TransferFails(t)
  <2>1. Rests(t) /\ at'[t] = "run"  BY <1>0, <1>11 DEF TransferFails, Rests, Outcome, GoTo
  <2> QED  BY <2>1, RestsBooks
<1>12. CASE TransferRefused(t)
  <2>1. Rests(t) /\ at'[t] = "run"  BY <1>0, <1>12 DEF TransferRefused, Rests, Outcome, GoTo
  <2> QED  BY <2>1, RestsBooks
<1>13. CASE SizeFails(t)
  <2>1. Rests(t) /\ at'[t] = "run"  BY <1>0, <1>13 DEF SizeFails, Rests, Outcome, GoTo
  <2> QED  BY <2>1, RestsBooks
<1>14. CASE Delete(t)
  <2>1. /\ Rests(t) /\ at[t] = "cmd" /\ at'[t] \in {"run", "done"}
    BY <1>0, <1>14 DEF Delete, Rests, Outcome, GoTo
  <2> QED  BY <2>1, RestsBooks
<1>15. CASE Repeat(t)
  <2>1. Rests(t) /\ at'[t] = "run"  BY <1>0, <1>15 DEF Repeat, Rests, Outcome, GoTo
  <2> QED  BY <2>1, RestsBooks
<1>16. CASE Cut(t)
  <2>1. Rests(t) /\ at'[t] = "run"  BY <1>0, <1>16 DEF Cut, Rests, Outcome, GoTo
  <2> QED  BY <2>1, RestsBooks
<1>17. CASE RollbackFails(t)
  <2>1. Rests(t) /\ at'[t] = "undone"  BY <1>0, <1>17 DEF RollbackFails, Rests, GoTo, Called
  <2> QED  BY <2>1, RestsBooks
<1> USE DEF Passes, OnlyTask, Base
<1>18. CASE Setup(t)
  <2>1. Passes(t)  BY <1>0, <1>18 DEF Setup, Called
  <2> QED  BY <2>1, PassesBooks
<1>19. CASE MoveExternal(t)
  <2>1. Passes(t)  BY <1>0, <1>19 DEF MoveExternal, Called
  <2> QED  BY <2>1, PassesBooks
<1>20. CASE Finish(t)
  <2>1. Passes(t)  BY <1>0, <1>20 DEF Finish, End, GoTo
  <2> QED  BY <2>1, PassesBooks
<1>21. CASE Complete(t)
  <2>1. Passes(t)  BY <1>0, <1>21 DEF Complete, End, GoTo
  <2> QED  BY <2>1, PassesBooks
<1>22. CASE Throw(t)
  <2>1. step'[t] = (IF step[t] > 0 THEN -step[t] ELSE step[t]) /\ step[t] \in Int
    BY <1>0, <1>22 DEF Throw
  <2>2. step'[t] < Base(t)  BY <2>1
  <2>3. Passes(t)  BY <1>0, <1>22, <2>2 DEF Throw, GoTo
  <2> QED  BY <2>3, PassesBooks
<1> QED  BY <1>1, <1>2, <1>3, <1>4, <1>5, <1>6, <1>7, <1>8, <1>9, <1>10, <1>11, <1>12,
           <1>13, <1>14, <1>15, <1>16, <1>17, <1>18, <1>19, <1>20, <1>21, <1>22 DEF Run

LEMMA NotedNext == NotedInv /\ [Next]_vars => NotedInv'
<1> SUFFICES ASSUME NotedInv, [Next]_vars PROVE NotedInv'  OBVIOUS
<1>1. TypeInv /\ BooksInv  BY DEF NotedInv
<1>2. Noting  BY <1>1, StepNotes
<1>3. TypeInv' /\ BooksInv'  BY <1>1, TypeStep, BooksStep
<1>4. ASSUME NEW r \in Recs, NEW a \in Places, CreateRecord(r, a) PROVE Sizes' /\ Rooms'
  BY <1>2, <1>3, <1>4, CreateRecordBooks
<1>5. ASSUME NEW t \in Tasks, Request(t) PROVE Sizes' /\ Rooms'
  BY <1>2, <1>3, <1>5, RequestBooks
<1>6. ASSUME NEW t \in Tasks, Run(t) PROVE Sizes' /\ Rooms'
  BY <1>2, <1>3, <1>6, RunBooks
<1>7. ASSUME UNCHANGED vars PROVE Sizes' /\ Rooms'
  <2>1. UNCHANGED <<loc, size, unborn, allocs, recCount, dataSize, job, xfr, step, steps, at,
                    stale, crowded>>
    BY <1>7 DEF vars, recVars, allocVars, taskVars, runVars
  <2>2. \A a : Stored(a)' = Stored(a)  BY <2>1 DEF Stored, Live, Place
  <2>3. Sizes'  BY <2>1, <2>2 DEF NotedInv, Sizes, SizesRight
  <2>4. ASSUME NEW u \in Tasks PROVE AtCommand(u)' /\ Room(u)'
    <3>1. UNCHANGED <<Moving(u), Substep(u), Current(u)>>  BY <2>1, SameStep
    <3> QED  BY <2>1, <3>1 DEF NotedInv, Rooms, AtCommand, Room, HasLooked, Active
  <2>5. LimitsRight'  BY <2>1 DEF NotedInv, Rooms, LimitsRight
  <2> QED  BY <2>3, <2>4, <2>5 DEF Rooms
<1>8. Sizes' /\ Rooms'
  <2>1. CASE Next  BY <1>4, <1>5, <1>6, <2>1 DEF Next
  <2> QED  BY <1>7, <2>1
<1> QED  BY <1>3, <1>8 DEF NotedInv

\* Whatever tasks and records there are, and whatever is repeated, cut off, fails or is
\* rolled back: an allocation is charged for what it stores unless a record put since
\* its move was asked for came or went, and holds no more records than it may unless
\* records came for which no room was kept (recMoveInit, recMoveFini,
\* _deleteDataRecords, recordCreate, /update/size).
THEOREM AllocsStay == Spec => []AllocsKept
<1>1. Init => NotedInv  BY TypeInit, BooksInit, InitBooks DEF NotedInv
<1>2. NotedInv => AllocsKept
  BY DEF NotedInv, Sizes, SizesRight, Rooms, LimitsRight, AllocsKept
<1> QED  BY <1>1, <1>2, NotedNext, PTL DEF Spec

-----------------------------------------------------------------------------
\* The moves, under the conditions of CleanNext and whatever fails or is repeated.
\* The step of chunk i of a move at which the record is marked.
ChunkStep(t, i) == Base(t) + 4 * (i - 1)

\* A record that is still to be moved, that is marked, and that has arrived.
Unmoved(l, k, d) == /\ k = "alloc_chg" => l.uid = d[1] /\ l.repo # d[2]
                    /\ k = "owner_chg" => l.uid # d[1]
OnWay(l, k, d) == l.newRepo = d[2] /\ (k = "owner_chg" => l.newOwner = d[1])

\* Chunk i of a move, of which q is the plan.
ChunkOK(t, q, i) ==
  LET n == step[t] - ChunkStep(t, i)
      d == job[t].dst
  IN /\ q.recs \subseteq job[t].recs
     /\ q.src # d
     /\ \A r \in q.recs :
          /\ n <= 2 => Unmoved(loc[r], job[t].kind, d)
          /\ n \in {1, 2} => OnWay(loc[r], job[t].kind, d)
          /\ n >= 3 => Place(loc[r]) = d
          /\ n >= 2 \/ (n = 1 /\ at[t] = "done") => size[r] = 0 \/ disk[r][d] # NoFile

PlanOK(t) ==
  /\ \A i \in 1..Len(xfr[t]) : ChunkOK(t, xfr[t][i], i)
  /\ \A r \in job[t].recs : \E i \in 1..Len(xfr[t]) : r \in xfr[t][i].recs
  /\ \A i, j \in 1..Len(xfr[t]) : i # j => xfr[t][i].recs \cap xfr[t][j].recs = {}

MoveOK(t) ==
  /\ job[t].recs \subseteq Live
  /\ \A r \in job[t].recs : job[t].size[r] = size[r]
  /\ step[t] = 0 => \A r \in job[t].recs : Unmoved(loc[r], job[t].kind, job[t].dst)
  /\ step[t] >= 1 => PlanOK(t)
  /\ step[t] # 0 => \A i \in 1..Len(xfr[t]) : xfr[t][i].recs \subseteq job[t].recs
  /\ at[t] \in {"cmd", "done"} => Moving(t) /\ Substep(t) \in {1, 3}

PutOK(t) ==
  /\ job[t].recs \subseteq Live
  /\ step[t] >= 1 => \A i \in 1..Len(xfr[t]), r \in job[t].recs :
                        xfr[t][i].recs \subseteq job[t].recs /\ xfr[t][i].src = Place(loc[r])

DeletionOK(t) ==
  /\ step[t] # 0 => job[t].recs \cap Live = {}
  /\ \A i \in 1..Len(xfr[t]) : xfr[t][i].recs \subseteq job[t].recs

AllocDelOK(t) == job[t].recs = {} /\ Stored(job[t].dst) = {}

JobOK(t) == /\ job[t].recs \cap unborn = {}
            /\ job[t].kind \in Moves => MoveOK(t)
            /\ job[t].kind = "put" => PutOK(t)
            /\ job[t].kind = "rec_del" => DeletionOK(t)
            /\ job[t].kind = "alloc_del" => AllocDelOK(t)

Apart == \A t, u \in Tasks : t # u /\ Active(t) /\ Active(u) =>
           /\ job[t].recs \cap job[u].recs = {}
           /\ job[t].dst = None \/ job[u].dst # job[t].dst

Kept == DataKept /\ \A r \in unborn : size[r] = 0

MoveInv == Kept /\ Apart /\ \A t \in Tasks : Active(t) => JobOK(t)

CInv == TypeInv /\ BooksInv /\ MoveInv

\* What a step of t may do to records and allocations.
Frame(t) ==
  /\ OnlyTask(t) /\ UNCHANGED <<job, unborn>>
  /\ \A r \in Recs \ job[t].recs : loc'[r] = loc[r] /\ size'[r] = size[r]
  /\ \A r \in Recs \ job[t].recs, a \in Places : a # job[t].dst => disk'[r][a] = disk[r][a]
  /\ \A r \in job[t].recs : \/ loc'[r] = None
                            \/ /\ loc[r] # None
                               /\ Place(loc'[r]) \in {Place(loc[r]), job[t].dst}

\* What a step that concerns the records R and the allocation d may do for a task u
\* that has to do with neither.
Leaves(u, R, d) ==
  /\ UNCHANGED <<job[u], at[u], step[u], steps[u], xfr[u]>> /\ unborn' \subseteq unborn
  /\ R \cap job[u].recs = {} /\ (job[u].dst # None => job[u].dst # d)
  /\ \A r \in Recs \ R : loc'[r] = loc[r] /\ size'[r] = size[r]
  /\ \A r \in Recs \ R, a \in Places : a # d => disk'[r][a] = disk[r][a]
  /\ \A r \in R : \/ loc'[r] = None
                  \/ Place(loc'[r]) = d
                  \/ (loc[r] # None /\ Place(loc'[r]) = Place(loc[r]))

LEMMA FrameChunk ==
  ASSUME CInv, TypeInv', NEW u \in Tasks, Active(u), NEW R, NEW d, Leaves(u, R, d),
         job[u].kind \in Moves, NEW q, NEW i \in Nat, ChunkOK(u, q, i)
  PROVE  ChunkOK(u, q, i)'
<1>1. /\ job[u].recs \in SUBSET Recs /\ job[u].recs \cap R = {}
      /\ job[u].dst \in Places /\ job[u].dst # d
  BY ActiveTask DEF CInv, Leaves, Moves
<1>2. UNCHANGED <<job[u], at[u], step[u]>>  BY DEF Leaves
<1>4. \A r \in job[u].recs : /\ loc'[r] = loc[r] /\ size'[r] = size[r]
                             /\ disk'[r][job[u].dst] = disk[r][job[u].dst]
  BY <1>1 DEF Leaves
<1>5. q.recs \subseteq job[u].recs  BY DEF ChunkOK
<1>6. \A r \in q.recs : Place(loc[r])' = Place(loc[r])  BY <1>4, <1>5 DEF Place
<1>7. ChunkStep(u, i)' = ChunkStep(u, i)  BY <1>2 DEF ChunkStep, Base
<1> QED  BY <1>2, <1>4, <1>5, <1>6, <1>7 DEF ChunkOK, Unmoved, OnWay

LEMMA FrameJob ==
  ASSUME CInv, TypeInv', NEW u \in Tasks, Active(u), NEW S, NEW e, Leaves(u, S, e)
  PROVE  JobOK(u)'
<1> DEFINE R == job[u].recs  d == job[u].dst
<1>1. JobOK(u) /\ R \cap S = {} /\ (d # None => d # e)
  BY DEF CInv, MoveInv, Leaves
<1>2. UNCHANGED <<job[u], at[u], step[u], steps[u], xfr[u]>> /\ unborn' \subseteq unborn
  BY DEF Leaves
<1>3. R \in SUBSET Recs /\ Len(xfr[u]) \in Nat
  BY ActiveTask DEF CInv
<1>4. \A r \in R : loc'[r] = loc[r] /\ size'[r] = size[r]  BY <1>1, <1>3 DEF Leaves
<1>5. \A r \in R : Place(loc[r])' = Place(loc[r])  BY <1>4 DEF Place
<1>6. R \cap Live' = R \cap Live  BY <1>3, <1>4 DEF Live
<1>7. R \cap unborn' = {}  BY <1>1, <1>2 DEF JobOK
<1>8. CASE job[u].kind \in Moves
  <2>1. MoveOK(u)  BY <1>1, <1>8 DEF JobOK
  <2>2. step[u] >= 1 => PlanOK(u)'
    <3> SUFFICES ASSUME step[u] >= 1 PROVE PlanOK(u)'  OBVIOUS
    <3>1. PlanOK(u)  BY <2>1 DEF MoveOK
    <3>2. ASSUME NEW i \in 1..Len(xfr[u]) PROVE ChunkOK(u, xfr[u][i], i)'
      <4>1. ChunkOK(u, xfr[u][i], i) /\ i \in Nat  BY <1>3, <3>1 DEF PlanOK
      <4>2. PICK q : q = xfr[u][i] /\ q = xfr'[u][i]  BY <1>2
      <4>3. ChunkOK(u, q, i)'  BY <1>8, <4>1, <4>2, FrameChunk
      <4> QED  BY <4>2, <4>3 DEF ChunkOK
    <3> QED  BY <1>2, <3>1, <3>2 DEF PlanOK
  <2>3. MoveOK(u)'
    <3>1. (R \subseteq Live)'  BY <1>2, <1>6, <2>1 DEF MoveOK
    <3>2. \A r \in R : /\ job'[u].size[r] = size'[r]
                       /\ step[u] = 0 => Unmoved(loc'[r], job'[u].kind, job'[u].dst)
      BY <1>2, <1>4, <2>1 DEF MoveOK
    <3>3. at[u] \in {"cmd", "done"} => (Moving(u) /\ Substep(u) \in {1, 3})'
      BY <1>2, <2>1 DEF MoveOK, Moving, Substep, Base
    <3>4. step[u] # 0 => \A i \in 1..Len(xfr[u]) : xfr[u][i].recs \subseteq R
      BY <2>1 DEF MoveOK
    <3> QED  BY <1>2, <2>2, <3>1, <3>2, <3>3, <3>4 DEF MoveOK
  <2> QED  BY <1>2, <1>7, <1>8, <2>3 DEF JobOK, Moves
<1>9. CASE job[u].kind = "put"
  <2>1. PutOK(u)  BY <1>1, <1>9 DEF JobOK
  <2>2. PutOK(u)'  BY <1>2, <1>5, <1>6, <2>1 DEF PutOK
  <2> QED  BY <1>2, <1>7, <1>9, <2>2 DEF JobOK, Moves
<1>10. CASE job[u].kind = "rec_del"
  <2>1. DeletionOK(u)  BY <1>1, <1>10 DEF JobOK
  <2>2. DeletionOK(u)'  BY <1>2, <1>6, <2>1 DEF DeletionOK
  <2> QED  BY <1>2, <1>7, <1>10, <2>2 DEF JobOK, Moves
<1>11. CASE job[u].kind = "alloc_del"
  <2>1. AllocDelOK(u) /\ d # None
    BY <1>1, <1>11, ActiveTask DEF JobOK, CInv
  <2>2. ASSUME NEW r \in Stored(d)' PROVE FALSE
    <3>1. r \in Recs /\ loc'[r] # None /\ Place(loc'[r]) = d
      BY <1>2, <2>2 DEF Stored, Live, Place
    <3>2. loc[r] # None /\ Place(loc[r]) = d
      BY <1>1, <2>1, <3>1 DEF Leaves
    <3> QED  BY <2>1, <3>1, <3>2 DEF AllocDelOK, Stored, Live
  <2>3. AllocDelOK(u)'
    <3>1. Stored(d)' = {}  BY <2>2
    <3> QED  BY <1>2, <2>1, <3>1 DEF AllocDelOK
  <2> QED  BY <1>2, <1>7, <1>11, <2>3 DEF JobOK, Moves
<1>12. job[u].kind \in AllKinds  BY ActiveTask DEF CInv
<1> QED  BY <1>8, <1>9, <1>10, <1>11, <1>12 DEF AllKinds, Moves

LEMMA FrameKeeps ==
  ASSUME CInv, TypeInv', NEW t \in Tasks, Active(t), Frame(t), Kept',
         Active(t)' => JobOK(t)'
  PROVE  MoveInv'
<1>1. \A u \in Tasks : Active(u)' => Active(u)  BY DEF Active, Frame, OnlyTask
<1>2. Apart'
  <2>1. Apart /\ job' = job  BY DEF CInv, MoveInv, Frame
  <2> QED  BY <1>1, <2>1 DEF Apart
<1>3. ASSUME NEW u \in Tasks, Active(u)' PROVE JobOK(u)'
  <2>1. CASE u = t  BY <1>3, <2>1
  <2>2. CASE u # t
    <3>1. Active(u)  BY <1>1, <1>3
    <3>2. Leaves(u, job[t].recs, job[t].dst)
      <4>1. job[t].recs \cap job[u].recs = {}
        BY <2>2, <3>1 DEF CInv, MoveInv, Apart
      <4>2. job[u].dst # None => job[u].dst # job[t].dst
        BY <2>2, <3>1 DEF CInv, MoveInv, Apart
      <4>3. UNCHANGED <<job[u], at[u], step[u], steps[u], xfr[u]>>
        BY <2>2 DEF Frame, OnlyTask
      <4>4. \A r \in job[t].recs : \/ loc'[r] = None
                                   \/ Place(loc'[r]) = job[t].dst
                                   \/ (loc[r] # None /\ Place(loc'[r]) = Place(loc[r]))
        BY DEF Frame
      <4> QED  BY <4>1, <4>2, <4>3, <4>4 DEF Leaves, Frame
    <3> QED  BY <3>1, <3>2, FrameJob
  <2> QED  BY <2>1, <2>2
<1> QED  BY <1>2, <1>3 DEF MoveInv

\* Steps that only go on.
Quiet(t) == /\ OnlyTask(t) /\ allocs' \subseteq allocs
            /\ UNCHANGED <<job, loc, owner, size, unborn, recCount, dataSize, disk>>

LEMMA QuietKeeps ==
  ASSUME CInv, TypeInv', NEW t \in Tasks, Active(t), Quiet(t), Active(t)' => JobOK(t)'
  PROVE  MoveInv'
<1> USE DEF Quiet
<1>2. \A r \in job[t].recs : loc'[r] = None \/ (loc[r] # None /\ Place(loc'[r]) = Place(loc[r]))
  OBVIOUS
<1>3. Frame(t)  BY <1>2 DEF Frame
<1>4. Live' = Live /\ \A a : Stored(a)' = Stored(a)  BY DEF Live, Stored, Place
<1>5. Kept  BY DEF CInv, MoveInv
<1>6. DataKept'  BY <1>4, <1>5 DEF Kept, DataKept, Place
<1>8. Kept'  BY <1>5, <1>6 DEF Kept
<1> QED  BY <1>3, <1>8, FrameKeeps

\* The chunk that a step of a move is about, and the others.
LEMMA CurrentChunk ==
  ASSUME TypeInv, NEW t \in Tasks, Moving(t), Active(t)
  PROVE  \E c \in 1..Len(xfr[t]) :
           /\ Current(t) = xfr[t][c] /\ step[t] - ChunkStep(t, c) = Substep(t)
           /\ \A i \in 1..Len(xfr[t]) : i # c => \/ step[t] - ChunkStep(t, i) < 0
                                                 \/ step[t] - ChunkStep(t, i) >= 4
<1> DEFINE n == step[t] - Base(t)  c == n \div 4 + 1
<1>1. /\ step[t] \in Int /\ Base(t) \in 1..2 /\ n \in Nat
      /\ c \in 1..Len(xfr[t]) /\ Len(xfr[t]) \in Nat
  <2>1. step[t] \in Int /\ Base(t) \in 1..2  BY ActiveTask DEF Base
  <2>2. n \in Nat  BY <2>1, ActiveTask DEF Moving
  <2> QED  BY <2>1, <2>2, InPlan, ActiveTask
<1>2. Current(t) = xfr[t][c]  BY DEF Current
<1>3. Substep(t) = n % 4  BY DEF Substep
<1>4. n = 4 * (n \div 4) + (n % 4) /\ n % 4 \in 0..3 /\ n \div 4 \in Nat
  <2> HIDE DEF n
  <2> QED  BY <1>1
<1>5. n - 4 * (c - 1) = Substep(t) /\ Substep(t) \in 0..3 /\ c \in Nat
  <2> DEFINE e == n \div 4  f == n % 4
  <2>1. n = 4 * e + f /\ f \in 0..3 /\ e \in Nat /\ c = e + 1  BY <1>4
  <2> HIDE DEF n, e, f
  <2>2. f = Substep(t)  BY <1>3 DEF f
  <2> HIDE DEF c
  <2>3. n - 4 * (c - 1) = f /\ c \in Nat  BY <2>1
  <2> QED  BY <2>1, <2>2, <2>3
<1>6. \A i \in Nat : step[t] - ChunkStep(t, i) = n - 4 * (i - 1)
  BY <1>1 DEF ChunkStep
<1> HIDE DEF n, c
<1>7. \A i \in Nat : i # c => n - 4 * (i - 1) < 0 \/ n - 4 * (i - 1) >= 4
  BY <1>1, <1>5
<1>8. \A i \in 1..Len(xfr[t]) : i \in Nat  OBVIOUS
<1> QED  BY <1>1, <1>2, <1>5, <1>6, <1>7, <1>8

LEMMA ChunkStays ==
  ASSUME CInv, NEW t \in Tasks, Quiet(t), NEW q, NEW i, ChunkOK(t, q, i),
         step'[t] = step[t], at'[t] = "done" => at[t] = "done"
  PROVE  ChunkOK(t, q, i)'
BY DEF Quiet, ChunkOK, ChunkStep, Base, Place, Unmoved, OnWay

LEMMA ChunkGoesOn ==
  ASSUME CInv, NEW t \in Tasks, Active(t), Quiet(t), NEW q, NEW i \in Nat, ChunkOK(t, q, i),
         step'[t] = step[t] + 1, at'[t] # "done",
         step[t] - ChunkStep(t, i) \notin {0, 2},
         step[t] - ChunkStep(t, i) = 1 => at[t] = "done"
  PROVE  ChunkOK(t, q, i)'
<1> DEFINE n == step[t] - ChunkStep(t, i)
<1>1. step[t] \in Int /\ Base(t) \in 1..2  BY ActiveTask DEF Base, CInv
<1>2. n \in Int  BY <1>1 DEF ChunkStep
<1>3. ChunkStep(t, i)' = ChunkStep(t, i)  BY DEF ChunkStep, Base, Quiet
<1>4. (step[t] - ChunkStep(t, i))' = n + 1  BY <1>1, <1>3 DEF ChunkStep
<1>5. UNCHANGED <<job, loc, size, recCount, disk>>  BY DEF Quiet
<1>6. n <= -1 \/ (n = 1 /\ at[t] = "done") \/ n >= 3  BY <1>2
<1> HIDE DEF n
<1>7. /\ n + 1 <= 2 => n <= 2
      /\ n + 1 \in {1, 2} => n = 1
      /\ n + 1 >= 3 => n >= 3
      /\ n + 1 >= 2 \/ n + 1 = 1 => n >= 2 \/ (n = 1 /\ at[t] = "done")
  BY <1>2, <1>6
<1>8. /\ q.recs \subseteq job[t].recs /\ q.src # job[t].dst
      /\ \A r \in q.recs :
           /\ n <= 2 => Unmoved(loc[r], job[t].kind, job[t].dst)
           /\ n \in {1, 2} => OnWay(loc[r], job[t].kind, job[t].dst)
           /\ n >= 3 => Place(loc[r]) = job[t].dst
           /\ n >= 2 \/ (n = 1 /\ at[t] = "done") => size[r] = 0 \/ disk[r][job[t].dst] # NoFile
  BY DEF ChunkOK, n
<1> QED  BY <1>4, <1>5, <1>7, <1>8 DEF ChunkOK, Unmoved, OnWay, Place

LEMMA StaysOK ==
  ASSUME CInv, TypeInv', NEW t \in Tasks, Active(t), Quiet(t),
         UNCHANGED <<xfr[t], steps[t], step[t]>>, at'[t] = "done" => at[t] = "done",
         at'[t] = "cmd" /\ job[t].kind \in Moves => Moving(t) /\ Substep(t) \in {1, 3}
  PROVE  MoveInv'
<1>1. JobOK(t)  BY DEF CInv, MoveInv
<1>2. UNCHANGED <<job, loc, size, unborn>> /\ Live' = Live /\ \A a : Stored(a)' = Stored(a)
  BY DEF Quiet, Live, Stored, Place
<1>3. ASSUME job[t].kind \in Moves PROVE MoveOK(t)'
  <2>1. MoveOK(t)  BY <1>1, <1>3 DEF JobOK
  <2>2. step[t] >= 1 => PlanOK(t)'
    <3> SUFFICES ASSUME step[t] >= 1 PROVE PlanOK(t)'  OBVIOUS
    <3>1. PlanOK(t)  BY <2>1 DEF MoveOK
    <3>2. ASSUME NEW i \in 1..Len(xfr[t]) PROVE ChunkOK(t, xfr[t][i], i)'
      <4>1. ChunkOK(t, xfr[t][i], i)  BY <3>1 DEF PlanOK
      <4>2. PICK q : q = xfr[t][i] /\ q = xfr'[t][i]  OBVIOUS
      <4>3. ChunkOK(t, q, i)'  BY <4>1, <4>2, ChunkStays
      <4> QED  BY <4>2, <4>3 DEF ChunkOK
    <3> QED  BY <1>2, <3>1, <3>2 DEF PlanOK
  <2>3. at'[t] \in {"cmd", "done"} => (Moving(t) /\ Substep(t) \in {1, 3})'
    BY <1>2, <1>3, <2>1 DEF MoveOK, Moving, Substep, Base
  <2> QED  BY <1>2, <2>1, <2>2, <2>3 DEF MoveOK, Unmoved
<1>4. job[t].kind = "put" => PutOK(t)'  BY <1>1, <1>2 DEF JobOK, PutOK, Place
<1>5. job[t].kind = "rec_del" => DeletionOK(t)'  BY <1>1, <1>2 DEF JobOK, DeletionOK
<1>6. job[t].kind = "alloc_del" => AllocDelOK(t)'  BY <1>1, <1>2 DEF JobOK, AllocDelOK
<1>7. JobOK(t)'  BY <1>1, <1>2, <1>3, <1>4, <1>5, <1>6 DEF JobOK
<1> QED  BY <1>7, QuietKeeps

\* A task that turns round has no more to do with its plan.
LEMMA TurnsOK ==
  ASSUME CInv, TypeInv', NEW t \in Tasks, Active(t), Quiet(t),
         UNCHANGED xfr[t], step[t] > 0, step'[t] = -step[t], at'[t] \notin {"cmd", "done"}
  PROVE  MoveInv'
<1>1. JobOK(t) /\ step[t] \in Int  BY ActiveTask DEF CInv, MoveInv
<1>2. UNCHANGED <<job, loc, size, unborn>> /\ Live' = Live /\ \A a : Stored(a)' = Stored(a)
  BY DEF Quiet, Live, Stored, Place
<1>3. step'[t] < 0 /\ step[t] # 0  BY <1>1
<1>4. JobOK(t)'
  BY <1>1, <1>2, <1>3 DEF JobOK, MoveOK, PutOK, DeletionOK, AllocDelOK
<1> QED  BY <1>4, QuietKeeps

\* The next step, when it is one that has no step of the database or was taken.
LEMMA AdvanceOK ==
  ASSUME CInv, TypeInv', NEW t \in Tasks, Active(t), Quiet(t),
         UNCHANGED <<xfr[t], steps[t]>>, step[t] >= 1, step'[t] = step[t] + 1, at'[t] = "run",
         job[t].kind \in Moves =>
           \/ step[t] < Base(t)
           \/ Moving(t) /\ (Substep(t) = 3 \/ (Substep(t) = 1 /\ at[t] = "done"))
  PROVE  MoveInv'
<1>1. JobOK(t) /\ step[t] \in Int /\ step'[t] # 0 /\ step'[t] >= 1
  BY ActiveTask DEF CInv, MoveInv
<1>2. UNCHANGED <<job, loc, size, unborn>> /\ Live' = Live /\ \A a : Stored(a)' = Stored(a)
  BY DEF Quiet, Live, Stored, Place
<1>3. ASSUME job[t].kind \in Moves PROVE MoveOK(t)'
  <2>1. MoveOK(t) /\ PlanOK(t)  BY <1>1, <1>3 DEF JobOK, MoveOK
  <2>2. ASSUME NEW i \in 1..Len(xfr[t]) PROVE ChunkOK(t, xfr[t][i], i)'
    <3>1. ChunkOK(t, xfr[t][i], i) /\ i \in Nat
      BY <2>1, ActiveTask DEF PlanOK, CInv
    <3>2. PICK q : q = xfr[t][i] /\ q = xfr'[t][i]  OBVIOUS
    <3>3. /\ step[t] - ChunkStep(t, i) \notin {0, 2}
          /\ step[t] - ChunkStep(t, i) = 1 => at[t] = "done"
      <4>1. CASE step[t] < Base(t)
        <5>1. i >= 1 /\ Base(t) \in 1..2  BY <3>1 DEF Base
        <5>2. step[t] - ChunkStep(t, i) < 0  BY <1>1, <3>1, <4>1, <5>1 DEF ChunkStep
        <5> QED  BY <5>2
      <4>2. CASE Moving(t) /\ (Substep(t) = 3 \/ (Substep(t) = 1 /\ at[t] = "done"))
        <5>1. PICK c \in 1..Len(xfr[t]) :
                /\ step[t] - ChunkStep(t, c) = Substep(t)
                /\ i # c => \/ step[t] - ChunkStep(t, i) < 0
                            \/ step[t] - ChunkStep(t, i) >= 4
          BY <4>2, CurrentChunk DEF CInv
        <5>2. CASE i = c  BY <4>2, <5>1, <5>2
        <5>3. CASE i # c  BY <5>1, <5>3
        <5> QED  BY <5>2, <5>3
      <4> QED  BY <1>3, <4>1, <4>2
    <3>4. ChunkOK(t, q, i)'  BY <3>1, <3>2, <3>3, ChunkGoesOn
    <3> QED  BY <3>2, <3>4 DEF ChunkOK
  <2>3. PlanOK(t)'  BY <1>2, <2>1, <2>2 DEF PlanOK
  <2> QED  BY <1>1, <1>2, <2>1, <2>3 DEF MoveOK
<1>4. job[t].kind = "put" => PutOK(t)'  BY <1>1, <1>2 DEF JobOK, PutOK, Place
<1>5. job[t].kind = "rec_del" => DeletionOK(t)'  BY <1>1, <1>2 DEF JobOK, DeletionOK
<1>6. job[t].kind = "alloc_del" => AllocDelOK(t)'  BY <1>1, <1>2 DEF JobOK, AllocDelOK
<1>7. JobOK(t)'  BY <1>1, <1>2, <1>3, <1>4, <1>5, <1>6 DEF JobOK
<1> QED  BY <1>7, QuietKeeps

LEMMA SetupKeeps ==
  ASSUME CInv, TypeInv', NEW t \in Tasks, Setup(t)
  PROVE  MoveInv'
<1> DEFINE R == job[t].recs  k == job[t].kind  d == job[t].dst
<1>1. /\ at[t] = "run" /\ step[t] = 0 /\ k \in Moves \cup {"put"}
      /\ step' = [step EXCEPT ![t] = 1]
      /\ UNCHANGED <<loc, owner, size, unborn, allocs, recCount, dataSize, disk, job, at>>
  BY DEF Setup, Called, recVars, allocVars, taskVars
<1>2. Active(t)  BY <1>1 DEF Active
<1>3. PICK q \in Plans(R, k = "put") : /\ xfr' = [xfr EXCEPT ![t] = q]
                                       /\ \E n : steps' = [steps EXCEPT ![t] = n]
  BY Zenon DEF Setup
<1>4. JobOK(t)  BY <1>2 DEF CInv, MoveInv
<1>5. R \in SUBSET Recs /\ R \subseteq Live
  BY <1>1, <1>2, <1>4, ActiveTask DEF CInv, JobOK, MoveOK, PutOK
<1>6. R \cap Live = R  BY <1>5
<1>7. IsPlan(q, R)
  <2>1. IsPlan(q, R \cap Live)  BY <1>5, PlansArePlans DEF CInv, TypeInv, DataTypes
  <2> QED  BY <1>6, <2>1
<1>8. xfr'[t] = q /\ step'[t] = 1 /\ Quiet(t)
  BY <1>1, <1>3 DEF Quiet, OnlyTask, CInv, TypeInv, TaskTypes
<1>9. Live' = Live  BY <1>1 DEF Live
<1>10. Len(q) \in Nat /\ \A i \in 1..Len(q) : i \in Nat /\ i >= 1
  BY <1>7, LenProperties DEF IsPlan
<1>11. ASSUME k \in Moves PROVE MoveOK(t)'
  <2>1. \A r \in R : Unmoved(loc[r], k, d)  BY <1>1, <1>4, <1>11 DEF JobOK, MoveOK
  <2>3. ASSUME NEW i \in 1..Len(q) PROVE ChunkOK(t, q[i], i)'
    <3>1. PICK r \in R : q[i].src = <<loc[r].uid, loc[r].repo>>  BY <1>7 DEF IsPlan
    <3>2. q[i].src # d
      BY <1>11, <2>1, <3>1 DEF Unmoved, Moves
    <3>3. (step[t] - ChunkStep(t, i))' <= 0
      <4>1. Base(t)' \in 1..2  BY DEF Base
      <4> QED  BY <1>8, <1>10, <4>1 DEF ChunkStep
    <3>4. (step[t] - ChunkStep(t, i))' \in Int
      <4>1. Base(t)' \in 1..2  BY DEF Base
      <4> QED  BY <1>8, <1>10, <4>1 DEF ChunkStep
    <3>5. q[i].recs \subseteq R  BY <1>7 DEF IsPlan
    <3>6. \A r0 \in q[i].recs : Unmoved(loc[r0], k, d)'
      BY <1>1, <2>1, <3>5 DEF Unmoved
    <3>7. job' = job  BY <1>1
    <3> QED  BY <3>2, <3>3, <3>4, <3>5, <3>6, <3>7 DEF ChunkOK
  <2>4. \A i \in 1..Len(xfr'[t]) : ChunkOK(t, xfr[t][i], i)'
    <3> SUFFICES ASSUME NEW i \in 1..Len(q) PROVE ChunkOK(t, xfr[t][i], i)'  BY <1>8
    <3>1. PICK x : x = q[i]  OBVIOUS
    <3>2. ChunkOK(t, x, i)'  BY <2>3, <3>1
    <3>3. xfr'[t][i] = x  BY <1>8, <3>1
    <3> QED  BY <3>2, <3>3 DEF ChunkOK
  <2>5. PlanOK(t)'
    <3>1. \A r \in R : \E i \in 1..Len(q) : r \in q[i].recs  BY <1>7 DEF IsPlan
    <3>2. \A i, j \in 1..Len(q) : i # j => q[i].recs \cap q[j].recs = {}  BY <1>7 DEF IsPlan
    <3>3. job' = job  BY <1>1
    <3> QED  BY <1>8, <2>4, <3>1, <3>2, <3>3 DEF PlanOK
  <2>6. MoveOK(t)  BY <1>4, <1>11 DEF JobOK
  <2>7. \A i \in 1..Len(q) : q[i].recs \subseteq R  BY <1>7 DEF IsPlan
  <2> QED  BY <1>1, <1>8, <1>9, <2>5, <2>6, <2>7 DEF MoveOK
<1>12. ASSUME k = "put" PROVE PutOK(t)'
  <2>1. PICK r0 : R = {r0}  BY <1>2, <1>12, ActiveTask DEF CInv
  <2>2. \A i \in 1..Len(q) : /\ q[i].recs \subseteq R
                             /\ \E r \in R : q[i].src = <<loc[r].uid, loc[r].repo>>
    BY <1>7 DEF IsPlan
  <2>3. \A i \in 1..Len(q), r \in R : q[i].src = Place(loc[r])
    BY <2>1, <2>2 DEF Place
  <2>4. \A i \in 1..Len(q), r \in R : q[i].recs \subseteq R /\ q[i].src = Place(loc'[r])
    BY <1>1, <2>2, <2>3
  <2> QED  BY <1>1, <1>5, <1>8, <1>9, <2>4 DEF PutOK, Place
<1>13. R \cap unborn = {}  BY <1>4 DEF JobOK
<1>14. JobOK(t)'  BY <1>1, <1>11, <1>12, <1>13 DEF JobOK, Moves
<1> QED  BY <1>2, <1>8, <1>14, QuietKeeps

\* The steps that change no record, allocation or file.
LEMMA QuietRun ==
  ASSUME CInv, TypeInv', NEW t \in Tasks,
         \/ Begin(t) \/ MoveExternal(t) \/ RemoveAlloc(t) \/ Issue(t) \/ Finish(t)
         \/ TransferRefused(t) \/ SizeFails(t) \/ Confirm(t) \/ Repeat(t) \/ Cut(t)
         \/ Throw(t) \/ RollbackFails(t) \/ Complete(t)
  PROVE  MoveInv'
<1> USE DEF Quiet, OnlyTask, recVars, allocVars, taskVars, CInv, TypeInv, TaskTypes
<1>1. CASE Begin(t)
  <2>1. Active(t) /\ Quiet(t) /\ at'[t] = "run" /\ UNCHANGED <<xfr, steps, step>>
    BY <1>1 DEF Begin, GoTo, Active
  <2> QED  BY <2>1, StaysOK
<1>2. CASE MoveExternal(t)
  <2>1. /\ Active(t) /\ Quiet(t) /\ at'[t] = "run" /\ UNCHANGED <<xfr, steps>>
        /\ step[t] = 1 /\ step'[t] = 2 /\ Base(t) = 2
    BY <1>2 DEF MoveExternal, Called, Active, Base
  <2>2. step[t] >= 1 /\ step[t] < Base(t) /\ step'[t] = step[t] + 1  BY <2>1
  <2> HIDE DEF Quiet, OnlyTask, CInv, TypeInv
  <2> QED  BY <2>1, <2>2, AdvanceOK
<1>3. CASE RemoveAlloc(t)
  <2>1. /\ Active(t) /\ Quiet(t) /\ at'[t] = "cmd" /\ UNCHANGED <<xfr, steps, step>>
        /\ job[t].kind \notin Moves
    BY <1>3 DEF RemoveAlloc, Called, GoTo, Active, Moves
  <2> QED  BY <2>1, StaysOK
<1>4. CASE Issue(t)
  <2>1. /\ Active(t) /\ Quiet(t) /\ at'[t] = "cmd" /\ UNCHANGED <<xfr, steps, step>>
    BY <1>4 DEF Issue, Called, GoTo, Active
  <2>2. job[t].kind \in Moves => Moving(t) /\ Substep(t) \in {1, 3}
    BY <1>4 DEF Issue, TransferDue, DeleteDue, SizeDue, Moves
  <2> QED  BY <2>1, <2>2, StaysOK
<1>5. CASE Finish(t) \/ Complete(t)
  <2>1. /\ Active(t) /\ Quiet(t) /\ at'[t] = "over"
    BY <1>5 DEF Finish, Complete, Called, End, GoTo, Active, Stages
  <2>2. ~Active(t)'  BY <2>1 DEF Active
  <2> QED  BY <2>1, <2>2, QuietKeeps
<1>6. CASE TransferRefused(t) \/ SizeFails(t) \/ Repeat(t) \/ Cut(t)
  <2>1. /\ Active(t) /\ Quiet(t) /\ at'[t] = "run" /\ UNCHANGED <<xfr, steps, step>>
    BY <1>6 DEF TransferRefused, SizeFails, Repeat, Cut, Outcome, GoTo, Active
  <2> QED  BY <2>1, StaysOK
<1>7. CASE RollbackFails(t)
  <2>1. /\ Active(t) /\ Quiet(t) /\ at'[t] = "undone" /\ UNCHANGED <<xfr, steps, step>>
    BY <1>7 DEF RollbackFails, Called, GoTo, Active
  <2> QED  BY <2>1, StaysOK
<1>8. CASE Throw(t)
  <2>1. /\ Active(t) /\ Quiet(t) /\ at'[t] \in {"undo", "undone"} /\ UNCHANGED <<xfr, steps>>
        /\ step[t] > 0 => step'[t] = -step[t]
        /\ ~(step[t] > 0) => step'[t] = step[t]
    BY <1>8 DEF Throw, GoTo, Active
  <2>2. CASE step[t] > 0  BY <2>1, <2>2, TurnsOK
  <2>3. CASE ~(step[t] > 0)  BY <2>1, <2>3, StaysOK
  <2> QED  BY <2>2, <2>3
<1>9. CASE Confirm(t)
  <2>1. /\ Active(t) /\ Quiet(t) /\ at[t] = "done" /\ at'[t] = "run"
        /\ UNCHANGED <<xfr, steps>> /\ step'[t] = step[t] + 1
    BY <1>9 DEF Confirm, GoTo, Active
  <2>2. JobOK(t)  BY <2>1 DEF MoveInv
  <2>3. step[t] >= 1 \/ job[t].kind = "alloc_del"
    BY <2>1 DEF StepsKept, StepsOK
  <2>4. CASE job[t].kind = "alloc_del"
    <3>1. AllocDelOK(t)  BY <2>2, <2>4 DEF JobOK
    <3>2. JobOK(t)'
      BY <2>1, <2>2, <2>4, <3>1 DEF JobOK, AllocDelOK, Moves, Stored, Live, Place
    <3> QED  BY <2>1, <3>2, QuietKeeps
  <2>5. CASE job[t].kind # "alloc_del"
    <3>1. job[t].kind \in Moves => Moving(t) /\ Substep(t) \in {1, 3}
      BY <2>1, <2>2 DEF JobOK, MoveOK
    <3> QED  BY <2>1, <2>3, <2>5, <3>1, AdvanceOK
  <2> QED  BY <2>4, <2>5
<1> QED  BY <1>1, <1>2, <1>3, <1>4, <1>5, <1>6, <1>7, <1>8, <1>9

\* The chunks that a step of the database is not about.
LEMMA ChunkElse ==
  ASSUME CInv, NEW t \in Tasks, Active(t), NEW q, NEW i \in Nat, ChunkOK(t, q, i),
         step[t] - ChunkStep(t, i) < 0 \/ step[t] - ChunkStep(t, i) >= 4,
         job' = job, step'[t] = step[t] + 1,
         \A r \in q.recs : loc'[r] = loc[r] /\ size'[r] = size[r] /\ disk'[r] = disk[r]
  PROVE  ChunkOK(t, q, i)'
<1> DEFINE n == step[t] - ChunkStep(t, i)
<1>1. step[t] \in Int /\ Base(t) \in 1..2  BY ActiveTask DEF Base, CInv
<1>2. n \in Int  BY <1>1 DEF ChunkStep
<1>3. ChunkStep(t, i)' = ChunkStep(t, i)  BY DEF ChunkStep, Base
<1>4. (step[t] - ChunkStep(t, i))' = n + 1  BY <1>1, <1>3 DEF ChunkStep
<1>5. n <= -1 \/ n >= 4  BY <1>2
<1>6. /\ q.recs \subseteq job[t].recs /\ q.src # job[t].dst
      /\ \A r \in q.recs :
           /\ n <= 2 => Unmoved(loc[r], job[t].kind, job[t].dst)
           /\ n >= 3 => Place(loc[r]) = job[t].dst
           /\ n >= 2 => size[r] = 0 \/ disk[r][job[t].dst] # NoFile
  BY DEF ChunkOK
<1> HIDE DEF n
<1>7. /\ n + 1 \notin {1, 2}
      /\ n + 1 <= 2 => n <= 2
      /\ n + 1 >= 3 => n >= 3
      /\ n + 1 >= 2 \/ n + 1 = 1 => n >= 2
  BY <1>2, <1>5
<1> QED  BY <1>4, <1>6, <1>7 DEF ChunkOK, Unmoved, Place

\* A step of the database on the current chunk.
Takes(t) == /\ OnlyTask(t) /\ UNCHANGED <<job, unborn, size, disk, xfr[t], steps[t], at[t]>>
            /\ step'[t] = step[t] + 1 /\ Live' = Live
            /\ \A r \in Recs \ Current(t).recs : loc'[r] = loc[r]

LEMMA ChunkTaken ==
  ASSUME CInv, NEW t \in Tasks, at[t] = "run", Moving(t), Takes(t), NEW x, x = Current(t),
         \A i \in Nat : step[t] - ChunkStep(t, i) = Substep(t) /\ ChunkOK(t, x, i)
                          => ChunkOK(t, x, i)'
  PROVE  JobOK(t)'
<1>0. Active(t)  BY DEF Active
<1>1. /\ JobOK(t) /\ job[t].kind \in Moves /\ step[t] \in Int /\ step[t] >= 1
      /\ Len(xfr[t]) \in Nat /\ job[t].recs \in SUBSET Recs
  BY <1>0, ActiveTask, InPlan DEF CInv, MoveInv, Moving
<1>2. MoveOK(t) /\ PlanOK(t)  BY <1>1 DEF JobOK, MoveOK
<1>3. PICK c \in 1..Len(xfr[t]) :
        /\ x = xfr[t][c] /\ step[t] - ChunkStep(t, c) = Substep(t)
        /\ \A i \in 1..Len(xfr[t]) : i # c => \/ step[t] - ChunkStep(t, i) < 0
                                              \/ step[t] - ChunkStep(t, i) >= 4
  BY <1>0, CurrentChunk DEF CInv
<1>4. job' = job /\ xfr'[t] = xfr[t] /\ at'[t] = "run" /\ step'[t] = step[t] + 1
  BY DEF Takes
<1>5. ASSUME NEW i \in 1..Len(xfr[t]) PROVE ChunkOK(t, xfr[t][i], i)'
  <2>1. ChunkOK(t, xfr[t][i], i) /\ i \in Nat  BY <1>1, <1>2 DEF PlanOK
  <2>2. PICK q : q = xfr[t][i] /\ q = xfr'[t][i]  BY <1>4
  <2>3. CASE i = c
    <3>1. q = x  BY <1>3, <2>2, <2>3
    <3>2. ChunkOK(t, q, i)'  BY <1>3, <2>1, <2>2, <2>3, <3>1
    <3> QED  BY <2>2, <3>2 DEF ChunkOK
  <2>4. CASE i # c
    <3>1. \A r \in q.recs : loc'[r] = loc[r] /\ size'[r] = size[r] /\ disk'[r] = disk[r]
      <4>1. q.recs \cap x.recs = {}  BY <1>2, <1>3, <2>2, <2>4 DEF PlanOK
      <4>2. q.recs \subseteq Recs  BY <1>1, <2>1, <2>2 DEF ChunkOK
      <4> QED  BY <4>1, <4>2 DEF Takes
    <3>2. ChunkOK(t, q, i)'  BY <1>0, <1>3, <1>4, <2>1, <2>2, <2>4, <3>1, ChunkElse
    <3> QED  BY <2>2, <3>2 DEF ChunkOK
  <2> QED  BY <2>3, <2>4
<1>6. PlanOK(t)'  BY <1>2, <1>4, <1>5 DEF PlanOK
<1>7. step'[t] # 0 /\ step'[t] >= 1  BY <1>1, <1>4
<1>8. MoveOK(t)'
  <2>1. job[t].recs \subseteq Live' /\ size' = size  BY <1>2 DEF MoveOK, Takes
  <2>2. \A r \in job[t].recs : job[t].size[r] = size[r]  BY <1>2 DEF MoveOK
  <2>3. \A i \in 1..Len(xfr[t]) : xfr[t][i].recs \subseteq job[t].recs
    BY <1>1, <1>2 DEF MoveOK
  <2> QED  BY <1>4, <1>6, <1>7, <2>1, <2>2, <2>3 DEF MoveOK
<1> QED  BY <1>1, <1>4, <1>8 DEF JobOK, Moves, Takes

\* Steps that mark the location of records, and leave it where it is.
Marks(t) == /\ OnlyTask(t)
            /\ UNCHANGED <<job, size, unborn, allocs, recCount, dataSize, disk>>
            /\ \A r \in Recs \ job[t].recs : loc'[r] = loc[r]
            /\ \A r \in job[t].recs : (loc[r] = None) = (loc'[r] = None)
            /\ \A r \in job[t].recs : loc[r] # None => Place(loc'[r]) = Place(loc[r])

LEMMA MarksKeep ==
  ASSUME CInv, TypeInv', NEW t \in Tasks, Active(t), Marks(t), JobOK(t)'
  PROVE  MoveInv'
<1> USE DEF Marks
<1>0. job[t].recs \in SUBSET Recs  BY ActiveTask DEF CInv
<1>2. \A r \in job[t].recs : loc'[r] = None \/ (loc[r] # None /\ Place(loc'[r]) = Place(loc[r]))
  OBVIOUS
<1>3. Frame(t)  BY <1>2 DEF Frame
<1>4. Live' = Live /\ \A r \in Live : Place(loc[r])' = Place(loc[r])
  BY <1>0 DEF Live, Place
<1>6. Kept  BY DEF CInv, MoveInv
<1>7. DataKept'
  <2> SUFFICES ASSUME NEW r \in Live, size[r] > 0 PROVE disk[r][Place(loc[r])'] # NoFile
    BY <1>4 DEF DataKept
  <2>1. Place(loc[r])' = Place(loc[r])  BY <1>4
  <2> QED  BY <1>6, <2>1 DEF Kept, DataKept
<1>9. Kept'  BY <1>6, <1>7 DEF Kept
<1> QED  BY <1>3, <1>9, FrameKeeps

LEMMA InitMoveMoves ==
  ASSUME CInv, TypeInv', NEW t \in Tasks, InitMove(t)
  PROVE  MoveInv'
<1> DEFINE x == Current(t)  k == job[t].kind  d == job[t].dst
<1>1. /\ at[t] = "run" /\ Moving(t) /\ Substep(t) = 0 /\ CanInit(t)
      /\ loc' = [r \in Recs |-> IF r \in x.recs THEN Marked(loc[r], k, d) ELSE loc[r]]
      /\ step' = [step EXCEPT ![t] = @ + 1]
      /\ UNCHANGED <<owner, size, unborn, allocs, recCount, dataSize, disk, job, xfr, steps, at>>
  BY DEF InitMove, Called, allocVars, taskVars
<1>2. Active(t) /\ k \in Moves /\ d \in Places  BY <1>1, InPlan DEF Active, Moving, CInv
<1>3. x.recs \subseteq job[t].recs /\ x.recs \subseteq Live
  <2>1. JobOK(t) /\ step[t] >= 1  BY <1>1, <1>2, InPlan DEF CInv, MoveInv
  <2>2. PlanOK(t)  BY <1>2, <2>1 DEF JobOK, MoveOK
  <2>3. \E c \in 1..Len(xfr[t]) : x = xfr[t][c]  BY <1>1, <1>2, CurrentChunk DEF CInv
  <2> QED  BY <1>1, <2>2, <2>3 DEF PlanOK, ChunkOK, CanInit
<1>4. ASSUME NEW l \in Locs
      PROVE  /\ Marked(l, k, d) \in Locs /\ Place(Marked(l, k, d)) = Place(l)
             /\ Unmoved(l, k, d) => Unmoved(Marked(l, k, d), k, d) /\ OnWay(Marked(l, k, d), k, d)
  <2>1. d[1] \in Owners /\ d[2] \in Repos  BY <1>2 DEF Places
  <2>2. CASE k = "alloc_chg"
    BY <2>1, <2>2 DEF Marked, Locs, Place, Unmoved, OnWay
  <2>3. CASE k = "owner_chg"
    BY <2>1, <2>3 DEF Marked, Locs, Place, Unmoved, OnWay
  <2> QED  BY <1>2, <2>2, <2>3 DEF Moves
<1>5. \A r \in Live : loc[r] \in Locs /\ r \in Recs
  BY DEF CInv, TypeInv, DataTypes, Live
<1>6. \A r \in x.recs : /\ loc'[r] = Marked(loc[r], k, d) /\ loc'[r] \in Locs
                        /\ Place(loc'[r]) = Place(loc[r])
  BY <1>1, <1>3, <1>4, <1>5
<1>7. \A r \in Recs \ x.recs : loc'[r] = loc[r]  BY <1>1
<1>8. Live' = Live  BY <1>3, <1>5, <1>6, <1>7, NoneApart DEF Live
<1>9. OnlyTask(t) /\ step'[t] = step[t] + 1
  BY <1>1 DEF OnlyTask, CInv, TypeInv, TaskTypes
<1>10. Takes(t)  BY <1>1, <1>7, <1>8, <1>9 DEF Takes
<1>11. Marks(t)
  <2>0. job[t].recs \in SUBSET Recs  BY <1>2, ActiveTask DEF CInv
  <2>1. \A r \in Recs \ job[t].recs : loc'[r] = loc[r]  BY <1>3, <1>7
  <2>2. ASSUME NEW r \in job[t].recs
        PROVE  /\ (loc[r] = None) = (loc'[r] = None)
               /\ loc[r] # None => Place(loc'[r]) = Place(loc[r])
    <3>1. CASE r \in x.recs  BY <1>3, <1>6, <3>1, NoneApart DEF Live
    <3>2. CASE r \notin x.recs  BY <1>7, <2>0, <3>2
    <3> QED  BY <3>1, <3>2
  <2> QED  BY <1>1, <1>9, <2>1, <2>2 DEF Marks
<1>12. JobOK(t)'
  <2>1. PICK y : y = x  OBVIOUS
  <2>2. ASSUME NEW i \in Nat, step[t] - ChunkStep(t, i) = Substep(t), ChunkOK(t, y, i)
        PROVE  ChunkOK(t, y, i)'
    <3>1. step[t] - ChunkStep(t, i) = 0 /\ step[t] \in Int /\ Base(t) \in 1..2
      BY <1>1, <1>2, <2>2, ActiveTask DEF Base, CInv
    <3>2. ChunkStep(t, i)' = ChunkStep(t, i) /\ ChunkStep(t, i) \in Int
      BY <1>1, <3>1 DEF ChunkStep, Base
    <3>3. (step[t] - ChunkStep(t, i))' = 1
      BY <1>9, <3>1, <3>2
    <3>5. \A r \in y.recs : Unmoved(loc'[r], k, d) /\ OnWay(loc'[r], k, d)
      <4> SUFFICES ASSUME NEW r \in y.recs PROVE Unmoved(loc'[r], k, d) /\ OnWay(loc'[r], k, d)
        OBVIOUS
      <4>1. Unmoved(loc[r], k, d)  BY <2>2, <3>1 DEF ChunkOK
      <4> QED  BY <1>3, <1>4, <1>5, <1>6, <2>1, <4>1
    <3>6. y.recs \subseteq job[t].recs /\ y.src # d  BY <2>2 DEF ChunkOK
    <3>7. job'[t] = job[t] /\ at'[t] = "run"  BY <1>1
    <3> QED  BY <3>3, <3>5, <3>6, <3>7 DEF ChunkOK
  <2> QED  BY <1>1, <1>10, <2>1, <2>2, ChunkTaken
<1> QED  BY <1>2, <1>11, <1>12, MarksKeep

\* What is rolled back is a part of what the task is about.
LEMMA RevertedInJob ==
  ASSUME CInv, NEW t \in Tasks, Active(t), step[t] < 0
  PROVE  Reverted(t) \subseteq job[t].recs
<1> SUFFICES ASSUME job[t].kind \in Moves, -step[t] \in 2..steps[t] - 2
             PROVE  xfr[t][(-step[t] - 2) \div 4 + 1].recs \subseteq job[t].recs
  BY DEF Reverted
<1>1. /\ StepsOK(job[t], at[t], step[t], steps[t], xfr[t])
      /\ step[t] \in Int /\ Len(xfr[t]) \in Nat
  BY ActiveTask DEF CInv, TypeInv, StepsKept
<1> DEFINE n == Len(xfr[t])  y == -step[t] - 2
<1>2. steps[t] \in {4 * n + 2, 4 * n + 3}
  <2> HIDE DEF n
  <2> QED  BY <1>1 DEF StepsOK, Active, Moves, n
<1>3. y \in Nat /\ y <= 4 * n - 1  BY <1>1, <1>2
<1>4. y \div 4 + 1 \in 1..n
  <2> HIDE DEF y
  <2>1. n \in Nat  BY <1>1
  <2> HIDE DEF n
  <2> QED  BY <1>3, <2>1
<1>5. \A i \in 1..n : xfr[t][i].recs \subseteq job[t].recs
  BY <1>1 DEF CInv, MoveInv, JobOK, MoveOK
<1> QED  BY <1>4, <1>5

LEMMA RollbackMoves ==
  ASSUME CInv, TypeInv', NEW t \in Tasks, Rollback(t)
  PROVE  MoveInv'
<1> DEFINE R == Reverted(t)
<1>1. /\ at[t] = "undo" \/ (at[t] = "run" /\ step[t] < 0)
      /\ R \subseteq Live
      /\ loc' = [r \in Recs |-> IF r \in R THEN [loc[r] EXCEPT !.newRepo = None, !.newOwner = None]
                                ELSE loc[r]]
      /\ step' = [step EXCEPT ![t] = IF R = {} THEN @ ELSE @ - RevertStep(t)]
      /\ at' = [at EXCEPT ![t] = "undone"]
      /\ UNCHANGED <<owner, size, unborn, allocs, recCount, dataSize, disk, job, xfr, steps>>
  BY DEF Rollback, Called, GoTo, allocVars, taskVars
<1>2. Active(t) /\ step[t] \in Int /\ step[t] < 0
  <2>1. Active(t)  BY <1>1 DEF Active
  <2> QED  BY <1>1, <2>1, ActiveTask DEF CInv, TypeInv, StepsKept, StepsOK
<1>3. R \subseteq job[t].recs /\ job[t].recs \in SUBSET Recs
  BY <1>2, RevertedInJob, ActiveTask DEF CInv
<1>4. at'[t] = "undone" /\ step'[t] < 0 /\ OnlyTask(t)
  <2>1. RevertStep(t) \in Int /\ RevertStep(t) >= 0
    <3>1. \A y \in Int : y % 4 \in 0..3  OBVIOUS
    <3>2. -step[t] - 2 \in Int  BY <1>2
    <3> QED  BY <3>1, <3>2 DEF RevertStep
  <2>2. step'[t] = step[t] \/ step'[t] = step[t] - RevertStep(t)
    BY <1>1 DEF CInv, TypeInv, TaskTypes
  <2>3. step'[t] < 0  BY <1>2, <2>1, <2>2
  <2>4. OnlyTask(t)  BY <1>1 DEF OnlyTask, CInv, TypeInv, TaskTypes
  <2> QED  BY <1>1, <2>3, <2>4 DEF CInv, TypeInv, TaskTypes
<1>5. \A r \in R : /\ loc[r] \in Locs /\ loc'[r] \in Locs /\ Place(loc'[r]) = Place(loc[r])
  <2> SUFFICES ASSUME NEW r \in R
               PROVE  loc[r] \in Locs /\ loc'[r] \in Locs /\ Place(loc'[r]) = Place(loc[r])
    OBVIOUS
  <2>1. loc[r] \in Locs /\ r \in Recs  BY <1>1 DEF CInv, TypeInv, DataTypes, Live
  <2>2. loc'[r] = [loc[r] EXCEPT !.newRepo = None, !.newOwner = None]  BY <1>1, <2>1
  <2> QED  BY <2>1, <2>2 DEF Locs, Place
<1>6. \A r \in Recs \ R : loc'[r] = loc[r]  BY <1>1
<1>7. Marks(t)
  <2>1. \A r \in job[t].recs : /\ (loc[r] = None) = (loc'[r] = None)
                               /\ loc[r] # None => Place(loc'[r]) = Place(loc[r])
    <3> SUFFICES ASSUME NEW r \in job[t].recs
                 PROVE  /\ (loc[r] = None) = (loc'[r] = None)
                        /\ loc[r] # None => Place(loc'[r]) = Place(loc[r])
      OBVIOUS
    <3>1. CASE r \in R  BY <1>5, <3>1, NoneApart
    <3>2. CASE r \notin R  BY <1>3, <1>6, <3>2
    <3> QED  BY <3>1, <3>2
  <2> QED  BY <1>1, <1>3, <1>4, <1>6, <2>1 DEF Marks
<1>8. Live' = Live /\ \A a : Stored(a)' = Stored(a)
  BY <1>3, <1>7 DEF Marks, Live, Stored, Place
<1>9. JobOK(t) /\ step[t] # 0  BY <1>2 DEF CInv, MoveInv
<1>10. MoveOK(t) => MoveOK(t)'
  <2> SUFFICES ASSUME MoveOK(t) PROVE MoveOK(t)'  OBVIOUS
  <2>1. ~(step'[t] >= 1) /\ step'[t] # 0
    <3>1. step'[t] \in Int  BY DEF TypeInv, TaskTypes
    <3> QED  BY <1>4, <3>1
  <2>2. job[t].recs \subseteq Live' /\ \A r \in job[t].recs : job[t].size[r] = size[r]
    BY <1>8 DEF MoveOK
  <2>3. \A i \in 1..Len(xfr[t]) : xfr[t][i].recs \subseteq job[t].recs
    BY <1>9 DEF MoveOK
  <2> QED  BY <1>1, <1>4, <2>1, <2>2, <2>3 DEF MoveOK
<1>11. PutOK(t) => PutOK(t)'
  <2>1. ~(step'[t] >= 1)
    <3>1. step'[t] \in Int  BY DEF TypeInv, TaskTypes
    <3> QED  BY <1>4, <3>1
  <2> QED  BY <1>1, <1>8, <2>1 DEF PutOK
<1>12. DeletionOK(t) => DeletionOK(t)'  BY <1>1, <1>8, <1>9 DEF DeletionOK
<1>13. AllocDelOK(t) => AllocDelOK(t)'  BY <1>1, <1>8 DEF AllocDelOK
<1>14. JobOK(t)'  BY <1>1, <1>9, <1>10, <1>11, <1>12, <1>13 DEF JobOK
<1> QED  BY <1>2, <1>7, <1>14, MarksKeep

\* The end of a chunk: its records leave where they are for the destination.
Arrives(t, x, d) ==
  /\ x.recs \subseteq job[t].recs /\ job[t].recs \in SUBSET Recs /\ x.recs \subseteq Live
  /\ From(t, d) = {} /\ To(t, d) = x.recs
  /\ \A a : From(t, a) = {r \in x.recs : Place(loc[r]) = a}
  /\ \A a : a # d => To(t, a) = {}
  /\ \A r \in x.recs : /\ loc'[r] # None /\ Place(loc'[r]) = d
                       /\ Place(loc[r]) # d
                       /\ size[r] = 0 \/ disk[r][d] # NoFile
  /\ \A r \in Recs \ x.recs : loc'[r] = loc[r]

LEMMA FiniArrives ==
  ASSUME CInv, NEW t \in Tasks, FiniMove(t), Active(t), NEW x, x = Current(t),
         NEW d, d = job[t].dst
  PROVE  Arrives(t, x, d)
<1> DEFINE k == job[t].kind
<1>1. /\ at[t] = "run" /\ Moving(t) /\ Substep(t) = 2 /\ CanFini(t)
      /\ loc' = [r \in Recs |-> IF r \in Movers(t)
                                THEN [repo |-> loc[r].newRepo, uid |-> NewOwner(loc[r]),
                                      newRepo |-> None, newOwner |-> None]
                                ELSE loc[r]]
  BY DEF FiniMove, Called
<1>2. k \in Moves /\ d \in Places  BY <1>1, InPlan DEF Moving, CInv
<1>3. d[1] \in Owners /\ d[2] \in Repos /\ d = <<d[1], d[2]>>  BY <1>2 DEF Places
<1>4. PICK c \in 1..Len(xfr[t]) : ChunkOK(t, x, c) /\ step[t] - ChunkStep(t, c) = 2
  <2>1. JobOK(t) /\ step[t] >= 1  BY <1>1, InPlan DEF CInv, MoveInv
  <2>2. PlanOK(t)  BY <1>2, <2>1 DEF JobOK, MoveOK
  <2>3. PICK c \in 1..Len(xfr[t]) : x = xfr[t][c] /\ step[t] - ChunkStep(t, c) = 2
    BY <1>1, CurrentChunk DEF CInv
  <2> QED  BY <2>2, <2>3 DEF PlanOK
<1>5. /\ x.recs \subseteq job[t].recs
      /\ \A r \in x.recs : /\ Unmoved(loc[r], k, d) /\ OnWay(loc[r], k, d)
                           /\ size[r] = 0 \/ disk[r][d] # NoFile
  BY <1>4 DEF ChunkOK
<1>6. job[t].recs \in SUBSET Recs /\ x.recs \subseteq Live /\ x.recs \subseteq Recs
  BY <1>1, <1>5, ActiveTask DEF CInv, CanFini
<1>7. Movers(t) = x.recs  BY <1>3, <1>5, <1>6, NoneApart DEF Movers, OnWay
<1>8. ASSUME NEW r \in x.recs
      PROVE  /\ NewOwner(loc[r]) = d[1] /\ loc[r].newRepo = d[2] /\ Place(loc[r]) # d
             /\ <<NewOwner(loc[r]), loc[r].newRepo>> = d
  <2>1. Unmoved(loc[r], k, d) /\ OnWay(loc[r], k, d)  BY <1>5
  <2>2. CASE k = "alloc_chg"
    <3>1. loc[r].newOwner = None  BY <1>1, <1>7, <2>2 DEF CanFini
    <3> QED  BY <1>3, <2>1, <2>2, <3>1 DEF Unmoved, OnWay, NewOwner, Place
  <2>3. CASE k = "owner_chg"
    BY <1>3, <2>1, <2>3, NoneApart DEF Unmoved, OnWay, NewOwner, Place
  <2> QED  BY <1>2, <2>2, <2>3 DEF Moves
<1>9. \A r \in x.recs : loc'[r] # None /\ Place(loc'[r]) = d
  <2> SUFFICES ASSUME NEW r \in x.recs PROVE loc'[r] # None /\ Place(loc'[r]) = d
    OBVIOUS
  <2> DEFINE l == [repo |-> d[2], uid |-> d[1], newRepo |-> None, newOwner |-> None]
  <2>1. loc'[r] = l  BY <1>1, <1>6, <1>7, <1>8
  <2>2. l \in Locs  BY <1>3 DEF Locs
  <2> QED  BY <1>3, <2>1, <2>2, NoneApart DEF Place
<1>10. \A r \in Recs \ x.recs : loc'[r] = loc[r]  BY <1>1, <1>7
<1>11. /\ \A a : From(t, a) = {r \in x.recs : Place(loc[r]) = a}
       /\ \A a : To(t, a) = {r \in x.recs : d = a}
  BY <1>7, <1>8 DEF From, To
<1>12. /\ From(t, d) = {} /\ To(t, d) = x.recs
       /\ \A a : a # d => To(t, a) = {}
  <2>1. From(t, d) = {r \in x.recs : Place(loc[r]) = d}  BY <1>11
  <2>2. From(t, d) = {}  BY <1>8, <2>1
  <2>3. To(t, d) = x.recs  BY <1>11
  <2>4. ASSUME NEW a, a # d PROVE To(t, a) = {}  BY <1>11, <2>4
  <2> QED  BY <2>2, <2>3, <2>4
<1> QED  BY <1>5, <1>6, <1>8, <1>9, <1>10, <1>11, <1>12 DEF Arrives

LEMMA FiniMoveMoves ==
  ASSUME CInv, TypeInv', NEW t \in Tasks, FiniMove(t)
  PROVE  MoveInv'
<1>1. /\ at[t] = "run" /\ Moving(t) /\ Substep(t) = 2
      /\ step' = [step EXCEPT ![t] = @ + 1]
      /\ UNCHANGED <<size, unborn, allocs, disk, job, xfr, steps, at>>
  BY DEF FiniMove, Called, taskVars
<1>2. Active(t)  BY <1>1 DEF Active
<1>3. PICK x, d : x = Current(t) /\ d = job[t].dst  OBVIOUS
<1>4. Arrives(t, x, d) /\ d \in Places  BY <1>1, <1>2, <1>3, FiniArrives, InPlan DEF CInv
<1>5. /\ x.recs \subseteq Recs /\ x.recs \subseteq Live
      /\ \A r \in Recs \ x.recs : loc'[r] = loc[r]
      /\ \A r \in x.recs : loc'[r] # None /\ Place(loc[r])' = d /\ Place(loc[r]) # d
  BY <1>4 DEF Arrives, Place
<1>6. Live' = Live  BY <1>5 DEF Live
<1>9. \A r \in Recs : size[r] \in Nat
  BY DataAssumption DEF CInv, TypeInv, DataTypes, DataAssumption
<1>12. Kept  BY DEF CInv, MoveInv
<1>16. DataKept'
  <2> SUFFICES ASSUME NEW r \in Live, size[r] > 0 PROVE disk[r][Place(loc[r])'] # NoFile
    BY <1>1, <1>6 DEF DataKept
  <2>1. CASE r \in x.recs
    <3>1. size[r] # 0 /\ Place(loc[r])' = d  BY <1>5, <1>9, <2>1
    <3> QED  BY <1>4, <2>1, <3>1 DEF Arrives
  <2>2. CASE r \notin x.recs
    <3>1. Place(loc[r])' = Place(loc[r])  BY <1>5, <2>2 DEF Place, Live
    <3> QED  BY <1>12, <3>1 DEF Kept, DataKept
  <2> QED  BY <2>1, <2>2
<1>17. Kept'  BY <1>1, <1>12, <1>16 DEF Kept
<1>18. OnlyTask(t) /\ step'[t] = step[t] + 1
  BY <1>1 DEF OnlyTask, CInv, TypeInv, TaskTypes
<1>19. Frame(t)
  <2>1. \A r \in Recs \ job[t].recs : loc'[r] = loc[r]  BY <1>4, <1>5 DEF Arrives
  <2>2. ASSUME NEW r \in job[t].recs
        PROVE  \/ loc'[r] = None
               \/ loc[r] # None /\ Place(loc'[r]) \in {Place(loc[r]), d}
    <3>1. r \in Recs  BY <1>4 DEF Arrives
    <3>2. CASE r \in x.recs  BY <1>5, <3>2 DEF Live, Place
    <3>3. CASE r \notin x.recs  BY <1>5, <3>1, <3>3
    <3> QED  BY <3>2, <3>3
  <2> QED  BY <1>1, <1>3, <1>18, <2>1, <2>2 DEF Frame
<1>20. JobOK(t)'
  <2>1. Takes(t)  BY <1>1, <1>3, <1>5, <1>6, <1>18 DEF Takes
  <2>2. ASSUME NEW i \in Nat, step[t] - ChunkStep(t, i) = Substep(t), ChunkOK(t, x, i)
        PROVE  ChunkOK(t, x, i)'
    <3>1. step[t] - ChunkStep(t, i) = 2 /\ step[t] \in Int /\ Base(t) \in 1..2
      BY <1>1, <1>2, <2>2, ActiveTask DEF Base, CInv
    <3>2. ChunkStep(t, i)' = ChunkStep(t, i) /\ ChunkStep(t, i) \in Int
      BY <1>1, <3>1 DEF ChunkStep, Base
    <3>3. (step[t] - ChunkStep(t, i))' = 3  BY <1>18, <3>1, <3>2
    <3>4. x.recs \subseteq job[t].recs /\ x.src # d  BY <1>3, <2>2 DEF ChunkOK
    <3>5. \A r \in x.recs : Place(loc[r])' = d /\ (size[r] = 0 \/ disk[r][d] # NoFile)
      BY <1>4, <1>5 DEF Arrives
    <3> QED  BY <1>1, <1>3, <3>3, <3>4, <3>5 DEF ChunkOK
  <2> QED  BY <1>1, <1>3, <2>1, <2>2, ChunkTaken
<1> QED  BY <1>2, <1>17, <1>19, <1>20, FrameKeeps

LEMMA EraseMoves ==
  ASSUME CInv, TypeInv', NEW t \in Tasks, EraseRecords(t)
  PROVE  MoveInv'
<1> DEFINE R == job[t].recs
<1>1. /\ at[t] = "run" /\ step[t] = 0 /\ job[t].kind = "rec_del" /\ R \subseteq Live
      /\ loc' = [r \in Recs |-> IF r \in R THEN None ELSE loc[r]]
      /\ size' = [r \in Recs |-> IF r \in R THEN 0 ELSE size[r]]
      /\ step' = [step EXCEPT ![t] = 1]
      /\ UNCHANGED <<unborn, allocs, disk, job, xfr, steps, at>>
  BY DEF EraseRecords, Called, taskVars
<1>2. Active(t)  BY <1>1 DEF Active
<1>3. R \in SUBSET Recs  BY <1>2, ActiveTask DEF CInv
<1>4. Live' = Live \ R /\ \A r \in Recs \ R : loc'[r] = loc[r] /\ size'[r] = size[r]
  BY <1>1 DEF Live
<1>8. Kept  BY DEF CInv, MoveInv
<1>12. DataKept'
  <2> SUFFICES ASSUME NEW r \in Live \ R, size'[r] > 0 PROVE disk[r][Place(loc[r])'] # NoFile
    BY <1>1, <1>4 DEF DataKept
  <2>1. size[r] > 0 /\ Place(loc[r])' = Place(loc[r])  BY <1>4 DEF Live, Place
  <2> QED  BY <1>8, <2>1 DEF Kept, DataKept
<1>13. \A r \in unborn' : size'[r] = 0
  BY <1>1, <1>8 DEF Kept, CInv, TypeInv, DataTypes
<1>14. Kept'  BY <1>12, <1>13 DEF Kept
<1>15. OnlyTask(t) /\ step'[t] = 1
  BY <1>1 DEF OnlyTask, CInv, TypeInv, TaskTypes
<1>16. Frame(t)
  <2>1. \A r \in R : loc'[r] = None  BY <1>1, <1>3
  <2> QED  BY <1>1, <1>4, <1>15, <2>1 DEF Frame
<1>17. JobOK(t)'
  <2>1. JobOK(t) /\ DeletionOK(t)  BY <1>1, <1>2 DEF CInv, MoveInv, JobOK
  <2>2. R \cap Live' = {}  BY <1>4
  <2>3. DeletionOK(t)'  BY <1>1, <2>1, <2>2 DEF DeletionOK
  <2> QED  BY <1>1, <2>1, <2>3 DEF JobOK, Moves
<1> QED  BY <1>2, <1>14, <1>16, <1>17, FrameKeeps

\* A command on files.
DiskStep(t) ==
  /\ OnlyTask(t) /\ at[t] = "cmd" /\ at'[t] \in {"run", "done"}
  /\ UNCHANGED <<job, loc, owner, size, unborn, allocs, recCount, dataSize>>
  /\ UNCHANGED <<xfr[t], step[t], steps[t]>>
  /\ \A r \in Recs \ job[t].recs, a \in Places : a # job[t].dst => disk'[r][a] = disk[r][a]

\* What the chunks of a move need of it.
Serves(t, d) ==
  /\ \A r \in job[t].recs : disk[r][d] # NoFile => disk'[r][d] # NoFile
  /\ at'[t] = "done" /\ Substep(t) = 1 =>
       \A r \in Current(t).recs : size[r] = 0 \/ disk'[r][d] # NoFile

LEMMA DiskKeeps ==
  ASSUME CInv, TypeInv', NEW t \in Tasks, DiskStep(t), DataKept',
         job[t].kind \in Moves => Serves(t, job[t].dst)
  PROVE  MoveInv'
<1> USE DEF DiskStep
<1>1. Active(t) /\ JobOK(t)  BY DEF Active, CInv, MoveInv
<1>2. Live' = Live /\ \A a : Stored(a)' = Stored(a)  BY DEF Live, Stored, Place
<1>4. \A r \in job[t].recs : loc'[r] = None \/ (loc[r] # None /\ Place(loc'[r]) = Place(loc[r]))
  OBVIOUS
<1>5. Frame(t)  BY <1>4 DEF Frame
<1>6. Kept'  BY DEF CInv, MoveInv, Kept
<1>7. ASSUME job[t].kind \in Moves PROVE MoveOK(t)'
  <2> DEFINE d == job[t].dst
  <2>1. MoveOK(t) /\ Moving(t) /\ Substep(t) \in {1, 3}  BY <1>1, <1>7 DEF JobOK, MoveOK
  <2>2. step[t] >= 1 /\ step[t] \in Int /\ Len(xfr[t]) \in Nat /\ Base(t) \in 1..2
    BY <1>1, <2>1, InPlan, ActiveTask DEF CInv, Base
  <2>3. PlanOK(t)  BY <2>1, <2>2 DEF MoveOK
  <2>4. PICK x : x = Current(t)  OBVIOUS
  <2>5. PICK c \in 1..Len(xfr[t]) :
          /\ x = xfr[t][c]
          /\ \A i \in 1..Len(xfr[t]) : i # c => \/ step[t] - ChunkStep(t, i) < 0
                                                \/ step[t] - ChunkStep(t, i) >= 4
          /\ step[t] - ChunkStep(t, c) = Substep(t)
    BY <1>1, <2>1, <2>4, CurrentChunk DEF CInv
  <2>6. ASSUME NEW i \in 1..Len(xfr[t]) PROVE ChunkOK(t, xfr[t][i], i)'
    <3>1. PICK q : q = xfr[t][i] /\ q = xfr'[t][i]  OBVIOUS
    <3>2. ChunkOK(t, q, i) /\ i \in Nat  BY <2>2, <2>3, <3>1 DEF PlanOK
    <3>3. ChunkStep(t, i)' = ChunkStep(t, i)  BY DEF ChunkStep, Base
    <3>4. step[t] - ChunkStep(t, i) = 1 /\ at'[t] = "done" => Substep(t) = 1 /\ q = x
      BY <2>5, <3>1
    <3>5. \A r \in q.recs : disk[r][d] # NoFile => disk'[r][d] # NoFile
      BY <1>7, <3>2 DEF Serves, ChunkOK
    <3>6. step[t] - ChunkStep(t, i) = 1 /\ at'[t] = "done" =>
            \A r \in q.recs : size[r] = 0 \/ disk'[r][d] # NoFile
      BY <1>7, <2>4, <3>4 DEF Serves
    <3>7. ChunkOK(t, q, i)'
      BY <3>2, <3>3, <3>5, <3>6 DEF ChunkOK, Unmoved, OnWay, Place
    <3> QED  BY <3>1, <3>7 DEF ChunkOK
  <2>7. PlanOK(t)'  BY <2>3, <2>6 DEF PlanOK
  <2>8. (Moving(t) /\ Substep(t) \in {1, 3})'  BY <2>1 DEF Moving, Substep, Base
  <2>9. /\ job[t].recs \subseteq Live' /\ \A r \in job[t].recs : job[t].size[r] = size[r]
        /\ \A i \in 1..Len(xfr[t]) : xfr[t][i].recs \subseteq job[t].recs
    BY <1>2, <2>1, <2>2 DEF MoveOK
  <2>10. step'[t] # 0  BY <2>2
  <2> QED  BY <2>7, <2>8, <2>9, <2>10 DEF MoveOK
<1>8. job[t].kind = "put" => PutOK(t)'  BY <1>1, <1>2 DEF JobOK, PutOK, Place
<1>9. job[t].kind = "rec_del" => DeletionOK(t)'  BY <1>1, <1>2 DEF JobOK, DeletionOK
<1>10. job[t].kind = "alloc_del" => AllocDelOK(t)'  BY <1>1, <1>2 DEF JobOK, AllocDelOK
<1>11. JobOK(t)'  BY <1>1, <1>7, <1>8, <1>9, <1>10 DEF JobOK
<1> QED  BY <1>1, <1>5, <1>6, <1>11, FrameKeeps

\* Transfers are of records of the task.
LEMMA DocInJob ==
  ASSUME CInv, NEW t \in Tasks, Active(t), TransferDue(t)
  PROVE  Doc(t).recs \subseteq job[t].recs /\ job[t].kind \in Moves \cup {"put"}
<1>1. JobOK(t)  BY DEF CInv, MoveInv
<1>2. CASE job[t].kind = "put" /\ step[t] = 1 /\ steps[t] = 4
  <2>1. Len(xfr[t]) = 1 /\ Doc(t) = xfr[t][1] /\ \E r \in Recs : job[t].recs = {r}
    BY <1>2, PutDoc, ActiveTask DEF CInv
  <2>2. PutOK(t) /\ 1 \in 1..Len(xfr[t]) /\ step[t] >= 1  BY <1>1, <1>2, <2>1 DEF JobOK
  <2> QED  BY <1>2, <2>1, <2>2 DEF PutOK
<1>3. CASE Moving(t) /\ Substep(t) = 1
  <2>1. job[t].kind \in Moves /\ step[t] >= 1 /\ Doc(t) = Current(t)
    BY <1>3, InPlan DEF Moving, CInv, Doc
  <2>2. PlanOK(t)  BY <1>1, <2>1 DEF JobOK, MoveOK
  <2>3. \E c \in 1..Len(xfr[t]) : Doc(t) = xfr[t][c]
    BY <1>3, <2>1, CurrentChunk DEF CInv
  <2> QED  BY <2>1, <2>2, <2>3 DEF PlanOK, ChunkOK
<1> QED  BY <1>2, <1>3 DEF TransferDue

LEMMA TransferMoves ==
  ASSUME CInv, TypeInv', NEW t \in Tasks, TransferOk(t) \/ TransferFails(t)
  PROVE  MoveInv'
<1>1. /\ at[t] = "cmd" /\ TransferDue(t) /\ at'[t] \in {"run", "done"} /\ OnlyTask(t)
      /\ UNCHANGED <<job, loc, owner, size, unborn, allocs, recCount, dataSize,
                     xfr, step, steps>>
  BY DEF TransferOk, TransferFails, Outcome, GoTo, OnlyTask, recVars, allocVars, taskVars,
         CInv, TypeInv, TaskTypes
<1>2. Active(t)  BY <1>1 DEF Active
<1>3. PICK S \in SUBSET Found(t) : Write(t, S) /\ (at'[t] = "done" => S = Sent(t))
  <2>1. CASE TransferOk(t)  BY <2>1 DEF TransferOk
  <2>2. CASE TransferFails(t)
    <3>1. at'[t] = "run"
      BY <2>2 DEF TransferFails, Outcome, GoTo, CInv, TypeInv, TaskTypes
    <3> QED  BY <2>2, <3>1 DEF TransferFails
  <2> QED  BY <2>1, <2>2
<1>4. /\ Doc(t).recs \subseteq job[t].recs /\ job[t].kind \in Moves \cup {"put"}
      /\ job[t].recs \in SUBSET Recs /\ Target(t) \in Places /\ Doc(t).src \in Places
      /\ S \subseteq Doc(t).recs
  BY <1>1, <1>2, <1>3, DocInJob, TransferDoc, ActiveTask DEF CInv, Found, Sent
<1> DEFINE v(n, r) == IF job[t].kind = "put" THEN n ELSE disk[r][Doc(t).src]
<1>5. PICK n \in 0..MaxSize :
        disk' = [r \in Recs |-> IF r \notin S THEN disk[r] ELSE
                                  [disk[r] EXCEPT ![Target(t)] = v(n, r)]]
  BY <1>3 DEF Write
<1>6. \A r \in S : v(n, r) # NoFile
  <2>1. n # NoFile  BY DataAssumption DEF DataAssumption, NoFile
  <2> QED  BY <1>3, <2>1 DEF Found
<1> HIDE DEF v
<1>7. \A r \in Recs : DOMAIN disk[r] = Places
  BY DEF CInv, TypeInv, DataTypes
<1>8. ASSUME NEW r \in Recs, NEW a \in Places
      PROVE  /\ r \notin S => disk'[r][a] = disk[r][a]
             /\ disk[r][a] # NoFile => disk'[r][a] # NoFile
             /\ r \in S /\ a = Target(t) => disk'[r][a] # NoFile
  <2>1. CASE r \notin S  BY <1>5, <2>1
  <2>2. CASE r \in S
    <3>1. disk'[r] = [disk[r] EXCEPT ![Target(t)] = v(n, r)]  BY <1>5, <2>2
    <3> QED  BY <1>6, <1>7, <2>2, <3>1
  <2> QED  BY <2>1, <2>2
<1>9. DiskStep(t)
  <2>1. \A r \in Recs \ job[t].recs, a \in Places : disk'[r][a] = disk[r][a]
    BY <1>4, <1>8
  <2> QED  BY <1>1, <2>1 DEF DiskStep
<1>10. DataKept'
  <2>1. Live' = Live /\ DataKept  BY <1>1 DEF Live, CInv, MoveInv, Kept
  <2> SUFFICES ASSUME NEW r \in Live, size[r] > 0 PROVE disk'[r][Place(loc[r])] # NoFile
    BY <1>1, <2>1 DEF DataKept, Place
  <2>2. r \in Recs /\ Place(loc[r]) \in Places
    BY DEF Live, Place, Places, CInv, TypeInv, DataTypes, Locs
  <2>3. disk[r][Place(loc[r])] # NoFile  BY <2>1 DEF DataKept
  <2> QED  BY <1>8, <2>2, <2>3
<1>11. ASSUME job[t].kind \in Moves PROVE Serves(t, job[t].dst)
  <2> DEFINE d == job[t].dst
  <2>1. d \in Places /\ Target(t) = d /\ Doc(t) = Current(t)
    BY <1>2, <1>11, ActiveTask DEF CInv, Moves, Target, Doc
  <2>2. \A r \in job[t].recs : disk[r][d] # NoFile => disk'[r][d] # NoFile
    BY <1>4, <1>8, <2>1
  <2>3. ASSUME at'[t] = "done", NEW r \in Current(t).recs
        PROVE  size[r] = 0 \/ disk'[r][d] # NoFile
    <3>1. r \in job[t].recs /\ r \in Recs  BY <1>4, <2>1
    <3>2. job[t].size[r] = size[r] /\ size[r] \in 0..MaxSize
      BY <1>2, <1>11, <3>1 DEF CInv, MoveInv, JobOK, MoveOK, TypeInv, DataTypes
    <3>3. MaxSize \in Nat  BY DataAssumption DEF DataAssumption
    <3>4. size[r] # 0 => r \in S
      BY <1>3, <2>1, <2>3, <3>2, <3>3 DEF Sent
    <3> QED  BY <1>8, <2>1, <3>1, <3>4
  <2> QED  BY <2>2, <2>3 DEF Serves
<1> QED  BY <1>9, <1>10, <1>11, DiskKeeps

LEMMA DeleteMoves ==
  ASSUME CInv, TypeInv', NEW t \in Tasks, Delete(t)
  PROVE  MoveInv'
<1>1. /\ DeleteDue(t) \/ job[t].kind = "alloc_del"
      /\ at'[t] \in {"run", "done"} /\ OnlyTask(t)
      /\ UNCHANGED <<job, loc, owner, size, unborn, allocs, recCount, dataSize,
                     xfr, step, steps>>
  BY DEF Delete, Outcome, GoTo, OnlyTask, recVars, allocVars, taskVars,
         CInv, TypeInv, TaskTypes
<1>2. Active(t) /\ at[t] = "cmd"  BY DEF Delete, Active
<1>3. PICK S \in SUBSET Victims(t) : Wipe(S)  BY DEF Delete
<1>4. \A r \in Recs, a \in Places : <<r, a>> \notin S => disk'[r][a] = disk[r][a]
  BY <1>3 DEF Wipe
<1>5. job[t].recs \in SUBSET Recs /\ JobOK(t)  BY <1>2, ActiveTask DEF CInv, MoveInv
<1>6. Live' = Live /\ DataKept  BY <1>1 DEF Live, CInv, MoveInv, Kept
<1>7. \A r \in Live : r \in Recs /\ Place(loc[r]) \in Places
  BY DEF Live, Place, Places, CInv, TypeInv, DataTypes, Locs
<1>8. ASSUME \A r \in Live : <<r, Place(loc[r])>> \notin S PROVE DataKept'
  <2> SUFFICES ASSUME NEW r \in Live, size[r] > 0 PROVE disk'[r][Place(loc[r])] # NoFile
    BY <1>1, <1>6 DEF DataKept, Place
  <2>1. disk'[r][Place(loc[r])] = disk[r][Place(loc[r])]  BY <1>4, <1>7, <1>8
  <2> QED  BY <1>6, <2>1 DEF DataKept
<1>9. CASE job[t].kind = "alloc_del"
  <2>1. AllocDelOK(t)  BY <1>5, <1>9 DEF JobOK
  <2>2. \A r, a : <<r, a>> \in S => a = job[t].dst  BY <1>9 DEF Victims
  <2>3. DataKept'  BY <1>8, <2>1, <2>2 DEF AllocDelOK, Stored
  <2>4. DiskStep(t)  BY <1>1, <1>2, <1>4, <2>2 DEF DiskStep
  <2> QED  BY <1>9, <2>3, <2>4, DiskKeeps DEF Moves
<1>10. CASE job[t].kind = "rec_del" /\ step[t] \in 1..steps[t] - 2
  <2>1. DeletionOK(t) /\ step[t] # 0  BY <1>2, <1>5, <1>10, ActiveTask DEF JobOK, CInv
  <2>2. step[t] \in 1..Len(xfr[t])
    <3>1. steps[t] = Len(xfr[t]) + 2 /\ Len(xfr[t]) \in Nat
      BY <1>2, <1>10, ActiveTask DEF CInv, TypeInv, StepsKept, StepsOK, Active
    <3> DEFINE n == Len(xfr[t])
    <3>2. steps[t] - 2 = n /\ n \in Nat
      <4>1. steps[t] = n + 2 /\ n \in Nat  BY <3>1
      <4> HIDE DEF n
      <4> QED  BY <4>1
    <3> QED  BY <1>10, <3>2
  <2>3. xfr[t][step[t]].recs \subseteq job[t].recs  BY <2>1, <2>2 DEF DeletionOK
  <2>4. \A r, a : <<r, a>> \in S => r \in job[t].recs
    BY <1>10, <2>3 DEF Victims
  <2>5. DataKept'  BY <1>8, <2>1, <2>4 DEF DeletionOK
  <2>6. DiskStep(t)
    <3>1. \A r \in Recs \ job[t].recs, a \in Places : disk'[r][a] = disk[r][a]
      BY <1>4, <2>4
    <3> QED  BY <1>1, <1>2, <3>1 DEF DiskStep
  <2> QED  BY <1>10, <2>5, <2>6, DiskKeeps DEF Moves
<1>11. CASE Moving(t) /\ Substep(t) = 3
  <2> DEFINE d == job[t].dst
  <2>1. job[t].kind \in Moves /\ step[t] >= 1 /\ d \in Places
    BY <1>2, <1>11, InPlan DEF Moving, CInv
  <2>2. PICK x : x = Current(t)  OBVIOUS
  <2>3. PICK c \in 1..Len(xfr[t]) : ChunkOK(t, x, c) /\ step[t] - ChunkStep(t, c) = 3
    <3>1. PlanOK(t)  BY <1>5, <2>1 DEF JobOK, MoveOK
    <3>2. PICK c \in 1..Len(xfr[t]) : x = xfr[t][c] /\ step[t] - ChunkStep(t, c) = 3
      BY <1>2, <1>11, <2>2, CurrentChunk DEF CInv
    <3> QED  BY <3>1, <3>2 DEF PlanOK
  <2>4. /\ x.recs \subseteq job[t].recs /\ x.src # d
        /\ \A r \in x.recs : Place(loc[r]) = d
    BY <2>3 DEF ChunkOK
  <2>5. \A r, a : <<r, a>> \in S => r \in x.recs /\ a = x.src
    BY <2>1, <2>2 DEF Victims, Moves
  <2>6. DataKept'  BY <1>8, <2>4, <2>5
  <2>7. DiskStep(t)
    <3>1. \A r \in Recs \ job[t].recs, a \in Places : disk'[r][a] = disk[r][a]
      BY <1>4, <2>4, <2>5
    <3> QED  BY <1>1, <1>2, <3>1 DEF DiskStep
  <2>8. Serves(t, d)
    <3>1. \A r \in job[t].recs : disk'[r][d] = disk[r][d]
      BY <1>4, <1>5, <2>1, <2>4, <2>5
    <3> QED  BY <1>11, <3>1 DEF Serves
  <2> QED  BY <2>6, <2>7, <2>8, DiskKeeps
<1> QED  BY <1>1, <1>9, <1>10, <1>11 DEF DeleteDue

LEMMA UpdateSizeMoves ==
  ASSUME CInv, TypeInv', NEW t \in Tasks, UpdateSize(t)
  PROVE  MoveInv'
<1>1. PICK p, f, a : p = PutRec(t) /\ f = OnDisk(t) /\ a = Charged(t)  OBVIOUS
<1>2. /\ at[t] = "cmd" /\ SizeDue(t) /\ p \in Live /\ (f # size[p] => a \in allocs)
      /\ size' = [size EXCEPT ![p] = f]
      /\ at' = [at EXCEPT ![t] = "done"]
      /\ UNCHANGED <<loc, owner, unborn, allocs, recCount, disk, job, xfr, step, steps>>
  BY <1>1 DEF UpdateSize, CanSize, Outcome, GoTo, taskVars
<1>3. Active(t) /\ job[t].kind = "put" /\ step[t] = 2  BY <1>2 DEF Active, SizeDue
<1>4. steps[t] = 4  BY <1>3 DEF CInv, TypeInv, StepsKept, StepsOK, Active
<1>5. PutOK(t) /\ JobOK(t)  BY <1>3 DEF CInv, MoveInv, JobOK
<1>6. PICK r0 \in Recs : job[t].recs = {r0}  BY <1>3, ActiveTask DEF CInv
<1>7. p = r0  BY <1>1, <1>6 DEF PutRec
<1>8. p \in Recs /\ loc[p] \in Locs /\ a = Place(loc[p]) /\ a \in Places
  <2>1. p \in Recs /\ loc[p] \in Locs  BY <1>2 DEF Live, CInv, TypeInv, DataTypes
  <2>2. owner[p] = loc[p].uid  BY <1>2 DEF CInv, BooksInv, OwnersAgree
  <2> QED  BY <1>1, <2>1, <2>2 DEF Charged, Place, Places, Locs
<1>9. f = IF disk[p][a] = NoFile THEN 0 ELSE disk[p][a]
  <2>1. Len(xfr[t]) = 1 /\ Doc(t) = xfr[t][1]  BY <1>3, <1>4, PutDoc DEF CInv
  <2>2. xfr[t][1].src = Place(loc[p])  BY <1>3, <1>5, <1>6, <1>7, <2>1 DEF PutOK
  <2>3. Target(t) = a  BY <1>3, <1>8, <2>1, <2>2 DEF Target
  <2> QED  BY <1>1, <2>3 DEF OnDisk
<1>10. f \in Nat
  <2>1. f \in 0..MaxSize  BY <1>1, <1>2, OnDiskTyped DEF UpdateSize, CInv
  <2> QED  BY <2>1, DataAssumption DEF DataAssumption
<1>11. Kept /\ size \in [Recs -> 0..MaxSize] /\ MaxSize \in Nat
  BY DataAssumption DEF CInv, MoveInv, TypeInv, DataTypes, DataAssumption
<1>12. \A r \in Recs : size[r] \in Nat /\ size'[r] \in Nat /\ (r # p => size'[r] = size[r])
  BY <1>2, <1>8, <1>10, <1>11
<1>13. Live' = Live /\ \A b : Stored(b)' = Stored(b)  BY <1>2 DEF Live, Stored, Place
<1>14. size'[p] = f  BY <1>2, <1>8, <1>11
<1>17. DataKept'
  <2> SUFFICES ASSUME NEW r \in Live, size'[r] > 0 PROVE disk[r][Place(loc[r])] # NoFile
    BY <1>2, <1>13 DEF DataKept, Place
  <2>1. r \in Recs  BY DEF Live
  <2>2. CASE r = p
    <3>1. f # 0  BY <1>10, <1>14, <2>2
    <3> QED  BY <1>8, <1>9, <2>2, <3>1
  <2>3. CASE r # p
    <3>1. size[r] > 0  BY <1>12, <2>1, <2>3
    <3> QED  BY <1>11, <3>1 DEF Kept, DataKept
  <2> QED  BY <2>2, <2>3
<1>19. \A r \in unborn' : size'[r] = 0
  <2>1. p \notin unborn  BY <1>5, <1>6, <1>7 DEF JobOK
  <2> QED  BY <1>2, <1>11, <1>12, <2>1 DEF Kept, CInv, TypeInv, DataTypes
<1>20. Kept'  BY <1>17, <1>19 DEF Kept
<1>21. OnlyTask(t)  BY <1>2 DEF OnlyTask, CInv, TypeInv, TaskTypes
<1>22. Frame(t)
  <2>2. \A r \in Recs \ job[t].recs : loc'[r] = loc[r] /\ size'[r] = size[r]
    BY <1>2, <1>6, <1>7, <1>12
  <2>3. \A r \in job[t].recs : loc[r] # None /\ Place(loc'[r]) = Place(loc[r])
    BY <1>2, <1>6, <1>7 DEF Live
  <2> QED  BY <1>2, <1>21, <2>2, <2>3 DEF Frame
<1>23. JobOK(t)'
  <2>1. PutOK(t)'  BY <1>2, <1>5, <1>13 DEF PutOK, Place
  <2> QED  BY <1>2, <1>3, <1>5, <2>1 DEF JobOK, Moves
<1> QED  BY <1>3, <1>20, <1>22, <1>23, FrameKeeps

LEMMA CreateRecordMoves ==
  ASSUME CInv, TypeInv', NEW r \in Recs, NEW a \in Places, CreateRecord(r, a),
         \A t \in Tasks : Active(t) => job[t].dst # a
  PROVE  MoveInv'
<1> DEFINE l == [uid |-> a[1], repo |-> a[2], newRepo |-> None, newOwner |-> None]
<1>1. /\ r \in unborn /\ a \in allocs
      /\ loc' = [loc EXCEPT ![r] = l]
      /\ unborn' = unborn \ {r}
      /\ UNCHANGED <<size, allocs, disk, job, xfr, step, steps, at>>
  BY DEF CreateRecord, taskVars, runVars
<1>2. l \in Locs /\ Place(l) = a  BY DEF Places, Locs, Place
<1>3. loc[r] = None /\ size[r] = 0  BY <1>1 DEF CInv, BooksInv, MoveInv, Kept
<1> HIDE DEF l
<1>4. /\ loc'[r] = l /\ l # None /\ Place(loc'[r]) = a
      /\ \A x \in Recs \ {r} : loc'[x] = loc[x]
  BY <1>1, <1>2, NoneApart DEF CInv, TypeInv, DataTypes
<1>5. Kept  BY DEF CInv, MoveInv
<1>7. Live' = Live \cup {r} /\ r \notin Live  BY <1>3, <1>4 DEF Live
<1>12. DataKept'
  <2> SUFFICES ASSUME NEW x \in Live \cup {r}, size[x] > 0
               PROVE  disk[x][Place(loc[x])'] # NoFile
    BY <1>1, <1>7 DEF DataKept
  <2>1. x # r /\ x \in Live  BY <1>3
  <2>2. Place(loc[x])' = Place(loc[x])  BY <1>4, <2>1 DEF Live, Place
  <2> QED  BY <1>5, <2>1, <2>2 DEF Kept, DataKept
<1>13. Kept'  BY <1>1, <1>5, <1>12 DEF Kept
<1>14. Apart'  BY <1>1 DEF CInv, MoveInv, Apart, Active
<1>15. ASSUME NEW u \in Tasks, Active(u)' PROVE JobOK(u)'
  <2>1. Active(u)  BY <1>1, <1>15 DEF Active
  <2> DEFINE R == {r}
  <2>2. R \cap job[u].recs = {}  BY <1>1, <2>1 DEF CInv, MoveInv, JobOK
  <2>3. Leaves(u, R, a)
    <3>2. \A x \in R : Place(loc'[x]) = a  BY <1>4
    <3>3. job[u].dst # None => job[u].dst # a  BY <2>1
    <3>4. \A x \in Recs \ R : loc'[x] = loc[x]  BY <1>4
    <3> HIDE DEF R
    <3> QED  BY <1>1, <2>2, <3>2, <3>3, <3>4 DEF Leaves
  <2> HIDE DEF R
  <2> QED  BY <2>1, <2>3, FrameJob
<1> QED  BY <1>13, <1>14, <1>15 DEF MoveInv

\* What a request asks for.
LEMMA Asked ==
  ASSUME CInv, NEW t \in Tasks, Request(t)
  PROVE  \E k, R, d, held :
           /\ k \in AllKinds /\ R \in SUBSET Live
           /\ CreateTask(t, k, R, d, held)
           /\ k = "alloc_del" => R = {} /\ Stored(d) = {}
           /\ k # "rec_del" => xfr' = xfr
           /\ k = "rec_del" => \E q \in Plans(R, TRUE) : xfr' = [xfr EXCEPT ![t] = q]
           /\ \E n : steps' = steps \/ steps' = [steps EXCEPT ![t] = n]
<1> USE DEF AllKinds
<1>1. CASE CreatePut(t)
  <2>1. PICK r \in Live : CreateTask(t, "put", {r}, None, {r}) /\ NoPlan
    BY <1>1 DEF CreatePut
  <2> DEFINE R == {r}
  <2>2. CreateTask(t, "put", R, None, R) /\ R \in SUBSET Live  BY <2>1
  <2>3. xfr' = xfr /\ steps' = steps  BY <2>1 DEF NoPlan
  <2> HIDE DEF R
  <2> QED  BY <2>2, <2>3
<1>2. CASE CreateAllocChg(t)
  <2>1. PICK R \in SUBSET Live, a \in allocs :
          CreateTask(t, "alloc_chg", R, a, {r \in R : loc[r].repo # a[2]}) /\ NoPlan
    BY <1>2 DEF CreateAllocChg
  <2> DEFINE h == {r \in R : loc[r].repo # a[2]}
  <2>2. CreateTask(t, "alloc_chg", R, a, h) /\ R \in SUBSET Live /\ xfr' = xfr /\ steps' = steps
    BY <2>1 DEF NoPlan
  <2> HIDE DEF h
  <2> QED  BY <2>2
<1>3. CASE CreateOwnerChg(t)
  <2>1. PICK R \in SUBSET Live, a \in allocs :
          CreateTask(t, "owner_chg", R, a, {r \in R : Place(loc[r]) # a} \cup {a}) /\ NoPlan
    BY <1>3 DEF CreateOwnerChg
  <2> DEFINE h == {r \in R : Place(loc[r]) # a} \cup {a}
  <2>2. CreateTask(t, "owner_chg", R, a, h) /\ R \in SUBSET Live /\ xfr' = xfr /\ steps' = steps
    BY <2>1 DEF NoPlan
  <2> HIDE DEF h
  <2> QED  BY <2>2
<1>4. CASE CreateRecDelete(t)
  <2>1. PICK R \in (SUBSET Live) \ {{}} :
          /\ CreateTask(t, "rec_del", R, None, {})
          /\ \E q \in Plans(R, TRUE) : /\ xfr' = [xfr EXCEPT ![t] = q]
                                       /\ steps' = [steps EXCEPT ![t] = Len(q) + 2]
    BY <1>4 DEF CreateRecDelete
  <2> DEFINE h == {}
  <2>2. CreateTask(t, "rec_del", R, None, h)  BY <2>1
  <2> HIDE DEF h
  <2> QED  BY <2>1, <2>2
<1>5. CASE CreateAllocDelete(t)
  <2>1. PICK a \in allocs : /\ CreateTask(t, "alloc_del", {}, a, {a}) /\ Stored(a) = {}
                            /\ xfr' = xfr /\ steps' = [steps EXCEPT ![t] = 2]
    BY <1>5 DEF CreateAllocDelete
  <2> DEFINE R == {}  h == {a}
  <2>2. CreateTask(t, "alloc_del", R, a, h) /\ R \in SUBSET Live /\ R = {}  BY <2>1
  <2> HIDE DEF R, h
  <2> QED  BY <2>1, <2>2
<1> QED  BY <1>1, <1>2, <1>3, <1>4, <1>5 DEF Request

LEMMA RequestMoves ==
  ASSUME CInv, TypeInv', NEW t \in Tasks, Request(t), CleanJob(t)'
  PROVE  MoveInv'
<1>1. PICK k, R, d, held :
        /\ k \in AllKinds /\ R \in SUBSET Live
        /\ CreateTask(t, k, R, d, held)
        /\ k = "alloc_del" => R = {} /\ Stored(d) = {}
        /\ k # "rec_del" => xfr' = xfr
        /\ k = "rec_del" => \E q \in Plans(R, TRUE) : xfr' = [xfr EXCEPT ![t] = q]
        /\ \E n : steps' = steps \/ steps' = [steps EXCEPT ![t] = n]
  BY Asked
<1>0. k \in AllKinds /\ R \in SUBSET Live  BY <1>1
<1> USE <1>0
<1> DEFINE z == [r \in Recs |-> IF r \in R THEN size[r] ELSE 0]
           j == [kind |-> k, recs |-> R, dst |-> d, size |-> z]
<1>2. /\ at[t] = "none" /\ job' = [job EXCEPT ![t] = j] /\ at' = [at EXCEPT ![t] = "wait"]
      /\ UNCHANGED <<loc, owner, size, unborn, allocs, recCount, dataSize, disk, step>>
  BY <1>1 DEF CreateTask, GoTo, recVars, allocVars
<1>3. j.kind = k /\ j.recs = R /\ j.dst = d /\ j.size = z  OBVIOUS
<1> HIDE DEF j
<1>4. R \in SUBSET Recs /\ \A r \in R : z[r] = size[r]  BY DEF Live
<1> HIDE DEF z
<1>5. job'[t] = j /\ at'[t] = "wait" /\ step'[t] = 0
  BY <1>2 DEF CInv, TypeInv, TaskTypes, StepsKept, StepsOK
<1>6. OnlyTask(t)
  <2>1. \A u \in Tasks \ {t} : job'[u] = job[u] /\ at'[u] = at[u] /\ step'[u] = step[u]
    BY <1>2 DEF CInv, TypeInv, TaskTypes
  <2>2. \A u \in Tasks \ {t} : steps'[u] = steps[u]
    BY <1>1 DEF CInv, TypeInv, TaskTypes
  <2>3. \A u \in Tasks \ {t} : xfr'[u] = xfr[u]
    <3>1. CASE k = "rec_del"
      <4>1. PICK q : xfr' = [xfr EXCEPT ![t] = q]  BY <1>1, <3>1
      <4> QED  BY <4>1 DEF CInv, TypeInv, TaskTypes
    <3>2. CASE k # "rec_del"  BY <1>1, <3>2
    <3> QED  BY <3>1, <3>2
  <2> QED  BY <2>1, <2>2, <2>3 DEF OnlyTask
<1>7. Live' = Live /\ \A a : Stored(a)' = Stored(a)  BY <1>2 DEF Live, Stored, Place
<1>8. Kept'
  <2>1. DataKept'
    BY <1>2, <1>7
    DEF CInv, MoveInv, Kept, DataKept, Place
  <2> QED  BY <1>2, <2>1 DEF CInv, MoveInv, Kept
<1>9. \A u \in Tasks \ {t} : Active(u)' => Active(u) /\ R \cap job[u].recs = {}
                                        /\ (d = None \/ job[u].dst # d)
  BY <1>3, <1>5, <1>6 DEF CleanJob, Active, OnlyTask
<1>10. Apart'
  <2> SUFFICES ASSUME NEW u \in Tasks, NEW v \in Tasks, u # v, Active(u)', Active(v)'
               PROVE  /\ job'[u].recs \cap job'[v].recs = {}
                      /\ job'[u].dst = None \/ job'[v].dst # job'[u].dst
    BY DEF Apart
  <2>1. CASE u = t
    <3>1. job'[v] = job[v] /\ v \in Tasks \ {t}  BY <1>6, <2>1 DEF OnlyTask
    <3> QED  BY <1>3, <1>5, <1>9, <2>1, <3>1
  <2>2. CASE v = t
    <3>1. job'[u] = job[u] /\ u \in Tasks \ {t}  BY <1>6, <2>2 DEF OnlyTask
    <3> QED  BY <1>3, <1>5, <1>9, <2>2, <3>1
  <2>3. CASE u # t /\ v # t
    BY <1>6, <1>9, <2>3 DEF OnlyTask, CInv, MoveInv, Apart
  <2> QED  BY <2>1, <2>2, <2>3
<1>11. ASSUME NEW u \in Tasks \ {t}, Active(u)' PROVE JobOK(u)'
  <2> DEFINE E == {}
  <2>1. E \cap job[u].recs = {} /\ \A x \in E : FALSE  OBVIOUS
  <2> HIDE DEF E
  <2>3. Leaves(u, E, None)
    BY <1>2, <1>6, <2>1 DEF Leaves, OnlyTask
  <2> QED  BY <1>9, <1>11, <2>3, FrameJob
<1>12. R \cap unborn' = {}  BY <1>2 DEF Live, CInv, BooksInv
<1>13. k \in Moves => MoveOK(t)'
  <2> SUFFICES ASSUME k \in Moves PROVE MoveOK(t)'  OBVIOUS
  <2>1. /\ k = "alloc_chg" => \A r \in R : loc[r].repo # d[2] /\ owner[r] = d[1]
        /\ k = "owner_chg" => \A r \in R : loc[r].uid # d[1]
    BY <1>2, <1>3, <1>5 DEF CleanJob
  <2>2. \A r \in R : Unmoved(loc[r], k, d)
    BY <2>1 DEF Unmoved, CInv, BooksInv, OwnersAgree
  <2>3. R \subseteq Live' /\ \A r \in R : z[r] = size'[r]  BY <1>2, <1>4, <1>7
  <2>4. \A r \in R : Unmoved(loc'[r], k, d)  BY <1>2, <2>2
  <2> QED  BY <1>3, <1>5, <2>3, <2>4 DEF MoveOK
<1>14. PutOK(t)'  BY <1>3, <1>5, <1>7 DEF PutOK
<1>15. k = "rec_del" => DeletionOK(t)'
  <2> SUFFICES ASSUME k = "rec_del" PROVE DeletionOK(t)'  OBVIOUS
  <2>1. PICK q \in Plans(R, TRUE) : xfr' = [xfr EXCEPT ![t] = q]  BY <1>1
  <2>2. R \cap Live = R  OBVIOUS
  <2>3. IsPlan(q, R \cap Live)
    BY <1>4, PlansArePlans DEF CInv, TypeInv, DataTypes
  <2>4. \A i \in 1..Len(q) : q[i].recs \subseteq R  BY <2>2, <2>3 DEF IsPlan
  <2>5. xfr'[t] = q  BY <2>1 DEF CInv, TypeInv, TaskTypes
  <2> QED  BY <1>3, <1>5, <2>4, <2>5 DEF DeletionOK
<1>16. k = "alloc_del" => AllocDelOK(t)'  BY <1>1, <1>3, <1>5, <1>7 DEF AllocDelOK
<1>17. JobOK(t)'  BY <1>3, <1>5, <1>12, <1>13, <1>14, <1>15, <1>16 DEF JobOK
<1> QED  BY <1>8, <1>10, <1>11, <1>17 DEF MoveInv

LEMMA MovesInit == Init => MoveInv
<1> SUFFICES ASSUME Init PROVE MoveInv  OBVIOUS
<1>1. /\ size \in [Recs -> 0..MaxSize] /\ allocs \subseteq Places
      /\ \A r \in unborn : size[r] = 0
      /\ disk = [r \in Recs |-> [a \in Places |->
                   IF r \in Stored(a) /\ size[r] > 0 THEN size[r] ELSE NoFile]]
      /\ at = [t \in Tasks |-> "none"]
  BY DEF Init
<1>3. DataKept
  <2> SUFFICES ASSUME NEW r \in Live, size[r] > 0 PROVE disk[r][Place(loc[r])] # NoFile
    BY DEF DataKept
  <2>1. r \in Recs /\ Place(loc[r]) \in Places /\ r \in Stored(Place(loc[r]))
    BY <1>1 DEF Init, Live, Stored
  <2>2. disk[r][Place(loc[r])] = size[r]  BY <1>1, <2>1
  <2> QED  BY <2>2 DEF NoFile
<1>6. \A t \in Tasks : ~Active(t)  BY <1>1 DEF Active
<1> QED  BY <1>1, <1>3, <1>6 DEF MoveInv, Kept, Apart

LEMMA CleanStep == CInv /\ [CleanNext]_vars => CInv'
<1> SUFFICES ASSUME CInv, [CleanNext]_vars PROVE CInv'  OBVIOUS
<1>0. TypeInv /\ BooksInv  BY DEF CInv
<1>1. [Next]_vars  BY DEF CleanNext, Next
<1>2. BooksInv'  BY <1>0, <1>1, BooksStep
<1>3. ASSUME NEW r \in Recs, NEW a \in Places, CreateRecord(r, a),
             \A t \in Tasks : Active(t) => job[t].dst # a
      PROVE  CInv'
  <2>1. TypeInv'  BY <1>0, <1>3, CreateRecordTypes
  <2> QED  BY <1>2, <1>3, <2>1, CreateRecordMoves DEF CInv
<1>4. ASSUME NEW t \in Tasks, Request(t), CleanJob(t)' PROVE CInv'
  <2>1. TypeInv'  BY <1>0, <1>4, RequestTypes
  <2> QED  BY <1>2, <1>4, <2>1, RequestMoves DEF CInv
<1>5. ASSUME NEW t \in Tasks, Run(t) PROVE CInv'
  <2>1. TypeInv'  BY <1>0, <1>5, RunTypes
  <2>2. MoveInv'
    BY <1>5, <2>1, QuietRun, SetupKeeps, InitMoveMoves, FiniMoveMoves, EraseMoves,
       TransferMoves, UpdateSizeMoves, DeleteMoves, RollbackMoves DEF Run
  <2> QED  BY <1>2, <2>1, <2>2 DEF CInv
<1>6. CASE UNCHANGED vars
  <2>1. TypeInv'
    BY <1>0, <1>6 DEF TypeInv, DataTypes, TaskTypes, StepsKept, vars, recVars, allocVars,
                      taskVars, runVars
  <2>2. UNCHANGED <<loc, size, unborn, allocs, recCount, dataSize, disk, job, xfr, step, steps, at>>
    BY <1>6 DEF vars, recVars, allocVars, taskVars, runVars
  <2>3. Live' = Live /\ \A a : Stored(a)' = Stored(a)  BY <2>2 DEF Live, Stored, Place
  <2>4. Kept'
    <3>1. DataKept'
      BY <2>2, <2>3 DEF CInv, MoveInv, Kept, DataKept, Place
    <3> QED  BY <2>2, <3>1 DEF CInv, MoveInv, Kept
  <2>5. Apart' /\ \A u \in Tasks : Active(u)' => Active(u)
    BY <2>2 DEF CInv, MoveInv, Apart, Active
  <2>6. ASSUME NEW u \in Tasks, Active(u) PROVE JobOK(u)'
    <3> DEFINE E == {}
    <3>1. E \cap job[u].recs = {} /\ \A x \in E : FALSE  OBVIOUS
    <3> HIDE DEF E
    <3>3. Leaves(u, E, None)  BY <2>2, <3>1 DEF Leaves
    <3> QED  BY <2>1, <2>6, <3>3, FrameJob
  <2>7. MoveInv'  BY <2>4, <2>5, <2>6 DEF MoveInv
  <2> QED  BY <1>2, <2>1, <2>7 DEF CInv
<1> QED  BY <1>3, <1>4, <1>5, <1>6 DEF CleanNext

\* Every record is where its move has got to.
THEOREM MovesKept == CleanSpec => []CInv
<1>1. Init => CInv  BY TypeInit, BooksInit, MovesInit DEF CInv
<1> QED  BY <1>1, CleanStep, PTL DEF CleanSpec

\* No raw data is lost: a move deletes the files at the source of a chunk only when
\* they are at the destination and the locations of the records too, and a deletion
\* those of records that are deleted (taskRunRecAllocChg, taskRunRecOwnerChg,
\* taskRunRecCollDelete), whatever is repeated, cut off or thrown at.
THEOREM DataStays == CleanSpec => []DataKept
<1>1. CInv => DataKept  BY DEF CInv, MoveInv, Kept
<1> QED  BY <1>1, MovesKept, PTL

\* Only Finish ends a task that is inside /run.
LEMMA EndsByFinish ==
  ASSUME TypeInv, NEW t \in Tasks, at[t] = "run", at'[t] = "over", [CleanNext]_vars
  PROVE  Finish(t)
<1> USE DEF TypeInv, TaskTypes
<1>1. ASSUME NEW u \in Tasks, NEW s, s # "over", at' = [at EXCEPT ![u] = s] PROVE FALSE
  BY <1>1
<1>2. ASSUME NEW u \in Tasks, Request(u) PROVE FALSE
  <2>1. at' = [at EXCEPT ![u] = "wait"]
    BY <1>2 DEF Request, CreatePut, CreateAllocChg, CreateOwnerChg, CreateRecDelete,
                CreateAllocDelete, CreateTask, GoTo
  <2> QED  BY <1>1, <2>1
<1>3. at' # at  OBVIOUS
<1>4. ASSUME NEW u \in Tasks, Run(u) PROVE Finish(t)
  <2>1. CASE Setup(u) \/ MoveExternal(u) \/ InitMove(u) \/ FiniMove(u) \/ EraseRecords(u)
    BY <1>3, <2>1 DEF Setup, MoveExternal, InitMove, FiniMove, EraseRecords
  <2>2. CASE Begin(u) \/ RemoveAlloc(u) \/ Issue(u) \/ Confirm(u) \/ Throw(u) \/ Rollback(u)
             \/ RollbackFails(u)
    <3>1. \E s : s # "over" /\ at' = [at EXCEPT ![u] = s]
      BY <2>2 DEF Begin, RemoveAlloc, Issue, Confirm, Throw, Rollback, RollbackFails, GoTo
    <3> QED  BY <1>1, <3>1
  <2>3. CASE TransferOk(u) \/ TransferFails(u) \/ TransferRefused(u) \/ UpdateSize(u)
             \/ SizeFails(u) \/ Delete(u) \/ Repeat(u) \/ Cut(u)
    <3>1. \E s : s # "over" /\ at' = [at EXCEPT ![u] = s]
      BY <2>3 DEF TransferOk, TransferFails, TransferRefused, UpdateSize, SizeFails, Delete,
                  Repeat, Cut, Outcome, GoTo
    <3> QED  BY <1>1, <3>1
  <2>4. CASE Finish(u) \/ Complete(u)
    <3>1. at' = [at EXCEPT ![u] = "over"]  BY <2>4 DEF Finish, Complete, End, GoTo
    <3>2. u = t  BY <3>1
    <3> QED  BY <2>4, <3>2 DEF Complete
  <2> QED  BY <1>4, <2>1, <2>2, <2>3, <2>4 DEF Run
<1>5. ASSUME NEW r \in Recs, NEW a \in Places, CreateRecord(r, a) PROVE FALSE
  BY <1>3, <1>5 DEF CreateRecord, runVars
<1>6. CASE UNCHANGED vars  BY <1>3, <1>6 DEF vars, runVars
<1> QED  BY <1>2, <1>4, <1>5, <1>6 DEF CleanNext

\* A move that ends well has moved all its records: the task is past the last chunk,
\* and no repetition or rollback made it go past one that was not moved.
THEOREM FinishedMoved == CleanSpec => FinishedIsMoved
<1>1. CInv /\ [CleanNext]_vars =>
        [\A t \in Tasks : at[t] = "run" /\ at'[t] = "over" /\ job[t].kind \in Moves =>
           \A r \in job[t].recs \cap Live : Place(loc[r]) = job[t].dst]_vars
  <2> SUFFICES ASSUME CInv, [CleanNext]_vars, NEW t \in Tasks,
                      at[t] = "run", at'[t] = "over", job[t].kind \in Moves,
                      NEW r \in job[t].recs \cap Live
               PROVE  Place(loc[r]) = job[t].dst
    OBVIOUS
  <2>1. Finish(t) /\ Active(t)  BY EndsByFinish DEF CInv, Active
  <2>2. /\ step[t] >= 1 /\ step[t] >= steps[t] - 1 /\ step[t] \in Int
        /\ StepsOK(job[t], at[t], step[t], steps[t], xfr[t]) /\ Len(xfr[t]) \in Nat
    BY <2>1, ActiveTask DEF Finish, CInv, TypeInv, StepsKept
  <2>3. PlanOK(t)  BY <2>1, <2>2 DEF CInv, MoveInv, JobOK, MoveOK
  <2>4. PICK i \in 1..Len(xfr[t]) : r \in xfr[t][i].recs /\ ChunkOK(t, xfr[t][i], i)
    BY <2>3 DEF PlanOK
  <2>5. step[t] - ChunkStep(t, i) >= 3 /\ step[t] - ChunkStep(t, i) \in Int
    <3> DEFINE n == Len(xfr[t])
    <3>1. steps[t] = 4 * n + Base(t) + 1 /\ Base(t) \in 1..2
      <4>1. n \in Nat  BY <2>2
      <4> HIDE DEF n
      <4>2. /\ job[t].kind = "alloc_chg" => steps[t] = 4 * n + 2
            /\ job[t].kind = "owner_chg" => steps[t] = 4 * n + 3
        BY <2>1, <2>2 DEF StepsOK, Active, n
      <4> QED  BY <4>1, <4>2 DEF Base, Moves
    <3>2. n \in Nat /\ i \in Nat /\ i <= n  BY <2>2
    <3> HIDE DEF n
    <3> QED  BY <2>2, <3>1, <3>2 DEF ChunkStep
  <2> QED  BY <2>4, <2>5 DEF ChunkOK
<1>2. CleanSpec => [][CleanNext]_vars  BY DEF CleanSpec
<1> QED  BY <1>1, <1>2, MovesKept, PTL DEF FinishedIsMoved

-----------------------------------------------------------------------------
\* New owners.  Only a record of the chunk that its task is moving has one, or of
\* the chunk that the task is about to roll back.
AllOld(t) == \A r \in job[t].recs \cap Live : loc[r].newOwner = None

NewOwnerOK(t) ==
  /\ step[t] < 0 => ~err[t]
  /\ \A r \in job[t].recs \cap Live : loc[r].newOwner = None \/
       /\ job[t].kind = "owner_chg" /\ step[t] # 0 /\ at[t] # "undone"
       /\ step[t] < 0 => r \in Reverted(t)
       /\ step[t] >= 1 => Moving(t) /\ Substep(t) \in {1, 2} /\ r \in Current(t).recs

OwnerInv == NoNewOwnerAtRest /\ \A t \in Tasks : Active(t) => NewOwnerOK(t)

\* What a step of t leaves of the others.
Alone(t) == /\ OnlyTask(t) /\ job' = job
            /\ \A u \in Tasks \ {t} : err'[u] = err[u]
            /\ \A r \in Recs \ job[t].recs : loc'[r] = loc[r]

LEMMA OwnerElse ==
  ASSUME NEW u \in Tasks, NewOwnerOK(u), job[u].recs \subseteq Recs,
         UNCHANGED <<job[u], at[u], step[u], steps[u], xfr[u], err[u]>>,
         \A r \in job[u].recs : loc'[r] = loc[r]
  PROVE  NewOwnerOK(u)'
<1>1. job[u].recs \cap Live' = job[u].recs \cap Live  BY DEF Live
<1>2. /\ Reverted(u)' = Reverted(u) /\ Moving(u)' = Moving(u)
      /\ Substep(u)' = Substep(u) /\ Current(u)' = Current(u)
  BY DEF Reverted, RevertStep, Moving, Substep, Current, Base
<1> QED  BY <1>1, <1>2 DEF NewOwnerOK

LEMMA OwnerKeeps ==
  ASSUME CInv, OwnerInv, NEW t \in Tasks, Active(t), Alone(t),
         Active(t)' => NewOwnerOK(t)', ~Active(t)' => AllOld(t)'
  PROVE  OwnerInv'
<1>1. \A u \in Tasks : Active(u) => job[u].recs \in SUBSET Recs
  BY ActiveTask DEF CInv
<1>2. ASSUME NEW u \in Tasks, Active(u)' PROVE NewOwnerOK(u)'
  <2>1. CASE u = t  BY <1>2, <2>1
  <2>2. CASE u # t
    <3>1. Active(u) /\ UNCHANGED <<job[u], at[u], step[u], steps[u], xfr[u], err[u]>>
      BY <1>2, <2>2 DEF Alone, OnlyTask, Active
    <3>2. job[u].recs \cap job[t].recs = {}
      BY <2>2, <3>1 DEF CInv, MoveInv, Apart
    <3>3. NewOwnerOK(u) /\ \A r \in job[u].recs : loc'[r] = loc[r]
      BY <1>1, <3>1, <3>2 DEF OwnerInv, Alone
    <3> QED  BY <1>1, <3>1, <3>3, OwnerElse
  <2> QED  BY <2>1, <2>2
<1>3. ASSUME NEW r \in Live', loc'[r].newOwner # None
      PROVE  \E u \in Tasks : Active(u)' /\ r \in job'[u].recs
  <2>1. CASE r \in job[t].recs
    <3>1. Active(t)'  BY <1>3, <2>1 DEF AllOld, Alone
    <3> QED  BY <2>1, <3>1 DEF Alone
  <2>2. CASE r \notin job[t].recs
    <3>1. r \in Live /\ loc[r].newOwner # None  BY <1>3, <2>2 DEF Alone, Live
    <3>2. PICK u \in Tasks : Active(u) /\ r \in job[u].recs
      BY <3>1 DEF OwnerInv, NoNewOwnerAtRest
    <3>3. u # t /\ Active(u)'  BY <2>2, <3>2 DEF Alone, OnlyTask, Active
    <3> QED  BY <3>2, <3>3 DEF Alone
  <2> QED  BY <2>1, <2>2
<1> QED  BY <1>2, <1>3 DEF OwnerInv, NoNewOwnerAtRest

\* The next step is one of the same chunk.
LEMMA SameChunk ==
  ASSUME TypeInv, NEW t \in Tasks, Active(t), Moving(t), Substep(t) \in 0..2,
         step'[t] = step[t] + 1, UNCHANGED <<job, xfr[t], steps[t]>>
  PROVE  Moving(t)' /\ Substep(t)' = Substep(t) + 1 /\ Current(t)' = Current(t)
<1>1. PICK b, y, n : b = Base(t) /\ y = step[t] - Base(t) /\ n = Len(xfr[t])  OBVIOUS
<1>2. /\ step[t] \in Int /\ b \in 1..2 /\ n \in Nat /\ y \in Nat /\ step[t] = y + b
      /\ y \div 4 + 1 \in 1..n
  BY <1>1, ActiveTask, InPlan DEF Base, Moving
<1>3. steps[t] = 4 * n + b + 1
  <2>1. StepsOK(job[t], at[t], step[t], steps[t], xfr[t]) /\ step[t] # 0 /\ job[t].kind \in Moves
    BY <1>2 DEF TypeInv, StepsKept, Moving
  <2>2. /\ job[t].kind = "alloc_chg" => steps[t] = 4 * n + 2
        /\ job[t].kind = "owner_chg" => steps[t] = 4 * n + 3
    BY <1>1, <2>1 DEF StepsOK, Active
  <2>3. b = IF job[t].kind = "alloc_chg" THEN 1 ELSE 2  BY <1>1 DEF Base
  <2>4. job[t].kind \in {"alloc_chg", "owner_chg"}  BY <2>1 DEF Moves
  <2> QED  BY <1>2, <2>2, <2>3, <2>4
<1>4. Base(t)' = b /\ (step[t] - Base(t))' = y + 1
  <2>1. Base(t)' = b  BY <1>1 DEF Base
  <2> QED  BY <1>2, <2>1
<1>5. y % 4 \in 0..2  BY <1>1 DEF Substep
<1>6. (y + 1) % 4 = (y % 4) + 1 /\ (y + 1) \div 4 = y \div 4  BY <1>2, <1>5
<1>7. y + 1 <= 4 * n - 1
  <2>1. y = 4 * (y \div 4) + (y % 4) /\ y \div 4 \in Nat  BY <1>2
  <2> DEFINE e == y \div 4  f == y % 4
  <2>2. y = 4 * e + f /\ f \in 0..2 /\ e \in Nat /\ e + 1 <= n  BY <1>2, <1>5, <2>1
  <2> HIDE DEF e, f
  <2> QED  BY <1>2, <2>2
<1>8. Substep(t)' = Substep(t) + 1  BY <1>1, <1>4, <1>6 DEF Substep
<1>9. Current(t)' = Current(t)  BY <1>1, <1>4, <1>6 DEF Current
<1>10. step[t] + 1 \in b..steps[t] - 2  BY <1>2, <1>3, <1>7
<1>11. Moving(t)'  BY <1>4, <1>10 DEF Moving
<1> QED  BY <1>8, <1>9, <1>11

LEMMA OldIsOK ==
  ASSUME NEW t \in Tasks, AllOld(t)', step'[t] < 0 => ~err'[t]
  PROVE  NewOwnerOK(t)'
BY DEF AllOld, NewOwnerOK

\* Records are marked for the destination, and its owner, or not at all.
LEMMA InitMarks ==
  ASSUME CInv, OwnerInv, NEW t \in Tasks, InitMove(t)
  PROVE  OwnerInv'
<1> DEFINE x == Current(t)  k == job[t].kind  d == job[t].dst
<1>1. /\ at[t] = "run" /\ ~err[t] /\ Moving(t) /\ Substep(t) = 0 /\ CanInit(t)
      /\ loc' = [r \in Recs |-> IF r \in x.recs THEN Marked(loc[r], k, d) ELSE loc[r]]
      /\ step' = [step EXCEPT ![t] = @ + 1]
      /\ UNCHANGED <<job, xfr, steps, at, err>>
  BY DEF InitMove, Called, taskVars
<1>2. Active(t) /\ k \in Moves  BY <1>1 DEF Active, Moving
<1>3. x.recs \subseteq job[t].recs /\ x.recs \subseteq Live
  <2>1. JobOK(t) /\ step[t] >= 1  BY <1>1, <1>2, InPlan DEF CInv, MoveInv
  <2>2. PlanOK(t)  BY <1>2, <2>1 DEF JobOK, MoveOK
  <2>3. \E c \in 1..Len(xfr[t]) : x = xfr[t][c]  BY <1>1, <1>2, CurrentChunk DEF CInv
  <2> QED  BY <1>1, <2>2, <2>3 DEF PlanOK, ChunkOK, CanInit
<1>4. /\ OnlyTask(t) /\ step'[t] = step[t] + 1 /\ step[t] >= 1
      /\ step'[t] # 0 /\ ~(step'[t] < 0)
  <2>1. OnlyTask(t) /\ step'[t] = step[t] + 1
    BY <1>1 DEF OnlyTask, CInv, TypeInv, TaskTypes
  <2>2. step[t] >= 1 /\ step[t] \in Int  BY <1>1, <1>2, InPlan, ActiveTask DEF CInv
  <2> QED  BY <2>1, <2>2
<1>5. \A r \in Recs \ x.recs : loc'[r] = loc[r]  BY <1>1
<1>6. Alone(t)  BY <1>1, <1>3, <1>4, <1>5 DEF Alone
<1>7. AllOld(t)  BY <1>1, <1>2, <1>4 DEF AllOld, OwnerInv, NewOwnerOK
<1>8. Moving(t)' /\ Substep(t)' = 1 /\ Current(t)' = x
  BY <1>1, <1>2, <1>4, SameChunk DEF CInv
<1>9. NewOwnerOK(t)'
  <2> SUFFICES ASSUME NEW r \in job[t].recs \cap Live', loc'[r].newOwner # None
               PROVE  k = "owner_chg" /\ r \in x.recs
    BY <1>1, <1>4, <1>8 DEF NewOwnerOK
  <2>1. r \in Recs  BY DEF Live
  <2>2. CASE r \in x.recs
    <3>1. loc[r].newOwner = None /\ loc[r] \in Locs
      BY <1>3, <1>7, <2>1, <2>2 DEF AllOld, Live, CInv, TypeInv, DataTypes
    <3>2. loc'[r] = Marked(loc[r], k, d)  BY <1>1, <2>1, <2>2
    <3>3. k # "alloc_chg"  BY <3>1, <3>2 DEF Marked, Locs
    <3> QED  BY <1>2, <2>2, <3>3 DEF Moves
  <2>3. CASE r \notin x.recs
    <3>1. loc'[r] = loc[r] /\ r \in Live  BY <1>5, <2>1, <2>3 DEF Live
    <3> QED  BY <1>7, <3>1 DEF AllOld
  <2> QED  BY <2>2, <2>3
<1>10. Active(t)'  BY <1>1, <1>2 DEF Active
<1> QED  BY <1>2, <1>6, <1>9, <1>10, OwnerKeeps

LEMMA OldStays ==
  ASSUME CInv, OwnerInv, NEW t \in Tasks, Active(t), Alone(t), AllOld(t)',
         step'[t] < 0 => ~err'[t]
  PROVE  OwnerInv'
BY OldIsOK, OwnerKeeps

LEMMA OwnerStays ==
  ASSUME CInv, OwnerInv, NEW t \in Tasks, Active(t), Alone(t), Active(t)', loc' = loc,
         UNCHANGED <<step[t], xfr[t], steps[t]>>, at'[t] # "undone",
         step[t] < 0 => ~err'[t]
  PROVE  OwnerInv'
<1>1. job[t].recs \cap Live' = job[t].recs \cap Live /\ job' = job  BY DEF Live, Alone
<1>2. /\ Reverted(t)' = Reverted(t) /\ Moving(t)' = Moving(t)
      /\ Substep(t)' = Substep(t) /\ Current(t)' = Current(t)
  BY <1>1 DEF Reverted, RevertStep, Moving, Substep, Current, Base
<1>3. NewOwnerOK(t)  BY DEF OwnerInv
<1>4. NewOwnerOK(t)'  BY <1>1, <1>2, <1>3 DEF NewOwnerOK
<1> QED  BY <1>4, OwnerKeeps

\* The records of the chunk have their new owner, and no newer one.
LEMMA FiniMarks ==
  ASSUME CInv, OwnerInv, NEW t \in Tasks, FiniMove(t)
  PROVE  OwnerInv'
<1>1. /\ at[t] = "run" /\ ~err[t] /\ Moving(t) /\ Substep(t) = 2 /\ CanFini(t)
      /\ loc' = [r \in Recs |-> IF r \in Movers(t)
                                THEN [repo |-> loc[r].newRepo, uid |-> NewOwner(loc[r]),
                                      newRepo |-> None, newOwner |-> None]
                                ELSE loc[r]]
      /\ step' = [step EXCEPT ![t] = @ + 1]
      /\ UNCHANGED <<job, xfr, steps, at, err>>
  BY DEF FiniMove, Called, taskVars
<1>2. Active(t)  BY <1>1 DEF Active
<1>3. PICK x, d : x = Current(t) /\ d = job[t].dst  OBVIOUS
<1>4. Arrives(t, x, d)  BY <1>2, <1>3, FiniArrives
<1>5. /\ \A r \in Recs \ x.recs : loc'[r] = loc[r]
      /\ x.recs \subseteq job[t].recs /\ x.recs \subseteq Live
  BY <1>4 DEF Arrives
<1>7. x.recs \subseteq Movers(t)  BY <1>4 DEF Arrives, To
<1>8. \A r \in x.recs : loc'[r].newOwner = None
  BY <1>1, <1>5, <1>7 DEF Live
<1>9. /\ OnlyTask(t) /\ step[t] >= 1
      /\ step'[t] # 0 /\ ~(step'[t] < 0)
  <2>1. OnlyTask(t) /\ step'[t] = step[t] + 1
    BY <1>1 DEF OnlyTask, CInv, TypeInv, TaskTypes
  <2>2. step[t] >= 1 /\ step[t] \in Int  BY <1>1, <1>2, InPlan, ActiveTask DEF CInv
  <2> QED  BY <2>1, <2>2
<1>10. Alone(t)  BY <1>1, <1>5, <1>9 DEF Alone
<1>11. AllOld(t)'
  <2> SUFFICES ASSUME NEW r \in job[t].recs \cap Live' PROVE loc'[r].newOwner = None
    BY <1>1 DEF AllOld
  <2>1. CASE r \in x.recs  BY <1>8, <2>1
  <2>2. CASE r \notin x.recs
    <3>1. loc'[r] = loc[r] /\ r \in Live  BY <1>5, <2>2 DEF Live
    <3>2. loc[r].newOwner = None
      BY <1>2, <1>3, <1>9, <2>2, <3>1 DEF OwnerInv, NewOwnerOK
    <3> QED  BY <3>1, <3>2
  <2> QED  BY <2>1, <2>2
<1> QED  BY <1>2, <1>9, <1>10, <1>11, OldStays

LEMMA RollbackMarks ==
  ASSUME CInv, OwnerInv, NEW t \in Tasks, Rollback(t)
  PROVE  OwnerInv'
<1> DEFINE R == Reverted(t)
<1>1. /\ at[t] = "undo" \/ (at[t] = "run" /\ step[t] < 0)
      /\ R \subseteq Live
      /\ loc' = [r \in Recs |-> IF r \in R THEN [loc[r] EXCEPT !.newRepo = None, !.newOwner = None]
                                ELSE loc[r]]
      /\ step' = [step EXCEPT ![t] = IF R = {} THEN @ ELSE @ - RevertStep(t)]
      /\ at' = [at EXCEPT ![t] = "undone"]
      /\ UNCHANGED <<job, xfr, steps, err>>
  BY DEF Rollback, Called, GoTo, taskVars
<1>2. Active(t) /\ step[t] < 0
  <2>1. Active(t)  BY <1>1 DEF Active
  <2> QED  BY <1>1, <2>1, ActiveTask DEF CInv, TypeInv, StepsKept, StepsOK
<1>3. R \subseteq job[t].recs  BY <1>2, RevertedInJob
<1>4. OnlyTask(t)  BY <1>1 DEF OnlyTask, CInv, TypeInv, TaskTypes
<1>5. Alone(t)  BY <1>1, <1>3, <1>4 DEF Alone
<1>6. AllOld(t)'
  <2> SUFFICES ASSUME NEW r \in job[t].recs \cap Live' PROVE loc'[r].newOwner = None
    BY <1>1 DEF AllOld
  <2>1. r \in Recs  BY DEF Live
  <2>2. CASE r \in R
    <3>1. loc[r] \in Locs  BY <1>1, <2>2 DEF Live, CInv, TypeInv, DataTypes
    <3> QED  BY <1>1, <2>1, <2>2, <3>1 DEF Locs
  <2>3. CASE r \notin R
    <3>1. loc'[r] = loc[r] /\ r \in Live  BY <1>1, <2>1, <2>3 DEF Live
    <3>2. loc[r].newOwner = None  BY <1>2, <2>3, <3>1 DEF OwnerInv, NewOwnerOK
    <3> QED  BY <3>1, <3>2
  <2> QED  BY <2>2, <2>3
<1>7. ~err[t]  BY <1>2 DEF OwnerInv, NewOwnerOK
<1> QED  BY <1>1, <1>2, <1>5, <1>6, <1>7, OldStays

\* The first exception of a step turns a chunk that has new owners into one that is
\* rolled back.
LEMMA ThrowMarks ==
  ASSUME CInv, OwnerInv, NEW t \in Tasks, Throw(t)
  PROVE  OwnerInv'
<1>1. /\ at[t] = "run" /\ (err[t] \/ step[t] >= 0)
      /\ step' = [step EXCEPT ![t] = IF @ > 0 THEN -step[t] ELSE @]
      /\ at' = [at EXCEPT ![t] = IF step[t] > 0 THEN "undo" ELSE "undone"]
      /\ err' = [err EXCEPT ![t] = FALSE]
      /\ UNCHANGED <<loc, job, xfr, steps>>
  BY DEF Throw, GoTo, recVars, taskVars
<1>2. Active(t) /\ step[t] \in Int /\ NewOwnerOK(t)
  <2>1. Active(t)  BY <1>1 DEF Active
  <2> QED  BY <2>1, ActiveTask DEF CInv, OwnerInv
<1>3. Alone(t) /\ ~err'[t] /\ Live' = Live
  <2>1. OnlyTask(t)  BY <1>1 DEF OnlyTask, CInv, TypeInv, TaskTypes
  <2> QED  BY <1>1, <2>1 DEF Alone, Live, CInv, TypeInv, TaskTypes
<1>4. CASE step[t] > 0
  <2>1. step'[t] = -step[t] /\ at'[t] = "undo"
    BY <1>1, <1>4 DEF CInv, TypeInv, TaskTypes
  <2>2. ASSUME NEW r \in job[t].recs \cap Live, loc[r].newOwner # None
        PROVE  job[t].kind = "owner_chg" /\ r \in Reverted(t)'
    <3>1. /\ job[t].kind = "owner_chg" /\ Moving(t) /\ Substep(t) \in {1, 2}
          /\ r \in Current(t).recs
      BY <1>2, <1>4, <2>2 DEF NewOwnerOK
    <3>2. /\ Base(t) = 2 /\ step[t] \in 2..steps[t] - 2 /\ (step[t] - 2) % 4 \in {1, 2}
          /\ r \in xfr[t][(step[t] - 2) \div 4 + 1].recs
      BY <3>1 DEF Base, Moving, Substep, Current
    <3>3. -step'[t] = step[t]  BY <1>2, <2>1
    <3>4. RevertStep(t)' = (step[t] - 2) % 4  BY <3>3 DEF RevertStep
    <3>5. Reverted(t)' = xfr[t][(step[t] - 2) \div 4 + 1].recs
      BY <1>1, <3>1, <3>2, <3>3, <3>4 DEF Reverted, Moves
    <3> QED  BY <3>1, <3>2, <3>5
  <2>3. step'[t] # 0 /\ ~(step'[t] >= 1)  BY <1>2, <1>4, <2>1
  <2>4. NewOwnerOK(t)'  BY <1>1, <1>3, <2>1, <2>2, <2>3 DEF NewOwnerOK
  <2>5. Active(t)'  BY <2>1 DEF Active
  <2> QED  BY <1>2, <1>3, <2>4, <2>5, OwnerKeeps
<1>5. CASE ~(step[t] > 0)
  <2>1. step[t] = 0  BY <1>1, <1>2, <1>5 DEF NewOwnerOK
  <2>2. AllOld(t)  BY <1>2, <2>1 DEF NewOwnerOK, AllOld
  <2>3. AllOld(t)'  BY <1>1, <1>3, <2>2 DEF AllOld
  <2> QED  BY <1>2, <1>3, <2>3, OldStays
<1> QED  BY <1>4, <1>5

\* Setting up a move plans the chunks of its own task.
LEMMA SetupAlone ==
  ASSUME TypeInv, NEW t \in Tasks, Setup(t)
  PROVE  \A u \in Tasks \ {t} : xfr'[u] = xfr[u] /\ steps'[u] = steps[u]
<1>1. PICK q \in Plans(job[t].recs, job[t].kind = "put") :
        /\ xfr' = [xfr EXCEPT ![t] = q]
        /\ \E n : steps' = [steps EXCEPT ![t] = n]
  BY Zenon DEF Setup
<1> QED  BY <1>1 DEF TypeInv, TaskTypes

\* The steps that mark no record and change no owner.
LEMMA OtherMarks ==
  ASSUME CInv, OwnerInv, TypeInv', "cut" \notin Faults, "throw" \notin Faults,
         NEW t \in Tasks, Run(t), ~InitMove(t), ~FiniMove(t), ~Rollback(t), ~Throw(t)
  PROVE  OwnerInv'
<1> USE DEF Alone, OnlyTask, recVars, allocVars, taskVars, GoTo, Outcome
<1>0. /\ Active(t) => NewOwnerOK(t) /\ step[t] \in Int /\ job[t].recs \in SUBSET Recs
      /\ at[t] \in {"cmd", "done", "wait"} => ~(step[t] < 0)
      /\ at[t] \in {"cmd", "done", "run", "wait", "undo", "undone"} => Active(t)
  <2>1. at[t] \in {"cmd", "done", "run", "wait", "undo", "undone"} => Active(t)
    BY DEF Active
  <2>2. Active(t) => NewOwnerOK(t)  BY DEF OwnerInv
  <2>3. Active(t) => step[t] \in Int /\ job[t].recs \in SUBSET Recs
    BY ActiveTask DEF CInv
  <2>4. StepsOK(job[t], at[t], step[t], steps[t], xfr[t])
    BY DEF CInv, TypeInv, StepsKept
  <2>5. at[t] \in {"cmd", "done", "wait"} => ~(step[t] < 0)
    <3>1. at[t] \in {"cmd", "done", "wait"} => step[t] \in Int
      BY <2>1, <2>3
    <3>2. at[t] \in {"cmd", "done", "wait"} => step[t] >= 1 \/ step[t] = 0
      BY <2>4 DEF StepsOK
    <3> QED  BY <3>1, <3>2
  <2> QED  BY <2>1, <2>2, <2>3, <2>5
<1>1. ASSUME Begin(t) \/ RemoveAlloc(t) \/ Issue(t) PROVE OwnerInv'
  <2>1. /\ at[t] \in {"wait", "run"} /\ at'[t] \in {"run", "cmd"} /\ Alone(t)
        /\ loc' = loc /\ UNCHANGED <<step[t], xfr[t], steps[t]>>
    BY <1>1 DEF Begin, RemoveAlloc, Issue, Called, CInv, TypeInv, TaskTypes
  <2>2. Active(t) /\ Active(t)' /\ (step[t] < 0 => ~err'[t])
    BY <1>0, <1>1, <2>1 DEF Begin, RemoveAlloc, Issue, Called, Active, NewOwnerOK
  <2> QED  BY <2>1, <2>2, OwnerStays
<1>2. ASSUME TransferOk(t) \/ TransferFails(t) \/ TransferRefused(t) \/ UpdateSize(t)
             \/ SizeFails(t) \/ Delete(t) \/ Repeat(t)
      PROVE  OwnerInv'
  <2>1. /\ at[t] \in {"cmd", "run", "done", "undo", "undone"} /\ at'[t] \in {"run", "done"}
        /\ Alone(t) /\ loc' = loc /\ UNCHANGED <<step[t], xfr[t], steps[t]>>
        /\ at[t] = "cmd" \/ ~err'[t]
    BY <1>2 DEF TransferOk, TransferFails, TransferRefused, UpdateSize, SizeFails, Delete,
                Repeat, CInv, TypeInv, TaskTypes
  <2>2. Active(t) /\ Active(t)' /\ (step[t] < 0 => ~err'[t])
    BY <1>0, <2>1 DEF Active
  <2> QED  BY <2>1, <2>2, OwnerStays
<1>3. ASSUME Finish(t) \/ Complete(t) PROVE OwnerInv'
  <2>1. /\ at[t] \in {"run", "undone"} /\ Alone(t) /\ loc' = loc /\ step'[t] = 0
    BY <1>3 DEF Finish, Complete, Called, End, CInv, TypeInv, TaskTypes
  <2>2. Active(t) /\ NewOwnerOK(t)  BY <1>0, <2>1
  <2>3. AllOld(t)
    <3>1. CASE Complete(t)  BY <2>2, <3>1 DEF Complete, AllOld, NewOwnerOK
    <3>2. CASE Finish(t)
      <4>1. step[t] >= 1 /\ step[t] >= steps[t] - 1 /\ step[t] \in Int /\ steps[t] \in Int
        BY <2>2, <3>2, ActiveTask DEF Finish, CInv
      <4>2. ~Moving(t)  BY <4>1 DEF Moving
      <4> QED  BY <2>2, <4>1, <4>2 DEF AllOld, NewOwnerOK
    <3> QED  BY <1>3, <3>1, <3>2
  <2>4. AllOld(t)'  BY <2>1, <2>3 DEF AllOld, Live
  <2> QED  BY <2>1, <2>2, <2>4, OldStays
<1>4. ASSUME Setup(t) \/ MoveExternal(t) PROVE OwnerInv'
  <2>1. /\ at[t] = "run" /\ UNCHANGED <<loc, job, at, err>>
        /\ \/ step[t] = 0 /\ step' = [step EXCEPT ![t] = 1]
           \/ step[t] = 1 /\ job[t].kind = "owner_chg" /\ step' = [step EXCEPT ![t] = 2]
        /\ \A u \in Tasks \ {t} : xfr'[u] = xfr[u] /\ steps'[u] = steps[u]
    <3>1. CASE Setup(t)
      <4>2. \A u \in Tasks \ {t} : xfr'[u] = xfr[u] /\ steps'[u] = steps[u]
        BY <3>1, SetupAlone DEF CInv
      <4> QED  BY <3>1, <4>2 DEF Setup, Called
    <3>2. CASE MoveExternal(t)  BY <3>2 DEF MoveExternal, Called
    <3> QED  BY <1>4, <3>1, <3>2
  <2>2. Active(t) /\ NewOwnerOK(t)  BY <1>0, <2>1
  <2>3. Alone(t) /\ step'[t] \in 1..2
    BY <2>1 DEF CInv, TypeInv, TaskTypes
  <2>4. AllOld(t)
    <3>1. step[t] = 1 /\ job[t].kind = "owner_chg" => ~Moving(t)  BY DEF Moving, Base
    <3> QED  BY <2>1, <2>2, <3>1 DEF AllOld, NewOwnerOK
  <2>5. AllOld(t)'  BY <2>1, <2>4 DEF AllOld, Live
  <2>6. ~(step'[t] < 0)  BY <2>3
  <2> QED  BY <2>2, <2>3, <2>5, <2>6, OldStays
<1>5. ASSUME EraseRecords(t) PROVE OwnerInv'
  <2>1. /\ at[t] = "run" /\ step[t] = 0 /\ job[t].recs \subseteq Live
        /\ loc' = [r \in Recs |-> IF r \in job[t].recs THEN None ELSE loc[r]]
        /\ step' = [step EXCEPT ![t] = 1] /\ UNCHANGED <<job, xfr, steps, at, err>>
    BY <1>5 DEF EraseRecords, Called
  <2>2. Active(t)  BY <1>0, <2>1
  <2>3. Alone(t) /\ step'[t] = 1  BY <2>1 DEF CInv, TypeInv, TaskTypes
  <2>4. job[t].recs \cap Live' = {}  BY <2>1 DEF Live
  <2>5. AllOld(t)'  BY <2>1, <2>4 DEF AllOld
  <2> QED  BY <2>2, <2>3, <2>5, OldStays
<1>6. ASSUME Confirm(t) PROVE OwnerInv'
  <2>1. /\ at[t] = "done" /\ at'[t] = "run" /\ step'[t] = step[t] + 1
        /\ UNCHANGED <<loc, job, xfr, steps, err>> /\ Alone(t)
    BY <1>6 DEF Confirm, CInv, TypeInv, TaskTypes
  <2>2. Active(t) /\ NewOwnerOK(t) /\ step[t] \in Int /\ ~(step[t] < 0) /\ Active(t)'
    BY <1>0, <2>1 DEF Active
  <2>3. ~(step'[t] < 0) /\ step'[t] # 0  BY <2>1, <2>2
  <2>4. CASE AllOld(t)
    <3>1. AllOld(t)'  BY <2>1, <2>4 DEF AllOld, Live
    <3> QED  BY <2>1, <2>2, <2>3, <3>1, OldStays
  <2>5. CASE ~AllOld(t)
    <3>1. Moving(t) /\ Substep(t) \in {1, 2} /\ job[t].kind = "owner_chg" /\ step[t] >= 1
      BY <2>2, <2>5 DEF AllOld, NewOwnerOK
    <3>2. JobOK(t) /\ job[t].kind \in Moves  BY <2>2, <3>1 DEF CInv, MoveInv, Moving
    <3>3. Substep(t) = 1  BY <2>1, <3>1, <3>2 DEF JobOK, MoveOK
    <3>4. Moving(t)' /\ Substep(t)' = 2 /\ Current(t)' = Current(t)
      BY <2>1, <2>2, <3>1, <3>3, SameChunk DEF CInv
    <3>5. NewOwnerOK(t)'
      BY <2>1, <2>2, <2>3, <3>1, <3>4 DEF NewOwnerOK, Live
    <3> QED  BY <2>1, <2>2, <3>5, OwnerKeeps
  <2> QED  BY <2>4, <2>5
<1>7. ASSUME RollbackFails(t) PROVE FALSE
  <2>1. /\ at[t] = "undo" \/ (at[t] = "run" /\ step[t] < 0)
        /\ ~(Reverted(t) \subseteq Live)
    BY <1>7 DEF RollbackFails, Called
  <2>2. Active(t) /\ step[t] < 0
    <3>1. Active(t)  BY <1>0, <2>1
    <3> QED  BY <2>1, <3>1 DEF CInv, TypeInv, StepsKept, StepsOK, Active
  <2>3. Reverted(t) \subseteq job[t].recs  BY <2>2, RevertedInJob
  <2>4. job[t].kind \in Moves  BY <2>1 DEF Reverted
  <2>5. job[t].recs \subseteq Live  BY <2>2, <2>4 DEF CInv, MoveInv, JobOK, MoveOK
  <2> QED  BY <2>1, <2>3, <2>5
<1>8. ~Cut(t)  BY DEF Cut
<1> QED  BY <1>1, <1>2, <1>3, <1>4, <1>5, <1>6, <1>7, <1>8 DEF Run

LEMMA OwnerStep ==
  CInv /\ TypeInv' /\ OwnerInv /\ "cut" \notin Faults /\ "throw" \notin Faults
    /\ [CleanNext]_vars => OwnerInv'
<1> SUFFICES ASSUME CInv, TypeInv', OwnerInv, "cut" \notin Faults, "throw" \notin Faults,
                    [CleanNext]_vars
             PROVE  OwnerInv'
  OBVIOUS
<1>1. ASSUME NEW t \in Tasks, Run(t) PROVE OwnerInv'
  BY <1>1, InitMarks, FiniMarks, RollbackMarks, ThrowMarks, OtherMarks
<1>2. \A u \in Tasks : Active(u) => NewOwnerOK(u) /\ job[u].recs \in SUBSET Recs
  BY ActiveTask DEF OwnerInv, CInv
<1>3. ASSUME NEW r \in Recs, NEW a \in Places, CreateRecord(r, a) PROVE OwnerInv'
  <2> DEFINE l == [uid |-> a[1], repo |-> a[2], newRepo |-> None, newOwner |-> None]
  <2>1. /\ r \in unborn /\ loc' = [loc EXCEPT ![r] = l]
        /\ UNCHANGED <<job, xfr, step, steps, at, err>>
    BY <1>3 DEF CreateRecord, taskVars, runVars
  <2>2. l.newOwner = None  OBVIOUS
  <2> HIDE DEF l
  <2>3. loc'[r] = l /\ \A x \in Recs \ {r} : loc'[x] = loc[x]
    BY <2>1 DEF CInv, TypeInv, DataTypes
  <2>4. ASSUME NEW u \in Tasks, Active(u)' PROVE NewOwnerOK(u)'
    <3>1. Active(u)  BY <2>1, <2>4 DEF Active
    <3>2. r \notin job[u].recs  BY <2>1, <3>1 DEF CInv, MoveInv, JobOK
    <3>3. \A x \in job[u].recs : loc'[x] = loc[x]  BY <1>2, <2>3, <3>1, <3>2
    <3> QED  BY <1>2, <2>1, <3>1, <3>3, OwnerElse
  <2>5. NoNewOwnerAtRest'
    <3> SUFFICES ASSUME NEW x \in Live', loc'[x].newOwner # None
                 PROVE  \E u \in Tasks : Active(u)' /\ x \in job'[u].recs
      BY DEF NoNewOwnerAtRest
    <3>1. x # r  BY <2>2, <2>3
    <3>2. x \in Live /\ loc[x].newOwner # None  BY <2>3, <3>1 DEF Live
    <3> QED  BY <2>1, <3>2 DEF OwnerInv, NoNewOwnerAtRest, Active
  <2> QED  BY <2>4, <2>5 DEF OwnerInv
<1>4. ASSUME NEW t \in Tasks, Request(t), CleanJob(t)' PROVE OwnerInv'
  <2>1. PICK k, R, d, held :
          /\ R \in SUBSET Live /\ CreateTask(t, k, R, d, held)
          /\ k # "rec_del" => xfr' = xfr
          /\ k = "rec_del" => \E q \in Plans(R, TRUE) : xfr' = [xfr EXCEPT ![t] = q]
          /\ \E n : steps' = steps \/ steps' = [steps EXCEPT ![t] = n]
    BY <1>4, Asked
  <2> DEFINE j == [kind |-> k, recs |-> R, dst |-> d,
                   size |-> [r \in Recs |-> IF r \in R THEN size[r] ELSE 0]]
  <2>2. /\ at[t] = "none" /\ job' = [job EXCEPT ![t] = j] /\ at' = [at EXCEPT ![t] = "wait"]
        /\ UNCHANGED <<loc, step, err>>
    BY <2>1 DEF CreateTask, GoTo, recVars
  <2>3. j.recs = R  OBVIOUS
  <2> HIDE DEF j
  <2>4. job'[t] = j /\ at'[t] = "wait" /\ step'[t] = 0
    BY <2>2 DEF CInv, TypeInv, TaskTypes, StepsKept, StepsOK
  <2>5. ASSUME NEW u \in Tasks, u # t
        PROVE  UNCHANGED <<job[u], at[u], step[u], steps[u], xfr[u], err[u]>>
    <3>1. UNCHANGED <<job[u], at[u], step[u], err[u]>>
      BY <2>2, <2>5 DEF CInv, TypeInv, TaskTypes
    <3>2. steps'[u] = steps[u]  BY <2>1, <2>5 DEF CInv, TypeInv, TaskTypes
    <3>3. xfr'[u] = xfr[u]
      <4>1. CASE k = "rec_del"
        <5>1. PICK q : xfr' = [xfr EXCEPT ![t] = q]  BY <2>1, <4>1
        <5> QED  BY <2>5, <5>1 DEF CInv, TypeInv, TaskTypes
      <4>2. CASE k # "rec_del"  BY <2>1, <4>2
      <4> QED  BY <4>1, <4>2
    <3> QED  BY <3>1, <3>2, <3>3
  <2>6. \A u \in Tasks : Active(u) => u # t /\ Active(u)' /\ job'[u] = job[u]
                                      /\ R \cap job[u].recs = {}
    <3> SUFFICES ASSUME NEW u \in Tasks, Active(u)
                 PROVE  /\ u # t /\ Active(u)' /\ job'[u] = job[u]
                        /\ R \cap job[u].recs = {}
      OBVIOUS
    <3>1. u # t  BY <2>2 DEF Active
    <3>2. Active(u)' /\ job'[u] = job[u]  BY <2>5, <3>1 DEF Active
    <3>3. job'[u].recs \cap job'[t].recs = {}  BY <1>4, <3>1, <3>2 DEF CleanJob
    <3> QED  BY <2>3, <2>4, <3>1, <3>2, <3>3
  <2>7. Live' = Live  BY <2>2 DEF Live
  <2>8. NoNewOwnerAtRest'
    BY <2>2, <2>6, <2>7 DEF OwnerInv, NoNewOwnerAtRest
  <2>9. ASSUME NEW u \in Tasks, Active(u)' PROVE NewOwnerOK(u)'
    <3>1. CASE u = t
      <4>1. ASSUME NEW r \in R PROVE loc[r].newOwner = None
        <5>1. r \in Live /\ \A v \in Tasks : Active(v) => r \notin job[v].recs
          BY <2>1, <2>6
        <5> QED  BY <5>1 DEF OwnerInv, NoNewOwnerAtRest
      <4>2. AllOld(t)'  BY <2>2, <2>3, <2>4, <4>1 DEF AllOld
      <4> QED  BY <2>4, <3>1, <4>2, OldIsOK
    <3>2. CASE u # t
      <4>1. Active(u)  BY <2>5, <2>9, <3>2 DEF Active
      <4> QED  BY <1>2, <2>2, <2>5, <3>2, <4>1, OwnerElse
    <3> QED  BY <3>1, <3>2
  <2> QED  BY <2>8, <2>9 DEF OwnerInv
<1>5. CASE UNCHANGED vars
  <2>1. UNCHANGED <<loc, job, xfr, step, steps, at, err>>
    BY <1>5 DEF vars, recVars, taskVars, runVars
  <2>2. \A u \in Tasks : Active(u)' = Active(u)  BY <2>1 DEF Active
  <2>3. \A u \in Tasks : Active(u) => NewOwnerOK(u)'  BY <1>2, <2>1, OwnerElse
  <2>4. NoNewOwnerAtRest'  BY <2>1, <2>2 DEF OwnerInv, NoNewOwnerAtRest, Live
  <2> QED  BY <2>2, <2>3, <2>4 DEF OwnerInv
<1> QED  BY <1>1, <1>3, <1>4, <1>5 DEF CleanNext

\* A change of owner that was rolled back, or has ended, leaves no new owner behind,
\* as long as no call of /run is cut off and none of the calls it makes throws:
\* one that is rolled back takes the marks of its chunk away (recMoveRevert).
THEOREM NoNewOwnerLeft ==
  ASSUME "cut" \notin Faults, "throw" \notin Faults
  PROVE  CleanSpec => []NoNewOwnerAtRest
<1>1. Init => OwnerInv
  <2> SUFFICES ASSUME Init PROVE OwnerInv  OBVIOUS
  <2>1. \A t \in Tasks : ~Active(t)  BY DEF Init, Active
  <2>2. \A r \in Live : loc[r].newOwner = None
    <3> SUFFICES ASSUME NEW r \in Live PROVE loc[r].newOwner = None  OBVIOUS
    <3>1. loc[r] \in [repo : Repos, uid : Owners, newRepo : {None}, newOwner : {None}]
      BY DEF Init, Live
    <3> QED  BY <3>1
  <2> QED  BY <2>1, <2>2 DEF OwnerInv, NoNewOwnerAtRest
<1>2. CInv /\ CInv' /\ OwnerInv /\ [CleanNext]_vars => OwnerInv'
  BY OwnerStep DEF CInv
<1>3. OwnerInv => NoNewOwnerAtRest  BY DEF OwnerInv
<1> QED  BY <1>1, <1>2, <1>3, MovesKept, PTL DEF CleanSpec
=============================================================================
