-------------------------- MODULE TaskLocksProofs --------------------------
(***************************************************************************)
(* Proofs about the lock protocol of the task service, for any number of   *)
(* tasks, records, owners and repositories: types; that two tasks at work  *)
(* never have conflicting locks, although failed tasks complete outside    *)
(* any transaction; that tasks never wait for each other in a circle; that *)
(* a ready task is handed to the core server; and that without failures    *)
(* every blocked task waits for one that is active.                        *)
(***************************************************************************)
EXTENDS TaskLocks, TLAPS, FiniteSetTheorems

-----------------------------------------------------------------------------
\* Lemmas about the operators the actions are built from.

LEMMA AtType == ASSUME NEW R, R \subseteq Resources, NEW l \in {0, 1}
                PROVE  At(R, l) \subseteq Locks
  BY DEF At, Locks

LEMMA DocsType == ASSUME NEW S, S \subseteq Recs \cup Owners
                  PROVE  Docs(S) \subseteq Resources
  BY DEF Docs, Resources

\* The arguments a request may have.
Asks(R, o, g, k) == /\ R \subseteq Recs \ gone
                    /\ k = "owner_chg" => o \in Owners \ gone /\ g \in Repos
                    /\ k \in {"alloc_create", "alloc_delete"} =>
                         o \in Owners \ gone /\ g \in Repos

LEMMA LocksOfType ==
  ASSUME TypeOK, NEW k \in AllKinds, NEW R, NEW o, NEW g, Asks(R, o, g, k)
  PROVE  LocksOf(k, R, o, g) \subseteq Locks
  <1>1. OwnersOf(R) \subseteq Owners
    BY DEF OwnersOf, TypeOK, Asks
  <1>2. Docs(R) \subseteq Resources /\ Docs(OwnersOf(R)) \subseteq Resources
    BY <1>1, DocsType DEF Asks
  <1>3. CASE k \in {"get", "put", "alloc_chg"}
    <2>1. /\ At(Docs(R), 0) \subseteq Locks
          /\ At(Docs(R), 1) \subseteq Locks
          /\ At(Docs(OwnersOf(R)), 0) \subseteq Locks
      BY <1>2, AtType
    <2> QED BY <1>3, <2>1 DEF LocksOf
  <1>4. CASE k = "owner_chg"
    <2>1. Docs({o}) \subseteq Resources /\ {<<g, o>>} \subseteq Resources
      BY <1>4 DEF Asks, Docs, Resources
    <2>2. /\ At(Docs(R), 1) \subseteq Locks
          /\ At(Docs({o}), 0) \subseteq Locks
          /\ At({<<g, o>>}, 1) \subseteq Locks
      BY <1>2, <2>1, AtType
    <2> QED BY <1>4, <2>2 DEF LocksOf
  <1>5. CASE k \in {"alloc_create", "alloc_delete"}
    <2>1. Docs({o}) \subseteq Resources /\ {<<g, o>>} \subseteq Resources
      BY <1>5 DEF Asks, Docs, Resources
    <2>2. At(Docs({o}), 0) \subseteq Locks /\ At({<<g, o>>}, 1) \subseteq Locks
      BY <2>1, AtType
    <2> QED BY <1>5, <2>2 DEF LocksOf
  <1>6. CASE k \in {"rec_del", "proj_del"}
    BY <1>6 DEF LocksOf
  <1> QED BY <1>3, <1>4, <1>5, <1>6 DEF AllKinds

\* No request is for a lock on a deleted document.
LEMMA LocksOfAlive ==
  ASSUME TypeOK, NothingEarly,
         NEW k \in AllKinds, NEW R, NEW o, NEW g, Asks(R, o, g, k)
  PROVE  \A l \in LocksOf(k, R, o, g) : l.res[1] \notin gone
  <1>1. \A d \in OwnersOf(R) : d \notin gone
    BY DEF OwnersOf, Asks, NothingEarly
  <1>2. \A l \in At(Docs(R), 0) \cup At(Docs(R), 1) \cup At(Docs(OwnersOf(R)), 0) :
          l.res[1] \notin gone
    BY <1>1 DEF At, Docs, Asks
  <1>3. ASSUME o \in Owners \ gone, g \in Repos
        PROVE  \A l \in At(Docs({o}), 0) \cup At({<<g, o>>}, 1) : l.res[1] \notin gone
    <2>1. g \notin gone
      BY <1>3, DistinctAssumption DEF TypeOK, Owners
    <2> QED BY <1>3, <2>1 DEF At, Docs
  <1> QED BY <1>2, <1>3 DEF LocksOf, Asks, AllKinds

\* Every way to create a task is an Enter with the locks of its kind.
LEMMA CreateIsEnter ==
  ASSUME TypeOK, NEW t \in Tasks, Create(t)
  PROVE  \E k, R, O, G, o, g :
           /\ k \in AllKinds /\ R \in SUBSET Recs /\ O \in SUBSET Owners
           /\ G \in SUBSET Repos
           /\ Asks(R, o, g, k)
           /\ Enter(t, k, R, O, G, LocksOf(k, R, o, g))
  <1>1. CASE CreateDataTask(t)
    <2>1. PICK k \in Kinds \cap {"get", "put", "alloc_chg"}, R \in SUBSET (Recs \ gone) :
            Enter(t, k, R, {}, {}, LocksOf(k, R, NoCtx, NoCtx))
      BY <1>1 DEF CreateDataTask
    <2>2. k \in AllKinds /\ Asks(R, NoCtx, NoCtx, k)
      BY KindsAssumption DEF Asks
    <2> QED BY <2>1, <2>2
  <1>2. CASE CreateOwnerChg(t)
    <2>1. PICK R \in SUBSET (Recs \ gone), o \in Owners \ gone, g \in Repos :
            Enter(t, "owner_chg", R, {o}, {g}, LocksOf("owner_chg", R, o, g))
      BY <1>2 DEF CreateOwnerChg
    <2>2. Asks(R, o, g, "owner_chg")
      BY DEF Asks
    <2>3. "owner_chg" \in AllKinds /\ {o} \in SUBSET Owners /\ {g} \in SUBSET Repos
      BY DEF AllKinds
    <2> QED BY <2>1, <2>2, <2>3
  <1>3. CASE CreateAllocTask(t)
    <2>1. PICK k \in Kinds \cap {"alloc_create", "alloc_delete"}, o \in Owners \ gone,
               g \in Repos :
            Enter(t, k, {}, {o}, {g}, LocksOf(k, {}, o, g))
      BY <1>3 DEF CreateAllocTask
    <2>2. k \in AllKinds /\ Asks({}, o, g, k)
      BY KindsAssumption DEF Asks
    <2>3. {o} \in SUBSET Owners /\ {g} \in SUBSET Repos
      OBVIOUS
    <2> QED BY <2>1, <2>2, <2>3
  <1>4. CASE CreateRecDelete(t)
    <2>1. PICK R \in SUBSET (Recs \ gone) : Enter(t, "rec_del", R, {}, {}, {})
      BY <1>4 DEF CreateRecDelete
    <2>2. /\ "rec_del" \in AllKinds /\ Asks(R, NoCtx, NoCtx, "rec_del")
          /\ LocksOf("rec_del", R, NoCtx, NoCtx) = {}
      BY DEF Asks, AllKinds, LocksOf
    <2> QED BY <2>1, <2>2
  <1>5. CASE CreateProjDelete(t)
    <2>1. PICK p \in Projects \ gone : Enter(t, "proj_del", {}, {p}, {}, {})
      BY <1>5 DEF CreateProjDelete
    <2>2. /\ "proj_del" \in AllKinds /\ Asks({}, NoCtx, NoCtx, "proj_del")
          /\ LocksOf("proj_del", {}, NoCtx, NoCtx) = {}
      BY DEF Asks, AllKinds, LocksOf
    <2>3. {p} \in SUBSET Owners
      BY DEF Owners
    <2> QED BY <2>1, <2>2, <2>3
  <1> QED BY <1>1, <1>2, <1>3, <1>4, <1>5 DEF Create

-----------------------------------------------------------------------------
\* The inductive invariant.
IInv == TypeOK /\ LockInv

LEMMA InitIInv == Init => IInv
  <1> SUFFICES ASSUME Init PROVE TypeOK /\ LockInv
    BY DEF IInv
  <1>1. /\ status \in [Tasks -> States] /\ req \in [Tasks -> Requests \cup {NoRequest}]
        /\ \A t \in Tasks : status[t] # "none" => req[t] \in Requests
    BY DEF Init, States
  <1>2. lock \in [Tasks -> SUBSET Locks] /\ block \subseteq Tasks \X Tasks
    BY DEF Init
  <1>3. owner \in [Recs -> Owners] /\ gone \subseteq Recs \cup Owners
        /\ wiped \subseteq Tasks /\ handed \subseteq Tasks
    BY DEF Init
  <1>4. /\ fin \in [Tasks -> {"no", "scan", "unlock", "update"}]
        /\ todo \in [Tasks -> SUBSET Tasks] /\ pend \in [Tasks -> SUBSET Tasks]
    BY DEF Init
  <1>5. TypeOK
    BY <1>1, <1>2, <1>3, <1>4 DEF TypeOK
  <1>6. \A t \in Tasks : ~Active(t)
    BY DEF Init, Active
  <1>7. ConflictsOrdered /\ KeepsLocks
    BY <1>6 DEF ConflictsOrdered, KeepsLocks, InTable
  <1>8. BlockedNotHanded /\ CompletionSound /\ NothingEarly
    BY DEF Init, BlockedNotHanded, CompletionSound, NothingEarly
  <1> QED BY <1>5, <1>7, <1>8 DEF LockInv

\* Conflict is symmetric.
LEMMA ConflictsSym == \A L, M : Conflicts(L, M) <=> Conflicts(M, L)
  BY DEF Conflicts, Conflict

\* The types are preserved.
LEMMA TypeStep == IInv /\ [Next]_vars => TypeOK'
  <1> SUFFICES ASSUME TypeOK, LockInv, [Next]_vars PROVE TypeOK'
    BY DEF IInv
  <1>1. ASSUME NEW t \in Tasks, Create(t) PROVE TypeOK'
    <2>1. PICK k, R, O, G, o, g :
            /\ k \in AllKinds /\ R \in SUBSET Recs /\ O \in SUBSET Owners
            /\ G \in SUBSET Repos
            /\ Asks(R, o, g, k)
            /\ Enter(t, k, R, O, G, LocksOf(k, R, o, g))
      BY <1>1, CreateIsEnter
    <2> DEFINE L == LocksOf(k, R, o, g)
    <2>2. L \in SUBSET Locks
      BY <2>1, LocksOfType
    <2>3. [kind |-> k, recs |-> R, owner |-> O, repo |-> G, locks |-> L] \in Requests
      BY <2>1, <2>2 DEF Requests
    <2>4. Blockers(L) \subseteq Tasks
      BY DEF Blockers
    <2> HIDE DEF L
    <2> QED BY <2>1, <2>2, <2>3, <2>4
            DEF L, Enter, Entering, TypeOK, States, dataVars, finVars
  <1>2. ASSUME NEW t \in Tasks, Start(t) PROVE TypeOK'
    BY <1>2 DEF Start, TypeOK, States, lockVars, dataVars, finVars
  <1>3. ASSUME NEW t \in Tasks, Working(t)
        PROVE  req[t].recs \subseteq Recs /\ req[t].owner \subseteq Owners
    <2>1. req[t] \in Requests
      BY <1>3 DEF Working, TypeOK
    <2> QED BY <2>1 DEF Requests
  <1>4. ASSUME NEW t \in Tasks, MoveRecord(t) PROVE TypeOK'
    <2>1. PICK r \in Recs, o \in Owners : owner' = [owner EXCEPT ![r] = o]
      BY <1>3, <1>4 DEF MoveRecord
    <2>2. owner' \in [Recs -> Owners]
      BY <2>1 DEF TypeOK
    <2> QED BY <1>4, <2>2 DEF MoveRecord, TypeOK, taskVars, lockVars, finVars
  <1>5. ASSUME NEW t \in Tasks, NEW D, D \subseteq Recs \cup Owners, Erase(t, D)
        PROVE  TypeOK'
    <2>1. lock' \in [Tasks -> SUBSET Locks]
      BY <1>5 DEF Erase, TypeOK
    <2>2. gone' \subseteq Recs \cup Owners /\ wiped' \subseteq Tasks
      BY <1>5 DEF Erase, TypeOK
    <2> QED BY <1>5, <2>1, <2>2 DEF Erase, TypeOK, taskVars, finVars
  <1>6. ASSUME NEW t \in Tasks, DeleteRecords(t) \/ DeleteProject(t) PROVE TypeOK'
    <2>1. Working(t)
      BY <1>6 DEF DeleteRecords, DeleteProject
    <2> QED BY <1>3, <1>5, <1>6, <2>1 DEF DeleteRecords, DeleteProject
  <1>7. ASSUME NEW t \in Tasks, Succeed(t) PROVE TypeOK'
    <2> DEFINE free == {u \in Blocked(t) : OnlyBlocker(u, t)}
    <2>1. free \subseteq Tasks
      BY DEF Blocked
    <2>2. /\ status' = [u \in Tasks |-> IF u = t THEN "succeeded"
                                        ELSE IF u \in free THEN "ready" ELSE status[u]]
          /\ block' \subseteq block
          /\ lock' = [lock EXCEPT ![t] = {}]
          /\ handed' = handed \cup free
          /\ UNCHANGED <<req, dataVars, finVars>>
      BY <1>7 DEF Succeed
    <2>3. \A u \in free \cup {t} : status[u] # "none"
      BY <1>7 DEF Succeed, Working, Blocked, LockInv, BlockedNotHanded
    <2> HIDE DEF free
    <2>4. status' \in [Tasks -> States]
      BY <2>2 DEF TypeOK, States
    <2>5. \A u \in Tasks : status'[u] # "none" => req'[u] \in Requests
      BY <2>2, <2>3 DEF TypeOK
    <2> QED BY <2>1, <2>2, <2>4, <2>5 DEF TypeOK, dataVars, finVars
  <1>8. ASSUME NEW t \in Tasks, FailBegin(t) PROVE TypeOK'
    BY <1>8 DEF FailBegin, Blocked, TypeOK, taskVars, lockVars, dataVars
  <1>9. ASSUME NEW t \in Tasks, NEW u \in Tasks, FailScan(t, u) PROVE TypeOK'
    <2>1. status[u] # "none"
      BY <1>9 DEF FailScan, LockInv, CompletionSound
    <2> QED BY <1>9, <2>1 DEF FailScan, TypeOK, States, lockVars, dataVars
  <1>10. ASSUME NEW t \in Tasks, FailUnblock(t) PROVE TypeOK'
    BY <1>10 DEF FailUnblock, TypeOK, taskVars, dataVars
  <1>11. ASSUME NEW t \in Tasks, FailUnlock(t) PROVE TypeOK'
    BY <1>11 DEF FailUnlock, TypeOK, taskVars, dataVars
  <1>12. ASSUME NEW t \in Tasks, FailEnd(t) PROVE TypeOK'
    <2>1. status[t] # "none"
      BY <1>12 DEF FailEnd, LockInv, CompletionSound
    <2> QED BY <1>12, <2>1 DEF FailEnd, TypeOK, States, lockVars, dataVars
  <1>13. CASE UNCHANGED vars
    BY <1>13 DEF vars, taskVars, lockVars, dataVars, finVars, TypeOK
  <1> QED BY <1>1, <1>2, <1>4, <1>6, <1>7, <1>8, <1>9, <1>10, <1>11, <1>12, <1>13
          DEF Next, Run, Fail

-----------------------------------------------------------------------------
\* Preservation of LockInv, one lemma per action.

\* A new task is blocked by every task in the table it conflicts with.
LEMMA CreateStep ==
  ASSUME TypeOK, LockInv, NEW t \in Tasks, Create(t)
  PROVE  LockInv'
  <1>1. PICK k, R, O, G, o, g :
          /\ k \in AllKinds /\ R \in SUBSET Recs /\ O \in SUBSET Owners
          /\ G \in SUBSET Repos
          /\ Asks(R, o, g, k)
          /\ Enter(t, k, R, O, G, LocksOf(k, R, o, g))
    BY CreateIsEnter
  <1> DEFINE L == LocksOf(k, R, o, g)
  <1>2. \A l \in L : l.res[1] \notin gone
    BY <1>1, LocksOfAlive DEF LockInv
  <1> HIDE DEF L
  <1>3. /\ status[t] = "none"
        /\ req' = [req EXCEPT ![t] = [kind |-> k, recs |-> R, owner |-> O,
                                      repo |-> G, locks |-> L]]
        /\ lock' = [lock EXCEPT ![t] = L]
        /\ block' = block \cup {<<t, u>> : u \in Blockers(L)}
        /\ status' = [status EXCEPT ![t] = IF Blockers(L) = {} THEN "ready" ELSE "blocked"]
        /\ handed' = IF Blockers(L) = {} THEN handed \cup {t} ELSE handed
        /\ UNCHANGED <<owner, gone, wiped, fin, todo, pend>>
    BY <1>1 DEF L, Enter, Entering, dataVars, finVars
  <1>4. /\ lock[t] = {} /\ t \notin handed /\ fin[t] = "no"
        /\ \A u \in Tasks : <<t, u>> \notin block /\ <<u, t>> \notin block
    BY <1>3 DEF LockInv, NothingEarly
  <1>5. \A u \in Blockers(L) : u \in Tasks /\ u # t /\ status[u] # "none"
    BY <1>4 DEF Blockers, Conflicts, LockInv, NothingEarly
  <1>6. /\ req'[t].locks = L /\ lock'[t] = L
        /\ \A u \in Tasks \ {t} : /\ req'[u] = req[u] /\ lock'[u] = lock[u]
                                  /\ status'[u] = status[u]
    BY <1>3 DEF TypeOK
  <1>7. status'[t] = IF Blockers(L) = {} THEN "ready" ELSE "blocked"
    BY <1>3 DEF TypeOK
  <1>8. ASSUME NEW u \in Tasks, u # t, InTable(u), Conflicts(L, req[u].locks)
        PROVE  <<t, u>> \in block'
    <2>1. PICK l \in L, m \in req[u].locks : Conflict(l, m)
      BY <1>8 DEF Conflicts
    <2>2. m.res[1] \notin gone
      BY <1>2, <2>1 DEF Conflict
    <2>3. m \in lock[u]
      BY <1>8, <2>2 DEF LockInv, KeepsLocks
    <2>4. u \in Blockers(L)
      BY <2>1, <2>3 DEF Blockers, Conflicts
    <2> QED BY <1>3, <2>4
  <1>9. \A u \in Tasks \ {t} : InTable(u)' <=> InTable(u)
    BY <1>3, <1>6 DEF InTable, Active
  <1>10. ConflictsOrdered'
    <2> SUFFICES ASSUME NEW a \in Tasks, NEW b \in Tasks, a # b, InTable(a)', InTable(b)',
                        Conflicts(req'[a].locks, req'[b].locks)
                 PROVE  <<a, b>> \in block' \/ <<b, a>> \in block'
      BY DEF ConflictsOrdered
    <2>1. CASE a = t
      BY <1>6, <1>8, <1>9, <2>1
    <2>2. CASE b = t
      BY <1>6, <1>8, <1>9, <2>2, ConflictsSym
    <2>3. CASE a # t /\ b # t
      BY <1>3, <1>6, <1>9, <2>3 DEF LockInv, ConflictsOrdered
    <2> QED BY <2>1, <2>2, <2>3
  <1>11. KeepsLocks'
    BY <1>3, <1>6, <1>9 DEF LockInv, KeepsLocks
  <1>12. BlockedNotHanded'
    <2> SUFFICES ASSUME NEW a \in Tasks, NEW b \in Tasks, <<a, b>> \in block'
                 PROVE  /\ status'[a] \in {"blocked", "ready"}
                        /\ a \notin handed'
                        /\ status'[a] = "ready" => fin'[b] = "scan"
      BY DEF BlockedNotHanded
    <2>1. CASE a = t
      <3>1. Blockers(L) # {}
        BY <1>3, <1>4, <2>1
      <3> QED BY <1>3, <1>4, <1>7, <2>1, <3>1
    <2>2. CASE a # t
      BY <1>3, <1>6, <2>2 DEF LockInv, BlockedNotHanded
    <2> QED BY <2>1, <2>2
  <1>13. CompletionSound'
    <2>1. \A a \in Tasks : fin[a] # "no" => a # t
      BY <1>4
    <2>2. \A a \in Tasks : \A u \in todo[a] \cup pend[a] : u # t
      <3>1. \A a \in Tasks : \A u \in todo[a] : status[u] = "blocked"
        BY DEF LockInv, CompletionSound
      <3>2. \A a \in Tasks : \A u \in pend[a] : status[u] # "none"
        BY DEF LockInv, CompletionSound
      <3> QED BY <1>3, <3>1, <3>2
    <2>3. \A u, v \in Tasks : u # t => (<<u, v>> \in block' <=> <<u, v>> \in block)
      BY <1>3
    <2>4. \A a \in Tasks : todo[a] \subseteq Tasks /\ pend[a] \subseteq Tasks
      BY DEF TypeOK
    <2> SUFFICES ASSUME NEW a \in Tasks
                 PROVE  /\ fin[a] # "no" => status'[a] = "running"
                        /\ todo[a] # {} => fin[a] = "scan"
                        /\ \A u \in todo[a] : status'[u] = "blocked" /\ <<u, a>> \in block'
                        /\ \A u \in pend[a] :
                             /\ status'[u] # "none"
                             /\ \A v \in Tasks : <<u, v>> \in block' => v = a /\ fin[a] = "scan"
      BY <1>3 DEF CompletionSound
    <2>5. fin[a] # "no" => status'[a] = "running"
      BY <1>6, <2>1 DEF LockInv, CompletionSound
    <2>6. \A u \in todo[a] : status'[u] = "blocked" /\ <<u, a>> \in block'
      BY <1>6, <2>2, <2>3, <2>4 DEF LockInv, CompletionSound
    <2>7. \A u \in pend[a] :
            /\ status'[u] # "none"
            /\ \A v \in Tasks : <<u, v>> \in block' => v = a /\ fin[a] = "scan"
      BY <1>6, <2>2, <2>3, <2>4 DEF LockInv, CompletionSound
    <2> QED BY <2>5, <2>6, <2>7 DEF LockInv, CompletionSound
  <1>14. NothingEarly'
    <2>1. \A u \in Tasks : status'[u] = "none" => u # t /\ status[u] = "none"
      BY <1>6, <1>7
    <2> QED BY <1>3, <1>5, <1>6, <2>1 DEF LockInv, NothingEarly
  <1> QED BY <1>10, <1>11, <1>12, <1>13, <1>14 DEF LockInv

\* A task that was handed to the core server has no blocker left.
LEMMA StartStep ==
  ASSUME TypeOK, LockInv, NEW t \in Tasks, Start(t)
  PROVE  LockInv'
  <1>1. /\ status[t] = "ready" /\ t \in handed
        /\ status' = [status EXCEPT ![t] = "running"]
        /\ UNCHANGED <<req, handed, lock, block, owner, gone, wiped, fin, todo, pend>>
    BY DEF Start, lockVars, dataVars, finVars
  <1>2. status'[t] = "running" /\ \A u \in Tasks \ {t} : status'[u] = status[u]
    BY <1>1 DEF TypeOK
  <1>3. \A u \in Tasks : (InTable(u)' <=> InTable(u)) /\ <<t, u>> \notin block
    BY <1>1, <1>2 DEF InTable, Active, LockInv, BlockedNotHanded
  <1>4. ConflictsOrdered' /\ KeepsLocks'
    BY <1>1, <1>3 DEF LockInv, ConflictsOrdered, KeepsLocks
  <1>5. BlockedNotHanded'
    BY <1>1, <1>2, <1>3 DEF LockInv, BlockedNotHanded
  <1>6. CompletionSound'
    <2>1. \A a \in Tasks : todo[a] \subseteq Tasks /\ pend[a] \subseteq Tasks
      BY DEF TypeOK
    <2> QED BY <1>1, <1>2, <2>1 DEF LockInv, CompletionSound
  <1>7. NothingEarly'
    BY <1>1, <1>2 DEF LockInv, NothingEarly
  <1> QED BY <1>4, <1>5, <1>6, <1>7 DEF LockInv

\* Moving and deleting leave the tasks and the blocks alone; only lock edges to
\* documents that are deleted are lost.
LEMMA DataStep ==
  ASSUME TypeOK, LockInv, UNCHANGED <<status, req, handed, block, fin, todo, pend>>,
         \A t \in Tasks : lock'[t] \subseteq lock[t],
         \A t \in Tasks : \A l \in lock[t] : l.res[1] \in gone' \/ l \in lock'[t],
         gone \subseteq gone',
         \A r \in Recs \ gone' : owner'[r] \notin gone'
  PROVE  LockInv'
  <1>1. \A t \in Tasks : InTable(t)' <=> InTable(t)
    BY DEF InTable, Active
  <1>2. ConflictsOrdered' /\ KeepsLocks'
    BY <1>1 DEF LockInv, ConflictsOrdered, KeepsLocks
  <1>3. BlockedNotHanded' /\ CompletionSound'
    BY DEF LockInv, BlockedNotHanded, CompletionSound
  <1>4. NothingEarly'
    BY DEF LockInv, NothingEarly
  <1> QED BY <1>2, <1>3, <1>4 DEF LockInv

LEMMA RunStep ==
  ASSUME TypeOK, LockInv, NEW t \in Tasks, Run(t)
  PROVE  LockInv'
  <1>1. CASE Start(t)
    BY <1>1, StartStep
  <1>2. CASE MoveRecord(t)
    <2>1. /\ \E r \in Recs, o \in Owners \ gone : owner' = [owner EXCEPT ![r] = o]
          /\ UNCHANGED <<status, req, handed, lock, block, gone, fin, todo, pend>>
      <3>1. req[t] \in Requests
        BY <1>2 DEF MoveRecord, Working, TypeOK
      <3>2. req[t].recs \subseteq Recs /\ req[t].owner \subseteq Owners
        BY <3>1 DEF Requests
      <3> QED BY <1>2, <3>2 DEF MoveRecord, taskVars, lockVars, finVars
    <2>2. \A r \in Recs \ gone : owner'[r] \notin gone
      BY <2>1 DEF TypeOK, LockInv, NothingEarly
    <2> QED BY <2>1, <2>2, DataStep
  <1>3. ASSUME NEW D, Erase(t, D), \A r \in Recs \ (gone \cup D) : owner[r] \notin D
        PROVE  LockInv'
    <2>1. /\ UNCHANGED <<status, req, handed, block, owner, fin, todo, pend>>
          /\ gone' = gone \cup D
          /\ lock' = [u \in Tasks |-> {l \in lock[u] : l.res[1] \notin D}]
      BY <1>3 DEF Erase, taskVars, finVars
    <2>2. \A r \in Recs \ gone' : owner'[r] \notin gone'
      BY <1>3, <2>1 DEF LockInv, NothingEarly
    <2> QED BY <2>1, <2>2, DataStep
  <1>4. ASSUME Working(t) PROVE req[t].recs \subseteq Recs /\ req[t].owner \subseteq Owners
    <2>1. req[t] \in Requests
      BY <1>4 DEF Working, TypeOK
    <2> QED BY <2>1 DEF Requests
  <1>5. \A r \in Recs : owner[r] \in Owners /\ owner[r] \notin Recs
    BY DistinctAssumption DEF TypeOK
  <1>6. CASE DeleteRecords(t)
    BY <1>3, <1>4, <1>5, <1>6 DEF DeleteRecords
  <1>7. CASE DeleteProject(t)
    BY <1>3, <1>4, <1>5, <1>7 DEF DeleteProject
  <1> QED BY <1>1, <1>2, <1>6, <1>7 DEF Run

\* The completion of a successful task leaves no edge to it, and readies tasks
\* that it alone blocked.
LEMMA SucceedStep ==
  ASSUME TypeOK, LockInv, NEW t \in Tasks, Succeed(t)
  PROVE  LockInv'
  <1> DEFINE free == {u \in Blocked(t) : OnlyBlocker(u, t)}
  <1>1. /\ status[t] = "running" /\ fin[t] = "no"
        /\ status' = [u \in Tasks |-> IF u = t THEN "succeeded"
                                      ELSE IF u \in free THEN "ready" ELSE status[u]]
        /\ block' = {e \in block : e[2] # t}
        /\ lock' = [lock EXCEPT ![t] = {}]
        /\ handed' = handed \cup free
        /\ UNCHANGED <<req, owner, gone, wiped, fin, todo, pend>>
    BY DEF Succeed, Working, dataVars, finVars
  <1>2. \A u \in free : /\ u \in Tasks /\ u # t
                        /\ status[u] \in {"blocked", "ready"}
                        /\ \A v \in Tasks : <<u, v>> \in block => v = t
    BY <1>1 DEF Blocked, OnlyBlocker, LockInv, BlockedNotHanded
  <1> HIDE DEF free
  <1>3. /\ status'[t] = "succeeded"
        /\ \A u \in free : status'[u] = "ready"
        /\ \A u \in Tasks \ {t} : u \notin free => status'[u] = status[u]
    BY <1>1, <1>2
  <1>4. \A u, v \in Tasks : <<u, v>> \in block' <=> <<u, v>> \in block /\ v # t
    BY <1>1
  <1>5. \A u \in Tasks : <<t, u>> \notin block
    BY <1>1 DEF LockInv, BlockedNotHanded
  <1>6. \A u \in Tasks : InTable(u)' => u # t /\ InTable(u)
    BY <1>1, <1>2, <1>3 DEF InTable, Active
  <1>7. ConflictsOrdered'
    BY <1>1, <1>4, <1>6 DEF LockInv, ConflictsOrdered
  <1>8. KeepsLocks'
    BY <1>1, <1>6 DEF LockInv, KeepsLocks, TypeOK
  <1>9. BlockedNotHanded'
    BY <1>1, <1>2, <1>3, <1>4, <1>5 DEF LockInv, BlockedNotHanded
  <1>10. CompletionSound'
    <2> SUFFICES ASSUME NEW a \in Tasks
                 PROVE  /\ fin[a] # "no" => status'[a] = "running"
                        /\ todo[a] # {} => fin[a] = "scan"
                        /\ \A u \in todo[a] : status'[u] = "blocked" /\ <<u, a>> \in block'
                        /\ \A u \in pend[a] :
                             /\ status'[u] # "none"
                             /\ \A v \in Tasks : <<u, v>> \in block' => v = a /\ fin[a] = "scan"
      BY <1>1 DEF CompletionSound
    <2>1. todo[a] \subseteq Tasks /\ pend[a] \subseteq Tasks
      BY DEF TypeOK
    <2>2. todo[a] # {} => fin[a] = "scan" /\ a # t
      BY <1>1 DEF LockInv, CompletionSound
    <2>3. fin[a] # "no" => status'[a] = "running"
      BY <1>1, <1>2, <1>3 DEF LockInv, CompletionSound
    <2>4. \A u \in todo[a] : status'[u] = "blocked" /\ <<u, a>> \in block'
      BY <1>1, <1>2, <1>3, <1>4, <2>1, <2>2 DEF LockInv, CompletionSound
    <2>5. \A u \in pend[a] :
            /\ status'[u] # "none"
            /\ \A v \in Tasks : <<u, v>> \in block' => v = a /\ fin[a] = "scan"
      BY <1>2, <1>3, <1>4, <2>1 DEF LockInv, CompletionSound
    <2> QED BY <2>2, <2>3, <2>4, <2>5
  <1>11. NothingEarly'
    <2>1. \A u \in Tasks : status'[u] = "none" => u # t /\ u \notin free /\ status[u] = "none"
      BY <1>3
    <2> QED BY <1>1, <1>4, <2>1 DEF LockInv, NothingEarly, TypeOK
  <1> QED BY <1>7, <1>8, <1>9, <1>10, <1>11 DEF LockInv

\* A failed task reads the tasks it blocks: none of them is ready yet.
LEMMA FailBeginStep ==
  ASSUME TypeOK, LockInv, NEW t \in Tasks, FailBegin(t)
  PROVE  LockInv'
  <1>1. /\ status[t] = "running" /\ fin[t] = "no"
        /\ fin' = [fin EXCEPT ![t] = "scan"]
        /\ todo' = [todo EXCEPT ![t] = Blocked(t)]
        /\ UNCHANGED <<status, req, handed, lock, block, owner, gone, wiped, pend>>
    BY DEF FailBegin, Working, taskVars, lockVars, dataVars
  <1>2. fin'[t] = "scan" /\ \A u \in Tasks \ {t} : fin'[u] = fin[u]
    BY <1>1 DEF TypeOK
  <1>3. \A u \in Tasks : InTable(u)' <=> InTable(u)
    BY <1>1, <1>2 DEF InTable, Active
  <1>4. ConflictsOrdered' /\ KeepsLocks'
    BY <1>1, <1>3 DEF LockInv, ConflictsOrdered, KeepsLocks
  <1>5. BlockedNotHanded'
    BY <1>1, <1>2 DEF LockInv, BlockedNotHanded
  <1>6. CompletionSound'
    <2>1. \A u \in Blocked(t) : status[u] = "blocked" /\ <<u, t>> \in block
      BY <1>1 DEF Blocked, LockInv, BlockedNotHanded
    <2>2. todo'[t] = Blocked(t) /\ \A u \in Tasks \ {t} : todo'[u] = todo[u]
      BY <1>1 DEF TypeOK
    <2> QED BY <1>1, <1>2, <2>1, <2>2 DEF LockInv, CompletionSound
  <1>7. NothingEarly'
    BY <1>1, <1>2 DEF LockInv, NothingEarly
  <1> QED BY <1>4, <1>5, <1>6, <1>7 DEF LockInv

\* One blocked task is looked at, and readied if nothing else blocks it.
LEMMA FailScanStep ==
  ASSUME TypeOK, LockInv, NEW t \in Tasks, NEW u \in Tasks, FailScan(t, u)
  PROVE  LockInv'
  <1>1. /\ fin[t] = "scan" /\ u \in todo[t]
        /\ todo' = [todo EXCEPT ![t] = @ \ {u}]
        /\ UNCHANGED <<req, handed, lock, block, owner, gone, wiped, fin>>
    BY DEF FailScan, lockVars, dataVars
  <1>2. /\ status[u] = "blocked" /\ <<u, t>> \in block /\ status[t] = "running"
        /\ \A a \in Tasks : u \in todo[a] => <<u, a>> \in block
    BY <1>1 DEF LockInv, CompletionSound
  <1>3. todo'[t] = todo[t] \ {u} /\ \A a \in Tasks \ {t} : todo'[a] = todo[a]
    BY <1>1 DEF TypeOK
  <1>4. CASE OnlyBlocker(u, t)
    <2>1. /\ status' = [status EXCEPT ![u] = "ready"]
          /\ pend' = [pend EXCEPT ![t] = @ \cup {u}]
          /\ \A v \in Tasks : <<u, v>> \in block => v = t
      BY <1>4 DEF FailScan, OnlyBlocker
    <2>2. /\ status'[u] = "ready" /\ \A a \in Tasks \ {u} : status'[a] = status[a]
          /\ pend'[t] = pend[t] \cup {u} /\ \A a \in Tasks \ {t} : pend'[a] = pend[a]
      BY <2>1 DEF TypeOK
    <2>3. \A a \in Tasks : InTable(a)' <=> InTable(a)
      BY <1>1, <1>2, <2>2 DEF InTable, Active
    <2>4. ConflictsOrdered' /\ KeepsLocks'
      BY <1>1, <2>3 DEF LockInv, ConflictsOrdered, KeepsLocks
    <2>5. BlockedNotHanded'
      BY <1>1, <1>2, <2>1, <2>2 DEF LockInv, BlockedNotHanded
    <2>6. CompletionSound'
      <3> SUFFICES ASSUME NEW a \in Tasks
                   PROVE  /\ fin[a] # "no" => status'[a] = "running"
                          /\ todo'[a] # {} => fin[a] = "scan"
                          /\ \A w \in todo'[a] : status'[w] = "blocked" /\ <<w, a>> \in block
                          /\ \A w \in pend'[a] :
                               /\ status'[w] # "none"
                               /\ \A v \in Tasks : <<w, v>> \in block => v = a /\ fin[a] = "scan"
        BY <1>1 DEF CompletionSound
      <3>1. todo[a] \subseteq Tasks /\ pend[a] \subseteq Tasks
        BY DEF TypeOK
      <3>2. fin[a] # "no" => status'[a] = "running"
        BY <1>2, <2>2 DEF LockInv, CompletionSound
      <3>3. todo'[a] # {} => fin[a] = "scan"
        BY <1>1, <1>3 DEF LockInv, CompletionSound
      <3>4. \A w \in todo'[a] : status'[w] = "blocked" /\ <<w, a>> \in block
        BY <1>2, <1>3, <2>1, <2>2, <3>1 DEF LockInv, CompletionSound
      <3>5. \A w \in pend'[a] :
              /\ status'[w] # "none"
              /\ \A v \in Tasks : <<w, v>> \in block => v = a /\ fin[a] = "scan"
        BY <1>1, <2>1, <2>2, <3>1 DEF LockInv, CompletionSound
      <3> QED BY <3>2, <3>3, <3>4, <3>5
    <2>7. NothingEarly'
      BY <1>1, <2>2 DEF LockInv, NothingEarly
    <2> QED BY <2>4, <2>5, <2>6, <2>7 DEF LockInv
  <1>5. CASE ~OnlyBlocker(u, t)
    <2>1. UNCHANGED <<status, pend>>
      BY <1>5 DEF FailScan
    <2>2. \A a \in Tasks : todo'[a] \subseteq todo[a]
      BY <1>3
    <2>3. \A a \in Tasks : InTable(a)' <=> InTable(a)
      BY <1>1, <2>1 DEF InTable, Active
    <2>4. ConflictsOrdered' /\ KeepsLocks' /\ BlockedNotHanded' /\ NothingEarly'
      BY <1>1, <2>1, <2>3
         DEF LockInv, ConflictsOrdered, KeepsLocks, BlockedNotHanded, NothingEarly
    <2>5. CompletionSound'
      BY <1>1, <2>1, <2>2 DEF LockInv, CompletionSound
    <2> QED BY <2>4, <2>5 DEF LockInv
  <1> QED BY <1>4, <1>5

\* The block edges go when every blocked task was looked at.
LEMMA FailUnblockStep ==
  ASSUME TypeOK, LockInv, NEW t \in Tasks, FailUnblock(t)
  PROVE  LockInv'
  <1>1. /\ fin[t] = "scan" /\ todo[t] = {}
        /\ block' = {e \in block : e[2] # t}
        /\ fin' = [fin EXCEPT ![t] = "unlock"]
        /\ UNCHANGED <<status, req, handed, lock, owner, gone, wiped, todo, pend>>
    BY DEF FailUnblock, taskVars, dataVars
  <1>2. fin'[t] = "unlock" /\ \A u \in Tasks \ {t} : fin'[u] = fin[u]
    BY <1>1 DEF TypeOK
  <1>3. \A u, v \in Tasks : <<u, v>> \in block' <=> <<u, v>> \in block /\ v # t
    BY <1>1
  <1>4. \A u \in Tasks : InTable(u)' => u # t /\ InTable(u)
    BY <1>1, <1>2 DEF InTable, Active
  <1>5. ConflictsOrdered' /\ KeepsLocks'
    BY <1>1, <1>3, <1>4 DEF LockInv, ConflictsOrdered, KeepsLocks
  <1>6. BlockedNotHanded'
    BY <1>1, <1>2, <1>3 DEF LockInv, BlockedNotHanded
  <1>7. CompletionSound'
    <2> SUFFICES ASSUME NEW a \in Tasks
                 PROVE  /\ fin'[a] # "no" => status[a] = "running"
                        /\ todo[a] # {} => fin'[a] = "scan"
                        /\ \A u \in todo[a] : status[u] = "blocked" /\ <<u, a>> \in block'
                        /\ \A u \in pend[a] :
                             /\ status[u] # "none"
                             /\ \A v \in Tasks : <<u, v>> \in block' => v = a /\ fin'[a] = "scan"
      BY <1>1 DEF CompletionSound
    <2>1. todo[a] \subseteq Tasks /\ pend[a] \subseteq Tasks
      BY DEF TypeOK
    <2>2. fin'[a] # "no" => status[a] = "running"
      BY <1>1, <1>2 DEF LockInv, CompletionSound
    <2>3. todo[a] # {} => fin'[a] = "scan"
      BY <1>1, <1>2 DEF LockInv, CompletionSound
    <2>4. \A u \in todo[a] : status[u] = "blocked" /\ <<u, a>> \in block'
      BY <1>1, <1>3, <2>1 DEF LockInv, CompletionSound
    <2>5. \A u \in pend[a] :
            /\ status[u] # "none"
            /\ \A v \in Tasks : <<u, v>> \in block' => v = a /\ fin'[a] = "scan"
      BY <1>2, <1>3, <2>1 DEF LockInv, CompletionSound
    <2> QED BY <2>2, <2>3, <2>4, <2>5
  <1>8. NothingEarly'
    BY <1>1, <1>2, <1>3 DEF LockInv, NothingEarly
  <1> QED BY <1>5, <1>6, <1>7, <1>8 DEF LockInv

LEMMA FailUnlockStep ==
  ASSUME TypeOK, LockInv, NEW t \in Tasks, FailUnlock(t)
  PROVE  LockInv'
  <1>1. /\ fin[t] = "unlock"
        /\ lock' = [lock EXCEPT ![t] = {}]
        /\ fin' = [fin EXCEPT ![t] = "update"]
        /\ UNCHANGED <<status, req, handed, block, owner, gone, wiped, todo, pend>>
    BY DEF FailUnlock, taskVars, dataVars
  <1>2. /\ fin'[t] = "update" /\ lock'[t] = {}
        /\ \A u \in Tasks \ {t} : fin'[u] = fin[u] /\ lock'[u] = lock[u]
    BY <1>1 DEF TypeOK
  <1>3. \A u \in Tasks : InTable(u)' => u # t /\ InTable(u)
    BY <1>1, <1>2 DEF InTable, Active
  <1>4. ConflictsOrdered' /\ KeepsLocks'
    BY <1>1, <1>2, <1>3 DEF LockInv, ConflictsOrdered, KeepsLocks
  <1>5. BlockedNotHanded'
    BY <1>1, <1>2 DEF LockInv, BlockedNotHanded
  <1>6. CompletionSound'
    BY <1>1, <1>2 DEF LockInv, CompletionSound
  <1>7. NothingEarly'
    BY <1>1, <1>2 DEF LockInv, NothingEarly
  <1> QED BY <1>4, <1>5, <1>6, <1>7 DEF LockInv

\* What is handed over at the end of a failed task has no block edge.
LEMMA FailEndStep ==
  ASSUME TypeOK, LockInv, NEW t \in Tasks, FailEnd(t)
  PROVE  LockInv'
  <1>1. /\ fin[t] = "update" /\ status[t] = "running"
        /\ status' = [status EXCEPT ![t] = "failed"]
        /\ handed' = handed \cup pend[t]
        /\ fin' = [fin EXCEPT ![t] = "no"]
        /\ pend' = [pend EXCEPT ![t] = {}]
        /\ UNCHANGED <<req, lock, block, owner, gone, wiped, todo>>
    BY DEF FailEnd, lockVars, dataVars, LockInv, CompletionSound
  <1>2. /\ fin'[t] = "no" /\ status'[t] = "failed" /\ pend'[t] = {}
        /\ \A u \in Tasks \ {t} : /\ fin'[u] = fin[u] /\ status'[u] = status[u]
                                  /\ pend'[u] = pend[u]
    BY <1>1 DEF TypeOK
  <1>3. \A u \in Tasks : InTable(u)' => u # t /\ InTable(u)
    BY <1>1, <1>2 DEF InTable, Active
  <1>4. \A u \in pend[t] : status[u] # "none" /\ \A v \in Tasks : <<u, v>> \notin block
    BY <1>1 DEF LockInv, CompletionSound
  <1>5. ConflictsOrdered' /\ KeepsLocks'
    BY <1>1, <1>3 DEF LockInv, ConflictsOrdered, KeepsLocks
  <1>6. BlockedNotHanded'
    BY <1>1, <1>2, <1>4 DEF LockInv, BlockedNotHanded
  <1>7. CompletionSound'
    <2>1. \A a \in Tasks : todo[a] \subseteq Tasks /\ pend[a] \subseteq Tasks
      BY DEF TypeOK
    <2>2. todo[t] = {}
      BY <1>1 DEF LockInv, CompletionSound
    <2> QED BY <1>1, <1>2, <2>1, <2>2 DEF LockInv, CompletionSound
  <1>8. NothingEarly'
    <2>1. \A u \in Tasks : status'[u] = "none" => u # t /\ status[u] = "none" /\ u \notin pend[t]
      BY <1>2, <1>4
    <2> QED BY <1>1, <1>2, <2>1 DEF LockInv, NothingEarly
  <1> QED BY <1>5, <1>6, <1>7, <1>8 DEF LockInv

-----------------------------------------------------------------------------
LEMMA LockStep == IInv /\ [Next]_vars => LockInv'
  <1> SUFFICES ASSUME TypeOK, LockInv, [Next]_vars PROVE LockInv'
    BY DEF IInv
  <1>1. ASSUME NEW t \in Tasks, Fail(t) PROVE LockInv'
    BY <1>1, FailBeginStep, FailScanStep, FailUnblockStep, FailUnlockStep, FailEndStep
       DEF Fail
  <1>2. CASE UNCHANGED vars
    BY <1>2, DataStep DEF vars, taskVars, lockVars, dataVars, finVars, LockInv, NothingEarly
  <1> QED BY <1>1, <1>2, CreateStep, RunStep, SucceedStep DEF Next

\* Type correctness of the task, lock and block collections.
THEOREM LocksTypeCorrect == Spec => []TypeOK
  <1>1. IInv /\ [Next]_vars => IInv'
    BY TypeStep, LockStep DEF IInv
  <1>2. IInv => TypeOK
    BY DEF IInv
  <1> QED BY InitIInv, <1>1, <1>2, PTL DEF Spec

\* The invariant that the lock protocol rests on.
THEOREM LockProtocol == Spec => []LockInv
  <1>1. IInv /\ [Next]_vars => IInv'
    BY TypeStep, LockStep DEF IInv
  <1>2. IInv => LockInv
    BY DEF IInv
  <1> QED BY InitIInv, <1>1, <1>2, PTL DEF Spec

\* Two tasks that work at the same time never asked for conflicting locks.
THEOREM MutualExclusion == Spec => []Exclusive
  <1>1. LockInv => Exclusive
    <2> SUFFICES ASSUME LockInv, NEW t \in Tasks, NEW u \in Tasks, t # u,
                        Working(t), Working(u)
                 PROVE  ~Conflicts(req[t].locks, req[u].locks)
      BY DEF Exclusive
    <2>1. InTable(t) /\ InTable(u)
      BY DEF Working, InTable, Active
    <2>2. <<t, u>> \notin block /\ <<u, t>> \notin block
      BY DEF Working, LockInv, BlockedNotHanded
    <2> QED BY <2>1, <2>2 DEF LockInv, ConflictsOrdered
  <1> QED BY <1>1, LockProtocol, PTL

-----------------------------------------------------------------------------
\* The wait relation.

\* A new task waits for others, and none waits for it yet.
LEMMA EnterWaits ==
  ASSUME TypeOK, LockInv, NEW t \in Tasks, Create(t)
  PROVE  /\ \A u \in Tasks : <<u, t>> \notin block'
         /\ \A u \in Tasks \ {t}, v \in Tasks : <<u, v>> \in block' => <<u, v>> \in block
  <1>1. PICK k, R, O, G, o, g :
          /\ k \in AllKinds /\ R \in SUBSET Recs /\ O \in SUBSET Owners
          /\ G \in SUBSET Repos
          /\ Asks(R, o, g, k)
          /\ Enter(t, k, R, O, G, LocksOf(k, R, o, g))
    BY CreateIsEnter
  <1> DEFINE L == LocksOf(k, R, o, g)
  <1> HIDE DEF L
  <1>2. status[t] = "none" /\ block' = block \cup {<<t, u>> : u \in Blockers(L)}
    BY <1>1 DEF L, Enter, Entering
  <1>3. lock[t] = {} /\ \A u \in Tasks : <<u, t>> \notin block
    BY <1>2 DEF LockInv, NothingEarly
  <1>4. t \notin Blockers(L)
    BY <1>3 DEF Blockers, Conflicts
  <1> QED BY <1>2, <1>3, <1>4

\* No other step makes a task wait.
LEMMA NoOtherWaits ==
  ASSUME NEW t \in Tasks, Run(t) \/ Succeed(t) \/ Fail(t)
  PROVE  block' \subseteq block
  <1>1. CASE Run(t)
    BY <1>1 DEF Run, Start, MoveRecord, DeleteRecords, DeleteProject, Erase, lockVars
  <1>2. CASE Succeed(t)
    BY <1>2 DEF Succeed
  <1>3. CASE Fail(t)
    BY <1>3 DEF Fail, FailBegin, FailScan, FailUnblock, FailUnlock, FailEnd, lockVars
  <1> QED BY <1>1, <1>2, <1>3

LEMMA WaitStep ==
  ASSUME TypeOK, LockInv, NoWaitCycle, [Next]_vars
  PROVE  NoWaitCycle'
  <1>1. ASSUME block' \subseteq block PROVE NoWaitCycle'
    BY <1>1 DEF NoWaitCycle
  <1>2. ASSUME NEW t \in Tasks, Create(t) PROVE NoWaitCycle'
    <2> SUFFICES ASSUME NEW S \in (SUBSET Tasks) \ {{}}
                 PROVE  \E x \in S : \A y \in S : <<x, y>> \notin block'
      BY DEF NoWaitCycle
    <2>1. /\ \A u \in Tasks : <<u, t>> \notin block'
          /\ \A u \in Tasks \ {t}, v \in Tasks : <<u, v>> \in block' => <<u, v>> \in block
      BY <1>2, EnterWaits
    <2>2. CASE S = {t}
      BY <2>1, <2>2
    <2>3. CASE S # {t}
      <3>1. S \ {t} \in (SUBSET Tasks) \ {{}}
        BY <2>3
      <3>2. PICK x \in S \ {t} : \A y \in S \ {t} : <<x, y>> \notin block
        BY <3>1 DEF NoWaitCycle
      <3> QED BY <2>1, <3>2
    <2> QED BY <2>2, <2>3
  <1>3. CASE UNCHANGED vars
    BY <1>1, <1>3 DEF vars, lockVars
  <1> QED BY <1>1, <1>2, <1>3, NoOtherWaits DEF Next

\* The lock protocol cannot deadlock: no tasks wait for each other in a cycle.
THEOREM NoTaskDeadlock == Spec => []NoWaitCycle
  <1>1. Init => NoWaitCycle
    BY DEF Init, NoWaitCycle
  <1>2. LockInv /\ TypeOK /\ NoWaitCycle /\ [Next]_vars => NoWaitCycle'
    BY WaitStep
  <1> QED BY <1>1, <1>2, LocksTypeCorrect, LockProtocol, PTL DEF Spec

-----------------------------------------------------------------------------
\* What becomes of a ready task.

\* A ready task is with the core server or in one list of a failed task, where
\* nothing but ready tasks are.
Listed(u) == \E t \in Tasks : u \in pend[t]
ReadyKept ==
  /\ \A u \in Tasks : status[u] = "ready" => u \in handed \/ Listed(u)
  /\ \A u \in Tasks : Listed(u) => u \notin handed /\ status[u] = "ready"
  /\ \A u \in Tasks : u \in handed => status[u] \notin {"none", "blocked"}
  /\ \A u, t, v \in Tasks : u \in pend[t] /\ u \in pend[v] => t = v

LEMMA CreateReady ==
  ASSUME TypeOK, LockInv, ReadyKept, NEW t \in Tasks, Create(t)
  PROVE  ReadyKept'
  <1>1. PICK k, R, O, G, o, g :
          /\ k \in AllKinds /\ R \in SUBSET Recs /\ O \in SUBSET Owners
          /\ G \in SUBSET Repos
          /\ Asks(R, o, g, k)
          /\ Enter(t, k, R, O, G, LocksOf(k, R, o, g))
    BY CreateIsEnter
  <1> DEFINE B == Blockers(LocksOf(k, R, o, g))
  <1>2. /\ status[t] = "none" /\ UNCHANGED pend
        /\ status' = [status EXCEPT ![t] = IF B = {} THEN "ready" ELSE "blocked"]
        /\ handed' = IF B = {} THEN handed \cup {t} ELSE handed
    BY <1>1 DEF Enter, Entering, finVars
  <1> HIDE DEF B
  <1>3. status'[t] = (IF B = {} THEN "ready" ELSE "blocked")
        /\ \A u \in Tasks \ {t} : status'[u] = status[u] /\ (u \in handed' <=> u \in handed)
    BY <1>2 DEF TypeOK
  <1>4. ~Listed(t) /\ t \notin handed
    BY <1>2 DEF ReadyKept
  <1> QED BY <1>2, <1>3, <1>4 DEF ReadyKept, Listed

LEMMA StartReady ==
  ASSUME TypeOK, ReadyKept, NEW t \in Tasks, Start(t)
  PROVE  ReadyKept'
  <1>1. t \in handed /\ status' = [status EXCEPT ![t] = "running"] /\ UNCHANGED <<handed, pend>>
    BY DEF Start, finVars
  <1>2. status'[t] = "running" /\ \A u \in Tasks \ {t} : status'[u] = status[u]
    BY <1>1 DEF TypeOK
  <1>3. ~Listed(t)
    BY <1>1 DEF ReadyKept
  <1> QED BY <1>1, <1>2, <1>3 DEF ReadyKept, Listed

\* What a task that succeeds makes ready is in no list: its list would be the task's own.
LEMMA SucceedReady ==
  ASSUME TypeOK, LockInv, ReadyKept, NEW t \in Tasks, Succeed(t)
  PROVE  ReadyKept'
  <1> DEFINE free == {u \in Blocked(t) : OnlyBlocker(u, t)}
  <1>1. /\ status[t] = "running" /\ fin[t] = "no"
        /\ status' = [u \in Tasks |-> IF u = t THEN "succeeded"
                                      ELSE IF u \in free THEN "ready" ELSE status[u]]
        /\ handed' = handed \cup free /\ UNCHANGED pend
    BY DEF Succeed, Working, finVars
  <1>2. \A u \in free : u \in Tasks /\ <<u, t>> \in block
    BY DEF Blocked
  <1> HIDE DEF free
  <1>3. \A u \in free : u # t /\ u \notin handed
    BY <1>1, <1>2 DEF LockInv, BlockedNotHanded
  <1>4. \A u \in free : ~Listed(u)
    <2> SUFFICES ASSUME NEW u \in free, NEW a \in Tasks, u \in pend[a] PROVE FALSE
      BY DEF Listed
    <2>1. t = a /\ fin[a] = "scan"
      BY <1>2 DEF LockInv, CompletionSound
    <2> QED BY <1>1, <2>1
  <1>5. ~Listed(t)
    BY <1>1 DEF ReadyKept
  <1>6. /\ status'[t] = "succeeded" /\ \A u \in free : status'[u] = "ready"
        /\ \A u \in Tasks \ {t} : u \notin free => status'[u] = status[u]
    BY <1>1, <1>2, <1>3
  <1> QED BY <1>1, <1>2, <1>3, <1>4, <1>5, <1>6 DEF ReadyKept, Listed

LEMMA FailScanReady ==
  ASSUME TypeOK, LockInv, ReadyKept, NEW t \in Tasks, NEW u \in Tasks, FailScan(t, u)
  PROVE  ReadyKept'
  <1>1. u \in todo[t] /\ UNCHANGED handed
    BY DEF FailScan
  <1>2. status[u] = "blocked"
    BY <1>1 DEF LockInv, CompletionSound
  <1>3. u \notin handed /\ ~Listed(u)
    BY <1>2 DEF ReadyKept
  <1>4. CASE OnlyBlocker(u, t)
    <2>1. status' = [status EXCEPT ![u] = "ready"] /\ pend' = [pend EXCEPT ![t] = @ \cup {u}]
      BY <1>4 DEF FailScan
    <2>2. /\ status'[u] = "ready" /\ \A a \in Tasks \ {u} : status'[a] = status[a]
          /\ pend'[t] = pend[t] \cup {u} /\ \A a \in Tasks \ {t} : pend'[a] = pend[a]
      BY <2>1 DEF TypeOK
    <2> QED BY <1>1, <1>3, <2>2 DEF ReadyKept, Listed
  <1>5. CASE ~OnlyBlocker(u, t)
    BY <1>1, <1>5 DEF FailScan, ReadyKept, Listed
  <1> QED BY <1>4, <1>5

LEMMA FailEndReady ==
  ASSUME TypeOK, LockInv, ReadyKept, NEW t \in Tasks, FailEnd(t)
  PROVE  ReadyKept'
  <1>1. /\ fin[t] = "update" /\ status' = [status EXCEPT ![t] = "failed"]
        /\ handed' = handed \cup pend[t] /\ pend' = [pend EXCEPT ![t] = {}]
    BY DEF FailEnd
  <1>2. status[t] = "running"
    BY <1>1 DEF LockInv, CompletionSound
  <1>3. /\ status'[t] = "failed" /\ pend'[t] = {}
        /\ \A u \in Tasks \ {t} : status'[u] = status[u] /\ pend'[u] = pend[u]
    BY <1>1 DEF TypeOK
  <1>4. ~Listed(t)
    BY <1>2 DEF ReadyKept
  <1>5. \A u \in Tasks : u \in pend[t] => u # t /\ status[u] = "ready" /\ ~Listed(u)'
    BY <1>3, <1>4 DEF ReadyKept, Listed
  <1>6. \A u \in Tasks : Listed(u)' => Listed(u) /\ u \notin pend[t]
    BY <1>3, <1>5 DEF Listed
  <1>7. \A u \in Tasks : Listed(u) => Listed(u)' \/ u \in pend[t]
    BY <1>3 DEF Listed
  <1>8. \A u, a, b \in Tasks : u \in pend'[a] /\ u \in pend'[b] => a = b
    BY <1>3 DEF ReadyKept
  <1> QED BY <1>1, <1>2, <1>3, <1>4, <1>5, <1>6, <1>7, <1>8 DEF ReadyKept

LEMMA ReadyStep ==
  ASSUME TypeOK, LockInv, ReadyKept, [Next]_vars
  PROVE  ReadyKept'
  <1>1. ASSUME UNCHANGED <<status, handed, pend>> PROVE ReadyKept'
    BY <1>1 DEF ReadyKept, Listed
  <1>2. ASSUME NEW t \in Tasks, Run(t) PROVE ReadyKept'
    <2>1. CASE MoveRecord(t) \/ DeleteRecords(t) \/ DeleteProject(t)
      BY <1>1, <2>1 DEF MoveRecord, DeleteRecords, DeleteProject, Erase, taskVars, finVars
    <2> QED BY <1>2, <2>1, StartReady DEF Run
  <1>3. ASSUME NEW t \in Tasks, Fail(t) PROVE ReadyKept'
    <2>1. CASE FailBegin(t) \/ FailUnblock(t) \/ FailUnlock(t)
      BY <1>1, <2>1 DEF FailBegin, FailUnblock, FailUnlock, taskVars
    <2> QED BY <1>3, <2>1, FailScanReady, FailEndReady DEF Fail
  <1>4. CASE UNCHANGED vars
    BY <1>1, <1>4 DEF vars, taskVars, finVars
  <1> QED BY <1>2, <1>3, <1>4, CreateReady, SucceedReady DEF Next

\* No ready task is forgotten, and none is handed over twice.
THEOREM ReadyIsHanded == Spec => []ReadyReachesCore
  <1>1. Init => ReadyKept
    BY DEF Init, ReadyKept, Listed
  <1>2. LockInv /\ TypeOK /\ ReadyKept /\ [Next]_vars => ReadyKept'
    BY ReadyStep
  <1>3. ReadyKept => ReadyReachesCore
    <2> SUFFICES ASSUME ReadyKept, NEW u \in Tasks
                 PROVE  LET lists == {t \in Tasks : u \in pend[t]}
                        IN /\ status[u] = "ready" => u \in handed \/ lists # {}
                           /\ lists # {} => u \notin handed /\ status[u] = "ready"
                           /\ Cardinality(lists) <= 1
                           /\ u \in handed => status[u] \notin {"none", "blocked"}
      BY DEF ReadyReachesCore
    <2> DEFINE lists == {t \in Tasks : u \in pend[t]}
    <2>1. lists # {} <=> Listed(u)
      BY DEF Listed
    <2>2. lists = {} \/ \E t : lists = {t}
      BY DEF ReadyKept
    <2> HIDE DEF lists
    <2>3. Cardinality(lists) <= 1
      BY <2>2, FS_EmptySet, FS_Singleton
    <2> QED BY <2>1, <2>3 DEF ReadyKept, lists
  <1> QED BY <1>1, <1>2, <1>3, LocksTypeCorrect, LockProtocol, PTL DEF Spec

-----------------------------------------------------------------------------
\* What failures change: as long as no task fails, only active tasks hold locks
\* and block others, and what is blocked has a block.
Waits == /\ \A t \in Tasks : status[t] = "blocked" => \E u \in Tasks : <<t, u>> \in block
         /\ \A t, u \in Tasks : <<t, u>> \in block => Active(u)
         /\ \A u \in Tasks : lock[u] # {} => Active(u)

LEMMA CreateWaits ==
  ASSUME TypeOK, LockInv, Waits, NEW t \in Tasks, Create(t)
  PROVE  Waits'
  <1>1. PICK k, R, O, G, o, g :
          /\ k \in AllKinds /\ R \in SUBSET Recs /\ O \in SUBSET Owners
          /\ G \in SUBSET Repos
          /\ Asks(R, o, g, k)
          /\ Enter(t, k, R, O, G, LocksOf(k, R, o, g))
    BY CreateIsEnter
  <1> DEFINE L == LocksOf(k, R, o, g)
             B == Blockers(L)
  <1>2. /\ lock' = [lock EXCEPT ![t] = L] /\ block' = block \cup {<<t, u>> : u \in B}
        /\ status' = [status EXCEPT ![t] = IF B = {} THEN "ready" ELSE "blocked"]
    BY <1>1 DEF Enter, Entering
  <1>3. \A u \in B : u \in Tasks /\ lock[u] # {}
    BY DEF Blockers, Conflicts
  <1> HIDE DEF L, B
  <1>4. /\ status'[t] = IF B = {} THEN "ready" ELSE "blocked"
        /\ \A u \in Tasks \ {t} : status'[u] = status[u] /\ lock'[u] = lock[u]
    BY <1>2 DEF TypeOK
  <1>5. Active(t)'
    BY <1>4 DEF Active
  <1>6. \A u \in Tasks : Active(u) => Active(u)'
    BY <1>4, <1>5 DEF Active
  <1>7. \A u \in Tasks : status'[u] = "blocked" => \E v \in Tasks : <<u, v>> \in block'
    BY <1>2, <1>3, <1>4 DEF Waits
  <1>8. \A u, v \in Tasks : <<u, v>> \in block' => Active(v)'
    BY <1>2, <1>3, <1>6 DEF Waits
  <1>9. \A u \in Tasks : lock'[u] # {} => Active(u)'
    BY <1>4, <1>5, <1>6 DEF Waits
  <1> QED BY <1>7, <1>8, <1>9 DEF Waits

LEMMA RunWaits ==
  ASSUME TypeOK, Waits, NEW t \in Tasks, Run(t)
  PROVE  Waits'
  <1>1. /\ block' = block /\ \A u \in Tasks : lock'[u] \subseteq lock[u]
        /\ \A u \in Tasks : status'[u] = status[u] \/ (status[u] = "ready" /\ status'[u] = "running")
    BY DEF Run, Start, MoveRecord, DeleteRecords, DeleteProject, Erase, lockVars, taskVars, TypeOK
  <1>2. \A u \in Tasks : Active(u) => Active(u)'
    BY <1>1 DEF Active
  <1> QED BY <1>1, <1>2 DEF Waits

LEMMA SucceedWaits ==
  ASSUME TypeOK, Waits, NEW t \in Tasks, Succeed(t)
  PROVE  Waits'
  <1> DEFINE free == {u \in Blocked(t) : OnlyBlocker(u, t)}
  <1>1. /\ status' = [u \in Tasks |-> IF u = t THEN "succeeded"
                                      ELSE IF u \in free THEN "ready" ELSE status[u]]
        /\ block' = {e \in block : e[2] # t} /\ lock' = [lock EXCEPT ![t] = {}]
    BY DEF Succeed
  <1>2. ASSUME NEW u \in Tasks, u \notin free, NEW v \in Tasks, <<u, v>> \in block
        PROVE  \E w \in Tasks : <<u, w>> \in block /\ w # t
    BY <1>2 DEF Blocked, OnlyBlocker
  <1> HIDE DEF free
  <1>3. \A u \in Tasks : status'[u] = "blocked" => status[u] = "blocked" /\ u \notin free
    BY <1>1
  <1>4. \A u \in Tasks : status'[u] = "blocked" => \E v \in Tasks : <<u, v>> \in block'
    BY <1>1, <1>2, <1>3 DEF Waits
  <1>5. \A u \in Tasks \ {t} : Active(u) => Active(u)'
    BY <1>1 DEF Active
  <1>6. \A u, v \in Tasks : <<u, v>> \in block' => Active(v)'
    BY <1>1, <1>5 DEF Waits
  <1>7. \A u \in Tasks : lock'[u] # {} => u # t /\ lock'[u] = lock[u]
    BY <1>1 DEF TypeOK
  <1>8. \A u \in Tasks : lock'[u] # {} => Active(u)'
    BY <1>5, <1>7 DEF Waits
  <1> QED BY <1>4, <1>6, <1>8 DEF Waits

\* As long as no task fails, a blocked task is blocked by a task that is still to complete.
THEOREM NoneLeftWithoutFailure == CleanSpec => []NoneLeftBehind
  <1>1. [CleanNext]_vars => [Next]_vars
    BY DEF CleanNext, Next
  <1>2. Init => Waits
    BY DEF Init, Waits
  <1>3. LockInv /\ TypeOK /\ Waits /\ [CleanNext]_vars => Waits'
    <2>1. CASE UNCHANGED vars
      BY <2>1 DEF vars, taskVars, lockVars, Waits, Active
    <2> QED BY <2>1, CreateWaits, RunWaits, SucceedWaits DEF CleanNext
  <1>4. Waits => NoneLeftBehind
    BY DEF Waits, NoneLeftBehind
  <1> QED BY <1>1, <1>2, <1>3, <1>4, LocksTypeCorrect, LockProtocol, PTL DEF Spec, CleanSpec
=============================================================================
