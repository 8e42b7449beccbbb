----------------------------- MODULE TaskLocks -----------------------------
(***************************************************************************)
(* The task, lock and block collections of the database service            *)
(* (core/database/foxx/api: tasks.js, process.js, task_router.js and the   *)
(* routers that create tasks).  A task locks what it works on, is blocked  *)
(* by the earlier tasks its locks conflict with, and when it completes the *)
(* tasks only it blocked become ready.                                     *)
(*                                                                         *)
(* The grain is the database transaction.  Creation and successful         *)
(* completion are transactions with lock and block held exclusively.  The  *)
(* completion of a task that failed, at the end of /task/run, is not in a  *)
(* transaction: each of its database operations is a step of its own.      *)
(*                                                                         *)
(* Checks of a request that look neither at locks nor at tasks (ids exist, *)
(* permissions, allocations, limits) only turn a request away; any request *)
(* about existing things may arrive here.                                  *)
(***************************************************************************)
EXTENDS Naturals, FiniteSets

CONSTANTS Tasks,     \* task ids, in the order of use
          Recs,      \* data records
          Users, Projects,
          Repos,
          Kinds,     \* the kinds of task that clients ask for
          NoCtx,     \* a lock without a context
          NoRequest

Owners == Users \cup Projects

AllKinds == {"get", "put", "alloc_chg", "owner_chg", "alloc_create",
             "alloc_delete", "rec_del", "proj_del"}

ASSUME KindsAssumption == Kinds \subseteq AllKinds
ASSUME DistinctAssumption ==
  /\ Recs \cap Owners = {} /\ Recs \cap Repos = {} /\ Owners \cap Repos = {}
  /\ NoCtx \notin Owners

\* What a lock edge is attached to: a document, and the context that splits a
\* repository into its allocations.
Resources == (Recs \cup Owners \cup Repos) \X (Owners \cup {NoCtx})

\* Levels a request asks for: shared (0) or exclusive (1).
Locks == [res : Resources, lev : {0, 1}]
At(R, l) == {[res |-> x, lev |-> l] : x \in R}

Requests == [kind : AllKinds, recs : SUBSET Recs, owner : SUBSET Owners,
             repo : SUBSET Repos, locks : SUBSET Locks]

VARIABLES status,   \* task.status, "none" before the task exists
          req,      \* task.type and task.state, with the locks it asked for
          lock,     \* lock edges of each task: document, context and level
          block,    \* block edges, <<blocked task, blocking task>>
          owner,    \* owner of each record
          gone,     \* deleted records and projects
          wiped,    \* delete tasks that have committed their step 0
          fin,      \* progress of taskComplete in the error path of /run
          todo,     \* its cursor over the tasks it blocks
          pend,     \* its list of tasks that became ready
          handed    \* tasks the core server was told to run

taskVars == <<status, req, handed>>
lockVars == <<lock, block>>
dataVars == <<owner, gone, wiped>>
finVars == <<fin, todo, pend>>
vars == <<taskVars, lockVars, dataVars, finVars>>

-----------------------------------------------------------------------------
Docs(S) == S \X {NoCtx}
OwnersOf(R) == {owner[r] : r \in R}

\* The locks each kind of task takes, from its taskInit function.  The level 0
\* lock of an owner change on its destination collection is left out: no task
\* takes a collection exclusively.  The two delete tasks take none.
LocksOf(k, R, o, g) ==
  CASE k = "get" -> At(Docs(R), 0) \cup At(Docs(OwnersOf(R)), 0)
    [] k \in {"put", "alloc_chg"} -> At(Docs(R), 1) \cup At(Docs(OwnersOf(R)), 0)
    [] k = "owner_chg" -> At(Docs(R), 1) \cup At(Docs({o}), 0) \cup At({<<g, o>>}, 1)
    [] k \in {"alloc_create", "alloc_delete"} -> At({<<g, o>>}, 1) \cup At(Docs({o}), 0)
    [] OTHER -> {}

Conflict(l, m) == l.res = m.res /\ (l.lev > 0 \/ m.lev > 0)
Conflicts(L, M) == \E l \in L, m \in M : Conflict(l, m)

\* Mutant: only the level the new task asks for is looked at.
Blockers_own(L) == {u \in Tasks : \E l \in L, m \in lock[u] :
                                    l.res = m.res /\ l.lev > 0}

\* The tasks with priority over a new one that asks for L.
Blockers(L) == {u \in Tasks : Conflicts(L, lock[u])}

\* _ensureExclusiveAccess: no task has a lock on any of ids, in any context.
InUse(ids) == \E t \in Tasks : \E l \in lock[t] : l.res[1] \in ids

-----------------------------------------------------------------------------
Init == /\ status = [t \in Tasks |-> "none"]
        /\ req = [t \in Tasks |-> NoRequest]
        /\ lock = [t \in Tasks |-> {}]
        /\ block = {}
        /\ owner \in [Recs -> Owners]
        /\ gone = {}
        /\ wiped = {}
        /\ fin = [t \in Tasks |-> "no"]
        /\ todo = [t \in Tasks |-> {}]
        /\ pend = [t \in Tasks |-> {}]
        /\ handed = {}

\* _createTask, then _processTaskDeps or _lockDepsGeneral: locks and blocks
\* are added, and the task is blocked if it has a blocker.  A task that is
\* ready goes to the core server with the reply.  held are the lock edges it
\* leaves, before the tasks that block it.
Entering(t, k, R, O, G, L, held, before) ==
  /\ status[t] = "none"
  /\ req' = [req EXCEPT ![t] = [kind |-> k, recs |-> R, owner |-> O, repo |-> G,
                                locks |-> L]]
  /\ lock' = [lock EXCEPT ![t] = held]
  /\ block' = block \cup {<<t, u>> : u \in before}
  /\ status' = [status EXCEPT ![t] = IF before = {} THEN "ready" ELSE "blocked"]
  /\ handed' = IF before = {} THEN handed \cup {t} ELSE handed
  /\ UNCHANGED <<dataVars, finVars>>

\* Mutant: the locks are added before the blockers are looked up.
Enter_late(t, k, R, O, G, L) ==
  Entering(t, k, R, O, G, L, L, Blockers(L) \cup (IF Conflicts(L, L) THEN {t} ELSE {}))

Enter(t, k, R, O, G, L) == Entering(t, k, R, O, G, L, L, Blockers(L))

\* Data get, data put and allocation change.
CreateDataTask(t) ==
  \E k \in Kinds \cap {"get", "put", "alloc_chg"}, R \in SUBSET (Recs \ gone) :
    /\ R # {}
    /\ Enter(t, k, R, {}, {}, LocksOf(k, R, NoCtx, NoCtx))

CreateOwnerChg(t) ==
  \E R \in SUBSET (Recs \ gone), o \in Owners \ gone, g \in Repos :
    /\ "owner_chg" \in Kinds
    /\ R # {}
    /\ Enter(t, "owner_chg", R, {o}, {g}, LocksOf("owner_chg", R, o, g))

\* A second create, or delete, of the same allocation is refused while the
\* first has its lock.
CreateAllocTask(t) ==
  \E k \in Kinds \cap {"alloc_create", "alloc_delete"}, o \in Owners \ gone, g \in Repos :
    /\ \A u \in Tasks : \A l \in lock[u] : l.res = <<g, o>> => req[u].kind # k
    /\ Enter(t, k, {}, {o}, {g}, LocksOf(k, {}, o, g))

CreateRecDelete(t) ==
  \E R \in SUBSET (Recs \ gone) :
    /\ "rec_del" \in Kinds
    /\ R # {}
    /\ ~InUse(R)
    /\ Enter(t, "rec_del", R, {}, {}, {})

CreateProjDelete(t) ==
  \E p \in Projects \ gone :
    /\ "proj_del" \in Kinds
    /\ ~InUse({p})
    /\ Enter(t, "proj_del", {}, {p}, {}, {})

-----------------------------------------------------------------------------
\* A worker works on t: /run has started it and no completion is under way.
Working(t) == status[t] = "running" /\ fin[t] = "no"

\* The first /run of a task the core server was given.
Start(t) == /\ status[t] = "ready"
            /\ t \in handed
            /\ status' = [status EXCEPT ![t] = "running"]
            /\ UNCHANGED <<req, handed, lockVars, dataVars, finVars>>

\* recMoveFini of an owner change: a record gets its new owner.
MoveRecord(t) ==
  /\ Working(t)
  /\ req[t].kind = "owner_chg"
  /\ \E r \in req[t].recs \ gone, o \in req[t].owner \ gone :
        owner' = [owner EXCEPT ![r] = o]
  /\ UNCHANGED <<taskVars, lockVars, gone, wiped, finVars>>

\* Removing a document from the graph removes the lock edges attached to it.
Erase(t, D) == /\ gone' = gone \cup D
               /\ lock' = [u \in Tasks |-> {l \in lock[u] : l.res[1] \notin D}]
               /\ wiped' = wiped \cup {t}
               /\ UNCHANGED <<taskVars, block, owner, finVars>>

\* Step 0 of the two delete tasks, one transaction.
DeleteRecords(t) == /\ Working(t)
                    /\ req[t].kind = "rec_del"
                    /\ t \notin wiped
                    /\ req[t].recs \cap gone = {}
                    /\ Erase(t, req[t].recs)

DeleteProject(t) == /\ Working(t)
                    /\ req[t].kind = "proj_del"
                    /\ t \notin wiped
                    /\ req[t].owner \cap gone = {}
                    /\ Erase(t, req[t].owner \cup {r \in Recs : owner[r] \in req[t].owner})

-----------------------------------------------------------------------------
Blocked(t) == {u \in Tasks : <<u, t>> \in block}
\* Mutant: a task is readied when it has no block, before t's are removed.
OnlyBlocker_none(u, t) == \A v \in Tasks : <<u, v>> \notin block

OnlyBlocker(u, t) == \A v \in Tasks : <<u, v>> \in block => v = t

\* taskComplete(task, true), in a transaction with lock and block exclusive.
Succeed(t) ==
  LET free == {u \in Blocked(t) : OnlyBlocker(u, t)}
  IN /\ Working(t)
     /\ req[t].kind \in {"rec_del", "proj_del"} => t \in wiped
     /\ status' = [u \in Tasks |-> IF u = t THEN "succeeded"
                                   ELSE IF u \in free THEN "ready" ELSE status[u]]
     /\ block' = {e \in block : e[2] # t}
     /\ lock' = [lock EXCEPT ![t] = {}]
     /\ handed' = handed \cup free
     /\ UNCHANGED <<req, dataVars, finVars>>

\* The error path of /run, when roll-back is over or has failed, calls
\* taskComplete(task, false) outside any transaction.  It reads its blocks,
FailBegin(t) == /\ Working(t)
                /\ fin' = [fin EXCEPT ![t] = "scan"]
                /\ todo' = [todo EXCEPT ![t] = Blocked(t)]
                /\ UNCHANGED <<taskVars, lockVars, dataVars, pend>>

\* then for each of them reads how many blocks it has, and readies it if one,
FailScan(t, u) ==
  /\ fin[t] = "scan"
  /\ u \in todo[t]
  /\ todo' = [todo EXCEPT ![t] = @ \ {u}]
  /\ IF OnlyBlocker(u, t)
       THEN /\ status' = [status EXCEPT ![u] = "ready"]
            /\ pend' = [pend EXCEPT ![t] = @ \cup {u}]
       ELSE UNCHANGED <<status, pend>>
  /\ UNCHANGED <<req, handed, lockVars, dataVars, fin>>

\* then removes the block edges, the lock edges, and updates the task.
FailUnblock(t) == /\ fin[t] = "scan"
                  /\ todo[t] = {}
                  /\ block' = {e \in block : e[2] # t}
                  /\ fin' = [fin EXCEPT ![t] = "unlock"]
                  /\ UNCHANGED <<taskVars, lock, dataVars, todo, pend>>

FailUnlock(t) == /\ fin[t] = "unlock"
                 /\ lock' = [lock EXCEPT ![t] = {}]
                 /\ fin' = [fin EXCEPT ![t] = "update"]
                 /\ UNCHANGED <<taskVars, block, dataVars, todo, pend>>

\* Mutant: the list of ready tasks is lost with the error.
FailEnd_drops(t) == /\ fin[t] = "update"
                    /\ status' = [status EXCEPT ![t] = "failed"]
                    /\ fin' = [fin EXCEPT ![t] = "no"]
                    /\ pend' = [pend EXCEPT ![t] = {}]
                    /\ UNCHANGED <<req, handed, lockVars, dataVars, todo>>

FailEnd(t) == /\ fin[t] = "update"
              /\ status' = [status EXCEPT ![t] = "failed"]
              /\ handed' = handed \cup pend[t]
              /\ fin' = [fin EXCEPT ![t] = "no"]
              /\ pend' = [pend EXCEPT ![t] = {}]
              /\ UNCHANGED <<req, lockVars, dataVars, todo>>

-----------------------------------------------------------------------------
Create(t) == \/ CreateDataTask(t) \/ CreateOwnerChg(t) \/ CreateAllocTask(t)
             \/ CreateRecDelete(t) \/ CreateProjDelete(t)
Run(t) == Start(t) \/ MoveRecord(t) \/ DeleteRecords(t) \/ DeleteProject(t)
Fail(t) == \/ FailBegin(t) \/ FailUnblock(t) \/ FailUnlock(t) \/ FailEnd(t)
           \/ \E u \in Tasks : FailScan(t, u)

Next == \E t \in Tasks : Create(t) \/ Run(t) \/ Succeed(t) \/ Fail(t)

Spec == Init /\ [][Next]_vars

\* The service as it is as long as no task ends in the error path of /run.
CleanNext == \E t \in Tasks : Create(t) \/ Run(t) \/ Succeed(t)
CleanFair == \A t \in Tasks : /\ WF_vars(Start(t)) /\ WF_vars(Succeed(t))
                              /\ WF_vars(DeleteRecords(t) \/ DeleteProject(t))
CleanSpec == Init /\ [][CleanNext]_vars /\ CleanFair
-----------------------------------------------------------------------------
States == {"none", "blocked", "ready", "running", "succeeded", "failed"}
Active(t) == status[t] \in {"blocked", "ready", "running"}

TypeOK == /\ status \in [Tasks -> States]
          /\ req \in [Tasks -> Requests \cup {NoRequest}]
          /\ \A t \in Tasks : status[t] # "none" => req[t] \in Requests
          /\ lock \in [Tasks -> SUBSET Locks]
          /\ block \subseteq Tasks \X Tasks
          /\ owner \in [Recs -> Owners]
          /\ gone \subseteq Recs \cup Owners
          /\ wiped \subseteq Tasks
          /\ fin \in [Tasks -> {"no", "scan", "unlock", "update"}]
          /\ todo \in [Tasks -> SUBSET Tasks]
          /\ pend \in [Tasks -> SUBSET Tasks]
          /\ handed \subseteq Tasks

\* Two tasks that work at the same time never asked for conflicting locks:
\* one that changes a record, or an allocation, has it for itself.
Exclusive == \A t, u \in Tasks :
               t # u /\ Working(t) /\ Working(u) => ~Conflicts(req[t].locks, req[u].locks)

\* Exclusive is inductive with the following.  Two tasks in the lock table,
\* that is up to the removal of their block edges, are ordered by a block edge
\* if their locks conflict;
InTable(t) == Active(t) /\ fin[t] \in {"no", "scan"}

ConflictsOrdered ==
  \A t, u \in Tasks :
    t # u /\ InTable(t) /\ InTable(u) /\ Conflicts(req[t].locks, req[u].locks)
      => <<t, u>> \in block \/ <<u, t>> \in block

\* a task keeps its lock edges while it is in the table, except those to
\* documents that are deleted;
KeepsLocks ==
  \A t \in Tasks : InTable(t) =>
    \A l \in req[t].locks : l.res[1] \in gone \/ l \in lock[t]

\* a task with a block edge has not been handed to the core server, and if it
\* is ready then what blocks it is completing;
BlockedNotHanded ==
  \A t, u \in Tasks : <<t, u>> \in block =>
    /\ status[t] \in {"blocked", "ready"}
    /\ t \notin handed
    /\ status[t] = "ready" => fin[u] = "scan"

\* the cursor of a completing task is on blocked tasks, the tasks it has
\* readied are blocked by itself only, and a task completes once;
CompletionSound ==
  \A t \in Tasks :
    /\ fin[t] # "no" => status[t] = "running"
    /\ todo[t] # {} => fin[t] = "scan"
    /\ \A u \in todo[t] : status[u] = "blocked" /\ <<u, t>> \in block
    /\ \A u \in pend[t] : /\ status[u] # "none"
                          /\ \A v \in Tasks : <<u, v>> \in block => v = t /\ fin[t] = "scan"

\* a task that does not exist has left no trace, and a record that exists has
\* an owner that exists.
NothingEarly ==
  /\ \A t \in Tasks : status[t] = "none" =>
       /\ lock[t] = {} /\ t \notin handed /\ fin[t] = "no"
       /\ \A u \in Tasks : <<t, u>> \notin block /\ <<u, t>> \notin block
  /\ \A r \in Recs \ gone : owner[r] \notin gone

LockInv == /\ ConflictsOrdered /\ KeepsLocks /\ BlockedNotHanded
           /\ CompletionSound /\ NothingEarly

\* The waits-for relation of the tasks has no cycle, not even of one task: the
\* lock protocol cannot deadlock.
NoWaitCycle == \A S \in (SUBSET Tasks) \ {{}} :
                 \E t \in S : \A u \in S : <<t, u>> \notin block

\* No ready task is forgotten: it was handed to the core server, or it is in
\* the list that a task about to complete will hand over; and a task is in at
\* most one such list, once in its life.
ReadyReachesCore ==
  \A u \in Tasks :
    LET lists == {t \in Tasks : u \in pend[t]}
    IN /\ status[u] = "ready" => u \in handed \/ lists # {}
       /\ lists # {} => u \notin handed /\ status[u] = "ready"
       /\ Cardinality(lists) <= 1
       /\ u \in handed => status[u] \notin {"none", "blocked"}

\* taskComplete "removes dependency locks and patches the task dependency
\* graph [...] It returns a list of new runnable tasks": a task that stays
\* blocked is blocked by a task that is still to complete.
NoneLeftBehind ==
  \A t \in Tasks : status[t] = "blocked" =>
    \E u \in Tasks : <<t, u>> \in block /\ Active(u)

\* Without failures every task that is created gets to run.
BlockedRuns == \A t \in Tasks : status[t] = "blocked" ~> status[t] = "running"
=============================================================================
