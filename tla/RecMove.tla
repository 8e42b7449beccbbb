------------------------------ MODULE RecMove ------------------------------
(***************************************************************************)
(* Raw data of managed records: where it is stored, what the allocations   *)
(* are charged for it, and the tasks that write, move and delete it        *)
(* (core/database/foxx/api/tasks.js, data_router.js; the commands are      *)
(* those of core/server/TaskWorker.cpp).  A record has one loc edge to the *)
(* repository that stores its file, in the directory of the owner the edge *)
(* names; an alloc edge, from owner to repository, counts the records and  *)
(* bytes stored in that directory.                                         *)
(*                                                                         *)
(* The grain is the database transaction and the external command.  How a  *)
(* task is called again, in general, is the subject of TaskRun; here a     *)
(* call is repeated, broken off, or makes an exception, which is what the  *)
(* steps below have to bear.  Locks are reduced to what TaskLocks proves   *)
(* of them: a task waits for the earlier tasks it conflicts with.  Raw     *)
(* data of external records is not stored and not modelled.                *)
(*                                                                         *)
(* data_size moves by the sizes a task was given when it was asked for,    *)
(* and the room of a destination is looked at in a transaction before the  *)
(* one that uses it.  Both can be overtaken, by a put, a new record or     *)
(* another move; an allocation change charges another owner's allocation   *)
(* than the one it looked at.  Two history variables, which no action      *)
(* reads, note the places where that came to pass.                         *)
(***************************************************************************)
EXTENDS Integers, Sequences, FiniteSets, FiniteSetsExt

CONSTANTS Tasks, Recs, Owners, Repos,
          Manages,    \* <<o, p>>: user o manages project p
          Kinds,      \* kinds of task that are asked for
          Accepted,   \* kinds whose transfers the task worker can accept,
          Refused,    \* and those whose transfers it can refuse
          Faults,     \* what goes wrong: "lost", "cut" and "throw" below
          MaxSize,    \* largest raw data
          RecLimit,   \* alloc.rec_limit of each place
          DataLimit,  \* alloc.data_limit of each place
          None

Places == Owners \X Repos   \* an allocation, and the directory it stands for
AllKinds == {"put", "alloc_chg", "owner_chg", "rec_del", "alloc_del"}
Moves == {"alloc_chg", "owner_chg"}

ASSUME DataAssumption ==
  /\ IsFiniteSet(Recs)
  /\ Kinds \subseteq AllKinds /\ Accepted \subseteq AllKinds /\ Refused \subseteq AllKinds
  /\ MaxSize \in Nat
  /\ RecLimit \in [Places -> Nat] /\ DataLimit \in [Places -> Nat]
  /\ None \notin Owners \cup Repos \cup Places
  /\ None \notin [repo : Repos, uid : Owners, newRepo : Repos \cup {None},
                  newOwner : Owners \cup {None}]

NoFile == -1
Locs == [repo : Repos, uid : Owners, newRepo : Repos \cup {None},
         newOwner : Owners \cup {None}]
Jobs == [kind : AllKinds, recs : SUBSET Recs, size : [Recs -> 0..MaxSize],
         dst : Places \cup {None}]

VARIABLES loc,      \* the loc edge of each record, None if there is no record
          owner,    \* owner of each record
          size,     \* size of each record, as the database has it
          unborn,   \* records that were never created
          allocs,   \* alloc edges
          recCount, \* rec_count of each
          dataSize, \* data_size of each
          stale,    \* places between which a record moved by an outdated size
          crowded,  \* places that got records for which no room was kept
          disk,     \* files: size of each record's file at each place
          job,      \* task.type and task.state, with the sizes it was given
          locked,   \* records and allocations it locks exclusively
          before,   \* tasks it was blocked by
          xfr,      \* task.state.xfr (or del_data): source and records
          step, steps,
          at,       \* where the task is, see Stages
          err       \* the next /run carries an error message

recVars == <<loc, owner, size, unborn>>
allocVars == <<allocs, recCount, dataSize, stale, crowded>>
taskVars == <<job, locked, before>>
runVars == <<xfr, step, steps, at, err>>
vars == <<recVars, allocVars, disk, taskVars, runVars>>

\* "wait": blocked or ready; "run": inside /run, or called next; "cmd": a
\* command is carried out; "done": it was, and /run is called to confirm it;
\* "undo": inside /run, to roll back; "undone": taskComplete(false) is next.
Stages == {"none", "wait", "run", "cmd", "done", "undo", "undone", "over"}
Active(t) == at[t] \notin {"none", "over"}

Live == {r \in Recs : loc[r] # None}
Place(l) == <<l.uid, l.repo>>
Stored(a) == {r \in Live : Place(loc[r]) = a}
SumOver(f, S) == MapThenSumSet(LAMBDA r : f[r], S)

GoTo(t, s) == at' = [at EXCEPT ![t] = s]

-----------------------------------------------------------------------------
\* Some records, with or without data, and allocations that count them.
Init == /\ loc \in [Recs -> {None} \cup [repo : Repos, uid : Owners, newRepo : {None},
                                         newOwner : {None}]]
        /\ owner \in [Recs -> Owners \cup {None}]
        /\ size \in [Recs -> 0..MaxSize]
        /\ allocs \in {Places, {a \in Places : RecLimit[a] > 0}}
        /\ unborn = Recs \ Live
        /\ \A r \in Live : Place(loc[r]) \in allocs /\ owner[r] = loc[r].uid
        /\ \A r \in unborn : size[r] = 0 /\ owner[r] = None
        /\ recCount = [a \in Places |-> Cardinality(Stored(a))]
        /\ dataSize = [a \in Places |-> SumOver(size, Stored(a))]
        /\ \A a \in allocs : recCount[a] <= RecLimit[a]
        /\ disk = [r \in Recs |-> [a \in Places |->
                     IF r \in Stored(a) /\ size[r] > 0 THEN size[r] ELSE NoFile]]
        /\ job = [t \in Tasks |-> None]
        /\ locked = [t \in Tasks |-> {}]
        /\ before = [t \in Tasks |-> {}]
        /\ xfr = [t \in Tasks |-> <<>>]
        /\ step = [t \in Tasks |-> 0]
        /\ steps = [t \in Tasks |-> 0]
        /\ at = [t \in Tasks |-> "none"]
        /\ err = [t \in Tasks |-> FALSE]
        /\ stale = {} /\ crowded = {}

-----------------------------------------------------------------------------
\* Where a move is: step - Base counts its substeps, four for each transfer.
Base(t) == IF job[t].kind = "alloc_chg" THEN 1 ELSE 2
Moving(t) == /\ job[t].kind \in Moves
             /\ step[t] \in Base(t)..steps[t] - 2
Substep(t) == (step[t] - Base(t)) % 4
Current(t) == xfr[t][(step[t] - Base(t)) \div 4 + 1]

\* The record was put since the task was asked for.
Outdated(t, r) == job[t].size[r] # size[r]

\* The task has looked at the room of its destination for the chunk in hand and
\* has not used it yet.
HasLooked(t) == Active(t) /\ Moving(t) /\ Substep(t) \in {1, 2}

\* What a step does: the task that gets on, the records that are stored elsewhere
\* after it, the places that have more records.
GetsOn(t) == step'[t] # step[t]
Relocated == {r \in Live : loc'[r] # None /\ Place(loc'[r]) # Place(loc[r])}
Filled == {a \in Places : recCount'[a] > recCount[a]}

\* Records came although another task counts on the room, or by a task that
\* looked elsewhere.
NotKept(a) == \/ \E t \in Tasks : HasLooked(t) /\ HasLooked(t)' /\ job[t].dst = a
              \/ \E t \in Tasks : GetsOn(t) /\ job[t].dst # a

Note ==
  /\ stale' = stale \cup UNION {{Place(loc[r]), Place(loc'[r])} : r \in
                {x \in Relocated : \E t \in Tasks : GetsOn(t) /\ Outdated(t, x)}}
  /\ crowded' = crowded \cup {a \in Filled : NotKept(a)}

-----------------------------------------------------------------------------
\* recordCreate: the allocation it names must have room (verifyRepo), or is one
\* that has (assignRepo).
CreateRecord(r, a) ==
  /\ r \in unborn
  /\ a \in allocs
  /\ dataSize[a] < DataLimit[a] /\ recCount[a] < RecLimit[a]
  /\ loc' = [loc EXCEPT ![r] = [uid |-> a[1], repo |-> a[2], newRepo |-> None,
                                newOwner |-> None]]
  /\ owner' = [owner EXCEPT ![r] = a[1]]
  /\ unborn' = unborn \ {r}
  /\ recCount' = [recCount EXCEPT ![a] = @ + 1]
  /\ UNCHANGED <<size, allocs, dataSize, disk, taskVars, runVars>>
  /\ Note

-----------------------------------------------------------------------------
\* What the transfers, or deletions, of R are: one per repository, or for a
\* move several of those; which small files share one is left open.  The path
\* is that of the first record found in the repository.
Plans(R, shared) ==
  LET here == R \cap Live
      docs == [src : {Place(loc[r]) : r \in here}, recs : (SUBSET here) \ {{}}]
      parts == {x \in docs : \A r \in x.recs : loc[r].repo = x.src[2]}
  IN {q \in UNION {[1..n -> parts] : n \in 0..Cardinality(here)} :
        /\ UNION {q[i].recs : i \in DOMAIN q} = here
        /\ \A i, j \in DOMAIN q : i # j =>
             /\ q[i].recs \cap q[j].recs = {}
             /\ q[i].src[2] = q[j].src[2] => q[i].src = q[j].src /\ ~shared}

\* _createTask and the locks.  Sizes and locations are those of now.
CreateTask(t, k, R, d, held) ==
  /\ k \in Kinds
  /\ at[t] = "none"
  /\ job' = [job EXCEPT ![t] = [kind |-> k, recs |-> R, dst |-> d,
                                size |-> [r \in Recs |-> IF r \in R THEN size[r] ELSE 0]]]
  /\ locked' = [locked EXCEPT ![t] = held]
  /\ before' = [before EXCEPT ![t] = {u \in Tasks : Active(u) /\ locked[u] \cap held # {}}]
  /\ GoTo(t, "wait")
  /\ UNCHANGED <<recVars, allocVars, disk, step, err>>

\* Not yet known, see Setup.
NoPlan == UNCHANGED <<xfr, steps>>

CreatePut(t) == \E r \in Live : CreateTask(t, "put", {r}, None, {r}) /\ NoPlan

\* taskInitRecAllocChg: locks those that are not there yet.  A user may name
\* records of projects that the user manages.
CreateAllocChg(t) ==
  \E R \in SUBSET Live, a \in allocs :
    LET moved == {r \in R : loc[r].repo # a[2]}
    IN /\ moved # {}
       /\ \A r \in R : owner[r] = a[1] \/ <<a[1], owner[r]>> \in Manages
       /\ CreateTask(t, "alloc_chg", R, a, moved)
       /\ NoPlan

CreateOwnerChg(t) ==
  \E R \in SUBSET Live, a \in allocs :
    LET moved == {r \in R : Place(loc[r]) # a}
    IN /\ moved # {}
       /\ CreateTask(t, "owner_chg", R, a, moved \cup {a})
       /\ NoPlan

\* taskInitRecCollDelete checks that no task has a lock, and takes none.
CreateRecDelete(t) ==
  \E R \in (SUBSET Live) \ {{}} :
    /\ \A u \in Tasks : Active(u) => R \cap locked[u] = {}
    /\ CreateTask(t, "rec_del", R, None, {})
    /\ \E q \in Plans(R, TRUE) : /\ xfr' = [xfr EXCEPT ![t] = q]
                                 /\ steps' = [steps EXCEPT ![t] = Len(q) + 2]

CreateAllocDelete(t) ==
  \E a \in allocs :
    /\ Stored(a) = {}
    /\ \A u \in Tasks : Active(u) /\ a \in locked[u] => job[u].kind # "alloc_del"
    /\ CreateTask(t, "alloc_del", {}, a, {a})
    /\ xfr' = xfr
    /\ steps' = [steps EXCEPT ![t] = 2]

Request(t) == \/ CreatePut(t) \/ CreateAllocChg(t) \/ CreateOwnerChg(t)
              \/ CreateRecDelete(t) \/ CreateAllocDelete(t)

\* The first /run, when no task it waits for is left.
Begin(t) == /\ at[t] = "wait"
            /\ before[t] = {}
            /\ GoTo(t, "run")
            /\ UNCHANGED <<recVars, allocVars, disk, taskVars, xfr, step, steps, err>>

-----------------------------------------------------------------------------
Called(t) == at[t] = "run" /\ ~err[t]

Setup(t) ==
  /\ Called(t) /\ step[t] = 0
  /\ job[t].kind \in Moves \cup {"put"}
  /\ \E q \in Plans(job[t].recs, job[t].kind = "put") :
       /\ xfr' = [xfr EXCEPT ![t] = q]
       /\ steps' = [steps EXCEPT ![t] = CASE job[t].kind = "put" -> Len(q) + 3
                                          [] job[t].kind = "alloc_chg" -> 4 * Len(q) + 2
                                          [] OTHER -> 4 * Len(q) + 3]
  /\ step' = [step EXCEPT ![t] = 1]
  /\ UNCHANGED <<recVars, allocVars, disk, taskVars, at, err>>

\* Records without managed data change their owner first; they have no part here.
MoveExternal(t) ==
  /\ Called(t) /\ step[t] = 1 /\ job[t].kind = "owner_chg"
  /\ step' = [step EXCEPT ![t] = 2]
  /\ UNCHANGED <<recVars, allocVars, disk, taskVars, xfr, steps, at, err>>

\* Mutant: there is room for the records that are there already.
CanInit_full(t) == /\ job[t].dst \in allocs
                   /\ Current(t).recs \subseteq Live
                   /\ recCount[job[t].dst] <= RecLimit[job[t].dst]

\* The guard of the first transaction of a chunk: what is there, and room for it.
CanInit(t) == LET a == job[t].dst  x == Current(t) IN
  /\ a \in allocs
  /\ x.recs \subseteq Live
  /\ recCount[a] + Cardinality(x.recs) <= RecLimit[a]
  /\ dataSize[a] + SumOver(job[t].size, x.recs) <= DataLimit[a]

\* Mutant: the test of an allocation change for both kinds of move.
Marked_repo(l, k, a) ==
  IF l.repo = a[2] THEN l
  ELSE [l EXCEPT !.newRepo = a[2], !.newOwner = IF k = "alloc_chg" THEN @ ELSE a[1]]

\* recMoveInit
Marked(l, k, a) ==
  IF k = "alloc_chg"
  THEN IF l.repo = a[2] THEN l ELSE [l EXCEPT !.newRepo = a[2]]
  ELSE IF l.uid = a[1] THEN l ELSE [l EXCEPT !.newRepo = a[2], !.newOwner = a[1]]

InitMove(t) ==
  /\ Called(t) /\ Moving(t) /\ Substep(t) = 0
  /\ CanInit(t)
  /\ loc' = [r \in Recs |-> IF r \in Current(t).recs
                            THEN Marked(loc[r], job[t].kind, job[t].dst) ELSE loc[r]]
  /\ step' = [step EXCEPT ![t] = @ + 1]
  /\ UNCHANGED <<owner, size, unborn, allocVars, disk, taskVars, xfr, steps, at, err>>

\* Mutant: the new owner is forgotten.
NewOwner_old(l) == l.uid

\* recMoveFini.  The statistics move by the sizes the task was given.
NewOwner(l) == IF l.newOwner # None THEN l.newOwner ELSE l.uid
Movers(t) == {r \in Current(t).recs \cap Live :
                loc[r].newRepo # None \/ loc[r].newOwner # None}
From(t, a) == {r \in Movers(t) : Place(loc[r]) = a}
\* Mutant: the destination is charged to the present owner.
To_uid(t, a) == {r \in Movers(t) : <<loc[r].uid, loc[r].newRepo>> = a}

To(t, a) == {r \in Movers(t) : <<NewOwner(loc[r]), loc[r].newRepo>> = a}

\* An allocation change does not declare the collections an owner needs.
CanFini(t) ==
  /\ Current(t).recs \subseteq Live
  /\ \A r \in Movers(t) :
       /\ Place(loc[r]) \in allocs
       /\ <<NewOwner(loc[r]), loc[r].newRepo>> \in allocs
       /\ job[t].kind = "alloc_chg" => loc[r].newOwner = None

FiniMove(t) ==
  /\ Called(t) /\ Moving(t) /\ Substep(t) = 2
  /\ CanFini(t)
  /\ loc' = [r \in Recs |-> IF r \in Movers(t)
                            THEN [repo |-> loc[r].newRepo, uid |-> NewOwner(loc[r]),
                                  newRepo |-> None, newOwner |-> None]
                            ELSE loc[r]]
  /\ owner' = [r \in Recs |-> IF r \in Movers(t) /\ loc[r].newOwner # None
                              THEN loc[r].newOwner ELSE owner[r]]
  /\ recCount' = [a \in Places |->
                    recCount[a] - Cardinality(From(t, a)) + Cardinality(To(t, a))]
  /\ dataSize' = [a \in Places |-> dataSize[a] - SumOver(job[t].size, From(t, a))
                                               + SumOver(job[t].size, To(t, a))]
  /\ step' = [step EXCEPT ![t] = @ + 1]
  /\ UNCHANGED <<size, unborn, allocs, disk, taskVars, xfr, steps, at, err>>
  /\ Note

\* _deleteDataRecords
EraseRecords(t) ==
  LET R == job[t].recs
      Erased(a) == {r \in R : <<owner[r], loc[r].repo>> = a}
  IN /\ Called(t) /\ step[t] = 0 /\ job[t].kind = "rec_del"
     /\ R \subseteq Live
     /\ loc' = [r \in Recs |-> IF r \in R THEN None ELSE loc[r]]
     /\ recCount' = [a \in Places |-> recCount[a] - IF a \in allocs
                                                    THEN Cardinality(Erased(a)) ELSE 0]
     /\ dataSize' = [a \in Places |-> dataSize[a] - IF a \in allocs
                                                    THEN SumOver(size, Erased(a)) ELSE 0]
     /\ owner' = [r \in Recs |-> IF r \in R THEN None ELSE owner[r]]
     /\ size' = [r \in Recs |-> IF r \in R THEN 0 ELSE size[r]]
     /\ step' = [step EXCEPT ![t] = 1]
     /\ UNCHANGED <<unborn, allocs, stale, crowded, disk, taskVars, xfr, steps, at, err>>

RemoveAlloc(t) ==
  /\ Called(t) /\ step[t] = 0 /\ job[t].kind = "alloc_del"
  /\ allocs' = allocs \ {job[t].dst}
  /\ GoTo(t, "cmd")
  /\ UNCHANGED <<recVars, recCount, dataSize, stale, crowded, disk, taskVars, xfr, step,
                 steps, err>>

\* taskComplete: locks and blocks go.  Nobody reads the progress of the task again.
End(t) == /\ GoTo(t, "over")
          /\ locked' = [locked EXCEPT ![t] = {}]
          /\ before' = [u \in Tasks |-> before[u] \ {t}]
          /\ xfr' = [xfr EXCEPT ![t] = <<>>]
          /\ step' = [step EXCEPT ![t] = 0]
          /\ steps' = [steps EXCEPT ![t] = 0]
          /\ err' = [err EXCEPT ![t] = FALSE]
          /\ UNCHANGED <<recVars, allocVars, disk, job>>

Finish(t) == /\ Called(t) /\ step[t] > 0 /\ step[t] >= steps[t] - 1
             /\ End(t)
-----------------------------------------------------------------------------
\* The commands.  A task worker carries one out, and then confirms the step.
TransferDue(t) == \/ job[t].kind = "put" /\ step[t] = 1 /\ steps[t] = 4
                  \/ Moving(t) /\ Substep(t) = 1
SizeDue(t) == job[t].kind = "put" /\ step[t] = 2
DeleteDue(t) == \/ job[t].kind = "rec_del" /\ step[t] \in 1..steps[t] - 2
                \/ Moving(t) /\ Substep(t) = 3

Doc(t) == IF job[t].kind \in Moves THEN Current(t) ELSE xfr[t][1]
Target(t) == IF job[t].kind = "put" THEN Doc(t).src ELSE job[t].dst

Issue(t) == /\ Called(t)
            /\ \/ TransferDue(t) \/ DeleteDue(t)
               \/ SizeDue(t) /\ job[t].recs \subseteq Live
            /\ GoTo(t, "cmd")
            /\ UNCHANGED <<recVars, allocVars, disk, taskVars, xfr, step, steps, err>>

Outcome(t, stage, e) == /\ GoTo(t, stage)
                        /\ err' = [err EXCEPT ![t] = e]
                        /\ UNCHANGED <<taskVars, xfr, step, steps>>

\* Mutant: the smallest files are taken for empty ones.
Sent_large(t) == {r \in Doc(t).recs : job[t].kind = "put" \/ job[t].size[r] > 1}

\* A user's file, of any size, is stored for a put; a move copies what it has
\* at the source of every record that had data when the task was created.
Sent(t) == {r \in Doc(t).recs : job[t].kind = "put" \/ job[t].size[r] > 0}
Found(t) == {r \in Sent(t) : job[t].kind = "put" \/ disk[r][Doc(t).src] # NoFile}
Write(t, S) ==
  \E n \in 0..MaxSize :
    disk' = [r \in Recs |-> IF r \notin S THEN disk[r] ELSE
              [disk[r] EXCEPT ![Target(t)] =
                 IF job[t].kind = "put" THEN n ELSE disk[r][Doc(t).src]]]

TransferOk(t) == /\ at[t] = "cmd" /\ TransferDue(t)
                 /\ job[t].kind \in Accepted
                 /\ Found(t) = Sent(t)
                 /\ Write(t, Sent(t))
                 /\ Outcome(t, "done", FALSE)
                 /\ UNCHANGED <<recVars, allocVars>>

TransferFails(t) == /\ at[t] = "cmd" /\ TransferDue(t)
                    /\ job[t].kind \in Accepted
                    /\ Found(t) # Sent(t) \/ "ext" \in Faults
                    /\ \E S \in SUBSET Found(t) : Write(t, S)
                    /\ Outcome(t, "run", TRUE)
                    /\ UNCHANGED <<recVars, allocVars>>

\* cmdRawDataTransfer asks for the token_type of a command before anything else.
TransferRefused(t) == /\ at[t] = "cmd" /\ TransferDue(t)
                      /\ job[t].kind \in Refused
                      /\ Outcome(t, "run", TRUE)
                      /\ UNCHANGED <<recVars, allocVars, disk>>

\* /update/size of the one record of a put; a file that is not there has size 0.
PutRec(t) == CHOOSE r \in job[t].recs : TRUE
\* Mutant: the file is taken for an addition to what was there.
OnDisk_adds(t) == LET f == disk[PutRec(t)][Target(t)]
                  IN size[PutRec(t)] + IF f = NoFile THEN 0 ELSE f
OnDisk(t) == LET f == disk[PutRec(t)][Target(t)] IN IF f = NoFile THEN 0 ELSE f
Charged(t) == <<owner[PutRec(t)], loc[PutRec(t)].repo>>
CanSize(t) == /\ PutRec(t) \in Live
              /\ OnDisk(t) # size[PutRec(t)] => Charged(t) \in allocs

UpdateSize(t) ==
  LET sum == dataSize[Charged(t)] - size[PutRec(t)] + OnDisk(t)
  IN /\ at[t] = "cmd" /\ SizeDue(t)
     /\ CanSize(t)
     /\ size' = [size EXCEPT ![PutRec(t)] = OnDisk(t)]
     /\ dataSize' = IF OnDisk(t) = size[PutRec(t)] THEN dataSize
                    ELSE [dataSize EXCEPT ![Charged(t)] = IF sum < 0 THEN 0 ELSE sum]
     /\ Outcome(t, "done", FALSE)
     /\ UNCHANGED <<loc, owner, unborn, allocs, recCount, stale, crowded, disk>>

SizeFails(t) == /\ at[t] = "cmd" /\ SizeDue(t)
                /\ ~CanSize(t) \/ "ext" \in Faults
                /\ Outcome(t, "run", TRUE)
                /\ UNCHANGED <<recVars, allocVars, disk>>

\* Files of records, or a whole directory with an allocation.  What is not
\* there is not missed.
Victims(t) ==
  IF job[t].kind = "alloc_del" THEN {<<r, job[t].dst>> : r \in Recs}
  ELSE LET x == IF job[t].kind = "rec_del" THEN xfr[t][step[t]] ELSE Current(t)
       IN {<<r, x.src>> : r \in x.recs}
Wipe(S) == disk' = [r \in Recs |-> [a \in Places |->
                      IF <<r, a>> \in S THEN NoFile ELSE disk[r][a]]]

Delete(t) == /\ at[t] = "cmd"
             /\ DeleteDue(t) \/ job[t].kind = "alloc_del"
             /\ \/ Wipe(Victims(t)) /\ Outcome(t, "done", FALSE)
                \/ /\ "ext" \in Faults
                   /\ \E S \in SUBSET Victims(t), e \in BOOLEAN :
                        Wipe(S) /\ Outcome(t, "run", e)
             /\ UNCHANGED <<recVars, allocVars>>

\* /run with the number of the step that was carried out.
Confirm(t) == /\ at[t] = "done"
              /\ step' = [step EXCEPT ![t] = @ + 1]
              /\ GoTo(t, "run")
              /\ UNCHANGED <<recVars, allocVars, disk, taskVars, xfr, steps, err>>

-----------------------------------------------------------------------------
\* The core server stops, or gives up the command for now: /run is called again
\* and told nothing.
Repeat(t) == /\ "lost" \in Faults
             /\ at[t] \in {"run", "cmd", "done", "undo", "undone"}
             /\ Outcome(t, "run", FALSE)
             /\ UNCHANGED <<recVars, allocVars, disk>>

\* A call of /run is cut off: the next one reports that as an error.
Cut(t) == /\ "cut" \in Faults
          /\ at[t] \in {"run", "done", "undo", "undone"}
          /\ Outcome(t, "run", TRUE)
          /\ UNCHANGED <<recVars, allocVars, disk>>

\* What the run functions throw at, besides what is thrown at them.
CannotDo(t) ==
  \/ Moving(t) /\ Substep(t) = 0 /\ ~CanInit(t)
  \/ Moving(t) /\ Substep(t) = 2 /\ ~CanFini(t)
  \/ job[t].kind = "put" /\ step[t] = 1 /\ steps[t] = 3
  \/ SizeDue(t) /\ ~(job[t].recs \subseteq Live)
  \/ job[t].kind = "rec_del" /\ step[t] = 0 /\ ~(job[t].recs \subseteq Live)

\* The first exception turns the step around, and the task rolls back; another
\* one, or one at step 0, ends it.
Throw(t) == /\ at[t] = "run"
            /\ err[t] \/ (step[t] >= 0 /\ (CannotDo(t) \/ "throw" \in Faults))
            /\ step' = [step EXCEPT ![t] = IF @ > 0 THEN -step[t] ELSE @]
            /\ GoTo(t, IF step[t] > 0 THEN "undo" ELSE "undone")
            /\ err' = [err EXCEPT ![t] = FALSE]
            /\ UNCHANGED <<recVars, allocVars, disk, taskVars, xfr, steps>>

\* Mutant: counted as if a step more had been taken.
RevertStep_late(t) == (-step[t] - 3) % 4

\* The run functions with a negative step; those of the moves have recMoveRevert.
RevertStep(t) == (-step[t] - 2) % 4
Reverted(t) ==
  IF /\ job[t].kind \in Moves
     /\ -step[t] \in 2..steps[t] - 2
     /\ RevertStep(t) \in {1, 2}
  THEN xfr[t][(-step[t] - 2) \div 4 + 1].recs
  ELSE {}

Rollback(t) ==
  /\ at[t] = "undo" \/ (Called(t) /\ step[t] < 0)
  /\ Reverted(t) \subseteq Live
  /\ loc' = [r \in Recs |-> IF r \in Reverted(t)
                            THEN [loc[r] EXCEPT !.newRepo = None, !.newOwner = None]
                            ELSE loc[r]]
  /\ step' = [step EXCEPT ![t] = IF Reverted(t) = {} THEN @ ELSE @ - RevertStep(t)]
  /\ GoTo(t, "undone")
  /\ UNCHANGED <<owner, size, unborn, allocVars, disk, taskVars, xfr, steps, err>>

RollbackFails(t) == /\ at[t] = "undo" \/ (Called(t) /\ step[t] < 0)
                    /\ ~(Reverted(t) \subseteq Live) \/ "throw" \in Faults
                    /\ GoTo(t, "undone")
                    /\ UNCHANGED <<recVars, allocVars, disk, taskVars, xfr, step, steps, err>>

\* taskComplete(false)
Complete(t) == /\ at[t] = "undone"
               /\ End(t)

Run(t) == \/ Begin(t) \/ Setup(t) \/ MoveExternal(t) \/ InitMove(t) \/ FiniMove(t)
          \/ EraseRecords(t) \/ RemoveAlloc(t) \/ Issue(t) \/ Finish(t)
          \/ TransferOk(t) \/ TransferFails(t) \/ TransferRefused(t) \/ UpdateSize(t)
          \/ SizeFails(t) \/ Delete(t) \/ Confirm(t)
          \/ Repeat(t) \/ Cut(t) \/ Throw(t) \/ Rollback(t) \/ RollbackFails(t)
          \/ Complete(t)

Next == \/ \E r \in Recs, a \in Places : CreateRecord(r, a)
        \/ \E t \in Tasks : Request(t) \/ Run(t)

Spec == Init /\ [][Next]_vars

\* The conditions under which the moves keep the data: see the README for what
\* each keeps away.  A new task has its records to itself, moves all of them
\* from their owner to somewhere else, and no other task uses the allocation.
CleanJob(t) ==
  LET d == job[t].dst IN
  /\ \A u \in Tasks \ {t} : Active(u) =>
       /\ job[u].recs \cap job[t].recs = {}
       /\ d = None \/ job[u].dst # d
  /\ job[t].kind = "alloc_chg" => \A r \in job[t].recs : loc[r].repo # d[2] /\ owner[r] = d[1]
  /\ job[t].kind = "owner_chg" => \A r \in job[t].recs : loc[r].uid # d[1]

CleanNext == \/ \E r \in Recs, a \in Places : /\ \A t \in Tasks : Active(t) => job[t].dst # a
                                              /\ CreateRecord(r, a)
             \/ \E t \in Tasks : (Request(t) /\ CleanJob(t)') \/ Run(t)

CleanSpec == Init /\ [][CleanNext]_vars

-----------------------------------------------------------------------------
\* The types of the variables (of data_size, only that each place has one).
TypeOK == /\ loc \in [Recs -> Locs \cup {None}]
          /\ owner \in [Recs -> Owners \cup {None}]
          /\ size \in [Recs -> 0..MaxSize]
          /\ unborn \subseteq Recs
          /\ allocs \subseteq Places
          /\ recCount \in [Places -> Int]
          /\ DOMAIN dataSize = Places
          /\ stale \cup crowded \subseteq Places
          /\ disk \in [Recs -> [Places -> {NoFile} \cup 0..MaxSize]]
          /\ job \in [Tasks -> Jobs \cup {None}]
          /\ locked \in [Tasks -> SUBSET (Recs \cup Places)]
          /\ before \in [Tasks -> SUBSET Tasks]
          /\ xfr \in [Tasks -> Seq([src : Places, recs : SUBSET Recs])]
          /\ step \in [Tasks -> Int] /\ steps \in [Tasks -> Nat]
          /\ at \in [Tasks -> Stages]
          /\ err \in [Tasks -> BOOLEAN]

\* rec_count of an allocation is the number of records stored there, whatever
\* is repeated, broken off or rolled back (recMoveFini, _deleteDataRecords,
\* recordCreate).
CountsExact == \A a \in allocs : recCount[a] = Cardinality(Stored(a))

\* A record is stored in a directory of its owner: the loc edge and the owner
\* edge change together (recMoveFini).
OwnersAgree == \A r \in Live : loc[r].uid = owner[r]

\* Allocations are charged for what they have and hold no more records than they
\* may, unless a record put since its move was asked for came or went, or records
\* came for which no room was kept: no other interleaving, repetition, failure or
\* roll-back makes data_size wrong or breaks rec_limit (recMoveInit, recMoveFini,
\* _deleteDataRecords, recordCreate, /update/size).
AllocsKept == \A a \in allocs :
  /\ a \notin stale => dataSize[a] = SumOver(size, Stored(a))
  /\ a \notin crowded => recCount[a] <= RecLimit[a]

\* The raw data of a record is where its loc edge says: no task deletes the last
\* copy, or the location before the copy is there.
DataKept == \A r \in Live : size[r] > 0 => disk[r][Place(loc[r])] # NoFile

\* A rolled back change of owner leaves no new owner behind.
NoNewOwnerAtRest == \A r \in Live : \/ loc[r].newOwner = None
                                    \/ \E t \in Tasks : Active(t) /\ r \in job[t].recs

\* A move that ends well has moved its records, whatever was repeated on the way.
FinishedIsMoved ==
  [][\A t \in Tasks : at[t] = "run" /\ at'[t] = "over" /\ job[t].kind \in Moves =>
       \A r \in job[t].recs \cap Live : Place(loc[r]) = job[t].dst]_vars

\* "Cannot delete allocation - records present" (taskInitAllocDelete): an
\* allocation has no records when it is removed.
AllocDeletedEmpty == [][\A a \in allocs \ allocs' : Stored(a) = {}]_vars

\* "It is possible to move a record to an allocation on a different repository,
\* and if raw data has been uploaded it will be relocated automatically"
\* (overview.rst): a move that nothing disturbs gets its records there.
MoveArrives ==
  [][\A t \in Tasks : at[t] # "over" /\ at'[t] = "over" /\ job[t].kind \in Moves =>
       \A r \in job[t].recs \cap Live : Place(loc[r]) = job[t].dst]_vars
=============================================================================
