# DataFed in TLA+

TLA+ models of the parts of DataFed whose correctness depends on order: threads, lost replies,
retries, restarts, and database operations that are not in one transaction; and on long sequences of requests
that must keep graphs, copies and counters in agreement. TLC checks the models
on small instances; the TLA+ proof system proves the main safety properties for any number of
tasks, workers, records, collections, commands and faults. Paths below are relative to the root of the
repository. `PROJECT.json` lists the components, the runs, the lines of code that each definition
stands for, the hazards, the findings and the theorems.

To check the models, run in this directory, for example

    tlc -config MCTaskLocks_safety.cfg MCTaskLocks
    tlapm TaskLocksProofs.tla

## 1. The system

DataFed is a federated data management system. A **core server** (C++, `core/server`) receives
protobuf messages over ZeroMQ from clients, from the web server and from **repository servers**
(C++, `repository/server`), which hold the raw data files. All persistent state is in an ArangoDB
database, reached only through a **database service** (JavaScript, Foxx, `core/database/foxx/api`)
that the core server calls over HTTP. Raw data is moved by Globus, an external service. Long
operations (data transfer, change of allocation or owner, deletion) are background **tasks**: the
database service creates them, the core server runs them step by step.

| Component | State it keeps | Operations | What is hard | What makes it correct |
|---|---|---|---|---|
| Task manager (`TaskMgr.cpp`) | ready queue, idle list threaded through the workers, retry map, two mutexes | `newTask(s)`, `getNextTask`, `retryTask`, `maintenanceThread` | condition variables, an idle list that is not kept exact, a maintenance thread that reads the clock without a mutex | FIFO, no task lost or doubled, no task left to sleeping workers, a postponed task returns |
| Task worker (`TaskWorker.cpp`) | `m_task`, `err_msg`, `first`, `step` of the loop | `/task/run`, transfer, raw delete, size update, allocation create/delete | a lost reply, a command whose outcome is unknown, stale `err_msg` | commands in order, none skipped, the outcome reported back |
| Task execution (`task_router.js`, run functions in `tasks.js`) | `status`, `step`, `steps`, `state` of each task document | `/task/run`, `/task/reload`, `/task/purge` | a step is confirmed in one transaction and carried out in another; roll-back by negative steps | the same, seen from the database |
| Task locks (`process.js`, `tasks.js`) | `lock` and `block` edge collections | lock on creation, `taskComplete` | completion outside a transaction after a failure, documents that vanish with their edges | exclusive access, no deadlock, nobody left blocked |
| Record move (`tasks.js`: `recMoveInit/Revert/Fini`, allocation and owner change, data put) | `loc` edges, `alloc` statistics, record sizes | four substeps per transfer | sizes and locations read at creation and used when run; limits checked early, charged late; roll-back of one transfer of many | no raw data lost, statistics equal the sum over records, limits kept |
| Client workers (`ClientWorker.cpp`) | none between requests but the cached record names of a request | one handler per message | a reply and a new task reach two different places | a new ready task reaches the manager |
| Authentication keys (`AuthMap.cpp`, `AuthenticationManager.cpp`, `Condition.cpp`) | transient, session and persistent key maps with counters and times | add, remove, migrate, purge | purge promotes or removes while clients use keys; comparison with the expiry time | a key in use is not lost, an unused one expires |
| Core server threads (`CoreServer.cpp`, `Config.cpp`) | repository cache, metrics maps | cache refresh, metrics swap and upload, router | refresh flag read and cleared apart; upload that fails after the swap | no refresh lost, each request counted once |
| Database client (`DatabaseAPI.cpp`) | a CURL handle | one call per route | a request without time-out, an exception after the service committed | error or result, never both |
| Globus client (`GlobusAPI.cpp`) | none | submit and poll a transfer | polls until the service answers | final status reported |
| Records and collections (`data_router.js`, `coll_router.js`, `record.js`) | documents, `item`, `alias`, `dep` edges | create, update, link, unlink, move | the item graph must stay a forest of one root per owner | every record in a collection, no collection in itself, no dependency cycle |
| Permissions (`authz.js`, `acl_router.js`, `support.js`) | `acl` edges, public bits, groups | permission of a client on an object, by walking up the collections | inherited permissions over many paths with early exits | equals the union over all ancestors |
| Users, projects, groups (`user_router.js`, `proj_router.js`, `group_router.js`) | documents, membership edges, tokens | create, update, delete | deletion of all that belongs to an owner | nothing dangling |
| Repositories and allocations (`repo_router.js`, `repo.js`) | repository documents, `alloc` edges | create, update, delete, allocation tasks, statistics | an allocation deleted while something moves to it | limits, statistics |
| Schemas, notes, tags, topics | reference counts, note states, inherited notes | create, revise, open, close | counters changed with documents | counts equal references |
| Administration, configuration, metrics routers | counters, test data | single reads and writes | nothing | nothing |
| Messaging library (`common/source`) | sockets, route frames, context numbers | send, receive, proxy | replies out of order, a client gone | a reply reaches the request it answers |
| Repository server (`repository/server`) | files | delete, size, create and delete paths | one file of a list fails | reply says what was done |
| GridFTP authorization (`repository/gridftp`) | none | one decision per file access | nothing ordered | the decision of the core server |
| FUSE view, web server, Python client | display state, sessions | one request per operation | nothing ordered | translation |
| Legacy client, build, deployment, docs | none | none | none | none |

How they interact: a client handler asks the database service for a task; the service creates it
with its locks, in one transaction, and answers whether it is ready; the handler gives a ready task
to the task manager (`handleTaskResponse`), which wakes a worker; the worker calls `/task/run`,
carries out the command in the answer (a Globus transfer, a request to a repository server, a size
request), calls `/task/run` again with the step it has done or an error message, and so on until
the answer is `TC_STOP` with the list of the tasks that this one has unblocked, which go to the
manager. After a restart the core server asks for all ready and running tasks (`/task/reload`).

## 2. Plan

In order of importance; each component is modelled by itself, so that it can be read, checked and
proved by itself.

| Module | Models | State |
|---|---|---|
| `TaskSched` over `TaskPool` | the task manager and its threads | done; proofs in `TaskSchedProofs` |
| `TaskLocks` | locks, blocks, creation and completion of tasks | done; proofs in `TaskLocksProofs` |
| `TaskRun` over `TaskLife` | worker loop, `/task/run`, faults | done; proofs in `TaskRunProofs` |
| `RecMove` | put, allocation change, owner change, record and allocation deletion: transfers, roll-back, locations, files, statistics, limits | done; proofs in `RecMoveProofs` |
| `Catalog` | collections, links, topics, published records, deletion and change of owner | done; proofs in `CatalogProofs` |
| `Notes` | dependencies and the annotations that follow them | done; proofs in `NotesProofs` |
| `Permissions` | rules, groups, roles, and the walks that look for permissions | done; proofs in `AccessProofs` |
| `Aliases` | names of records, collections and roots | done; proofs in `AccessProofs` |
| `Tags`, `Schemas` | tag counts; schemas with revisions and references | done; proofs in `ServicesProofs` |
| `AuthKeys`, under `RepoCache` | key maps and purges; the repository cache that registers keys | done; proofs in `ServicesProofs` |
| `Metrics` | counting messages | done; proofs in `ServicesProofs` |
| `RepoCommands` | a list of file operations in chunks of which one fails | left |
| `Proxy` | sockets, workers, request correlation | left |

Every safety invariant and action property that a run expects to hold is the statement of a theorem. What is left to
prove: that what `CleanSpec` of `RecMove` takes from `TaskLocks` follows from `MutualExclusion`, the types of `Schemas`,
`AuthKeys` and `RepoCache` as results of their own, and what new modules bring. Further extensions of the done modules:
`TaskLocks` with a crash between the steps of a completion that is not in a transaction
(at present such a completion is interleaved with everything but always ends), the size update of
data put as a command of its own in `TaskRun`.

## 3. What is modelled

### 3.1 `TaskSched`: the task manager

`core/server/TaskMgr.cpp`, and the loop of `TaskWorker.cpp` reduced to its calls on the manager.
`ready`, `workerNext`, `next`, `run`, `task`, `retry` are `m_tasks_ready`, `m_worker_next`, the
`m_next` and `m_run` of the workers, `m_task` and `m_tasks_retry`. A step is a critical section of
`m_worker_mutex` or `m_maint_mutex`; a section that adds several tasks takes one step per task,
and `batch` holds the rest while the mutex is held. A wait on a condition variable is three states:
asleep, out of the wait but without the mutex (`woken`), and going on. Spurious wake-ups are
allowed. The worker that is notified may be one that is not asleep: the code does not check.

Clock: a retry time is the number of ticks until it. `RetryInit` and `RetryLater` stand for the
configured first delay and its backoff. `ExpireTask` may happen for a task that was tried before,
which is when `retry_fail_time` can be in the past.

`TaskPool` is what the manager promises: a FIFO queue, one holder per task, a set of postponed
tasks. `TaskSched` implements it with `queue <- ready \o batch`.

### 3.2 `TaskLocks`: locks and blocks

`process.js` (`_processTaskDeps`, `_lockDepsGeneral`, `_ensureExclusiveAccess`), the `taskInit*`
functions, and `taskComplete` in `tasks.js`. `lock[t]` are the lock edges of a task (document,
context, level), `block` the edges of the `block` collection. `req[t].locks` remembers what a task
asked for, which is what `Exclusive` speaks of: an edge is removed when its document is, the work is
not. All eight kinds of task are created, each with the locks its function takes.

Creation and successful completion are one step each: they are transactions with `lock` and `block`
exclusive. The error path of `/task/run` calls `taskComplete(task, false)` outside of any
transaction, so it is five kinds of step: read the blocks, look at one blocked task, remove the
block edges, remove the lock edges, update the task. A record delete and a project delete take no
locks: they look once, when they are created, whether there are any, and delete later
(`DeleteRecords`, `DeleteProject`, which also remove the lock edges of the documents).

### 3.3 `TaskRun`: worker and `/task/run`

One task is at one place at a time (`at`): in the queue, with a worker that is about to call, inside
`/task/run` at one of three points between its transactions, a reply on the way, a command being
carried out. `step`, `steps`, `status` are the fields of the document; `first`, `err`, `last` are
`first`, the source of `err_msg`, and `step` in the worker's loop. `begun` and `ran` count which commands
a worker began and which were carried out, and are what the abstract specification is about. A fault (at most `MaxFaults`) is a
cut connection at any place of a call (`Cut`), a command that ends with an exception (`CmdFails`), a repository server that does not
answer (`CmdTimesOut`), an exception in a task function, or a restart of the core
server. An exception or a time-out tells nothing of the command: `checkTransferStatus` throws when Globus cannot be asked
(`GlobusAPI.cpp:128`, called at `TaskWorker.cpp:303`) while the transfer goes on, a repository server may be at work still, and a restart stops
no transfer. So the command was carried out, or will not be, or goes on (`Lost`): then it is in `stray`, and takes effect at any later time
(`StrayEnds`), also when the task has failed. Both forms of task function are modelled: those with a preparation in step 0 (data get, the
delete tasks) and those without (allocation tasks).

`TaskLife` is what is promised of a task: its commands are begun one after the other, each when the one before it was carried out, it
succeeds after the last, and none is begun for it once it is given up. The command that was begun before that may still take effect: nothing
in the code recalls it.

### 3.4 `RecMove`: where raw data is

The run functions of data put, allocation change, owner change, record deletion and allocation
deletion, with `recMoveInit`, `recMoveRevert`, `recMoveFini` and `_deleteDataRecords` (`tasks.js`),
record creation and size update (`data_router.js`), and what the commands do to files
(`TaskWorker.cpp`, the delete and size requests of the repository server). `loc` is the location
edge of each record, `allocs`, `recCount` and `dataSize` the allocation edges with `rec_count` and
`data_size`, `owner` and `size` those of the record, `disk` the files. `job` is the task document with
the sizes it was given when it was created, `xfr` the list of transfers planned when it first ran,
`step` and `steps` its progress.

A step is a database transaction or an external command. A move is four substeps for each transfer:
mark the locations with the new repository or owner (`InitMove`), transfer (`TransferOk`, `TransferFails`),
make the new location the location and move the counts (`FiniMove`), delete the source (`Delete`). An
exception turns `step` negative and rolls back (`Throw`, `Rollback`). `TaskRun` is about how the calls of
`/task/run` are made; here a call is simply repeated (`Repeat`), cut off and reported as an error
(`Cut`), or makes an exception. Of the locks, what `TaskLocks` shows is taken: a task waits for
the earlier ones that lock what it locks.

Three constants choose among situations. `Faults` is what goes wrong: `"lost"` (a reply is lost or the server
restarts, and the call is repeated), `"cut"` (a call is cut off), `"throw"` (any exception, at any
step, in the roll-back too), `"ext"` (a command fails, having done part of its work). `Accepted` is
the kinds of task whose transfers the task worker can carry out, `Refused` those whose transfers it can refuse. As the code stands it accepts
puts and refuses moves (finding 2); with more kinds the model shows what the database service does once the command is accepted.

`Spec` restricts no request: a put may end between the request of a move and its steps, records may be created
and moved to a destination while a task is on its way there. All this is allowed by the code, and breaks the books of the allocations, their charges and limits. `Outdated` and `NotKept` say
where: a record moved by a size other than the one it has (`recMoveFini` uses the sizes of the request), or records came to an allocation
while a task had looked at its room and not used it, or by a task that had looked at another allocation (a move of a project's records by a manager
to an allocation of their own checks that one and charges the project's). `Note`, a part of the two actions that bring records to an allocation (`CreateRecord`, `FiniMove`), keeps the places in the history variables `stale` and `crowded`, which no action reads, and `AllocsKept`
says that these are all: at any other place charges are exact and the record limit holds, through puts, moves, deletions, record creation, repetition,
failure and roll-back. Until the transfers of moves are accepted, only puts and deletions change the books, and none of this can happen.

`CleanSpec` restricts the requests, for the properties on files and marks. Each condition keeps something away that the code lets happen:

- *A task has its records to itself.* A put and an allocation change of a record may be created in either
  order, so the sizes the move was given may be stale when it runs. A record deletion takes no locks: it
  may remove one record of a transfer, and then `recMoveRevert` of the transfer throws and leaves the marks
  on the others.
- *A move takes all its records from their owner to somewhere else.* Records of an allocation change that are
  on the target already are copied onto themselves and then deleted: `taskInitRecAllocChg` filters
  them for the locks (`tasks.js:766`) but gives the task the whole list, against "Those that are
  already on the target allocation will be ignored" (`overview.rst:443`). A manager of a project
  who names a record of the project for an allocation of their own gets the file transferred to a directory of
  the user, while the location keeps the project as owner. An owner change skips the location of a
  record that the new owner has in another repository, but deletes its source.
- *No other task uses the destination.* Limits are checked by `InitMove` and used up by `FiniMove`, a
  transfer later: two moves to one allocation may exceed them. An allocation deletion removes the
  directory with what has just been moved there.
- *No record is created in a destination.* For the same two reasons.

### 3.5 `Catalog`: collections and published data

`coll_router.js`, the creation of records (`data_router.js`), the catalog and topic functions of `support.js`, and
the deletion and change of owner of records (`process.js`, `tasks.js`). `item` are the item edges, `topic` the topic of each
collection, `topics` and `collCnt` the documents of `t` with `coll_cnt`, `catTags` the category tags of each record, which stand
for its public flag too. `owner` is the root collection of the owner. A request is one transaction, so one step; a request with
a list is a sequence of them. `Above` and `DepEnds` state what the recursive walks of the code reach without recursion: the
least set closed under going up.

A deletion is two steps, as in the code: `RequestDelete` unlinks what will be deleted, `RunDelete` deletes it later, and
anything may come in between. `CleanSpec` of `Catalog` leaves out what breaks the copies, all of which the code allows:

- *A record is unlinked from one of two public collections*: it loses its category tags and public flag.
- *A public collection is added to one that is not*: the records below keep the tags of the parent it had. (`/coll/move` is right.)
- *A root collection gets a topic*: what goes to the root because it has no parent left does not become public.
- *A record is given to an owner's public collection*: it is not published.
- *A selection for deletion overlaps, or other requests come before the deletion runs*: a collection that is visited twice
  makes the task fail after everything was unlinked, and records and collections that are linked or created below one that is
  about to go are left without a parent.

### 3.6 `Notes`: dependencies and annotations

`note_router.js`, `checkDependencies` and the annotation functions of `support.js`, the dependency parts of `recordCreate` and
`recordUpdate`, `_deleteDataRecords`. `dep` are the dep edges with their type, `note` the notes with subject, type, state and the
note they came from. An active warning gives each dependent record a child note; `UpdateDependents` is
`annotationUpdateDependents` with its recursion, `Dropped` and `ForAdded` are the two halves of `annotationDependenciesUpdated`.
`NotesCleanSpec` leaves out what section 6 lists on notes: it keeps a record from depending on itself, two records from
having two dependencies, and a child from being activated when its parent is not active, and a record from coming to depend on one with a note
that was a warning.

### 3.7 `Aliases` and `Tags`

`Aliases`: documents of `a`, their edges (`aKey`) and the field `alias`, for records, collections, root collections. A name is a
sequence whose tail is the numbers that a change of owner appends. `Named` is the part that creation and update share. `AliasResolves` is about what an alias
resolves to: keys in `a` belong to one object each and to its owner, and the field has the same name. The field need not be right: after a change
of owner it may have the name below an owner that is not the present one, which `AliasFieldCurrent` states and finding 4 refutes.

`Tags`: tags of records and collections and the counts in `tag`. `recordUpdate` uses the operator `in` on arrays, which
`IsIn` models by what it does: it finds indexes of the array, and the names of properties that every array has (`length`, `map`, `sort`, `keys`; the constant
`ArrayNames`), all of which are legal tags. The counts of these tags are not kept; `PlainTags` are the others, and `TagsCounted` says that theirs are, also
in lists that have such tags. `AddTags` and `RemoveTags` count the places of a list that hold a tag, for
the tags in a set: the code calls them with a list from which the others were filtered. A count is compared with `Uses`, the
places of all lists. `TagsCleanSpec` has any list for a record, and for a collection lists that have no tag twice. A tag has one spelling: the code counts tags in
small letters and compares them as they are written.

### 3.8 `Permissions`

What one client, who owns nothing, may do. `acl` are the acl edges, `acls` the bits in each object that tell the walks where to look, `member`,
`admins` and `public` what else gives permissions. The walks (`hasPermissions`, `getPermissions`, `getPermissionsLocal`,
`expandSearchCollections`, `getACLOwnersBySubject`, `_preprocessItemsRecursive`) are pure definitions
(`Found`, `Local`, `Expanded`, `SharedBy`, `Preprocessed`), and the properties compare them with `Allowed`, the reference: the union of
what all rules above an object give. The recursive walks are recursive functions, of the collections below a selected one (`Passed`), or of a
collection and what is handed down to it (`Expanded`). Where all below is known to be readable, `expandSearchCollections` asks no more and
takes what one query finds, `for i in 1..10 outbound`: ten levels down, and no further (`Taken`, with 10 for `SearchDepth`). Collections have no such limit
(`coll_router.js`), so a search may miss some that are readable; `SearchExact` says which. Every state that requests can make is an input. `Perms` are
three of the permission bits, a list, a read
and one that is neither. `PermsCleanSpec` leaves out `/acl/update` without rules, which clears `acls` and keeps the edges.
`ItemsPermitted` is one direction: what goes ahead is permitted. The other does not hold (section 6).

### 3.9 `Schemas`

`sch`, `sch_dep`, `sch_ver` and the schema of each record. Everything is one transaction but `/schema/delete`, which reads
(`SchemaDelete`) and later removes (`SchemaDeleteEnd`). `SchCleanSpec` lets nothing come in between and gives no new schema the id of
one that has revisions left.

### 3.10 `AuthKeys` and `RepoCache`

The three key maps of the authentication manager; its mutex makes each method a step. The proxy thread purges the transient
map, then the session map, then counts the access: three steps, with client workers logging in between them. `RepoCache` extends it with the thread
that loads repositories and registers their keys: it looks a key up (`LoadLookUp`) and migrates it (`LoadRepo`) in two
steps. `ServerCleanSpec` leaves out a change of repositories during a load, and a load that is given up after it cleared the flag.

### 3.11 `Metrics`

Message counts in the two maps that the metrics thread swaps, uploads that fail after some users' counts were saved, and what the
database has.

### 3.12 Composition

`RepoCache` is composed with `AuthKeys`: they share the key maps. The others share no state but
the identity of records: a
request changes each of them in one transaction, and no guard of one reads the state of another. `MCRecords`, `MCAccess` and
`MCServices`, which extends it, put several of them in one instance: the variable `part` picks the one that moves, in the initial state.
Model values are shared between parts, so that few permutations make up the symmetry. The task modules meet in what one assumes
of the other: `TaskRun` calls what `RecMove` does, `RecMove` takes from `TaskLocks` that conflicting tasks exclude each other
(`Exclusive`), and `TaskLocks` that a task which runs ends (`TaskEnds` of `TaskRun`).

## 4. What the runs show

| Run | Instance | Shows |
|---|---|---|
| `sched` | 2 tasks, 2 workers, fair | `NeverAllAsleep`: while a task is queued some worker will look at the queue without being notified again. `PoolSpec`: the refinement of `TaskPool`. `NoneForgotten`: no task stays in the queue or in the retry map. |
| `locks_safety` | 3 tasks, 2 records, a user, a project, a repository; get, put, owner change, project delete | `Exclusive`: two tasks at work never asked for conflicting locks. `NoWaitCycle`: tasks cannot deadlock. `ReadyReachesCore`: a task made ready is handed to the core server, once. |
| `locks_clean` | the other four kinds, no failing task, fair | `BlockedRuns`: a task that is blocked gets to run. |
| `locks_stuck` | 3 puts on one record | finding 1 |
| `run` | 1 task, up to 3 commands, 6 faults, fair; commands may go on unseen | `StepAgrees`: the step a worker confirms, or whose command it carries out, is the step of the document. `LifeSpec`: the refinement of `TaskLife`. `TaskEnds`: a task ends in the database or is dropped by the core server. |
| `move_clean` | `CleanSpec`; 2 tasks, 2 records, a user, a project, 2 repositories, one of which has room for one record; put and moves, accepted; lost replies, failing commands | `DataKept`: the file of a record is where its location says. `NoNewOwnerAtRest`: a failed change of owner is taken back. `FinishedIsMoved`: a task that ends well has moved its records. |
| `move_any` | `RecMove`, `Spec`; 2 tasks of all five kinds and 1 record, 1 task and 2 records, or 2 allocation changes and 2 records that nothing goes wrong with (a state constraint, `Few`); every fault; puts and moves accepted, changes of owner also refused | `CountsExact`: `rec_count` is the number of records stored. `OwnersAgree`: records are stored with their owner. `AllocsKept`: `data_size` is the sum of the sizes, and record limits hold, but where an outdated size was used or room was not kept. |
| `move_refused` | 1 move | finding 2 |
| `move_alloc` | an allocation deletion | finding 3 |
| `records` | `Catalog`: 3 collections and a record of two owners, 2 topics, one below the other, 1 deletion. `Notes`: 3 records, 3 notes, an information and a warning, 2 types of dependency | `Forest`: no collection below itself, or in two, or with another owner's items. `TopicsExact`: topics and their counts are those in use. `PublicExact`: records have the tags of all public collections above. `HasParent`: nothing gets lost from its root. `DepsAcyclic`: dependencies have no cycle. `NotesFollowDeps`: notes go with what they came from. `Covered`: an active warning has reached each dependent. `ClosedBelow`: it is closed there too. `NotesTypeOK`: types, and that notes and dependencies are of records there are. |
| `alias_field` | `Aliases`, as in `services` | finding 4 |
| `services` | `Aliases`: 2 records, a collection, a user and a project, names of up to 3 parts. `Permissions`: 4 collections, three of them in a line, a record, a project group and a group of a user, 2 kinds of rule, 2 rules at a time, searches that go 1 level down. `Tags`: 3 objects, 3 tags, one an index and one an array name. `Schemas`: 3 documents of 2 ids, 2 records. Keys: 2, both of repositories, time up to 3. `Metrics`: 2 users, 2 types, 3 messages, 2 failures | `AliasResolves`, `PermsExact`, `GroupsOfOwner`, `SearchExact`, `SharedListed`, `ItemsPermitted`, `TagsCounted`: see section 3 and the comments; `SchemasHeld`: counts are the records that have a schema, which is there; `RefsSound`: references resolve and have no cycle; `OneChain`: revisions form one chain; `SessionLasts`: no session key is dropped early; `RepoKeysKnown`: keys of cached repositories are registered; `CacheFresh`: when nothing is under way the cache is as the database, for changes that do not come during a load; `MetricsKept`: no count is lost. |

`records` and `services` run the clean specifications of `Catalog`, `Notes`, `Permissions`, `Tags`, `Schemas` and
`RepoCache` (sections 3.5 to 3.10): their properties hold of what requests do under the conditions named there, and several fail
without them, as section 6 says. `Aliases` and `Metrics` run without conditions. `Forest`, `TopicsExact` and the types of `Catalog`, and
`GroupsOfOwner`, `SharedListed` and `NotesTypeOK`, are proved without any.

**Bounds.** Three tasks are what the lock hazards need: two that block a third, or one that
arrives while another completes and a third waits. Two records let lock sets overlap in part; a user and a
project make the contexts of locks differ. Two workers are the least for which the idle list can name
a busy worker or skip a sleeping one, and two tasks let one be queued while the other is held or retried; the
theorems on the scheduler cover more of both. Two
commands per task are the least for which a step can be skipped or repeated against the next; `run`
has one more. Six faults allow a lost reply, then a failure in the roll-back that follows, then a
restart, and more. Tasks of `TaskRun` meet only in a restart, and its theorems are for any number of them.
In `RecMove` two records make a transfer of several, several transfers of one task, and partly
overlapping tasks; two owners and two repositories are what a move goes between; sizes 0 and 1
tell records with and without data apart; `move_any` has two tasks with one record, one task with two, and two smooth moves of two, which is what it takes
for an outdated size, for a transfer of several records, and for two moves that use the same room; its properties are proved for any number. Records
start with any location and size the limits allow. In `records`, three collections below two roots are the least for a path of three,
for a move to another branch that would close a cycle, and for a topic shared by two paths; one record in several collections shows what
differs between its parents. Three records let a warning go from one to the next but one, and a
dependency close a cycle that is not direct. In `services`, three collections in a line have permissions that add up over two levels,
with one owner's other collection beside them; a search that goes one level down from where it stops asking misses the third; two rules are one on
each level, or one for the client and one for a group; records are put
in any collection but the topmost, and one collection may be published. Three
schemas make an intermediate revision and a schema that refers to another; two revisions and a reference; of the three tags one is the number 0, which
JavaScript takes for an index, and one is the name of a property of arrays: what is counted of the third must be right beside them. `MaxUses` stops the counts
of those two, which are not kept and grow. The clock of `AuthKeys` stops at 3, which is after a purge of the sessions and another of the transient
keys, and one access promotes a
key or keeps it: `SessionLasts`, `RepoKeysKnown` and `CacheFresh` are proved for all times and counts. The
bounds are those of the runs only; the theorems below have none.

**Deadlock** is not checked: in all models the system may rest when there is nothing to do
(every task is over, or every worker sleeps).

**Symmetry** on tasks, on records in `RecMove`, and on the shared values of `MCRecords` and `MCServices`, is used in the safety runs, never in a
run with a liveness property.

**Fairness.** `sched`: threads that can run do run, the clock advances, and a worker is
eventually done with its task. The last is an assumption on the worker: `run` shows that a task ends, but after a last reply that is lost a worker calls
again for ever, and never ends its part (section 6). Strong fairness stands for a mutex that is not denied to one thread
for ever, and for a worker that returns often to a point where it can end its task. Nothing is assumed of
spurious wake-ups, of the purge timer or of clients, so nothing rests on them. `locks_clean`: a ready
task is started, and a running one completes, which `run` is about. `run`: a worker goes on
with its task, and what it calls answers or fails, and nothing is assumed of commands that nobody watches; faults are bounded, and no fault is assumed to happen.

## 5. What is proved

All by `tlapm`. There are 47 results; together they state every invariant and action property of a run that is expected to
pass, the two refinements, and some that no run has because they are invariants the others rest on. The assumptions are the `ASSUME`s of the
modules on their constants, which TLC evaluates in every run:

- sizes: at least one worker, at least one command in a task, positive delays and intervals, limits and bounds that are
  numbers; finitely many tasks of the scheduler, and finitely many records, collections, groups, objects, notes, tags and message types, but
  any number of them, and any number of tasks of `TaskLocks`, `TaskRun` and `RecMove`;
- different things are different: records, owners and repositories, records and collections, a value that stands for "none"
  (`NoTask`, `None`, `NoOwner`, `NoAlias`, `NoNote`, `NoSch`, `NoKey`, `NoList`) and what it stands in for, the client and groups;
- shapes: a topic is a path, all of whose prefixes are paths; the collections above one collection are in a line, of one owner, and
  none is below itself (`Permissions`, where they do not move; `ForestAlways` is the same of `Catalog`, where they do);
  the reset count of an authentication key is not above the count that promotes it, as in the configuration.

Two theorems have a hypothesis of their own, which the run of their property satisfies too: `KeysLast` takes `MaxAnon = 1`, one request to log in
per client (section 6 says what two do), and `NoNewOwnerLeft` that `Faults` has neither `"cut"` nor `"throw"`: a call that is cut off
between the mark and the answer, or an exception in the roll-back, leaves the mark.

**`TaskSchedProofs`.** `TypeCorrect`, `NoLostWakeup: Spec => []NeverAllAsleep` and `IdleListKept:
Spec => []IdleListNotLost`. The inductive invariant is `WakeInv`, the conjunction of the last two:
neither is inductive alone. The argument: only a worker that finds the queue empty goes to sleep, and
when a task is added either the head of the idle list is notified with `m_run` set, whatever it was
doing, or there is no head, which by `IdleListNotLost` means that some worker is on its way. This is why
the inexact idle list does no worse harm than to leave a task to a busy worker while another sleeps.
`SchedulerIsPool: Spec => PoolSpec` is the refinement of `TaskPool` with `queue <- ready \o batch`: one step for each critical section that
takes or gives up a task, and a stutter for all that is about sleeping, waking, the idle list and the clock. What it needs is that a list which
is about to be added holds tasks that are nowhere else, and `TypeOK`. From the refinement follows `TaskInOnePlace:
Spec => []OnePlace`, since each step of the pool moves a task from one place to another: queued once, held by one worker, postponed, or gone.

**`TaskLocksProofs`.** `LocksTypeCorrect`, `LockProtocol: Spec => []LockInv`, `MutualExclusion:
Spec => []Exclusive`. `Exclusive` is not inductive: a task that is blocked must not start, and a
blocked task is one with a block edge, as long as edges are removed after the tasks they block were
examined. `LockInv` says this in five parts: conflicting tasks are ordered by a block edge
(`ConflictsOrdered`), edges stay (`KeepsLocks`), a task with an edge was not handed over
(`BlockedNotHanded`), the steps of a failing completion touch only what they should
(`CompletionSound`), and nothing refers to a task that does not exist (`NothingEarly`). Deletion
without locks does no harm to mutual exclusion because a new request can only name things that exist, and
`LockInv` covers the edges that vanish with a document. Each action has a step for each part of
`LockInv` that it can disturb.
`NoTaskDeadlock: Spec => []NoWaitCycle` needs no numbering of tasks: every set of tasks has one that waits for none in the set, and a new
task, which none waits for yet, adds nothing to the other sets (`EnterWaits`). `ReadyIsHanded: Spec => []ReadyReachesCore`
goes with `ReadyKept`: a ready task was handed over or is in the list of one failing task, lists have only ready tasks, and no task is in two.
`NoneLeftWithoutFailure: CleanSpec => []NoneLeftBehind` is the other side of finding 1: without failing tasks, only active tasks hold locks and
block others, and a blocked task waits for one (`Waits`).

**`TaskRunProofs`.** `RunTypeCorrect`, `CommandsInOrder: Spec => []RunInv`, `StepsConfirmed:
Spec => []StepAgrees`, `ImplementsLife: Spec => LifeSpec`. `RunInv` is one predicate of one task,
`TaskInv(t)`; the lemmas show that a step of one task leaves the others alone and preserves `TaskInv` of
its own, so that the proof is done once per action. It says that the commands begun are those up to the current step, or to the one before, and that all of
them were carried out but the last, at most (`OneOpen`). The refinement uses it to show that the command
that a worker begins is the next one, or one begun before, and that what a lost command still does is the last one begun.

**`RecMoveProofs`.** `BooksExact: Spec => []CountsExact` and `StoredWithOwner: Spec => []OwnersAgree`, for any
requests and any faults, so without the conditions of `CleanSpec`. Neither is inductive: the counts move with the
owner edge in a deletion and with the location in a move, so each needs the other, and both need that a move
in progress has a destination and that a record that was never created has no location
(`BooksInv`, `BooksKept`). The argument: only three transactions change which place stores which record. Record
creation adds one; `recMoveFini` takes disjoint sets from some places and adds them to others, skips
what is not marked, and so may be repeated; `_deleteDataRecords` takes from each place what its owner
edges say, which by `OwnersAgree` is what is stored there. Everything else, marks, roll-back and
repetition included, leaves places and counts alone (`SameBooks`).

`TypeCorrect: Spec => []TypeOK` needs that the transfers planned are disjoint parts of the records there are, that `steps` is what the kind of
task and the number of transfers make of it, and that each place in the loop goes with certain steps (`TypeInv`, with `BooksInv` in `TypesKept`); the history has places only, by what each step may note (`StepNotes`).

`AllocsStay: Spec => []AllocsKept` has no conditions on the requests either. It goes with the facts that an allocation that a task looked at, for
a chunk in hand, has
room for the chunk unless it is noted in `crowded` (`InitMove` saw the room, and whoever fills it meanwhile is noted), and that charges are the sums
where `stale` has
nothing: a move by sizes that are up to date takes from one sum what it adds to the other. `data_size` is a sum over a set of records: `SumOut` and
`SumJoin` say what is needed of sums.

`DataStays` and `FinishedMoved` are about `CleanSpec` and every choice of `Faults` and `Accepted`. `CInv` is `TypeInv`,
`BooksInv` and `MoveInv`, which says how far each record of each task has come. A chunk of a move is at stage `n`, the steps since its
first: up to 2 its records are not moved; at 1 and 2 they are marked for the destination, where there is room for them; from 2
on their files are at the destination; from 3 on their locations too; so that the files that substep 4 deletes are the second copy
(`ChunkOK`). Active tasks have no record or destination in common (`Apart`), which is what the conditions of `CleanSpec` are for, and why the
room that `InitMove` saw is still there when `FiniMove` takes it. Each action has a lemma for its own task, and one
lemma says what a step leaves of the others (`Frame`).
`NoNewOwnerLeft` adds `OwnerInv`: a record with the mark of a new owner is in the chunk that its task is moving, or about to roll back.

**`CatalogProofs`.** `CatalogTypes: Spec => []CatalogTypeOK` and `ForestAlways: Spec => []Forest`, for any interleaving, so without the
conditions of `CleanSpec`: overlapping deletions and changes of owner in progress included. `Forest` is not inductive: that a new item has
no links needs that items that were never created are dead (`UnbornDead`) and roots are never (`RootsStay`); a change of
owner in progress is of an item that was created (`MovedBorn`), so that its end does not bring to life what is still to be created; and no deletion
holds a root (`RootsKept`). `IInv` adds these parts to the types. The lemma the proof turns on is `LinkAcyclic`: adding an
edge to a forest from a collection that is not below the new item leaves every set of collections with a member that has no
parent in the set. `NoCycle` is stated with sets for that reason: it needs no induction over paths.

`TopicsStayExact: Spec => []TopicsExact` has no conditions either. It adds that what does not exist has no topic. `TopicLink` and `TopicUnlink`
add or take one collection at all prefixes of its topic, and a topic goes when its count gets to zero: that no collection uses a prefix then is a
fact about the cardinality of the collections at or below it (`Under`).

`ParentsKept` and `PublicStaysExact` are about `CleanSpec`, and have one invariant, `CInv`: `IInv`, roots without a topic, `PublicExact`, and
`Pending`, which says that one deletion waits at a time and that what it is `AboutToGo` with is unlinked, has no topic, holds no collection that stays,
and is nobody's only parent. `Above(E, c)` is the least set that has `c` and the parents of its members; the lemmas show that
in a forest it is a chain, that it changes for what is below the item whose link changes and for nothing else (`ContextElse`), and what it becomes there.
So each request has two cases for a record: one that is below what was changed, which the walk of the code visits, and one that is not, whose
tags must stay.

**`NotesProofs`.** `NotesTyped: NotesSpec => []NotesTypeOK` has no conditions; `DepsStayAcyclic`, `NotesFollow`, `WarningsCovered` and
`ClosedTogether` (an action property) are about `NotesCleanSpec`. The invariant (`CleanInv`) joins: two records have one dependency at most, and
there is no cycle of them; the parent of a note is there and on a record that the note's record depends on; there is one child for each dependent; no
note is below itself; what is above an active note is active; and a note that has children, or is an active warning, has one on each
dependent. The last is more than `Covered` says: a warning that is closed and activated again does not get
children again if it has some, so none may be missing. Operations add notes, delete some with all below them, or change
types and states; a lemma on each of the three says what becomes of these parts, and each request is a case of them.

**`AccessProofs`.** `PermsInductive` is the inductive invariant of `PermsSpec`, with `RulesOfOwner` and `OwnersListed`. `WalksFindAll:
PermsCleanSpec => []PermsExact` adds that the bits in an object cover its rules (`BitsCover`), which `/acl/update` without rules
breaks. `SearchReachesAll` and `WalksPermit` follow from these invariants in each state: they say of a recursive walk down a tree of any depth
that what it hands down to a collection is what the collection inherits (`Full`, `Reach`), so that it stops asking where all is given, and nowhere
else. For the depth of a search,
`Open` is the part of the way at which all below is readable: it is the end of the way, and has as many collections as levels and one more (`WayLevels`).
`AliasesResolve: AliasSpec => []AliasResolves` needs that an object has an alias edge just when it has the field (`Both`), that nothing that is not
there has one, and that there are finitely many aliases, so that a change of owner finds a number that is free.

**`ServicesProofs`.** `NoMessageLost: MetSpec => []MetricsKept`: what was counted for a user is saved or in one of the two maps, whatever uploads fail, and
saved totals cover it, since the total of a batch covers what the batch has (`TotalsSent`). `KeysLast: ServerSpec => SessionLasts` (an action
property) has `UsedOrDue`: a session key that expires after the next purge is one that
was used often enough to be kept by it. `CachedIsKnown` and `CacheConverged` are about the load in progress (`LoadSound`): each
repository is as it was read, or cached already. The cache and the key maps are proved together, since a migration takes a key from
a map that a purge looks at. `SchemasStayHeld`, `RefsStaySound` and `VersionsChain` have one invariant (`SchIInv`): besides the three properties, what is being
deleted is as the deletion found it. `TagsStayCounted: TagsCleanSpec => []TagsCounted`: the uses of a tag are a disjoint union of the places in
each list, so replacing a list changes their number by what the two calls add and take, for a tag that `in` looks for in no list.

**Recursion.** The library's induction theorems take an operator and cannot be used. Where a module has a recursive function (walks down a
tree, the folds that sum over a set), the proofs show that there is a function that satisfies the recursive equation, level by level or set
by set, so that the definition's `CHOOSE` is one, and prove facts about it by its least counterexample: the set of numbers, or of
subsets, of which the fact does not hold has a least member, by the well-founded order of the library (`NatSets`, `SubsetSets`,
`SumExists`, `PassedExists`).

**Only model-checked.** `NoneForgotten` (`sched`), `BlockedRuns` (`locks_clean`) and `TaskEnds` (`run`): they are liveness properties, and the
prover supports neither fairness nor ENABLED. What proofs have of them is the safety that they rest on: `NoLostWakeup`, `NoneLeftWithoutFailure`
with `NoTaskDeadlock`, and `CommandsInOrder`. That the four findings are violations is shown by TLC. What is proved is not run again where
the run would only repeat it: `LockInv`, `RunInv`, `IdleListNotLost`, `OnePlace` and the other inductive invariants are in the proofs alone.

## 6. Findings

Each is a run in which TLC finds a behaviour of the code that contradicts what the code, or its
documentation, says.

1. **A failing task may leave others blocked for ever** (`tasks.js`, run `locks_stuck`).
   `taskComplete(task, false)` is not in a transaction: two failing tasks that block a third each see two
   blocks; and a task created between the look at the blocks and the removal of the locks is blocked
   by a task that will not look again.
2. **The transfer of a move is refused** (`TaskWorker.cpp`, run `move_refused`). `cmdRawDataTransfer` asks
   for the `token_type` of every command before anything else; the commands of data get and put have
   one, those of allocation and owner change have not. The exception makes the task roll back.
3. **A record may be created on an allocation that is being deleted** (`tasks.js`, run `move_alloc`). The records are
   counted when the deletion is requested, and the allocation is removed later without another look.
4. **The field `alias` keeps the key of a former owner** (`tasks.js:2632`, run `alias_field`). A change of owner writes the field only when it appends
   a number, and then writes the
   whole key (`u:owner:name-1`), where all other code keeps the name and puts the prefix in front of it (`data_router.js:1143`). After the next change of owner, if
   the name is free there, the field still has that key, which no longer resolves, or resolves to what another object is called later (`overview.rst:273`).

Seen while modelling, and not kept as runs:

*Tasks.*
- A project may be deleted while a task works on its records: an owner change locks the records and the new owner, the
  check before a deletion looks at the project (`tasks.js:1578`, `tasks.js:1553`).
- A lost last reply is never repeated: the task is complete, each further `/task/run` is refused, and the worker calls
  again for ever; the tasks it unblocked wait for a restart (`TaskWorker.cpp:148`, `TaskWorker.cpp:114`).
- A failed allocation change leaves its mark: the substep of a roll-back is `(step - 2) % 4` for both kinds of move, but an allocation change starts at
  step 1 (`tasks.js:809`, `tasks.js:814`); `new_repo` stays, and `isPathConsistent` expects the file where it is not.
- `addNewTaskAndScheduleWorker` notifies the head of the idle list, which may be null or busy while another worker
  sleeps; the task then waits for a busy worker (`TaskMgr.cpp:293`). `NeverAllAsleep` bounds the harm.
- A lost connection to the database is sent as `err_msg` with the next `/task/run`, which takes it for a
  permanent external failure and rolls the task back (`TaskWorker.cpp:93`, `task_router.js:207`).
- When `retryTask` returns true the worker only drops the task, which stays `running` with its locks
  until the core server restarts (`TaskWorker.cpp:130`, `TaskMgr.cpp:393`).
- `a_task.step += 1` changes the task object inside a transaction; if ArangoDB repeated the function, it would be added twice.
- The charge of an allocation is wrong after a move of a record that was put since the move was asked for (`tasks.js:2658`), and its limit may be
  exceeded when records come
  between the look at the room and the move (`tasks.js:885`), once the transfers of moves are accepted (section 3.4).
- A command may take effect after its task has failed: a Globus transfer that could not be asked for goes on, and is not cancelled (`GlobusAPI.cpp:128`).
- What `CleanSpec` keeps away (section 3.4).

*Collections and aliases.*
- What `CleanSpec` of `Catalog` keeps away (section 3.5).
- Two moves in transactions that overlap each check that they close no cycle and may close one together. The model has
  transactions one after the other, as has the code wherever it names its collections exclusive.
- `/coll/create` without a parent uses `owner_id` before it is set.
- "explicitly specified" records are deleted whatever else holds them only when they come before the collections (`process.js`).

*Notes and dependencies.*
- `Covered` fails when a note turns from information to warning after a dependent was added whose other notes count as children: the new
  dependent gets none. `ClosedBelow` fails when a child is activated while its parent is not active.
- A record may depend on itself, through the alias that it is given in the same request.
- Two records may have one dependency when one is created, and one of each type after an update.
- `checkDependencies` has a limit of 50 levels that is never active: its depth starts as undefined.

*Permissions.*
- `/acl/update` without rules clears `acls` and leaves the edges: they give nothing, until another request sets the bits,
  but `getACLOwnersBySubject` still lists the owner.
- A nested collection with an inherited "list", but no "read", is refused a transfer that its records are allowed
  (`process.js:226`, `process.js:338`), and for a record in several collections the answer depends on which is met first.
- A search in a collection stops ten levels below the first one of which it knows that all below is readable (`support.js:3118`, `support.js:3169`);
  deeper collections are
  not searched, though nothing limits their depth.
- `/prj/update` takes new admins out of the groups of the project; `/grp/update` may add them again.

*Tags and schemas.*
- `recordUpdate` compares tags with `in` on arrays (`data_router.js:574`, `data_router.js:581`), which asks for an index or a property: a tag `0`
  or `length` is found in every list that is not empty, and its count goes wrong. A collection that has a tag twice counts it twice and loses it once.
  Against "Tags are tracked and reference counted".
- `/schema/delete` is not in a transaction: a record or schema may come to use the schema before it is removed.
- A schema may be created with the id of one whose first revision was deleted: two chains have the id.

*Core server.*
- The refresh flag is cleared for each repository that was loaded (`Config.cpp:108`): a change during the load is not
  seen before the next one. A load that is given up after its first repository leaves the rest as it was.
- A key that is in the transient map cannot be made persistent, and ends the load. Repositories that are deleted stay in the cache.
- `getExpiredKeys` takes keys whose time is not over (`AuthMap.cpp:74`).
- With two requests to log in by one client, its key may be in the transient and session map at once, and its session may be dropped early; the run
  lets a client have one (`MaxAnon`).
- The total of a user is added again when an upload failed (`CoreServer.cpp:532`).

## 7. What is not modelled, and why

- The messaging library with its proxy, the repository server's message loop: planned (section 2).
- The Globus and database clients beyond their outcomes, the web server, the Python client, the FUSE view,
  the GridFTP authorization library: they translate requests and keep no state between them.
- Administration and configuration: single reads and writes. Routes that only list or view, and saved queries.
- Vendored and generated code: of the lines of the repository the larger part is the `ace` editor, `jquery` and the like under
  `web/static`, which is not DataFed's. The models are about the core server and the database service.
- Lists of items, notes or tags that the routes return for display (the "updates" of a request), titles, descriptions, metadata and its validation.
- Deletion of a user: nothing calls the route. Authorization of Globus access by path (`authz_router.js`).
- In `TaskLocks`: the shared lock of an owner change on its destination collection (no task takes a
  collection exclusively), deletion of several projects by one task, `/task/purge`, and a crash inside a
  completion that is not in a transaction. `/task/abort` and `/task/delete` are called by nothing.
- In `TaskRun`: the update of the last step's `task.update` failing on a write conflict, the size update
  command and the chunks of a data delete, and the run functions that move records (see `RecMove`).
- In `RecMove`: external records; a transfer or deletion that goes on after the core server has lost it (`TaskRun` has it: what it does to files,
  late, is not modelled); creation of an
  allocation (`tasks.js:132`), with which it counts no records; changes of limits; data size limits below what the records have (they are `Roomy` in the
  runs); deletion of a whole project, which deletes its records and allocations as the two deletions do.
- In `Catalog` and `Permissions`: quotas but for the number of items in a collection; overlapping transactions. In `Permissions` collections do not move
  (`Catalog` has their moves), and one client is looked at at a time.
- In `AuthKeys`: keys of users in the database, the owner of a key.
- Texts of messages, logging, and the JSON and protobuf forms of requests.
