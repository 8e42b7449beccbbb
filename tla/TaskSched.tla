----------------------------- MODULE TaskSched -----------------------------
(***************************************************************************)
(* The scheduler of the core server, core/server/TaskMgr.cpp, with the     *)
(* thread loop of core/server/TaskWorker.cpp reduced to the calls it makes *)
(* on the manager.                                                         *)
(*                                                                         *)
(* The grain is the critical section of m_worker_mutex, except that a loop *)
(* which adds several tasks in one critical section takes one step per     *)
(* task: batch holds what is left to add, and every other user of the      *)
(* mutex waits for it to be empty.                                         *)
(*                                                                         *)
(* A retry time is kept as the number of clock ticks that remain until it. *)
(* Entries of m_tasks_retry that are due are moved in some order: nothing  *)
(* below depends on which of them is first.                                *)
(***************************************************************************)
EXTENDS Naturals, Sequences, FiniteSets

CONSTANTS Tasks,       \* task identifiers
          NumWorkers,  \* m_config.num_task_worker_threads
          RetryInit,   \* ticks before the first retry, task_retry_time_init
          RetryLater,  \* ticks before a later one, the backoff
          NoTask

ASSUME NumWorkersAssumption == NumWorkers \in Nat \ {0}
ASSUME TasksAssumption == IsFiniteSet(Tasks)
ASSUME NoTaskAssumption == NoTask \notin Tasks
ASSUME DelayAssumption == /\ RetryInit \in Nat \ {0}
                          /\ RetryLater \subseteq Nat \ {0}
                          /\ RetryLater # {}

Workers == 1..NumWorkers
NoWorker == 0

VARIABLES ready,      \* m_tasks_ready
          batch,      \* tasks the holder of m_worker_mutex has still to add
          workerNext, \* m_worker_next, the head of the idle list
          next,       \* m_next of each worker
          run,        \* m_run of each worker
          pc,         \* "seek": about to call getNextTask; "waiting": asleep
                      \* on m_cvar; "woken": out of the wait, without the
                      \* mutex yet; "busy": processing a task
          task,       \* m_task of each worker thread
          retry,      \* the tasks in m_tasks_retry
          delay,      \* ticks until the retry_time of each of them
          tried,      \* tasks with retry_count > 0
          maint,      \* maintenance thread: "asleep", "awake", "pass"
          timed,      \* whether it sleeps until the first retry entry
          seen,       \* the entries that were due when it read the clock
          noticed,    \* m_maint_cvar was notified during this sleep
          loaded,     \* initialize has submitted the tasks of the database
          left        \* tasks whose Task object was destroyed

schedVars == <<ready, batch, workerNext, next, run, pc, task>>
retryVars == <<retry, delay, tried>>
maintVars == <<maint, timed, seen, noticed>>
vars == <<schedVars, retryVars, maintVars, loaded, left>>

Elems(s) == {s[i] : i \in 1..Len(s)}
Held == {task[w] : w \in Workers} \ {NoTask}

\* Tasks the manager has not heard of.  The database hands out each task once:
\* when it is created ready, when its last block is removed, or at start-up.
Fresh == Tasks \ (Elems(ready) \cup Elems(batch) \cup retry \cup Held \cup left)

\* The lists of distinct members of S.
Lists(S) == {q \in UNION {[1..n -> S] : n \in 0..Cardinality(S)} :
               \A i, j \in DOMAIN q : q[i] = q[j] => i = j}

MutexFree == batch = <<>>

-----------------------------------------------------------------------------
\* The constructor chains the workers with m_next and points m_worker_next at
\* the first, before any of them can enter getNextTask.
Init == /\ ready = <<>>
        /\ batch = <<>>
        /\ workerNext = 1
        /\ next = [w \in Workers |-> IF w < NumWorkers THEN w + 1 ELSE NoWorker]
        /\ run = [w \in Workers |-> FALSE]
        /\ pc = [w \in Workers |-> "seek"]
        /\ task = [w \in Workers |-> NoTask]
        /\ retry = {}
        /\ delay = [t \in Tasks |-> 0]
        /\ tried = {}
        /\ maint = "pass"
        /\ timed = FALSE
        /\ seen = {}
        /\ noticed = FALSE
        /\ loaded = FALSE
        /\ left = {}

\* newTasks(taskLoadReady), at the end of initialize.
LoadReady == /\ ~loaded
             /\ MutexFree
             /\ \E q \in Lists(Fresh) : batch' = q
             /\ loaded' = TRUE
             /\ UNCHANGED <<ready, workerNext, next, run, pc, task, retryVars,
                            maintVars, left>>

\* A client worker created a task that is ready.
NewTask(t) == /\ loaded
              /\ MutexFree
              /\ t \in Fresh
              /\ batch' = <<t>>
              /\ UNCHANGED <<ready, workerNext, next, run, pc, task, retryVars,
                             maintVars, loaded, left>>

\* addNewTaskAndScheduleWorker and retryTaskAndScheduleWorker: queue the task,
\* and notify the worker at the head of the idle list, whatever it is doing.
AddTask ==
  /\ batch # <<>>
  /\ ready' = Append(ready, Head(batch))
  /\ batch' = Tail(batch)
  /\ IF workerNext = NoWorker
       THEN UNCHANGED <<workerNext, run, pc>>
       ELSE /\ run' = [run EXCEPT ![workerNext] = TRUE]
            /\ pc' = [pc EXCEPT ![workerNext] = IF @ = "waiting" THEN "woken" ELSE @]
            /\ workerNext' = next[workerNext]
  /\ UNCHANGED <<next, task, retryVars, maintVars, loaded, left>>

-----------------------------------------------------------------------------
\* Mutant: the front task is not removed from the queue.
PopReady_keeps(w) == /\ task' = [task EXCEPT ![w] = Head(ready)]
                     /\ pc' = [pc EXCEPT ![w] = "busy"]
                     /\ UNCHANGED ready

PopReady(w) == /\ task' = [task EXCEPT ![w] = Head(ready)]
               /\ ready' = Tail(ready)
               /\ pc' = [pc EXCEPT ![w] = "busy"]

\* getNextTask finds a task and does not touch the idle list.
TakeAtOnce(w) == /\ pc[w] = "seek"
                 /\ MutexFree
                 /\ ready # <<>>
                 /\ PopReady(w)
                 /\ UNCHANGED <<batch, workerNext, next, run, retryVars,
                                maintVars, loaded, left>>

\* Mutant: the worker sleeps without having entered the idle list.
GoIdle_unlinked(w) == /\ pc[w] = "seek"
                      /\ MutexFree
                      /\ ready = <<>>
                      /\ run' = [run EXCEPT ![w] = FALSE]
                      /\ next' = [next EXCEPT ![w] = workerNext]
                      /\ pc' = [pc EXCEPT ![w] = "waiting"]
                      /\ UNCHANGED <<ready, batch, workerNext, task, retryVars,
                                     maintVars, loaded, left>>

\* getNextTask finds none: the worker becomes the head of the idle list.
GoIdle(w) == /\ pc[w] = "seek"
             /\ MutexFree
             /\ ready = <<>>
             /\ run' = [run EXCEPT ![w] = FALSE]
             /\ next' = [next EXCEPT ![w] = workerNext]
             /\ workerNext' = w
             /\ pc' = [pc EXCEPT ![w] = "waiting"]
             /\ UNCHANGED <<ready, batch, task, retryVars, maintVars, loaded, left>>

\* The wait returns without a notification.
SpuriousWake(w) == /\ pc[w] = "waiting"
                   /\ pc' = [pc EXCEPT ![w] = "woken"]
                   /\ UNCHANGED <<ready, batch, workerNext, next, run, task,
                                  retryVars, maintVars, loaded, left>>

\* The woken worker has the mutex again and evaluates the loop condition.
TakeAfterWait(w) == /\ pc[w] = "woken"
                    /\ MutexFree
                    /\ ready # <<>>
                    /\ run[w]
                    /\ PopReady(w)
                    /\ UNCHANGED <<batch, workerNext, next, run, retryVars,
                                   maintVars, loaded, left>>

WaitAgain(w) == /\ pc[w] = "woken"
                /\ MutexFree
                /\ ready = <<>> \/ ~run[w]
                /\ pc' = [pc EXCEPT ![w] = "waiting"]
                /\ UNCHANGED <<ready, batch, workerNext, next, run, task,
                               retryVars, maintVars, loaded, left>>

-----------------------------------------------------------------------------
LetGo(w) == /\ task' = [task EXCEPT ![w] = NoTask]
            /\ pc' = [pc EXCEPT ![w] = "seek"]

\* TC_STOP: the task is over and its reply lists the tasks it unblocked.  An
\* empty list stands also for a task that is not in the database.
StopTask(w) == /\ pc[w] = "busy"
               /\ MutexFree
               /\ \E q \in Lists(Fresh) : batch' = q
               /\ LetGo(w)
               /\ left' = left \cup {task[w]}
               /\ tried' = tried \ {task[w]}
               /\ UNCHANGED <<ready, workerNext, next, run, retry, delay, maintVars, loaded>>

\* Mutant: m_maint_cvar is not notified.
RetryTask_silent(w) == /\ pc[w] = "busy"
                       /\ maint # "pass"
                       /\ retry' = retry \cup {task[w]}
                       /\ delay' = [delay EXCEPT ![task[w]] = RetryInit]
                       /\ tried' = tried \cup {task[w]}
                       /\ LetGo(w)
                       /\ UNCHANGED <<ready, batch, workerNext, next, run,
                                      maintVars, loaded, left>>

\* retryTask accepts the task.  m_maint_mutex is free unless maint = "pass".
RetryTask(w) == /\ pc[w] = "busy"
                /\ maint # "pass"
                /\ retry' = retry \cup {task[w]}
                /\ \E d \in IF task[w] \in tried THEN RetryLater ELSE {RetryInit} :
                     delay' = [delay EXCEPT ![task[w]] = d]
                /\ tried' = tried \cup {task[w]}
                /\ noticed' = (noticed \/ maint = "asleep")
                /\ LetGo(w)
                /\ UNCHANGED <<ready, batch, workerNext, next, run, maint, timed,
                               seen, loaded, left>>

\* retryTask finds retry_fail_time in the past and returns true: the worker
\* drops the task.
ExpireTask(w) == /\ pc[w] = "busy"
                 /\ task[w] \in tried
                 /\ left' = left \cup {task[w]}
                 /\ tried' = tried \ {task[w]}
                 /\ LetGo(w)
                 /\ UNCHANGED <<ready, batch, workerNext, next, run, retry, delay,
                                maintVars, loaded>>

-----------------------------------------------------------------------------
Due == {t \in retry : delay[t] = 0}

TimePasses == /\ retry # Due
              /\ delay' = [t \in Tasks |-> IF delay[t] > 0 THEN delay[t] - 1 ELSE 0]
              /\ UNCHANGED <<schedVars, retry, tried, maintVars, loaded, left>>

MaintSleep == /\ maint = "pass"
              /\ MutexFree
              /\ maint' = "asleep"
              /\ timed' = (retry # {})
              /\ noticed' = FALSE
              /\ UNCHANGED <<schedVars, retryVars, seen, loaded, left>>

\* Notified, or the first retry time or the next purge time has come; the
\* thread reads the clock without a mutex.
MaintWake == /\ maint = "asleep"
             /\ maint' = "awake"
             /\ seen' = Due
             /\ UNCHANGED <<schedVars, retryVars, timed, noticed, loaded, left>>

MaintDue == MaintWake /\ (noticed \/ (timed /\ Due # {}))

\* Every entry that was due moves to the ready queue, under both mutexes.
MaintPass == /\ maint = "awake"
             /\ MutexFree
             /\ \E q \in Lists(seen) : Elems(q) = seen /\ batch' = q
             /\ retry' = retry \ seen
             /\ seen' = {}
             /\ maint' = "pass"
             /\ UNCHANGED <<ready, workerNext, next, run, pc, task, delay, tried,
                            timed, noticed, loaded, left>>

-----------------------------------------------------------------------------
GetNextTask(w) == \/ TakeAtOnce(w) \/ GoIdle(w)
                  \/ TakeAfterWait(w) \/ WaitAgain(w)
EndTask(w) == StopTask(w) \/ RetryTask(w) \/ ExpireTask(w)

Next == \/ LoadReady
        \/ \E t \in Tasks : NewTask(t)
        \/ AddTask
        \/ \E w \in Workers : GetNextTask(w) \/ SpuriousWake(w) \/ EndTask(w)
        \/ TimePasses \/ MaintSleep \/ MaintWake \/ MaintPass

Spec == Init /\ [][Next]_vars

\* Threads that can run do run, the clock advances, and a worker is eventually
\* done with its task.  A mutex may be contended for ever in theory, hence the
\* strong fairness of what needs one; nothing is assumed of spurious wake-ups,
\* of the purge timer, or of clients.
Fairness == /\ WF_vars(LoadReady) /\ WF_vars(AddTask) /\ WF_vars(TimePasses)
            /\ SF_vars(MaintSleep) /\ WF_vars(MaintDue) /\ SF_vars(MaintPass)
            /\ \A w \in Workers : SF_vars(GetNextTask(w)) /\ SF_vars(EndTask(w))

FairSpec == Spec /\ Fairness

-----------------------------------------------------------------------------
TypeOK == /\ ready \in Seq(Tasks)
          /\ batch \in Seq(Tasks)
          /\ workerNext \in Workers \cup {NoWorker}
          /\ next \in [Workers -> Workers \cup {NoWorker}]
          /\ run \in [Workers -> BOOLEAN]
          /\ pc \in [Workers -> {"seek", "waiting", "woken", "busy"}]
          /\ task \in [Workers -> Tasks \cup {NoTask}]
          /\ \A w \in Workers : pc[w] = "busy" <=> task[w] # NoTask
          /\ retry \subseteq Tasks
          /\ delay \in [Tasks -> Nat]
          /\ tried \subseteq Tasks
          /\ maint \in {"asleep", "awake", "pass"}
          /\ timed \in BOOLEAN
          /\ seen \subseteq retry
          /\ noticed \in BOOLEAN
          /\ loaded \in BOOLEAN
          /\ left \subseteq Tasks

\* w will look at the ready queue without any further notification.
OnItsWay(w) == pc[w] \in {"seek", "busy"} \/ (pc[w] = "woken" /\ run[w])

\* While a task is queued, some worker will come to take it without any
\* further notification: it processes a task, is about to ask for one, or is
\* out of its wait with m_run set.  This is what keeps the queue moving
\* although the idle list may be cyclic, may name busy workers and may have
\* lost sleeping ones.
NeverAllAsleep == ready # <<>> => \E w \in Workers : OnItsWay(w)

\* The head of the idle list is lost only while there is work: when it is
\* null, a task is queued or a worker is still to come back to getNextTask.
IdleListNotLost == workerNext = NoWorker =>
                     ready # <<>> \/ \E w \in Workers : pc[w] \in {"seek", "busy"}

\* Refinement: the scheduler implements the task pool.  The tasks the holder
\* of m_worker_mutex has still to add already count as queued.
Pool == INSTANCE TaskPool WITH queue <- ready \o batch, held <- task, resting <- retry
PoolSpec == Pool!Spec

\* No task is forgotten: every task that is queued is eventually taken by a
\* worker, and one that was set aside after a transient failure returns to the
\* queue, although workers and the maintenance thread sleep in between.
QueuedIsTaken == \A t \in Tasks : t \in Elems(ready) ~> t \in Held
RetriedReturns == \A t \in Tasks : t \in retry ~> t \in Elems(ready)
NoneForgotten == QueuedIsTaken /\ RetriedReturns
=============================================================================
