------------------------------ MODULE TaskRun ------------------------------
(***************************************************************************)
(* How a task is run: the loop of a task worker thread of the core server  *)
(* (core/server/TaskWorker.cpp), the /run request it makes of the database *)
(* service (task_router.js), and the task functions of tasks.js that carry *)
(* out one external command per step: data get and the delete tasks, which *)
(* prepare themselves in step 0, and the allocation tasks, which do not.   *)
(*                                                                         *)
(* The grain is the database transaction on one side, and the request, the *)
(* reply and the external command on the other.  A request is cut when the *)
(* connection breaks or the service stops: the transactions that committed *)
(* stay, and the worker gets an exception.  Workers are unlimited here,    *)
(* and blocked tasks enter when they become ready: TaskSched and TaskLocks *)
(* model the queue and the locks.                                          *)
(*                                                                         *)
(* An exception or a time-out tells the worker nothing of the command: a   *)
(* Globus transfer whose state could not be asked for goes on, and so does *)
(* a request that a repository server has begun.  begun is a history       *)
(* variable, which no action reads.                                        *)
(***************************************************************************)
EXTENDS Integers

CONSTANTS Tasks,
          MaxCmds,    \* bound on the external commands of a task
          MaxFaults   \* bound on lost connections, failures and restarts

ASSUME BoundsAssumption == MaxCmds \in Nat \ {0} /\ MaxFaults \in Nat

Kinds == {"get", "delete", "alloc"}
Prepared == {"get", "delete"}    \* step 0 is a transaction of its own
ViaRepo == {"delete", "alloc"}   \* commands are requests to a repository server

VARIABLES status,    \* task.status in the database
          step,      \* task.step: negative once the task is rolled back
          steps,     \* task.steps
          kind,      \* task.type
          total,     \* number of external commands of the task
          purged,    \* tasks whose document was purged
          at,        \* where the task is, see Places
          reply,     \* the reply of /run on its way to the worker
          first,     \* worker: it has had no reply about this task yet
          err,       \* worker: where its err_msg came from
          last,      \* worker: the step of the last command
          begun,     \* commands of each task, from the first, a worker began
          ran,       \* commands of each task, from the first, carried out
          stray,     \* commands no worker waits for that may still take effect
          faults

dbVars == <<status, step, steps, kind, total, purged>>
workerVars == <<first, err, last>>
cmdVars == <<begun, ran, stray>>
vars == <<dbVars, workerVars, cmdVars, at, reply, faults>>

\* "queue": with the task manager; "call": the worker is about to call /run;
\* "handle", "undo", "complete": inside /run; "reply": the service is done;
\* "cmd": the worker carries out a command; "over": the core server let it go.
Places == {"none", "queue", "call", "handle", "undo", "complete", "reply", "cmd", "over"}

Final == {"succeeded", "failed"}

\* The number of the command that belongs to step s.
CmdOf(t, s) == IF kind[t] \in Prepared THEN s ELSE s + 1

\* What the worker passes to /run besides the task id.
SendsErr(t) == ~first[t] /\ err[t] # "no"
SendsStep(t) == ~first[t] /\ err[t] = "no"

Fault == faults < MaxFaults /\ faults' = faults + 1

GoTo(t, p) == at' = [at EXCEPT ![t] = p]
Later(m, n) == IF n > m THEN n ELSE m
Answer(t, r) == GoTo(t, "reply") /\ reply' = [reply EXCEPT ![t] = r]

-----------------------------------------------------------------------------
Init == /\ status = [t \in Tasks |-> "none"]
        /\ step = [t \in Tasks |-> 0]
        /\ steps = [t \in Tasks |-> 2]
        /\ kind = [t \in Tasks |-> "get"]
        /\ total = [t \in Tasks |-> 0]
        /\ purged = {}
        /\ at = [t \in Tasks |-> "none"]
        /\ reply = [t \in Tasks |-> "no"]
        /\ first = [t \in Tasks |-> TRUE]
        /\ err = [t \in Tasks |-> "no"]
        /\ last = [t \in Tasks |-> 0]
        /\ begun = [t \in Tasks |-> 0]
        /\ ran = [t \in Tasks |-> 0]
        /\ stray = [t \in Tasks |-> {}]
        /\ faults = 0

\* A task is ready and the task manager is told.  How many commands it takes
\* is known when it prepares itself, and follows from the request.
Submit(t) == /\ status[t] = "none"
             /\ status' = [status EXCEPT ![t] = "ready"]
             /\ \E k \in Kinds : kind' = [kind EXCEPT ![t] = k]
             /\ \E n \in IF kind'[t] \in Prepared THEN 1..MaxCmds ELSE {1} :
                  total' = [total EXCEPT ![t] = n]
             /\ GoTo(t, "queue")
             /\ UNCHANGED <<step, steps, purged, workerVars, reply, cmdVars, faults>>

\* getNextTask returns it to a worker.
Take(t) == /\ at[t] = "queue"
           /\ first' = [first EXCEPT ![t] = TRUE]
           /\ err' = [err EXCEPT ![t] = "no"]
           /\ GoTo(t, "call")
           /\ UNCHANGED <<dbVars, last, reply, cmdVars, faults>>

-----------------------------------------------------------------------------
\* The transaction /run begins with.
StartTask(t) == /\ at[t] = "call"
                /\ status[t] = "ready"
                /\ status' = [status EXCEPT ![t] = "running"]
                /\ GoTo(t, "handle")
                /\ UNCHANGED <<step, steps, kind, total, purged, workerVars, reply,
                               cmdVars, faults>>

ConfirmStep(t) == /\ at[t] = "call"
                  /\ status[t] = "running"
                  /\ SendsStep(t)
                  /\ last[t] = step[t]
                  /\ step' = [step EXCEPT ![t] = @ + 1]
                  /\ GoTo(t, "handle")
                  /\ UNCHANGED <<status, steps, kind, total, purged, workerVars, reply,
                                 cmdVars, faults>>

BadStep(t) == SendsStep(t) /\ last[t] # step[t] /\ last[t] >= steps[t]

\* Mutants: a call that confirms nothing is taken for a confirmation; a task
\* that is running is refused.
Rerun_advances(t) == /\ at[t] = "call"
                     /\ status[t] = "running"
                     /\ ~SendsStep(t)
                     /\ step' = [step EXCEPT ![t] = @ + 1]
                     /\ GoTo(t, "handle")
                     /\ UNCHANGED <<status, steps, kind, total, purged, workerVars,
                                    reply, cmdVars, faults>>

Rerun_refused(t) == /\ at[t] = "call"
                    /\ status[t] = "running"
                    /\ ~SendsStep(t)
                    /\ Answer(t, "error")
                    /\ UNCHANGED <<dbVars, workerVars, cmdVars, faults>>

\* A call after a restart, a retry or an error: no step is confirmed.
Rerun(t) == /\ at[t] = "call"
            /\ status[t] = "running"
            /\ ~(SendsStep(t) /\ last[t] = step[t])
            /\ ~BadStep(t)
            /\ GoTo(t, "handle")
            /\ UNCHANGED <<dbVars, workerVars, reply, cmdVars, faults>>

Refuse(t) == /\ at[t] = "call"
             /\ status[t] \in Final \/ (status[t] = "running" /\ BadStep(t))
             /\ Answer(t, IF t \in purged THEN "missing" ELSE "error")
             /\ UNCHANGED <<dbVars, workerVars, cmdVars, faults>>

\* The error message the worker sent is thrown, or the task function throws.
Throw(t) == /\ at[t] = "handle"
            /\ \/ SendsErr(t) /\ UNCHANGED faults
               \/ ~SendsErr(t) /\ step[t] >= 0 /\ Fault
            /\ GoTo(t, "undo")
            /\ UNCHANGED <<dbVars, workerVars, reply, cmdVars>>

Handled(t) == at[t] = "handle" /\ ~SendsErr(t)

\* Step 0 of a task that prepares itself; the function goes on with step 1.
Prepare(t) == /\ Handled(t)
              /\ step[t] = 0
              /\ kind[t] \in Prepared
              /\ step' = [step EXCEPT ![t] = 1]
              /\ steps' = [steps EXCEPT ![t] = total[t] + 2]
              /\ UNCHANGED <<status, kind, total, purged, workerVars, at, reply, cmdVars, faults>>

Command(t) == /\ Handled(t)
              /\ CmdOf(t, step[t]) > 0
              /\ step[t] >= 0
              /\ step[t] < steps[t] - 1
              /\ Answer(t, "cmd")
              /\ UNCHANGED <<dbVars, workerVars, cmdVars, faults>>

\* The last step: taskComplete(task, true).
Finish(t) == /\ Handled(t)
             /\ step[t] >= steps[t] - 1
             /\ status' = [status EXCEPT ![t] = "succeeded"]
             /\ Answer(t, "stop")
             /\ UNCHANGED <<step, steps, kind, total, purged, workerVars, cmdVars, faults>>

\* The functions of these tasks have nothing to roll back and return at once.
RolledBack(t) == /\ Handled(t)
                 /\ step[t] < 0
                 /\ GoTo(t, "complete")
                 /\ UNCHANGED <<dbVars, workerVars, reply, cmdVars, faults>>

\* The handler of an exception.  In step 0 nothing was done yet, and a
\* negative step means that the roll-back failed: the task is over.
Undo(t) == /\ at[t] = "undo"
           /\ step' = [step EXCEPT ![t] = IF @ > 0 THEN -@ ELSE @]
           /\ GoTo(t, "complete")
           /\ UNCHANGED <<status, steps, kind, total, purged, workerVars, reply, cmdVars, faults>>

\* taskComplete(task, false): TaskLocks has its steps.
Complete(t) == /\ at[t] = "complete"
               /\ status' = [status EXCEPT ![t] = "failed"]
               /\ Answer(t, "stop")
               /\ UNCHANGED <<step, steps, kind, total, purged, workerVars, cmdVars, faults>>

-----------------------------------------------------------------------------
\* The connection breaks or the service stops, before, during or after /run:
\* "SDMS DB interface failed".
Cut(t) == /\ at[t] \in {"call", "handle", "undo", "complete", "reply"}
          /\ Fault
          /\ err' = [err EXCEPT ![t] = "db"]
          /\ GoTo(t, "call")
          /\ UNCHANGED <<dbVars, first, last, reply, cmdVars>>

\* Mutant: the step of the reply is not taken over.
ReceiveCmd_stale(t) == /\ at[t] = "reply" /\ reply[t] = "cmd"
                       /\ first' = [first EXCEPT ![t] = FALSE]
                       /\ GoTo(t, "cmd")
                       /\ UNCHANGED <<dbVars, last, err, reply, cmdVars, faults>>

\* The worker begins the command, again if it was begun before.
ReceiveCmd(t) == /\ at[t] = "reply" /\ reply[t] = "cmd"
                 /\ first' = [first EXCEPT ![t] = FALSE]
                 /\ last' = [last EXCEPT ![t] = step[t]]
                 /\ begun' = [begun EXCEPT ![t] = Later(@, CmdOf(t, step[t]))]
                 /\ GoTo(t, "cmd")
                 /\ UNCHANGED <<dbVars, err, reply, ran, stray, faults>>

\* TC_STOP: newTasks with the list of unblocked tasks, which is in TaskLocks.
ReceiveStop(t) == /\ at[t] = "reply" /\ reply[t] = "stop"
                  /\ GoTo(t, "over")
                  /\ UNCHANGED <<dbVars, workerVars, reply, cmdVars, faults>>

\* An error reply is an exception in the worker.  If the task does not exist
\* the worker drops it, else it calls again.
ReceiveError(t) == /\ at[t] = "reply" /\ reply[t] \in {"error", "missing"}
                   /\ err' = [err EXCEPT ![t] = "run"]
                   /\ GoTo(t, IF reply[t] = "missing" THEN "over" ELSE "call")
                   /\ UNCHANGED <<dbVars, first, last, reply, cmdVars, faults>>

-----------------------------------------------------------------------------
\* Carrying out the command: again, if it was carried out before.
Carried(t) == ran' = [ran EXCEPT ![t] = Later(@, CmdOf(t, last[t]))]

\* Outside it goes on and nobody watches it any more.
GoesOn(t) == stray' = [stray EXCEPT ![t] = @ \cup {CmdOf(t, last[t])}]

\* The worker has lost the command: it was carried out, or will not be, or is
\* still going on.
Lost(t) == /\ Carried(t) \/ UNCHANGED ran
           /\ GoesOn(t) \/ UNCHANGED stray
           /\ UNCHANGED begun

CmdOk(t) == /\ at[t] = "cmd"
            /\ Carried(t)
            /\ GoTo(t, "call")
            /\ UNCHANGED <<dbVars, workerVars, reply, begun, stray, faults>>

\* An exception: Globus reports a failure, or cannot be asked how the transfer
\* is doing, which goes on; the repository server reports an error, or its
\* answer cannot be used.
CmdFails(t) == /\ at[t] = "cmd"
               /\ Fault
               /\ Lost(t)
               /\ err' = [err EXCEPT ![t] = "cmd"]
               /\ GoTo(t, "call")
               /\ UNCHANGED <<dbVars, first, last, reply>>

\* The repository server does not answer: the task goes to the retry queue or,
\* when it has expired, is dropped.
CmdTimesOut(t) == /\ at[t] = "cmd"
                  /\ kind[t] \in ViaRepo
                  /\ Fault
                  /\ Lost(t)
                  /\ err' = [err EXCEPT ![t] = "cmd"]
                  /\ GoTo(t, "queue") \/ GoTo(t, "over")
                  /\ UNCHANGED <<dbVars, first, last, reply>>

\* A transfer of Globus or a request at a repository server ends by itself,
\* whatever has become of the task.
StrayEnds(t) == \E c \in stray[t] :
                  /\ ran' = [ran EXCEPT ![t] = Later(@, c)]
                  /\ stray' = [stray EXCEPT ![t] = @ \ {c}]
                  /\ UNCHANGED <<dbVars, workerVars, at, reply, begun, faults>>

\* The core server restarts and loads the ready and running tasks; tasks that
\* a lost reply said are ready are among them.  Commands go on without it.
Restart == /\ Fault
           /\ at' = [t \in Tasks |-> IF status[t] \in {"ready", "running"} THEN "queue"
                                     ELSE IF status[t] \in Final THEN "over"
                                     ELSE "none"]
           /\ stray' = [t \in Tasks |-> stray[t] \cup
                                        IF at[t] = "cmd" THEN {CmdOf(t, last[t])} ELSE {}]
           /\ UNCHANGED <<dbVars, workerVars, reply, begun, ran>>

Purge(t) == /\ status[t] \in Final
            /\ purged' = purged \cup {t}
            /\ UNCHANGED <<status, step, steps, kind, total, workerVars, at, reply, cmdVars, faults>>

-----------------------------------------------------------------------------
Run(t) == \/ StartTask(t) \/ ConfirmStep(t) \/ Rerun(t) \/ Refuse(t)
          \/ Throw(t) \/ Prepare(t) \/ Command(t) \/ Finish(t) \/ RolledBack(t)
          \/ Undo(t) \/ Complete(t)
Receive(t) == ReceiveCmd(t) \/ ReceiveStop(t) \/ ReceiveError(t)
Work(t) == Take(t) \/ Run(t) \/ Receive(t) \/ CmdOk(t) \/ CmdFails(t) \/ CmdTimesOut(t)

Next == \/ \E t \in Tasks : Submit(t) \/ Work(t) \/ Cut(t) \/ Purge(t) \/ StrayEnds(t)
        \/ Restart

Spec == Init /\ [][Next]_vars

\* A worker thread goes on with its task, and the database service, Globus and
\* the repository servers answer or fail.
FairSpec == Spec /\ \A t \in Tasks : WF_vars(Work(t))

-----------------------------------------------------------------------------
TypeOK == /\ status \in [Tasks -> {"none", "ready", "running"} \cup Final]
          /\ step \in [Tasks -> -(MaxCmds + 1)..(MaxCmds + 1)]
          /\ steps \in [Tasks -> 2..(MaxCmds + 2)]
          /\ kind \in [Tasks -> Kinds]
          /\ total \in [Tasks -> 0..MaxCmds]
          /\ purged \subseteq Tasks
          /\ at \in [Tasks -> Places]
          /\ \A t \in Tasks : at[t] = "none" <=> status[t] = "none"
          /\ reply \in [Tasks -> {"no", "cmd", "stop", "error", "missing"}]
          /\ first \in [Tasks -> BOOLEAN]
          /\ err \in [Tasks -> {"no", "db", "cmd", "run"}]
          /\ last \in [Tasks -> 0..(MaxCmds + 1)]
          /\ begun \in [Tasks -> 0..MaxCmds]
          /\ ran \in [Tasks -> 0..MaxCmds]
          /\ stray \in [Tasks -> SUBSET (1..MaxCmds)]
          /\ faults \in 0..MaxFaults

\* The worker's variable and the task document agree: a step it confirms is the
\* step of the task, and the command it carries out belongs to that step,
\* whatever was cut, retried or restarted before.
StepAgrees == \A t \in Tasks :
  at[t] = "cmd" \/ (at[t] = "call" /\ SendsStep(t)) =>
    status[t] = "running" /\ last[t] = step[t]

\* The task can have a command for the step it is in.
InCommandStep(t) == step[t] >= 0 /\ step[t] < steps[t] - 1 /\ CmdOf(t, step[t]) >= 1

\* The steps of a task as its task function lays them out.
WellLaidOut(t) ==
  /\ total[t] >= 1
  /\ step[t] < steps[t] /\ -step[t] < steps[t]
  /\ IF kind[t] \in Prepared THEN step[t] # 0 => steps[t] = total[t] + 2
                             ELSE total[t] = 1 /\ steps[t] = 2

\* Commands were begun up to the one before the current step, or up to the
\* current one, and carried out up to the one begun or the one before it.
InOrder(t) == step[t] >= 0 => LET c == CmdOf(t, step[t])
                              IN begun[t] \in {c - 1, c} /\ ran[t] \in {c - 1, c}

\* At most the last command begun was not carried out.
OneOpen(t) == /\ ran[t] \in {begun[t] - 1, begun[t]}
              /\ stray[t] \subseteq 1..begun[t]

\* What the order of the commands rests on, for one task.
TaskInv(t) ==
  /\ status[t] \in {"none", "ready"} => step[t] = 0 /\ steps[t] = 2 /\ begun[t] = 0
  /\ status[t] = "ready" => at[t] = "queue" \/ (at[t] = "call" /\ first[t])
  /\ status[t] # "none" => WellLaidOut(t) /\ begun[t] <= total[t]
  /\ status[t] = "running" => InOrder(t)
  /\ OneOpen(t)
  /\ at[t] \in {"handle", "undo", "complete"} => status[t] = "running"
  /\ at[t] = "reply" => /\ reply[t] = "cmd" => status[t] = "running" /\ InCommandStep(t)
                        /\ reply[t] = "stop" => status[t] \in Final
                        /\ reply[t] \in {"cmd", "stop", "error", "missing"}
  /\ at[t] = "cmd" => status[t] = "running" /\ ~first[t] /\ last[t] = step[t]
                      /\ InCommandStep(t)
                      /\ begun[t] = CmdOf(t, step[t])
  /\ at[t] = "call" /\ SendsStep(t) =>
       /\ status[t] = "running" /\ last[t] = step[t] /\ InCommandStep(t)
       /\ ran[t] = CmdOf(t, step[t])

\* Every command follows the one before it: a worker that confirms a step has
\* carried out its command, a task has steps for all its commands, and nothing
\* but a final task answers "stop", through any cuts, retries and restarts.
RunInv == \A t \in Tasks : TaskInv(t)

PhaseOf(t) == IF status[t] \in {"ready", "running"}
                THEN IF step[t] < 0 THEN "undoing" ELSE "active"
                ELSE status[t]

\* Refinement: whatever is lost or restarted, commands are begun in order, each
\* after the one before it was carried out, a task that succeeded has had all of
\* them, and none is begun for a task that was given up; only the one begun
\* before that may still take effect, when the worker has lost sight of it.
Life == INSTANCE TaskLife WITH
          phase <- [t \in Tasks |-> PhaseOf(t)], done <- ran
LifeSpec == Life!Spec

\* With a bounded number of faults every task comes to its end in the database,
\* or is dropped by the core server.
TaskEnds == \A t \in Tasks :
  status[t] \in {"ready", "running"} ~> status[t] \in Final \/ at[t] = "over"
=============================================================================
