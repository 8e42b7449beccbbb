--------------------------- MODULE TaskRunProofs ---------------------------
(***************************************************************************)
(* Proofs about the execution of a task: for any number of tasks, commands *)
(* and faults, the worker and the task document agree on the step, and the *)
(* worker loop with /run implements the life of a task, TaskLife.          *)
(***************************************************************************)
EXTENDS TaskRun, TLAPS

IInv == TypeOK /\ RunInv

LEMMA InitIInv == Init => IInv
  BY BoundsAssumption
     DEF Init, IInv, TypeOK, RunInv, TaskInv, Final, Kinds, Places, SendsStep,
         OneOpen

\* The command of a step that can have one is a command of the task.
LEMMA CommandInRange ==
  ASSUME TypeOK, NEW t \in Tasks, WellLaidOut(t), InCommandStep(t)
  PROVE  CmdOf(t, step[t]) \in 1..total[t]
  BY BoundsAssumption DEF TypeOK, WellLaidOut, InCommandStep, CmdOf

-----------------------------------------------------------------------------
\* What is known of a task stays known while nothing of it changes.
LEMMA Frame ==
  ASSUME NEW t \in Tasks, TaskInv(t),
         status'[t] = status[t], step'[t] = step[t], steps'[t] = steps[t],
         kind'[t] = kind[t], total'[t] = total[t], at'[t] = at[t],
         reply'[t] = reply[t], first'[t] = first[t], err'[t] = err[t],
         last'[t] = last[t], begun'[t] = begun[t], ran'[t] = ran[t], stray'[t] = stray[t]
  PROVE  TaskInv(t)'
  BY DEF TaskInv, WellLaidOut, InOrder, OneOpen, InCommandStep, CmdOf, SendsStep, Final,
         Prepared

LEMMA TypeStep == IInv /\ [Next]_vars => TypeOK'
  <1> SUFFICES ASSUME IInv, [Next]_vars PROVE TypeOK'
    OBVIOUS
  <1> USE BoundsAssumption DEF IInv, TypeOK, Places, Final, Kinds, dbVars, workerVars,
                               cmdVars, GoTo, Answer, Fault
  <1>1. ASSUME NEW t \in Tasks, Submit(t) PROVE TypeOK'
    <2>1. PICK k \in Kinds : kind' = [kind EXCEPT ![t] = k]
      BY <1>1 DEF Submit
    <2>2. PICK n \in 1..MaxCmds : total' = [total EXCEPT ![t] = n]
      <3>1. (IF kind'[t] \in Prepared THEN 1..MaxCmds ELSE {1}) \subseteq 1..MaxCmds
        OBVIOUS
      <3>2. \E n \in IF kind'[t] \in Prepared THEN 1..MaxCmds ELSE {1} :
              total' = [total EXCEPT ![t] = n]
        BY <1>1, Zenon DEF Submit
      <3> HIDE DEF TypeOK, IInv
      <3> QED BY <3>1, <3>2, Zenon
    <2>3. /\ status' = [status EXCEPT ![t] = "ready"]
          /\ at' = [at EXCEPT ![t] = "queue"]
          /\ UNCHANGED <<step, steps, purged, first, err, last, reply, begun, ran, stray,
                         faults>>
      BY <1>1 DEF Submit
    <2> QED BY <2>1, <2>2, <2>3
  <1>2. ASSUME NEW t \in Tasks, Take(t) PROVE TypeOK'
    BY <1>2 DEF Take, RunInv, TaskInv
  <1>3. ASSUME NEW t \in Tasks, Run(t) PROVE TypeOK'
    <2>1. CASE StartTask(t)
      BY <2>1 DEF StartTask
    <2>2. CASE ConfirmStep(t)
      <3>1. InCommandStep(t)
        BY <2>2 DEF ConfirmStep, RunInv, TaskInv
      <3>2. step[t] + 1 \in -(MaxCmds + 1)..(MaxCmds + 1)
        BY <3>1 DEF InCommandStep
      <3> QED BY <2>2, <3>2 DEF ConfirmStep
    <2>3. CASE Rerun(t)
      BY <2>3 DEF Rerun
    <2>4. CASE Refuse(t)
      BY <2>4 DEF Refuse
    <2>5. CASE Throw(t)
      BY <2>5 DEF Throw, RunInv, TaskInv
    <2>6. CASE Prepare(t)
      BY <2>6 DEF Prepare
    <2>7. CASE Command(t)
      BY <2>7 DEF Command, Handled, RunInv, TaskInv
    <2>8. CASE Finish(t)
      BY <2>8 DEF Finish
    <2>9. CASE RolledBack(t)
      BY <2>9 DEF RolledBack, Handled, RunInv, TaskInv
    <2>10. CASE Undo(t)
      BY <2>10 DEF Undo, RunInv, TaskInv
    <2>11. CASE Complete(t)
      BY <2>11 DEF Complete
    <2> QED BY <1>3, <2>1, <2>2, <2>3, <2>4, <2>5, <2>6, <2>7, <2>8, <2>9, <2>10,
               <2>11 DEF Run
  <1>4. ASSUME NEW t \in Tasks, Receive(t) PROVE TypeOK'
    <2>1. CASE ReceiveCmd(t)
      <3>1. step[t] \in 0..(MaxCmds + 1) /\ status[t] = "running"
        BY <2>1 DEF ReceiveCmd, RunInv, TaskInv, InCommandStep
      <3>2. CmdOf(t, step[t]) \in 1..total[t]
        BY <2>1, CommandInRange DEF ReceiveCmd, RunInv, TaskInv
      <3> QED BY <2>1, <3>1, <3>2 DEF ReceiveCmd, Later
    <2>2. CASE ReceiveStop(t)
      BY <2>2 DEF ReceiveStop, RunInv, TaskInv
    <2>3. CASE ReceiveError(t)
      BY <2>3 DEF ReceiveError
    <2> QED BY <1>4, <2>1, <2>2, <2>3 DEF Receive
  <1>5. ASSUME NEW t \in Tasks, at[t] = "cmd"
        PROVE  /\ Carried(t) => ran' \in [Tasks -> 0..MaxCmds]
               /\ GoesOn(t) => stray' \in [Tasks -> SUBSET (1..MaxCmds)]
    <2>1. CmdOf(t, last[t]) \in 1..total[t]
      BY <1>5, CommandInRange DEF RunInv, TaskInv
    <2> QED BY <2>1 DEF Carried, GoesOn, Later
  <1>6. ASSUME NEW t \in Tasks, CmdOk(t) PROVE TypeOK'
    BY <1>5, <1>6 DEF CmdOk
  <1>7. ASSUME NEW t \in Tasks, CmdFails(t) PROVE TypeOK'
    <2>1. ran' \in [Tasks -> 0..MaxCmds] /\ stray' \in [Tasks -> SUBSET (1..MaxCmds)]
      BY <1>5, <1>7 DEF CmdFails, Lost
    <2>2. status[t] # "none" /\ faults' \in 0..MaxFaults
      BY <1>7 DEF CmdFails
    <2>3. /\ at' = [at EXCEPT ![t] = "call"] /\ err' = [err EXCEPT ![t] = "cmd"]
          /\ UNCHANGED <<status, step, steps, kind, total, purged, first, last, reply, begun>>
      BY <1>7 DEF CmdFails, Lost
    <2> QED BY <2>1, <2>2, <2>3
  <1>8. ASSUME NEW t \in Tasks, CmdTimesOut(t) PROVE TypeOK'
    <2>1. ran' \in [Tasks -> 0..MaxCmds] /\ stray' \in [Tasks -> SUBSET (1..MaxCmds)]
      BY <1>5, <1>8 DEF CmdTimesOut, Lost
    <2>2. status[t] # "none" /\ faults' \in 0..MaxFaults
      BY <1>8 DEF CmdTimesOut
    <2>3. /\ err' = [err EXCEPT ![t] = "cmd"]
          /\ UNCHANGED <<status, step, steps, kind, total, purged, first, last, reply, begun>>
      BY <1>8 DEF CmdTimesOut, Lost
    <2>4. CASE at' = [at EXCEPT ![t] = "queue"]
      BY <2>1, <2>2, <2>3, <2>4
    <2>5. CASE at' = [at EXCEPT ![t] = "over"]
      BY <2>1, <2>2, <2>3, <2>5
    <2> QED BY <1>8, <2>4, <2>5 DEF CmdTimesOut
  <1>9. ASSUME NEW t \in Tasks, Cut(t) PROVE TypeOK'
    BY <1>9 DEF Cut
  <1>10. ASSUME NEW t \in Tasks, Purge(t) PROVE TypeOK'
    BY <1>10 DEF Purge
  <1>11. CASE Restart
    <2>1. \A t \in Tasks : at[t] = "cmd" => CmdOf(t, last[t]) \in 1..MaxCmds
      <3> SUFFICES ASSUME NEW t \in Tasks, at[t] = "cmd" PROVE CmdOf(t, last[t]) \in 1..MaxCmds
        OBVIOUS
      <3>1. CmdOf(t, last[t]) \in 1..total[t]
        BY CommandInRange DEF RunInv, TaskInv
      <3> QED BY <3>1
    <2>2. stray' \in [Tasks -> SUBSET (1..MaxCmds)]
      BY <1>11, <2>1 DEF Restart
    <2> QED BY <1>11, <2>2 DEF Restart
  <1>12. ASSUME NEW t \in Tasks, StrayEnds(t) PROVE TypeOK'
    <2>1. PICK c \in stray[t] : /\ ran' = [ran EXCEPT ![t] = Later(ran[t], c)]
                                /\ stray' = [stray EXCEPT ![t] = stray[t] \ {c}]
      BY <1>12 DEF StrayEnds
    <2> QED BY <1>12, <2>1 DEF StrayEnds, Later
  <1>13. CASE UNCHANGED vars
    BY <1>13 DEF vars
  <1> QED BY <1>1, <1>2, <1>3, <1>4, <1>6, <1>7, <1>8, <1>9, <1>10, <1>11, <1>12, <1>13
          DEF Next, Work

-----------------------------------------------------------------------------
\* A step of t is no step of another task.
Others(t) == \A u \in Tasks \ {t} :
  /\ status'[u] = status[u] /\ step'[u] = step[u] /\ steps'[u] = steps[u]
  /\ kind'[u] = kind[u] /\ total'[u] = total[u] /\ at'[u] = at[u]
  /\ reply'[u] = reply[u] /\ first'[u] = first[u] /\ err'[u] = err[u]
  /\ last'[u] = last[u] /\ begun'[u] = begun[u] /\ ran'[u] = ran[u]
  /\ stray'[u] = stray[u]

TaskStep(t) == Submit(t) \/ Work(t) \/ Cut(t) \/ Purge(t) \/ StrayEnds(t)

LEMMA OthersStay == ASSUME TypeOK, NEW t \in Tasks, TaskStep(t) PROVE Others(t)
  <1> USE DEF TypeOK, Others, GoTo, Answer, dbVars, workerVars, cmdVars
  <1>1. CASE Submit(t)
    BY <1>1 DEF Submit
  <1>2. CASE Take(t)
    BY <1>2 DEF Take
  <1>3. CASE StartTask(t)
    BY <1>3 DEF StartTask
  <1>4. CASE ConfirmStep(t)
    BY <1>4 DEF ConfirmStep
  <1>5. CASE Rerun(t)
    BY <1>5 DEF Rerun
  <1>6. CASE Refuse(t)
    BY <1>6 DEF Refuse
  <1>7. CASE Throw(t)
    BY <1>7 DEF Throw
  <1>8. CASE Prepare(t)
    BY <1>8 DEF Prepare
  <1>9. CASE Command(t)
    BY <1>9 DEF Command
  <1>10. CASE Finish(t)
    BY <1>10 DEF Finish
  <1>11. CASE RolledBack(t)
    BY <1>11 DEF RolledBack
  <1>12. CASE Undo(t)
    BY <1>12 DEF Undo
  <1>13. CASE Complete(t)
    BY <1>13 DEF Complete
  <1>14. CASE ReceiveCmd(t)
    BY <1>14 DEF ReceiveCmd
  <1>15. CASE ReceiveStop(t)
    BY <1>15 DEF ReceiveStop
  <1>16. CASE ReceiveError(t)
    BY <1>16 DEF ReceiveError
  <1>17. CASE CmdOk(t)
    BY <1>17 DEF CmdOk, Carried
  <1>18. CASE CmdFails(t)
    BY <1>18 DEF CmdFails, Lost, Carried, GoesOn
  <1>19. CASE CmdTimesOut(t)
    BY <1>19 DEF CmdTimesOut, Lost, Carried, GoesOn
  <1>20. CASE Cut(t)
    BY <1>20 DEF Cut
  <1>21. CASE Purge(t)
    BY <1>21 DEF Purge
  <1>22. CASE StrayEnds(t)
    BY <1>22 DEF StrayEnds
  <1> QED BY <1>1, <1>2, <1>3, <1>4, <1>5, <1>6, <1>7, <1>8, <1>9, <1>10, <1>11, <1>12, <1>13, <1>14, <1>15, <1>16, <1>17, <1>18, <1>19, <1>20, <1>21, <1>22
          DEF TaskStep, Work, Run, Receive

LEMMA TaskInvStep == ASSUME IInv, NEW t \in Tasks, TaskStep(t) PROVE TaskInv(t)'
  <1> USE BoundsAssumption
      DEF IInv, TypeOK, RunInv, TaskInv, WellLaidOut, InOrder, InCommandStep, CmdOf,
          SendsStep, SendsErr, Final, Kinds, Prepared, GoTo, Answer, Handled, OneOpen, Later,
          dbVars, workerVars, cmdVars
  <1>1. CASE Submit(t)
    BY <1>1 DEF Submit
  <1>2. CASE Take(t)
    BY <1>2 DEF Take
  <1>3. CASE StartTask(t)
    BY <1>3 DEF StartTask
  <1>4. CASE ConfirmStep(t)
    BY <1>4 DEF ConfirmStep
  <1>5. CASE Rerun(t)
    BY <1>5 DEF Rerun, BadStep
  <1>6. CASE Refuse(t)
    BY <1>6 DEF Refuse, BadStep
  <1>7. CASE Throw(t)
    BY <1>7 DEF Throw
  <1>8. CASE Prepare(t)
    BY <1>8 DEF Prepare
  <1>9. CASE Command(t)
    BY <1>9 DEF Command
  <1>10. CASE Finish(t)
    BY <1>10 DEF Finish
  <1>11. CASE RolledBack(t)
    BY <1>11 DEF RolledBack
  <1>12. CASE Undo(t)
    BY <1>12 DEF Undo
  <1>13. CASE Complete(t)
    BY <1>13 DEF Complete
  <1>14. CASE ReceiveCmd(t)
    BY <1>14 DEF ReceiveCmd
  <1>15. CASE ReceiveStop(t)
    BY <1>15 DEF ReceiveStop
  <1>16. CASE ReceiveError(t)
    BY <1>16 DEF ReceiveError
  <1>17. CASE CmdOk(t)
    BY <1>17 DEF CmdOk, Carried
  <1>18. CASE CmdFails(t)
    BY <1>18 DEF CmdFails, Lost, Carried, GoesOn
  <1>19. CASE CmdTimesOut(t)
    BY <1>19 DEF CmdTimesOut, Lost, Carried, GoesOn
  <1>20. CASE Cut(t)
    BY <1>20 DEF Cut
  <1>21. CASE Purge(t)
    BY <1>21 DEF Purge
  <1>22. CASE StrayEnds(t)
    BY <1>22 DEF StrayEnds
  <1> QED BY <1>1, <1>2, <1>3, <1>4, <1>5, <1>6, <1>7, <1>8, <1>9, <1>10, <1>11, <1>12, <1>13, <1>14, <1>15, <1>16, <1>17, <1>18, <1>19, <1>20, <1>21, <1>22
          DEF TaskStep, Work, Run, Receive

LEMMA InvStep == IInv /\ [Next]_vars => IInv'
  <1> SUFFICES ASSUME IInv, [Next]_vars PROVE RunInv'
    BY TypeStep DEF IInv
  <1>1. ASSUME NEW t \in Tasks, TaskStep(t) PROVE RunInv'
    <2> SUFFICES ASSUME NEW u \in Tasks PROVE TaskInv(u)'
      BY DEF RunInv
    <2>1. CASE u = t
      BY <1>1, <2>1, TaskInvStep
    <2>2. CASE u # t
      <3>1. TaskInv(u) /\ Others(t)
        BY <1>1, OthersStay DEF IInv, RunInv
      <3> QED BY <2>2, <3>1, Frame DEF Others
    <2> QED BY <2>1, <2>2
  <1>2. CASE Restart
    <2> SUFFICES ASSUME NEW u \in Tasks PROVE TaskInv(u)'
      BY DEF RunInv
    <2>1. at'[u] \in {"queue", "over", "none"} /\ (status[u] = "ready" => at'[u] = "queue")
      BY <1>2 DEF Restart, Final
    <2>2. TaskInv(u)
      BY DEF IInv, RunInv
    <2>3. OneOpen(u)'
      <3>1. at[u] = "cmd" => CmdOf(u, last[u]) = begun[u] /\ CmdOf(u, last[u]) \in 1..total[u]
        BY <2>2, CommandInRange DEF IInv, TaskInv
      <3>2. begun' = begun /\ ran' = ran /\ OneOpen(u)
        BY <1>2, <2>2 DEF Restart, TaskInv
      <3>3. stray'[u] = stray[u] \cup IF at[u] = "cmd" THEN {CmdOf(u, last[u])} ELSE {}
        BY <1>2 DEF Restart
      <3>4. stray'[u] \subseteq 1..begun[u]
        BY <3>1, <3>2, <3>3 DEF OneOpen
      <3> QED BY <3>2, <3>4 DEF OneOpen
    <2> QED BY <1>2, <2>1, <2>2, <2>3
            DEF Restart, TaskInv, WellLaidOut, InOrder, InCommandStep, CmdOf,
                SendsStep, Final, Prepared, dbVars, workerVars
  <1>3. CASE UNCHANGED vars
    BY <1>3, Frame DEF vars, dbVars, workerVars, cmdVars, IInv, RunInv
  <1> QED BY <1>1, <1>2, <1>3 DEF Next, TaskStep

-----------------------------------------------------------------------------
\* Type correctness: every variable stays within its type, so a step never
\* leaves the range its task function laid out, and a task has a place in the
\* core server exactly when it exists.
THEOREM RunTypeCorrect == Spec => []TypeOK
  <1>1. IInv => TypeOK
    BY DEF IInv
  <1> QED BY InitIInv, InvStep, <1>1, PTL DEF Spec

\* The order of the commands holds in every reachable state.
THEOREM CommandsInOrder == Spec => []RunInv
  <1>1. IInv => RunInv
    BY DEF IInv
  <1> QED BY InitIInv, InvStep, <1>1, PTL DEF Spec

\* Worker and database agree on the step: what a worker confirms, or carries
\* out, is the step of the task, whatever was cut, retried or restarted.
THEOREM StepsConfirmed == Spec => []StepAgrees
  <1>1. RunInv => StepAgrees
    BY DEF RunInv, TaskInv, StepAgrees
  <1> QED BY CommandsInOrder, <1>1, PTL

-----------------------------------------------------------------------------
\* The abstract phase of a task changes only with the task itself.
Phases == [t \in Tasks |-> PhaseOf(t)]

LEMMA PhaseChange ==
  ASSUME NEW t \in Tasks, Others(t)
  PROVE  Phases' = [Phases EXCEPT ![t] = PhaseOf(t)']
  BY DEF Phases, PhaseOf, Others

LEMMA PhaseStays ==
  ASSUME NEW t \in Tasks, Others(t), PhaseOf(t)' = PhaseOf(t)
  PROVE  Phases' = Phases
  <1>1. \A s \in Tasks : PhaseOf(s)' = PhaseOf(s)
    BY DEF PhaseOf, Others
  <1> QED BY <1>1, Zenon DEF Phases

LEMMA LifeInit == Init => Life!Init
  BY DEF Init, Life!Init, PhaseOf

\* Each step of a task is a step of its life, or no step of it.
LEMMA LifeTaskStep ==
  ASSUME IInv, IInv', NEW t \in Tasks, TaskStep(t)
  PROVE  Life!Next \/ UNCHANGED Life!vars
  <1>1. Phases' = [Phases EXCEPT ![t] = PhaseOf(t)']
    BY OthersStay, PhaseChange DEF IInv
  <1>2. Phases[t] = PhaseOf(t) /\ TaskInv(t) /\ TaskInv(t)'
    BY DEF Phases, IInv, RunInv
  <1> USE BoundsAssumption
      DEF IInv, TypeOK, TaskInv, GoTo, Answer, Handled, dbVars, workerVars, cmdVars, Final
  <1>3. ASSUME PhaseOf(t)' = PhaseOf(t), UNCHANGED <<total, begun, ran>> PROVE UNCHANGED Life!vars
    <2>1. Phases' = Phases
      BY <1>3, OthersStay, PhaseStays
    <2> QED BY <2>1, <1>3 DEF Life!vars, Phases
  <1>4. ASSUME UNCHANGED <<status, step, total, begun, ran>> PROVE UNCHANGED Life!vars
    BY <1>4, <1>3 DEF PhaseOf
  <1>5. CASE Submit(t)
    <2>1. Phases[t] = "none" /\ PhaseOf(t)' = "active"
      BY <1>2, <1>5 DEF Submit, PhaseOf
    <2>2. \E n \in 1..MaxCmds : total' = [total EXCEPT ![t] = n]
      <3>1. (IF kind'[t] \in Prepared THEN 1..MaxCmds ELSE {1}) \subseteq 1..MaxCmds
        OBVIOUS
      <3>2. \E n \in IF kind'[t] \in Prepared THEN 1..MaxCmds ELSE {1} :
              total' = [total EXCEPT ![t] = n]
        BY <1>5, Zenon DEF Submit
      <3> HIDE DEF TypeOK, IInv
      <3> QED BY <3>1, <3>2, Zenon
    <2>3. Life!Begin(t)
      BY <1>1, <2>1, <2>2, <1>5 DEF Submit, Life!Begin, Phases
    <2> QED BY <2>3 DEF Life!Next
  <1>6. ASSUME NEW c \in 1..begun[t], ran' = [ran EXCEPT ![t] = Later(ran[t], c)],
               UNCHANGED <<status, step, total, begun>>
        PROVE  Life!Next \/ UNCHANGED Life!vars
    <2>1. ran[t] \in {begun[t] - 1, begun[t]}
      BY <1>2 DEF OneOpen
    <2>2. PhaseOf(t)' = PhaseOf(t)
      BY <1>6 DEF PhaseOf
    <2>3. Phases' = Phases
      BY <2>2, OthersStay, PhaseStays
    <2>4. CASE Later(ran[t], c) = ran[t]
      BY <1>3, <1>6, <2>2, <2>4
    <2>5. CASE Later(ran[t], c) # ran[t]
      <3>1. ran[t] < begun[t] /\ Later(ran[t], c) = ran[t] + 1
        BY <2>1, <2>5 DEF Later
      <3>2. Life!CarryOut(t)
        BY <1>6, <2>3, <3>1 DEF Life!CarryOut, Phases
      <3> QED BY <3>2 DEF Life!Next
    <2> QED BY <2>4, <2>5
  <1>17. ASSUME at[t] = "cmd", Carried(t) \/ UNCHANGED ran,
                UNCHANGED <<status, step, total, begun>>
         PROVE  Life!Next \/ UNCHANGED Life!vars
    <2>1. /\ WellLaidOut(t) /\ InCommandStep(t) /\ last[t] = step[t]
          /\ begun[t] = CmdOf(t, step[t])
      BY <1>2, <1>17
    <2>2. CmdOf(t, last[t]) \in 1..begun[t]
      BY <2>1, CommandInRange
    <2>3. CASE Carried(t)
      BY <1>6, <1>17, <2>2, <2>3, Zenon DEF Carried
    <2>4. CASE UNCHANGED ran
      BY <1>4, <1>17, <2>4
    <2> QED BY <1>17, <2>3, <2>4
  <1>18. CASE ReceiveCmd(t)
    <2> DEFINE c == CmdOf(t, step[t])
    <2>1. /\ status[t] = "running" /\ WellLaidOut(t) /\ InCommandStep(t)
          /\ begun[t] \in {c - 1, c} /\ ran[t] \in {c - 1, c} /\ ran[t] \in {begun[t] - 1, begun[t]}
          /\ begun' = [begun EXCEPT ![t] = Later(begun[t], c)]
          /\ UNCHANGED <<status, step, total, ran>>
      BY <1>2, <1>18 DEF ReceiveCmd, InCommandStep, InOrder, OneOpen
    <2>2. c \in 1..total[t]
      BY <2>1, CommandInRange
    <2>3. PhaseOf(t) = "active" /\ PhaseOf(t)' = PhaseOf(t)
      BY <2>1 DEF PhaseOf, InCommandStep
    <2>4. Phases' = Phases
      BY <2>3, OthersStay, PhaseStays
    <2> HIDE DEF c
    <2>5. CASE begun[t] = c
      <3>1. UNCHANGED begun
        BY <2>1, <2>5 DEF Later
      <3> QED BY <1>3, <2>1, <2>3, <3>1
    <2>6. CASE begun[t] = c - 1
      <3>1. begun[t] = ran[t] /\ begun[t] < total[t] /\ Later(begun[t], c) = begun[t] + 1
        BY <2>1, <2>2, <2>6 DEF Later
      <3>3. Phases[t] = "active" /\ begun' = [begun EXCEPT ![t] = begun[t] + 1]
        BY <1>2, <2>1, <2>3, <3>1
      <3>2. Life!BeginCommand(t)
        BY <2>1, <2>4, <3>1, <3>3 DEF Life!BeginCommand, Phases
      <3> QED BY <3>2 DEF Life!Next
    <2> QED BY <2>1, <2>5, <2>6
  <1>7. CASE Finish(t)
    <2>1. /\ status[t] = "running" /\ WellLaidOut(t) /\ InOrder(t)
          /\ step[t] >= steps[t] - 1
          /\ begun[t] <= total[t] /\ OneOpen(t)
      BY <1>2, <1>7 DEF Finish
    <2>2. ran[t] = total[t] /\ step[t] >= 0
      BY <2>1 DEF WellLaidOut, InOrder, OneOpen, CmdOf
    <2>3. Phases[t] = "active" /\ PhaseOf(t)' = "succeeded"
      BY <1>2, <1>7, <2>1, <2>2 DEF Finish, PhaseOf
    <2>4. Life!Succeed(t)
      BY <1>1, <1>7, <2>2, <2>3 DEF Finish, Life!Succeed, Phases
    <2> QED BY <2>4 DEF Life!Next
  <1>8. CASE Undo(t)
    <2>1. status[t] = "running" /\ UNCHANGED <<status, total, begun, ran>>
      BY <1>2, <1>8 DEF Undo
    <2>2. CASE step[t] > 0
      <3>1. Phases[t] = "active" /\ PhaseOf(t)' = "undoing"
        BY <1>2, <1>8, <2>1, <2>2 DEF Undo, PhaseOf
      <3>2. Life!GiveUp(t)
        BY <1>1, <2>1, <3>1 DEF Life!GiveUp, Phases
      <3> QED BY <3>2 DEF Life!Next
    <2>3. CASE ~(step[t] > 0)
      BY <1>4, <1>8, <2>1, <2>3 DEF Undo
    <2> QED BY <2>2, <2>3
  <1>9. CASE Complete(t)
    <2>1. Phases[t] \in {"active", "undoing"} /\ PhaseOf(t)' = "failed"
      BY <1>2, <1>9 DEF Complete, PhaseOf
    <2>2. Life!Fail(t)
      BY <1>1, <1>9, <2>1 DEF Complete, Life!Fail, Phases
    <2> QED BY <2>2 DEF Life!Next
  <1>10. ASSUME UNCHANGED <<total, begun, ran>>, status[t] = "running", status'[t] = "running",
                step[t] >= 0, step'[t] >= 0
         PROVE  UNCHANGED Life!vars
    BY <1>3, <1>10 DEF PhaseOf
  <1>11. CASE StartTask(t)
    <2>1. PhaseOf(t)' = PhaseOf(t) /\ UNCHANGED <<total, begun, ran>>
      BY <1>11 DEF StartTask, PhaseOf
    <2> QED BY <1>3, <2>1
  <1>12. CASE ConfirmStep(t)
    <2>1. step[t] >= 0
      BY <1>2, <1>12 DEF ConfirmStep, InCommandStep
    <2> QED BY <1>10, <1>12, <2>1 DEF ConfirmStep
  <1>13. CASE Prepare(t)
    BY <1>2, <1>10, <1>13 DEF Prepare
  <1>14. CASE CmdOk(t) \/ CmdFails(t) \/ CmdTimesOut(t)
    BY <1>17, <1>14 DEF CmdOk, CmdFails, CmdTimesOut, Lost
  <1>15. CASE StrayEnds(t)
    <2>1. PICK c \in stray[t] : ran' = [ran EXCEPT ![t] = Later(ran[t], c)]
      BY <1>15 DEF StrayEnds
    <2>2. c \in 1..begun[t]
      BY <1>2, <2>1 DEF OneOpen
    <2> QED BY <1>6, <1>15, <2>1, <2>2 DEF StrayEnds
  <1>16. CASE \/ Take(t) \/ Rerun(t) \/ Refuse(t) \/ Throw(t) \/ Command(t)
              \/ RolledBack(t) \/ ReceiveStop(t) \/ ReceiveError(t) \/ Cut(t) \/ Purge(t)
    BY <1>4, <1>16 DEF Take, Rerun, Refuse, Throw, Command, RolledBack, ReceiveStop,
       ReceiveError, Cut, Purge
  <1> QED BY <1>5, <1>7, <1>8, <1>9, <1>11, <1>12, <1>13, <1>14, <1>15, <1>16, <1>18
          DEF TaskStep, Work, Run, Receive

\* The worker loop and /run implement the life of a task: commands are begun in
\* order, each after the one before it was carried out, a task that succeeded has
\* had all of them, and none is begun for a task that was given up, though the
\* one begun before may still take effect unseen, whatever is cut, retried,
\* expired or restarted and however late a transfer ends.
THEOREM ImplementsLife == Spec => LifeSpec
  <1>1. IInv /\ IInv' /\ [Next]_vars => [Life!Next]_Life!vars
    <2> SUFFICES ASSUME IInv, IInv', [Next]_vars PROVE Life!Next \/ UNCHANGED Life!vars
      OBVIOUS
    <2>1. ASSUME NEW t \in Tasks, TaskStep(t) PROVE Life!Next \/ UNCHANGED Life!vars
      BY <2>1, LifeTaskStep
    <2>2. CASE Restart
      BY <2>2 DEF Restart, Life!vars, PhaseOf, dbVars
    <2>3. CASE UNCHANGED vars
      BY <2>3 DEF vars, Life!vars, PhaseOf, dbVars, cmdVars
    <2> QED BY <2>1, <2>2, <2>3 DEF Next, TaskStep
  <1> QED BY InitIInv, InvStep, LifeInit, <1>1, PTL DEF Spec, LifeSpec, Life!Spec
=============================================================================
