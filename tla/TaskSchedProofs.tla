-------------------------- MODULE TaskSchedProofs --------------------------
(***************************************************************************)
(* Proofs about the task scheduler, for any number of workers and tasks:   *)
(* the idle list and the condition variables of TaskMgr.cpp never let      *)
(* every worker sleep while a task is queued; what the threads do under    *)
(* the two mutexes implements the pool of TaskPool; and no task is ever in *)
(* two places.                                                             *)
(***************************************************************************)
EXTENDS TaskSched, FiniteSetTheorems, SequenceTheorems, TLAPS

\* A list of distinct members of S is a sequence over S.
LEMMA ListsAreSeqs == ASSUME NEW S, NEW q \in Lists(S) PROVE q \in Seq(S)
  <1>1. PICK n \in 0..Cardinality(S) : q \in [1..n -> S]
    BY DEF Lists
  <1>2. n \in Nat
    OBVIOUS
  <1> QED BY <1>1, <1>2

LEMMA WorkerFacts == 1 \in Workers /\ NoWorker \notin Workers
  BY NumWorkersAssumption DEF Workers, NoWorker

\* Taking the front task keeps the types of what it touches.
LEMMA PopReadyType ==
  ASSUME TypeOK, ready # <<>>, NEW w \in Workers, PopReady(w)
  PROVE  /\ ready' \in Seq(Tasks)
         /\ task' \in [Workers -> Tasks \cup {NoTask}]
         /\ pc' \in [Workers -> {"seek", "waiting", "woken", "busy"}]
         /\ \A v \in Workers : pc'[v] = "busy" <=> task'[v] # NoTask
  <1>1. Head(ready) \in Tasks /\ Tail(ready) \in Seq(Tasks)
    BY DEF TypeOK
  <1>2. Head(ready) # NoTask
    BY <1>1, NoTaskAssumption
  <1> QED BY <1>1, <1>2 DEF PopReady, TypeOK

-----------------------------------------------------------------------------
\* Type correctness: every variable of the scheduler stays within its type, a
\* worker is busy exactly when it holds a task, and what the maintenance
\* thread saw as due is still in the retry map when it takes the mutexes.
THEOREM TypeCorrect == Spec => []TypeOK
  <1>1. Init => TypeOK
    <2> SUFFICES ASSUME Init PROVE TypeOK
      OBVIOUS
    <2>1. next \in [Workers -> Workers \cup {NoWorker}]
      BY NumWorkersAssumption DEF Init, Workers, NoWorker
    <2>2. /\ ready \in Seq(Tasks) /\ batch \in Seq(Tasks)
          /\ workerNext \in Workers
      BY WorkerFacts DEF Init
    <2> QED BY <2>1, <2>2 DEF Init, TypeOK
  <1>2. TypeOK /\ [Next]_vars => TypeOK'
    <2> SUFFICES ASSUME TypeOK, [Next]_vars PROVE TypeOK'
      OBVIOUS
    <2>1. CASE LoadReady
      <3>1. PICK q \in Lists(Fresh) : batch' = q
        BY <2>1 DEF LoadReady
      <3>2. batch' \in Seq(Tasks)
        BY <3>1, ListsAreSeqs DEF Fresh
      <3> QED BY <2>1, <3>2 DEF LoadReady, TypeOK, retryVars, maintVars
    <2>2. ASSUME NEW t \in Tasks, NewTask(t) PROVE TypeOK'
      BY <2>2 DEF NewTask, TypeOK, retryVars, maintVars
    <2>3. CASE AddTask
      <3>1. Head(batch) \in Tasks /\ Tail(batch) \in Seq(Tasks)
        BY <2>3 DEF AddTask, TypeOK
      <3>2. ready' \in Seq(Tasks) /\ batch' \in Seq(Tasks)
        BY <2>3, <3>1 DEF AddTask, TypeOK
      <3>3. /\ workerNext' \in Workers \cup {NoWorker}
            /\ run' \in [Workers -> BOOLEAN]
            /\ pc' \in [Workers -> {"seek", "waiting", "woken", "busy"}]
            /\ \A w \in Workers : pc'[w] = "busy" <=> task[w] # NoTask
        <4>1. CASE workerNext = NoWorker
          BY <2>3, <4>1 DEF AddTask, TypeOK
        <4>2. CASE workerNext # NoWorker
          <5>1. /\ workerNext' \in Workers \cup {NoWorker}
                /\ run' \in [Workers -> BOOLEAN]
            BY <2>3, <4>2 DEF AddTask, TypeOK
          <5>2. pc' = [pc EXCEPT ![workerNext] = IF @ = "waiting" THEN "woken" ELSE @]
            BY <2>3, <4>2 DEF AddTask
          <5> QED BY <4>2, <5>1, <5>2 DEF TypeOK
        <4> QED BY <4>1, <4>2
      <3> QED BY <2>3, <3>2, <3>3 DEF AddTask, TypeOK, retryVars, maintVars
    <2>4. ASSUME NEW w \in Workers, GetNextTask(w) PROVE TypeOK'
      <3>1. CASE TakeAtOnce(w)
        BY <3>1, PopReadyType DEF TakeAtOnce, TypeOK, retryVars, maintVars
      <3>2. CASE GoIdle(w)
        BY <3>2 DEF GoIdle, TypeOK, retryVars, maintVars
      <3>3. CASE TakeAfterWait(w)
        BY <3>3, PopReadyType DEF TakeAfterWait, TypeOK, retryVars, maintVars
      <3>4. CASE WaitAgain(w)
        BY <3>4 DEF WaitAgain, TypeOK, retryVars, maintVars
      <3> QED BY <2>4, <3>1, <3>2, <3>3, <3>4 DEF GetNextTask
    <2>5. ASSUME NEW w \in Workers, SpuriousWake(w) PROVE TypeOK'
      BY <2>5 DEF SpuriousWake, TypeOK, retryVars, maintVars
    <2>6. ASSUME NEW w \in Workers, EndTask(w) PROVE TypeOK'
      <3>1. CASE StopTask(w)
        <4>1. PICK q \in Lists(Fresh) : batch' = q
          BY <3>1 DEF StopTask
        <4>2. batch' \in Seq(Tasks)
          BY <4>1, ListsAreSeqs DEF Fresh
        <4> QED BY <3>1, <4>2 DEF StopTask, LetGo, TypeOK, maintVars
      <3>2. CASE RetryTask(w)
        <4>1. task[w] \in Tasks
          BY <3>2 DEF RetryTask, TypeOK
        <4>2. PICK d \in Nat \ {0} : delay' = [delay EXCEPT ![task[w]] = d]
          BY <3>2, DelayAssumption DEF RetryTask
        <4> QED BY <3>2, <4>1, <4>2, NoTaskAssumption DEF RetryTask, LetGo, TypeOK
      <3>3. CASE ExpireTask(w)
        BY <3>3 DEF ExpireTask, LetGo, TypeOK, maintVars
      <3> QED BY <2>6, <3>1, <3>2, <3>3 DEF EndTask
    <2>7. CASE TimePasses
      <3>1. delay' \in [Tasks -> Nat]
        BY <2>7 DEF TimePasses, TypeOK
      <3> QED BY <2>7, <3>1 DEF TimePasses, TypeOK, schedVars, maintVars
    <2>8. CASE MaintSleep
      BY <2>8 DEF MaintSleep, TypeOK, schedVars, retryVars
    <2>9. CASE MaintWake
      BY <2>9 DEF MaintWake, TypeOK, schedVars, retryVars, Due
    <2>10. CASE MaintPass
      <3>1. PICK q \in Lists(seen) : batch' = q
        BY <2>10 DEF MaintPass
      <3>2. batch' \in Seq(Tasks)
        BY <3>1, ListsAreSeqs DEF TypeOK
      <3> QED BY <2>10, <3>2 DEF MaintPass, TypeOK
    <2>11. CASE UNCHANGED vars
      BY <2>11 DEF TypeOK, vars, schedVars, retryVars, maintVars
    <2> QED BY <2>1, <2>2, <2>3, <2>4, <2>5, <2>6, <2>7, <2>8, <2>9, <2>10,
               <2>11 DEF Next
  <1> QED BY <1>1, <1>2, PTL DEF Spec

-----------------------------------------------------------------------------
\* NeverAllAsleep is not inductive: AddTask notifies nobody when the idle list
\* is empty.  IdleListNotLost says that somebody is awake then, and the two
\* together are inductive.
WakeInv == NeverAllAsleep /\ IdleListNotLost

LEMMA WakeInvStep == TypeOK /\ WakeInv /\ [Next]_vars => WakeInv'
  <1> SUFFICES ASSUME TypeOK, WakeInv, [Next]_vars PROVE WakeInv'
    OBVIOUS
  <1> USE DEF WakeInv, NeverAllAsleep, IdleListNotLost, OnItsWay
  <1>1. CASE LoadReady
    BY <1>1 DEF LoadReady
  <1>2. ASSUME NEW t \in Tasks, NewTask(t) PROVE WakeInv'
    BY <1>2 DEF NewTask
  <1>3. CASE AddTask
    <2>1. ready' # <<>>
      BY <1>3 DEF AddTask, TypeOK
    <2>2. \E w \in Workers : OnItsWay(w)'
      <3>1. CASE workerNext = NoWorker
        BY <1>3, <3>1 DEF AddTask
      <3>2. CASE workerNext # NoWorker
        <4>1. pc'[workerNext] # "waiting"
          BY <1>3, <3>2 DEF AddTask, TypeOK
        <4>2. run'[workerNext] /\ pc'[workerNext] \in {"seek", "woken", "busy"}
          BY <1>3, <3>2, <4>1 DEF AddTask, TypeOK
        <4> QED BY <4>2, <3>2 DEF TypeOK
      <3> QED BY <3>1, <3>2
    <2> QED BY <2>1, <2>2
  <1>4. ASSUME NEW w \in Workers, GetNextTask(w) PROVE WakeInv'
    <2>1. CASE TakeAtOnce(w)
      <3>1. pc'[w] = "busy"
        BY <2>1 DEF TakeAtOnce, PopReady, TypeOK
      <3> QED BY <3>1
    <2>2. CASE GoIdle(w)
      BY <2>2, WorkerFacts DEF GoIdle
    <2>3. CASE TakeAfterWait(w)
      <3>1. pc'[w] = "busy"
        BY <2>3 DEF TakeAfterWait, PopReady, TypeOK
      <3> QED BY <3>1
    <2>4. CASE WaitAgain(w)
      BY <2>4 DEF WaitAgain, TypeOK
    <2> QED BY <1>4, <2>1, <2>2, <2>3, <2>4 DEF GetNextTask
  <1>5. ASSUME NEW w \in Workers, SpuriousWake(w) PROVE WakeInv'
    BY <1>5 DEF SpuriousWake, TypeOK
  <1>6. ASSUME NEW w \in Workers, EndTask(w) PROVE WakeInv'
    <2>1. pc'[w] = "seek"
      BY <1>6 DEF EndTask, StopTask, RetryTask, ExpireTask, LetGo, TypeOK
    <2> QED BY <2>1
  <1>7. CASE TimePasses
    BY <1>7 DEF TimePasses, schedVars
  <1>8. CASE MaintSleep
    BY <1>8 DEF MaintSleep, schedVars
  <1>9. CASE MaintWake
    BY <1>9 DEF MaintWake, schedVars
  <1>10. CASE MaintPass
    BY <1>10 DEF MaintPass
  <1>11. CASE UNCHANGED vars
    BY <1>11 DEF vars, schedVars
  <1> QED BY <1>1, <1>2, <1>3, <1>4, <1>5, <1>6, <1>7, <1>8, <1>9, <1>10,
             <1>11 DEF Next

\* No lost wake-up: whatever order client workers, task workers and the
\* maintenance thread take the mutex in, and whatever has become of the idle
\* list, a queued task is never left to sleeping workers only.
THEOREM NoLostWakeup == Spec => []NeverAllAsleep
  <1>1. Init => WakeInv
    BY DEF Init, WakeInv, NeverAllAsleep, IdleListNotLost, NoWorker
  <1>2. TypeOK /\ WakeInv /\ [Next]_vars => WakeInv'
    BY WakeInvStep
  <1>3. WakeInv => NeverAllAsleep
    BY DEF WakeInv
  <1> QED BY <1>1, <1>2, <1>3, TypeCorrect, PTL DEF Spec

\* The head of the idle list is null only while there is work for a worker that
\* does not need it: the other half of the same invariant.
THEOREM IdleListKept == Spec => []IdleListNotLost
  <1>1. Init => WakeInv
    BY DEF Init, WakeInv, NeverAllAsleep, IdleListNotLost, NoWorker
  <1>2. TypeOK /\ WakeInv /\ [Next]_vars => WakeInv'
    BY WakeInvStep
  <1>3. WakeInv => IdleListNotLost
    BY DEF WakeInv
  <1> QED BY <1>1, <1>2, <1>3, TypeCorrect, PTL DEF Spec

-----------------------------------------------------------------------------
\* The refinement.  The tasks a holder of the mutex still has to add are already
\* queued, so every list a step hands to batch is one the pool may submit.

\* A list may grow by the members of a larger set.
LEMMA ListsGrow ==
  ASSUME NEW S, IsFiniteSet(S), NEW T \in SUBSET S, NEW q \in Lists(T)
  PROVE  q \in Lists(S)
  <1>1. PICK n \in 0..Cardinality(T) : q \in [1..n -> T]
    BY DEF Lists
  <1>2. Cardinality(T) \in Nat /\ Cardinality(S) \in Nat /\ Cardinality(T) <= Cardinality(S)
    BY FS_Subset, FS_CardinalityType
  <1>3. n \in 0..Cardinality(S) /\ q \in [1..n -> S]
    BY <1>1, <1>2
  <1> QED BY <1>3 DEF Lists

\* Nothing at all is a list.
LEMMA NoneIsList ==
  ASSUME NEW S, IsFiniteSet(S) PROVE <<>> \in Lists(S)
  <1>1. Cardinality(S) \in Nat
    BY FS_CardinalityType
  <1>2. 0 \in 0..Cardinality(S) /\ <<>> \in [1..0 -> S] /\ DOMAIN <<>> = 1..0
    BY <1>1
  <1> QED BY <1>2 DEF Lists

LEMMA SameLists == ASSUME NEW S PROVE Pool!Lists(S) = Lists(S)
  BY Zenon DEF Lists, Pool!Lists, Cardinality, Pool!Cardinality

\* The tasks the scheduler has not heard of are those the pool does not know.
LEMMA FreshIsUnknown ==
  ASSUME TypeOK, MutexFree
  PROVE  /\ Fresh = Pool!Unknown /\ IsFiniteSet(Fresh)
         /\ ready \o batch = ready
  <1>1. ready \o batch = ready
    BY DEF TypeOK, MutexFree
  <1>2. Elems(batch) = {}
    BY DEF MutexFree, Elems
  <1>3. Pool!InQueue = Elems(ready)
    BY <1>1 DEF Pool!InQueue, Elems
  <1>4. Fresh = Pool!Unknown
    BY <1>2, <1>3, NoTaskAssumption DEF Fresh, Held, Pool!Unknown
  <1>5. Fresh \in SUBSET Tasks
    BY DEF Fresh
  <1> QED BY <1>1, <1>4, <1>5, FS_Subset, TasksAssumption

\* Taking the front task of the queue is taking the front task of the pool.
LEMMA PopIsTake ==
  ASSUME TypeOK, MutexFree, NEW w \in Workers, pc[w] # "busy", ready # <<>>,
         batch' = batch, retry' = retry, left' = left, PopReady(w)
  PROVE  Pool!Take(w)
  <1>1. ready \o batch = ready /\ ready' \o batch' = Tail(ready)
    BY DEF TypeOK, MutexFree, PopReady
  <1>2. task[w] = NoTask
    BY DEF TypeOK
  <1> QED BY <1>1, <1>2 DEF Pool!Take, PopReady

\* Moving a task from the batch to the queue changes nothing for the pool.
LEMMA AddIsStutter ==
  ASSUME TypeOK, AddTask PROVE ready' \o batch' = ready \o batch
  <1>1. PICK a, b : a = ready /\ b = batch
    OBVIOUS
  <1>2. a \in Seq(Tasks) /\ b \in Seq(Tasks) /\ b # <<>>
    BY <1>1 DEF TypeOK, AddTask
  <1>3. Append(a, Head(b)) \o Tail(b) = a \o b
    <2>1. Head(b) \in Tasks /\ Tail(b) \in Seq(Tasks)
      BY <1>2
    <2>2. Append(a, Head(b)) = a \o <<Head(b)>>
      BY <1>2, <2>1, AppendIsConcat
    <2>3. (a \o <<Head(b)>>) \o Tail(b) = a \o (<<Head(b)>> \o Tail(b))
      BY <1>2, <2>1, ConcatAssociative
    <2>4. <<Head(b)>> \o Tail(b) = b
      BY <1>2, <2>1
    <2> QED BY <2>2, <2>3, <2>4
  <1> QED BY <1>1, <1>3 DEF AddTask

LEMMA PoolStep == TypeOK /\ [Next]_vars => [Pool!Next]_Pool!vars
  <1> SUFFICES ASSUME TypeOK, [Next]_vars PROVE Pool!Next \/ UNCHANGED Pool!vars
    OBVIOUS
  <1> USE DEF schedVars, retryVars, maintVars
  <1>1. ASSUME NEW q \in Lists(Fresh), MutexFree, batch' = q, UNCHANGED ready
        PROVE  /\ q \in Pool!Lists(Pool!Unknown)
               /\ ready' \o batch' = (ready \o batch) \o q
    <2>1. q \in Pool!Lists(Pool!Unknown)
      BY <1>1, FreshIsUnknown, SameLists
    <2> QED BY <1>1, <2>1, FreshIsUnknown
  <1>2. CASE LoadReady
    <2>1. PICK q \in Lists(Fresh) : batch' = q
      BY <1>2 DEF LoadReady
    <2>2. Pool!Submit
      BY <1>1, <1>2, <2>1 DEF LoadReady, Pool!Submit
    <2> QED BY <2>2 DEF Pool!Next
  <1>3. ASSUME NEW t \in Tasks, NewTask(t) PROVE Pool!Next
    <2>1. <<t>> \in Lists(Fresh)
      <3>1. IsFiniteSet(Fresh) /\ Fresh # {}
        BY <1>3, FreshIsUnknown DEF NewTask
      <3>2. Cardinality(Fresh) \in Nat /\ Cardinality(Fresh) # 0
        BY <3>1, FS_CardinalityType, FS_EmptySet
      <3>3. 1 \in 0..Cardinality(Fresh) /\ <<t>> \in [1..1 -> Fresh]
        BY <1>3, <3>2 DEF NewTask
      <3> QED BY <3>3 DEF Lists
    <2>2. Pool!Submit
      BY <1>1, <1>3, <2>1 DEF NewTask, Pool!Submit
    <2> QED BY <2>2 DEF Pool!Next
  <1>4. CASE AddTask
    BY <1>4, AddIsStutter DEF AddTask, Pool!vars
  <1>5. ASSUME NEW w \in Workers, GetNextTask(w) PROVE Pool!Next \/ UNCHANGED Pool!vars
    <2>1. CASE TakeAtOnce(w)
      BY <2>1, PopIsTake DEF TakeAtOnce, Pool!Next
    <2>2. CASE TakeAfterWait(w)
      BY <2>2, PopIsTake DEF TakeAfterWait, Pool!Next
    <2>3. CASE GoIdle(w) \/ WaitAgain(w)
      BY <2>3 DEF GoIdle, WaitAgain, Pool!vars
    <2> QED BY <1>5, <2>1, <2>2, <2>3 DEF GetNextTask
  <1>6. ASSUME NEW w \in Workers, SpuriousWake(w) PROVE UNCHANGED Pool!vars
    BY <1>6 DEF SpuriousWake, Pool!vars
  <1>7. ASSUME NEW w \in Workers, EndTask(w) PROVE Pool!Next
    <2>1. CASE StopTask(w)
      <3>1. PICK q \in Lists(Fresh) : batch' = q
        BY <2>1 DEF StopTask
      <3>2. task[w] # NoTask
        BY <2>1 DEF StopTask, TypeOK
      <3>3. Pool!Finish(w)
        BY <1>1, <2>1, <3>1, <3>2 DEF StopTask, LetGo, Pool!Finish
      <3> QED BY <3>3 DEF Pool!Next
    <2>2. CASE RetryTask(w)
      <3>1. Pool!Postpone(w)
        BY <2>2 DEF RetryTask, LetGo, TypeOK, Pool!Postpone
      <3> QED BY <3>1 DEF Pool!Next
    <2>3. CASE ExpireTask(w)
      <3>1. Pool!Unknown \in SUBSET Tasks
        BY DEF Pool!Unknown
      <3>2. <<>> \in Pool!Lists(Pool!Unknown)
        <4>1. IsFiniteSet(Pool!Unknown)
          BY <3>1, FS_Subset, TasksAssumption
        <4> QED BY <4>1, NoneIsList, SameLists
      <3>3. (ready \o batch) \in Seq(Tasks)
        BY DEF TypeOK
      <3>4. ready' \o batch' = (ready \o batch) \o <<>>
        BY <2>3, <3>3 DEF ExpireTask
      <3>5. Pool!Finish(w)
        BY <2>3, <3>2, <3>4 DEF ExpireTask, LetGo, TypeOK, Pool!Finish
      <3> QED BY <3>5 DEF Pool!Next
    <2> QED BY <1>7, <2>1, <2>2, <2>3 DEF EndTask
  <1>8. CASE TimePasses \/ MaintSleep \/ MaintWake
    BY <1>8 DEF TimePasses, MaintSleep, MaintWake, Pool!vars
  <1>9. CASE MaintPass
    <2>1. PICK q \in Lists(seen) : Elems(q) = seen /\ batch' = q
      BY <1>9 DEF MaintPass
    <2>2. q \in Lists(retry)
      BY <2>1, ListsGrow, FS_Subset, TasksAssumption DEF TypeOK
    <2>3. DOMAIN q = 1..Len(q)
      BY ListsAreSeqs
    <2>4. {q[i] : i \in DOMAIN q} = seen
      BY <2>1, <2>3 DEF Elems
    <2>5. ready' \o batch' = (ready \o batch) \o q
      BY <1>9, <2>1 DEF MaintPass, MutexFree, TypeOK
    <2>6. Pool!Resume
      <3>1. q \in Pool!Lists(retry)
      BY <2>2, SameLists
    <3> QED BY <1>9, <2>4, <2>5, <3>1 DEF MaintPass, Pool!Resume
    <2> QED BY <2>6 DEF Pool!Next
  <1>10. CASE UNCHANGED vars
    BY <1>10 DEF vars, Pool!vars
  <1> QED BY <1>2, <1>3, <1>4, <1>5, <1>6, <1>7, <1>8, <1>9, <1>10 DEF Next

\* The scheduler implements the pool: with its threads, its idle list, its two
\* mutexes and its clock it does nothing but submit, take, let go, postpone and
\* resume tasks, in the order of one queue.
THEOREM SchedulerIsPool == Spec => PoolSpec
  <1>1. Init => Pool!Init
    BY DEF Init, Pool!Init
  <1>2. TypeOK /\ [Next]_vars => [Pool!Next]_Pool!vars
    BY PoolStep
  <1> QED BY <1>1, <1>2, TypeCorrect, PTL DEF Spec, PoolSpec, Pool!Spec

-----------------------------------------------------------------------------
\* One place for a task: it is queued once, held by one worker, postponed, or
\* gone, and never two of these.
Queued == ready \o batch
OnePlace ==
  /\ \A i, j \in DOMAIN Queued : Queued[i] = Queued[j] => i = j
  /\ \A v, w \in Workers : task[v] = task[w] /\ task[v] # NoTask => v = w
  /\ Elems(Queued) \cap Held = {} /\ Elems(Queued) \cap retry = {}
  /\ Elems(Queued) \cap left = {} /\ Held \cap retry = {}
  /\ Held \cap left = {} /\ retry \cap left = {}

\* Queueing a list of new tasks behind the others.
LEMMA QueueGrows ==
  ASSUME NEW q \in Seq(Tasks), NEW S \in SUBSET Tasks, NEW r \in Lists(S),
         \A i, j \in DOMAIN q : q[i] = q[j] => i = j, Elems(q) \cap S = {}
  PROVE  /\ \A i, j \in DOMAIN (q \o r) : (q \o r)[i] = (q \o r)[j] => i = j
         /\ Elems(q \o r) = Elems(q) \cup {r[i] : i \in DOMAIN r}
         /\ {r[i] : i \in DOMAIN r} \subseteq S
  <1>1. r \in Seq(S) /\ \A i, j \in DOMAIN r : r[i] = r[j] => i = j
    BY ListsAreSeqs DEF Lists
  <1>2. r \in Seq(Tasks) /\ {r[i] : i \in DOMAIN r} \subseteq S
    BY <1>1
  <1>3. /\ DOMAIN q = 1..Len(q) /\ DOMAIN r = 1..Len(r)
        /\ Len(q) \in Nat /\ Len(r) \in Nat
        /\ DOMAIN (q \o r) = 1..(Len(q) + Len(r))
        /\ Len(q \o r) = Len(q) + Len(r)
    BY <1>2
  <1>4. \A i \in 1..(Len(q) + Len(r)) :
          (q \o r)[i] = IF i <= Len(q) THEN q[i] ELSE r[i - Len(q)]
    BY <1>2, ConcatProperties
  <1>5. \A i \in 1..Len(q), j \in 1..Len(r) : q[i] # r[j]
    BY <1>2, <1>3 DEF Elems
  <1>6. \A i, j \in DOMAIN (q \o r) : (q \o r)[i] = (q \o r)[j] => i = j
    <2> SUFFICES ASSUME NEW i \in 1..(Len(q) + Len(r)), NEW j \in 1..(Len(q) + Len(r)),
                        (q \o r)[i] = (q \o r)[j]
                 PROVE  i = j
      BY <1>3
    <2>1. CASE i <= Len(q) /\ j <= Len(q)
      BY <1>3, <1>4, <2>1
    <2>2. CASE ~(i <= Len(q)) /\ ~(j <= Len(q))
      <3>1. i - Len(q) \in 1..Len(r) /\ j - Len(q) \in 1..Len(r)
        BY <1>3, <2>2
      <3>2. r[i - Len(q)] = r[j - Len(q)]
        BY <1>4, <2>2
      <3>3. i - Len(q) = j - Len(q)
        BY <1>1, <1>3, <3>1, <3>2
      <3> QED BY <1>3, <3>3
    <2>3. CASE i <= Len(q) /\ ~(j <= Len(q))
      <3>1. i \in 1..Len(q) /\ j - Len(q) \in 1..Len(r)
        BY <1>3, <2>3
      <3> QED BY <1>4, <1>5, <2>3, <3>1
    <2>4. CASE ~(i <= Len(q)) /\ j <= Len(q)
      <3>1. j \in 1..Len(q) /\ i - Len(q) \in 1..Len(r)
        BY <1>3, <2>4
      <3> QED BY <1>4, <1>5, <2>4, <3>1
    <2> QED BY <2>1, <2>2, <2>3, <2>4
  <1>7. \A x : x \in Elems(q \o r) <=> x \in Elems(q) \/ \E i \in DOMAIN r : x = r[i]
    <2> SUFFICES ASSUME NEW x
                 PROVE  x \in Elems(q \o r) <=> x \in Elems(q) \/ \E i \in DOMAIN r : x = r[i]
      OBVIOUS
    <2>1. ASSUME x \in Elems(q \o r)
          PROVE  x \in Elems(q) \/ \E i \in DOMAIN r : x = r[i]
      <3>1. PICK i \in 1..(Len(q) + Len(r)) : x = (q \o r)[i]
        BY <1>3, <2>1 DEF Elems
      <3>2. CASE i <= Len(q)
        <4>1. i \in 1..Len(q) /\ x = q[i]
          BY <1>3, <1>4, <3>1, <3>2
        <4> QED BY <4>1 DEF Elems
      <3>3. CASE ~(i <= Len(q))
        <4>1. i - Len(q) \in 1..Len(r)
          BY <1>3, <3>3
        <4> QED BY <1>3, <1>4, <3>1, <3>3, <4>1
      <3> QED BY <3>2, <3>3
    <2>2. ASSUME x \in Elems(q) PROVE x \in Elems(q \o r)
      <3>1. PICK i \in 1..Len(q) : x = q[i]
        BY <2>2 DEF Elems
      <3>2. i \in 1..(Len(q) + Len(r)) /\ i <= Len(q)
        BY <1>3
      <3> QED BY <1>3, <1>4, <3>1, <3>2 DEF Elems
    <2>3. ASSUME NEW i \in DOMAIN r, x = r[i] PROVE x \in Elems(q \o r)
      <3>1. /\ i + Len(q) \in 1..(Len(q) + Len(r)) /\ ~(i + Len(q) <= Len(q))
            /\ (i + Len(q)) - Len(q) = i
        BY <1>3
      <3>2. (q \o r)[i + Len(q)] = x
        BY <1>4, <2>3, <3>1
      <3> QED BY <1>3, <3>1, <3>2 DEF Elems
    <2> QED BY <2>1, <2>2, <2>3
  <1> QED BY <1>2, <1>6, <1>7

LEMMA OnePlaceStep ==
  ASSUME TypeOK, TypeOK', OnePlace, [Pool!Next]_Pool!vars
  PROVE  OnePlace'
  <1> DEFINE New == Tasks \ (Elems(Queued) \cup Held \cup retry \cup left)
  <1>1. Queued \in Seq(Tasks) /\ Queued' \in Seq(Tasks)
    BY DEF TypeOK, Queued
  <1>2. Pool!InQueue = Elems(Queued) /\ Pool!Unknown = New
    BY NoTaskAssumption DEF Pool!InQueue, Pool!Unknown, Elems, Queued, Held
  <1>3. /\ New \in SUBSET Tasks /\ Elems(Queued) \cap New = {}
        /\ New \cap (Held \cup retry \cup left) = {}
    OBVIOUS
  <1> HIDE DEF New
  <1>4. \A S : \A q \in Pool!Lists(S) : q \in Lists(S)
    BY SameLists
  <1>5. CASE Pool!Submit
    <2>1. PICK q \in Lists(New) : Queued' = Queued \o q
      BY <1>2, <1>4, <1>5 DEF Pool!Submit, Queued
    <2>2. UNCHANGED <<task, retry, left>> /\ Held' = Held
      BY <1>5 DEF Pool!Submit, Held
    <2>3. /\ \A i, j \in DOMAIN Queued' : Queued'[i] = Queued'[j] => i = j
          /\ Elems(Queued') = Elems(Queued) \cup {q[i] : i \in DOMAIN q}
          /\ {q[i] : i \in DOMAIN q} \subseteq New
      <3>1. \A i, j \in DOMAIN Queued : Queued[i] = Queued[j] => i = j
        BY DEF OnePlace
      <3>2. /\ \A i, j \in DOMAIN (Queued \o q) : (Queued \o q)[i] = (Queued \o q)[j] => i = j
            /\ Elems(Queued \o q) = Elems(Queued) \cup {q[i] : i \in DOMAIN q}
            /\ {q[i] : i \in DOMAIN q} \subseteq New
        BY <1>1, <1>3, <3>1, QueueGrows
      <3> QED BY <2>1, <3>2
    <2> QED BY <1>3, <2>2, <2>3 DEF OnePlace
  <1>6. CASE Pool!Resume
    <2>1. PICK q \in Lists(retry) : /\ Queued' = Queued \o q
                                    /\ retry' = retry \ {q[i] : i \in DOMAIN q}
      BY <1>4, <1>6 DEF Pool!Resume, Queued
    <2>2. UNCHANGED <<task, left>> /\ Held' = Held
      BY <1>6 DEF Pool!Resume, Held
    <2>3. /\ \A i, j \in DOMAIN Queued' : Queued'[i] = Queued'[j] => i = j
          /\ Elems(Queued') = Elems(Queued) \cup {q[i] : i \in DOMAIN q}
          /\ {q[i] : i \in DOMAIN q} \subseteq retry
      <3>1. /\ \A i, j \in DOMAIN Queued : Queued[i] = Queued[j] => i = j
            /\ retry \in SUBSET Tasks /\ Elems(Queued) \cap retry = {}
        BY DEF TypeOK, OnePlace
      <3>2. /\ \A i, j \in DOMAIN (Queued \o q) : (Queued \o q)[i] = (Queued \o q)[j] => i = j
            /\ Elems(Queued \o q) = Elems(Queued) \cup {q[i] : i \in DOMAIN q}
            /\ {q[i] : i \in DOMAIN q} \subseteq retry
        BY <1>1, <3>1, QueueGrows
      <3> QED BY <2>1, <3>2
    <2> QED BY <2>1, <2>2, <2>3 DEF OnePlace
  <1>7. ASSUME NEW w \in Workers, Pool!Take(w) PROVE OnePlace'
    <2>1. /\ task[w] = NoTask /\ Queued # <<>> /\ Queued' = Tail(Queued)
          /\ task' = [task EXCEPT ![w] = Head(Queued)] /\ UNCHANGED <<retry, left>>
      BY <1>7 DEF Pool!Take, Queued
    <2>2. /\ Head(Queued) \in Elems(Queued) /\ Head(Queued) \in Tasks
          /\ Elems(Queued') = Elems(Queued) \ {Head(Queued)}
          /\ \A i, j \in DOMAIN Queued' : Queued'[i] = Queued'[j] => i = j
      <3> DEFINE q == Queued
      <3>1. q \in Seq(Tasks) /\ q # <<>> /\ \A i, j \in DOMAIN q : q[i] = q[j] => i = j
        BY <1>1, <2>1 DEF OnePlace
      <3> HIDE DEF q
      <3>2. /\ Len(q) \in Nat /\ Len(q) >= 1 /\ DOMAIN q = 1..Len(q) /\ Head(q) = q[1]
            /\ Tail(q) \in Seq(Tasks) /\ DOMAIN Tail(q) = 1..(Len(q) - 1)
            /\ Len(Tail(q)) = Len(q) - 1
            /\ \A i \in 1..(Len(q) - 1) : Tail(q)[i] = q[i + 1]
        BY <3>1
      <3>3. \A i, j \in DOMAIN Tail(q) : Tail(q)[i] = Tail(q)[j] => i = j
        <4> SUFFICES ASSUME NEW i \in 1..(Len(q) - 1), NEW j \in 1..(Len(q) - 1),
                            Tail(q)[i] = Tail(q)[j]
                     PROVE  i = j
          BY <3>2
        <4>1. i + 1 \in 1..Len(q) /\ j + 1 \in 1..Len(q) /\ q[i + 1] = q[j + 1]
          BY <3>2
        <4>2. i + 1 = j + 1
          BY <3>1, <3>2, <4>1
        <4> QED BY <4>2
      <3>4. Head(q) \in Elems(q) /\ Head(q) \in Tasks
        <4>1. 1 \in 1..Len(q) /\ q[1] \in Tasks
          BY <3>1, <3>2
        <4> QED BY <3>2, <4>1 DEF Elems
      <3>5. ASSUME NEW x \in Elems(Tail(q)) PROVE x \in Elems(q) /\ x # Head(q)
        <4>1. PICK i \in 1..(Len(q) - 1) : x = q[i + 1]
          BY <3>2, <3>5 DEF Elems
        <4>2. i + 1 \in 1..Len(q) /\ 1 \in 1..Len(q) /\ i + 1 # 1
          BY <3>2
        <4>3. q[i + 1] # q[1]
          BY <3>1, <3>2, <4>2
        <4> QED BY <3>2, <4>1, <4>2, <4>3 DEF Elems
      <3>6. ASSUME NEW x \in Elems(q), x # Head(q) PROVE x \in Elems(Tail(q))
        <4>1. PICK i \in 1..Len(q) : x = q[i]
          BY <3>6 DEF Elems
        <4>2. i # 1
          BY <3>2, <3>6, <4>1
        <4>3. i - 1 \in 1..(Len(q) - 1) /\ (i - 1) + 1 = i
          BY <3>2, <4>2
        <4>4. x = Tail(q)[i - 1]
          BY <3>2, <4>1, <4>3
        <4> QED BY <3>2, <4>3, <4>4 DEF Elems
      <3>7. Elems(Tail(q)) = Elems(q) \ {Head(q)}
        BY <3>5, <3>6
      <3>8. Queued' = Tail(q)
        BY <2>1 DEF q
      <3> QED BY <3>3, <3>4, <3>7, <3>8 DEF q
    <2>3. task'[w] = Head(Queued) /\ \A v \in Workers \ {w} : task'[v] = task[v]
      BY <2>1 DEF TypeOK
    <2>4. Held' \subseteq Held \cup {Head(Queued)}
      BY <2>3 DEF Held
    <2>5. \A v \in Workers : task[v] # NoTask => task[v] # Head(Queued)
      BY <2>2 DEF OnePlace, Held
    <2>6. \A u, v \in Workers : task'[u] = task'[v] /\ task'[u] # NoTask => u = v
      BY <2>2, <2>3, <2>5, NoTaskAssumption DEF OnePlace
    <2> QED BY <2>1, <2>2, <2>4, <2>6 DEF OnePlace
  <1>8. ASSUME NEW w \in Workers, Pool!Finish(w) \/ Pool!Postpone(w) PROVE OnePlace'
    <2>1. /\ task[w] # NoTask /\ task[w] \in Held
          /\ task' = [task EXCEPT ![w] = NoTask]
      BY <1>8 DEF Pool!Finish, Pool!Postpone, Held
    <2>2. task'[w] = NoTask /\ \A v \in Workers \ {w} : task'[v] = task[v]
      BY <2>1 DEF TypeOK
    <2>3. Held' \subseteq Held \ {task[w]}
      BY <2>1, <2>2 DEF Held, OnePlace
    <2>4. \A u, v \in Workers : task'[u] = task'[v] /\ task'[u] # NoTask => u = v
      BY <2>2 DEF OnePlace
    <2>5. CASE Pool!Finish(w)
      <3>1. PICK q \in Lists(New) : Queued' = Queued \o q
        BY <1>2, <1>4, <2>5 DEF Pool!Finish, Queued
      <3>2. retry' = retry /\ left' = left \cup {task[w]}
        BY <2>5 DEF Pool!Finish
      <3>3. /\ \A i, j \in DOMAIN Queued' : Queued'[i] = Queued'[j] => i = j
            /\ Elems(Queued') = Elems(Queued) \cup {q[i] : i \in DOMAIN q}
            /\ {q[i] : i \in DOMAIN q} \subseteq New
        <4>1. \A i, j \in DOMAIN Queued : Queued[i] = Queued[j] => i = j
          BY DEF OnePlace
        <4>2. /\ \A i, j \in DOMAIN (Queued \o q) : (Queued \o q)[i] = (Queued \o q)[j] => i = j
              /\ Elems(Queued \o q) = Elems(Queued) \cup {q[i] : i \in DOMAIN q}
              /\ {q[i] : i \in DOMAIN q} \subseteq New
          BY <1>1, <1>3, <4>1, QueueGrows
        <4> QED BY <3>1, <4>2
      <3> QED BY <1>3, <2>1, <2>3, <2>4, <3>2, <3>3 DEF OnePlace
    <2>6. CASE Pool!Postpone(w)
      <3>1. Queued' = Queued /\ left' = left /\ retry' = retry \cup {task[w]}
        BY <2>6 DEF Pool!Postpone, Queued
      <3> QED BY <2>1, <2>3, <2>4, <3>1 DEF OnePlace
    <2> QED BY <1>8, <2>5, <2>6
  <1>9. CASE UNCHANGED Pool!vars
    BY <1>9 DEF Pool!vars, OnePlace, Queued, Held
  <1> QED BY <1>5, <1>6, <1>7, <1>8, <1>9 DEF Pool!Next

\* One worker for a task: however often a task is postponed and resumed, it is
\* never queued twice, never held by two workers, and never queued, held or
\* postponed again once the manager has let go of it.
THEOREM TaskInOnePlace == Spec => []OnePlace
  <1>1. Init => OnePlace
    BY NoTaskAssumption DEF Init, OnePlace, Queued, Held, Elems
  <1>2. TypeOK /\ TypeOK' /\ OnePlace /\ [Next]_vars => OnePlace'
    BY PoolStep, OnePlaceStep
  <1> QED BY <1>1, <1>2, TypeCorrect, PTL DEF Spec
=============================================================================
