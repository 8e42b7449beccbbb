------------------------------ MODULE TaskPool ------------------------------
(***************************************************************************)
(* What the task manager of the core server promises its callers           *)
(* (core/server/TaskMgr.hpp, ITaskMgr.hpp), without worker threads, idle   *)
(* list, mutexes or condition variables: tasks wait in one FIFO queue, at  *)
(* most one worker holds a task, a task that met a transient failure rests *)
(* and returns to the queue, and a task leaves only when the worker that   *)
(* holds it lets it go.                                                    *)
(***************************************************************************)
EXTENDS Naturals, Sequences, FiniteSets

CONSTANTS Tasks,     \* task identifiers
          Workers,   \* task worker threads
          NoTask     \* "holds no task"

VARIABLES queue,     \* submitted tasks nobody has taken
          held,      \* the task each worker processes
          resting,   \* tasks waiting for a retry
          left       \* tasks the manager has let go of

vars == <<queue, held, resting, left>>

InQueue == {queue[i] : i \in 1..Len(queue)}
Unknown == Tasks \ (InQueue \cup {held[w] : w \in Workers} \cup resting \cup left)

\* The lists of distinct members of S.
Lists(S) == {q \in UNION {[1..n -> S] : n \in 0..Cardinality(S)} :
               \A i, j \in DOMAIN q : q[i] = q[j] => i = j}

Init == /\ queue = <<>>
        /\ held = [w \in Workers |-> NoTask]
        /\ resting = {}
        /\ left = {}

Submit == \E q \in Lists(Unknown) :
            /\ queue' = queue \o q
            /\ UNCHANGED <<held, resting, left>>

Take(w) == /\ held[w] = NoTask
           /\ queue # <<>>
           /\ held' = [held EXCEPT ![w] = Head(queue)]
           /\ queue' = Tail(queue)
           /\ UNCHANGED <<resting, left>>

\* A worker lets a task go, and the tasks it unblocked are submitted with it.
Finish(w) == /\ held[w] # NoTask
             /\ \E q \in Lists(Unknown) : queue' = queue \o q
             /\ left' = left \cup {held[w]}
             /\ held' = [held EXCEPT ![w] = NoTask]
             /\ UNCHANGED resting

Postpone(w) == /\ held[w] # NoTask
               /\ resting' = resting \cup {held[w]}
               /\ held' = [held EXCEPT ![w] = NoTask]
               /\ UNCHANGED <<queue, left>>

Resume == \E q \in Lists(resting) :
            /\ queue' = queue \o q
            /\ resting' = resting \ {q[i] : i \in DOMAIN q}
            /\ UNCHANGED <<held, left>>

Next == \/ Submit \/ Resume
        \/ \E w \in Workers : Take(w) \/ Finish(w) \/ Postpone(w)

Spec == Init /\ [][Next]_vars
=============================================================================
