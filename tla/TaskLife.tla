------------------------------ MODULE TaskLife ------------------------------
(***************************************************************************)
(* What a client is promised about a background task (docs/system: "tasks  *)
(* are trackable background processes that run on the DataFed server for   *)
(* specific longer-running operations"): its external commands are begun   *)
(* one after the other, each when the one before it has been carried out,  *)
(* and it succeeds only when all of them were.  Once it is given up no     *)
(* further command is begun for it; the one that was begun may still take  *)
(* effect, even after the task has failed, since nothing recalls it.       *)
(***************************************************************************)
EXTENDS Naturals

CONSTANTS Tasks, MaxCmds

VARIABLES phase,  \* where the life of each task is
          total,  \* how many commands it takes
          begun,  \* how many of them, from the first, were begun
          done    \* how many of them, from the first, were carried out

vars == <<phase, total, begun, done>>

Init == /\ phase = [t \in Tasks |-> "none"]
        /\ total = [t \in Tasks |-> 0]
        /\ begun = [t \in Tasks |-> 0]
        /\ done = [t \in Tasks |-> 0]

Begin(t) == /\ phase[t] = "none"
            /\ phase' = [phase EXCEPT ![t] = "active"]
            /\ \E n \in 1..MaxCmds : total' = [total EXCEPT ![t] = n]
            /\ UNCHANGED <<begun, done>>

BeginCommand(t) == /\ phase[t] = "active"
                   /\ begun[t] = done[t]
                   /\ begun[t] < total[t]
                   /\ begun' = [begun EXCEPT ![t] = @ + 1]
                   /\ UNCHANGED <<phase, total, done>>

CarryOut(t) == /\ done[t] < begun[t]
               /\ done' = [done EXCEPT ![t] = @ + 1]
               /\ UNCHANGED <<phase, total, begun>>

Succeed(t) == /\ phase[t] = "active"
              /\ done[t] = total[t]
              /\ phase' = [phase EXCEPT ![t] = "succeeded"]
              /\ UNCHANGED <<total, begun, done>>

GiveUp(t) == /\ phase[t] = "active"
             /\ phase' = [phase EXCEPT ![t] = "undoing"]
             /\ UNCHANGED <<total, begun, done>>

Fail(t) == /\ phase[t] \in {"active", "undoing"}
           /\ phase' = [phase EXCEPT ![t] = "failed"]
           /\ UNCHANGED <<total, begun, done>>

Next == \E t \in Tasks : \/ Begin(t) \/ BeginCommand(t) \/ CarryOut(t)
                         \/ Succeed(t) \/ GiveUp(t) \/ Fail(t)

Spec == Init /\ [][Next]_vars
=============================================================================
