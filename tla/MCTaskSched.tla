---------------------------- MODULE MCTaskSched ----------------------------
EXTENDS TaskSched, TLC

CONSTANTS t1, t2, t3

MCTasks2 == {t1, t2}
MCTasks3 == {t1, t2, t3}
\* Tasks are interchangeable in every definition of TaskSched.
TaskSymmetry == Permutations(MCTasks3)
=============================================================================
