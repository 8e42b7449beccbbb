----------------------------- MODULE MCTaskRun -----------------------------
EXTENDS TaskRun, TLC

CONSTANTS t1, t2

MCTasks == {t1, t2}
Symmetry == Permutations(MCTasks)
=============================================================================
