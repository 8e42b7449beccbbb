---------------------------- MODULE MCTaskLocks ----------------------------
EXTENDS TaskLocks, TLC

CONSTANTS t1, t2, t3, r1, r2, u, p, g

MCTasks == {t1, t2, t3}
MCRecs1 == {r1}
MCRecs2 == {r1, r2}

\* Tasks are interchangeable, and so are records.
TaskSymmetry == Permutations(MCTasks)
=============================================================================
