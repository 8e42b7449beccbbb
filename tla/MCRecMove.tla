----------------------------- MODULE MCRecMove -----------------------------
(* Instances of RecMove for TLC. *)
EXTENDS RecMove, TLC

CONSTANTS t1, t2, r1, r2, u, p, A, B

ManagesProject == {<<u, p>>}
Roomy == [a \in Places |-> 5]
\* Repository B has room for one record only.
OneInB == [a \in Places |-> IF a[2] = B THEN 1 ELSE 2]

\* The bound of the run of all tasks with all faults: two tasks of any kind with
\* one record, one with two, or two allocation changes with two as long as
\* nothing goes wrong.
Asked == {t \in Tasks : at[t] # "none"}
Smooth(t) == job[t].kind = "alloc_chg" /\ step[t] >= 0 /\ ~err[t] /\ at[t] # "undone"
Few == \/ Cardinality(Asked) + Cardinality(Recs \ unborn) <= 3
       \/ \A t \in Asked : Smooth(t)

Symmetry == Permutations(Tasks) \cup Permutations(Recs)
=============================================================================
