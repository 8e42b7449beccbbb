SPECIFICATION FairSpec
CONSTANTS
  t1 = t1
  t2 = t2
  Tasks = {t1}
  MaxCmds = 3
  MaxFaults = 6
CHECK_DEADLOCK FALSE
INVARIANT StepAgrees
PROPERTIES LifeSpec TaskEnds
