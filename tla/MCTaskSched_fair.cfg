SPECIFICATION FairSpec
CONSTANTS
  t1 = t1
  t2 = t2
  t3 = t3
  NoTask = NoTask
  Tasks <- MCTasks2
  NumWorkers = 2
  RetryInit = 1
  RetryLater = {1}
CHECK_DEADLOCK FALSE
INVARIANT NeverAllAsleep
PROPERTIES PoolSpec NoneForgotten
