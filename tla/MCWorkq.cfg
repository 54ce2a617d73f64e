SPECIFICATION FairSpec
CONSTANTS
  h1 = h1
  h2 = h2
  h3 = h3
  w1 = w1
  w2 = w2
  w3 = w3
  NoTask = NoTask
  Threads <- MCThreads
  Tasks <- MCTasks
  wq_max = 2
  MayFail = TRUE
INVARIANTS TypeOK FreedUnreferenced RunningCounts
PROPERTIES QueuedTaskRuns DestroyReturns
CHECK_DEADLOCK FALSE
