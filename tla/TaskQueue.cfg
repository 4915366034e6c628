SPECIFICATION FairSpec
CONSTANTS
  w1 = w1
  w2 = w2
  Workers <- TwoWorkers
  MaxTasks = 3
  MayTimeOut = TRUE
CHECK_DEADLOCK FALSE
INVARIANTS TasksAreKept StoppedMeansDone
PROPERTY EveryTaskIsDone
