SPECIFICATION FairSpec
CONSTANTS
  t1 = t1
  t2 = t2
  t3 = t3
  Thread <- MCThread
  NPages = 7
  NUM_PAGE_SLOTS = 3
  HotCapacity = 1
  WarmCapacity = 1
  Buckets = 2
  Scenes <- DeadlockScenes
PROPERTY CallsReturn
CHECK_DEADLOCK FALSE
