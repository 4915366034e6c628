CONSTANTS
  t1 = t1
  t2 = t2
  t3 = t3
  Threads <- ThreeThreads
  INT32MAX = 4
  CountBound = 7
SPECIFICATION MCSpec
INVARIANTS WannabesAreCounted PlainCountIsExact
PROPERTIES ImplementsSharedLock WriterIsServed UpgradeReturns PlainImplementsSharedLock PlainSomebodyOwns
