SPECIFICATION Spec
CONSTANTS
  t1 = t1
  t2 = t2
  t3 = t3
  Threads <- ThreeThreads
  Keys = {1, 3}
  NumSlots = 2
  Sizes <- TwoSizes
  Hash <- HashMod
SYMMETRY Symmetry
INVARIANTS BucketsAreCurrent BucketExclusion NoDeadlock
