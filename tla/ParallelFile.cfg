\* Threads on one file, through memory mapping, positional access and the page cache.
SPECIFICATION Spec
CONSTANTS
  None = None
  t1 = t1
  t2 = t2
  Threads <- TwoThreads
  BlockSize = 2
  SlotCapacity = 2
  MaxSize = 6
  PageUnit = 2
  AllocInit = 2
  AllocInc = 120
  Lengths = {1, 3}
  Sizes = {0, 1, 4}
  Limits <- MCLimits
SYMMETRY Symmetry
CHECK_DEADLOCK FALSE
INVARIANTS ReservationsAreDisjoint AccessIsBacked ReadsAreExact FileIsSound
