SPECIFICATION Spec
CONSTANTS
  T1 = t1
  Threads = {t1, t2}
  None = None
  Keys = {0, 1, 2, 4, 6}
  Values = {1, 2, 3}
  NumSlots = 2
  Cells = {1, 2, 3, 4}
  BucketFootprint = 1
  RecordFootprint = 2
  ShortValue = 2
  Limits <- MCLimits
CHECK_DEADLOCK FALSE
INVARIANTS SlotsAreSound EveryRecordIsMet
PROPERTIES ImplementsLRUStore CallsReturn
