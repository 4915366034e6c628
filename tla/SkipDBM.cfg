SPECIFICATION Spec
CONSTANTS
  a = a
  b = b
  Removing = Removing
  Keys <- MCKeys
  Values <- MCValues
  Shapes <- MCShapes
  Sources <- OneSource
  Limits <- MCLimits
  Reducers = {"none", "first", "second", "last"}
  MaxCached = 2
  SortMem = 2
INVARIANTS ContentIsPublished FileIsExact LookupsAreExact IteratorIsCurrent
