SPECIFICATION Spec
CONSTANTS
  a = a
  b = b
  Removing = Removing
  Keys <- MCKeys
  Values <- MCValues
  Shapes <- MCShapes
  Sources <- OneSource
  Limits <- MergeLimits
  Reducers = {"none", "first", "second", "last"}
  MaxCached = 2
  SortMem = 2
PROPERTY MergedComeSecond
