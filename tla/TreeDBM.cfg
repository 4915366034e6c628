SPECIFICATION Spec
CONSTANTS
  MaxPageSize = 6
  MaxBranches = 2
  PageHeader = 1
  Key <- MCKey
  Size <- MCSize
  Limits <- MCLimits
INVARIANTS TreeIsSound CleanPagesAreSaved SearchFindsContent IteratorsAreExact
