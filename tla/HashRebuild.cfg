SPECIFICATION RebuildSpec
CONSTANTS
  small = small
  large = large
  t1 = t1
  t2 = t2
  None = None
  RemoveReq = RemoveReq
  Purge = Purge
  Keys <- MCKeys
  Values <- MCValues
  Buckets <- MCBuckets
  Hash <- HashOf
  Size <- SizeOf
  FbpCapacity = 2
  FbpSection = 1
  ValidationCount = 3
  MaxCheckSize = 100
  MaxShift = 100
  Threads <- TwoThreads
  MaxTries = 1
  Allowance = 0
  Extras <- AllExtras
  Limits <- MCLimits
SYMMETRY Symmetry
CHECK_DEADLOCK FALSE
INVARIANTS FileIsSound CountsAgree SyncRecovers RebuildIsFaithful EveryRecordIsMet
PROPERTY ImplementsKVStore
