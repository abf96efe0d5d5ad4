CONSTANTS
  Jobs <- SmallJobs
  MinDevice = 2
  MaxDevice = 12
  PartitionStart = 1
  MaxFatFile = 3
  MaxRuns = 2
SPECIFICATION FairSpec
INVARIANTS
  TypeOK
  SuccessIsMedia
  GoodJobSucceeds
  MountsReleased
PROPERTIES
  NeverTouchUnprobed
  KeepsPromise
  Terminates
CHECK_DEADLOCK FALSE
