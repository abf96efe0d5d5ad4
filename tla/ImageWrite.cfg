CONSTANTS
  Blank = Blank
  Data = {a, b}
  Blocks = 3
  MinDevice = 2
  MaxDevice = 3
  Jobs <- SmallJobs
SPECIFICATION Spec
INVARIANTS
  TypeOK
  VerifiedMeansStored
  SuccessMeansWhole
  GoodWriteSucceeds
CHECK_DEADLOCK FALSE
