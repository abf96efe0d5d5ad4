CONSTANTS
  A = A
  B = B
  X = X
  sdb = sdb
  sdc = sdc
  None = None
  Images <- AllImages
  Disks = {A, B, X}
  DiskKind <- TheDisks
  Names = {sdb, sdc}
  Requests <- Invocations
SPECIFICATION Spec
INVARIANTS
  TypeOK
  WindowsNeverRaw
  NtfsIsAnnounced
  AgreedDiskOnly
CHECK_DEADLOCK FALSE
