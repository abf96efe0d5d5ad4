CONSTANTS
  Files <- AllFiles
  Cell = {1, 2, 3, 9}
  MaxRead = 2
  TrialCells = 2
  MaxEntries = 3
  None = None
SPECIFICATION Spec
INVARIANTS
  TypeOK
  MeasuredIsDelivered
PROPERTY
  DeliversImage
CHECK_DEADLOCK FALSE
