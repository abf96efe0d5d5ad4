CONSTANTS
  None = None
  Machines <- TheMachines
  MaxCylinder = 1
  EntriesPerFatSector = 2
  LoadLimit = 3
SPECIFICATION Spec
INVARIANTS
  TypeOK
  BootsWhatIsActive
PROPERTY
  BootsOrSays
CHECK_DEADLOCK FALSE
