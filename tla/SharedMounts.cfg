CONSTANTS
  a = a
  b = b
  Runs = {a, b}
  IsoFiles <- TwoIsos
  Large = {a}
  MaxStarts = 3
SPECIFICATION Spec
INVARIANTS
  TypeOK
  StacksEmptied
PROPERTY
  AloneIsRight
CHECK_DEADLOCK FALSE
