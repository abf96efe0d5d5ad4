CONSTANTS
  win = win
  lin = lin
  None = None
  Isos = {win, lin}
  Drives = {d1, d2}
  KindOf <- Kinds
  Costly = {win}
  MaxPending = 2
SPECIFICATION FairSpec
INVARIANTS
  TypeOK
  OneWrite
  KindSettles
  SettledIsTruthful
PROPERTIES
  WriteIsReported
