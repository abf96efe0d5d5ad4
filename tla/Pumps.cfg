CONSTANTS
  NL = NL
  CR = CR
  Text = {1, 2}
  Capacity = 2
  Chunk = 2
  Scripts <- AllScripts
SPECIFICATION PumpsSpec
INVARIANTS
  AllForwarded
PROPERTY
  ChildIsHeard
CHECK_DEADLOCK FALSE
