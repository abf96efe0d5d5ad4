CONSTANTS
  Literals = 2
  InitWidth = 2
  Group = 4
  Byte = 2
  MaxClears = 1
  CodeBits = 4
  MaxWidths = {2, 3}
  Inputs <- SmallInputs
  Noise <- SmallNoise
SPECIFICATION LzwSpec
INVARIANTS
  LzwTypeOK
  RoundTrip
  ChainsEnd
CHECK_DEADLOCK FALSE
