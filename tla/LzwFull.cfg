CONSTANTS
  Literals = 2
  InitWidth = 2
  Group = 4
  Byte = 2
  MaxClears = 1
  CodeBits = 3
  MaxWidths = {3}
  Inputs <- FillingInputs
  Noise <- NoNoise
SPECIFICATION LzwSpec
INVARIANT
  RoundTrip
CHECK_DEADLOCK FALSE
