CONSTANTS
  Block = 4
  Half = 8
  Lengths <- MCLengths
  Chunks <- MCChunks
  Sizes = {1, 3}
  Limits = {3, 7}
  MaxCalls = 4
SPECIFICATION Spec
INVARIANTS
  PacketWhole
  ReadBack
CHECK_DEADLOCK FALSE
