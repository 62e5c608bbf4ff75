CONSTANTS
  Strings <- MCStrings
  Bytes <- MCBytes
  Streams <- BracketStreams
SPECIFICATION Spec
INVARIANT
  EndMeansAllRead
CHECK_DEADLOCK FALSE
