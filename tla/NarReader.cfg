CONSTANTS
  Strings <- MCStrings
  Bytes <- MCBytes
  Streams <- AllStreams
SPECIFICATION FairSpec
INVARIANTS
  TypeOK
  HandoffExclusive
  ContentMatchesHeader
  ParentsFirst
  SiblingsInOrder
PROPERTIES
  ImplementsCursor
  FuseIsFinal
  NextReturns
  UnusedReaderEnds
CHECK_DEADLOCK FALSE
