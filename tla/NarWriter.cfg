CONSTANTS
  Strings <- MCStrings
  Bytes <- MCBytes
  Headers <- AllHeaders
  MaxHeaders = 4
  WritesFail = TRUE
SPECIFICATION FairSpec
INVARIANTS
  TypeOK
  CleanCloseIsArchive
  OutputAligned
PROPERTIES
  GoodHeadersAccepted
  ErrorIsFinal
  CloseReturnsAlways
  WriteHeaderReturnsAtFirst
  ClosedWriterEnds
CHECK_DEADLOCK FALSE
