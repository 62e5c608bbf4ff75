CONSTANTS
  Strings <- MCStrings
  Bytes <- MCBytes
  Headers <- DottedHeaders
  MaxHeaders = 3
  WritesFail = FALSE
SPECIFICATION Spec
INVARIANT
  TreeHeadersAccepted
CHECK_DEADLOCK FALSE
