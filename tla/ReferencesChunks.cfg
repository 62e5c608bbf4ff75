CONSTANTS
  Chars = {"a", "b", "/"}
  Alphabet = {"a", "b"}
  refLength = 3
  Candidates <- MCCandidates
  Chunks <- MCChunks
  MaxBytes = 7
SPECIFICATION Spec
INVARIANTS
  TypeOK
  HitsOccur
  DelimitedFound
CHECK_DEADLOCK FALSE
