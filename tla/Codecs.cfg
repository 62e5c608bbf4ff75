CONSTANTS
  Rank <- MCRank
  StorePaths <- MCStorePaths
  JsonNames <- MCJsonNames
  MaxPieces <- MCMaxPieces
SPECIFICATION Spec
INVARIANTS
  WrittenIsRead
  ReadKeepsAll
  Base32Exact
  StorePathsReadBack
  NarInfoReadBack
  LsAndCatFind
CHECK_DEADLOCK FALSE
