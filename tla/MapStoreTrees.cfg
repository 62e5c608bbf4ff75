CONSTANTS
  Derivations <- TreeDerivations
  Hash <- TreeHashes
SPECIFICATION Spec
INVARIANTS
  TypeOK
  ReplacementsComplete
  GoodAccepted
PROPERTIES
  ImplementsStore
