CONSTANTS
  Derivations <- TreeDerivations
  Hash <- TreeHashes
  w1 = w1
  w2 = w2
  Workers = {w1, w2}
SPECIFICATION Spec
SYMMETRY Symmetry
INVARIANTS
  TypeOK
  KeysTogether
  AcknowledgedStays
PROPERTIES
  ImplementsStore
