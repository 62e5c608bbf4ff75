CONSTANTS
  Derivations <- SuiteDerivations
  Hash <- SuiteHashes
  w1 = w1
  Workers = {w1}
SPECIFICATION Spec
PROPERTIES
  GoodPassesChecks
