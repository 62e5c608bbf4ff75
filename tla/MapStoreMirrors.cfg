CONSTANTS
  Derivations <- Mirrored
  Hash <- NoHashes
SPECIFICATION Spec
PROPERTIES
  OverwriteIsSame
