SPECIFICATION Spec
CONSTANTS
  Image <- MCImage
  FactoryImage = "factory"
  NoImage = "none"
  Fails <- MCFails
INVARIANTS
  TypeOK
  BrokenNeverConfirmed
  RollbackImageKept
PROPERTIES
  BrokenLeavesAtReset
  BrokenImageLeaves
  KeepsTrustedImage
