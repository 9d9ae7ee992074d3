SPECIFICATION Spec
CONSTANTS
  NPC = 8
  Vector <- MCVector
  Kinds <- MCKinds
  IrqStates <- MCQuietStates
  FiqWithAbort = FALSE
  AbortedKinds <- MCSingle
  VectorKinds <- MCKinds
  PsrModes = {"svc"}
  MaxMul = 2
INVARIANTS NothingLost NothingStray ResumeExact
PROPERTIES OrderSpec
