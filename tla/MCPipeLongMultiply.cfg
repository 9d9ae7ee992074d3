SPECIFICATION Spec
CONSTANTS
  NPC = 8
  Vector <- MCVector
  Kinds = {"alu", "msr", "mull"}
  IrqStates <- MCAllStates
  FiqWithAbort = FALSE
  AbortedKinds = {}
  VectorKinds = {"alu", "msr", "mull"}
  PsrModes = {"svc"}
  MaxMul = 2
INVARIANTS NothingLost
