SPECIFICATION FairSpec
CONSTANTS
  Kind <- MCKind
  Vector <- MCVector
  Breakable <- MCBreakable
  IrqEdges <- MCCompleted
  FlushesSaved = FALSE
  StalledHalts = FALSE
  MovesOn = FALSE
  DropsBusy = FALSE
INVARIANT ExecutesInOrder
INVARIANT BreakpointStops
INVARIANT SessionEnds
PROPERTY DebugStateHolds
PROPERTY WaitsEnd
