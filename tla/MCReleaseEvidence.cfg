SPECIFICATION Spec
CONSTANTS
  Trees <- MCTrees
  OwnFiles <- MCOwnFiles
  FirstTree = 1
  Profiles <- MCProfiles
  MaxEdits = 2
  MaxRegressions = 2
  MaxCommands = 2
  MaxMishaps = 1
\* A behaviour ends when its bounds are used up.
CHECK_DEADLOCK FALSE
INVARIANT ArchivedAttested
INVARIANT FullIsComplete
INVARIANT HonestAccepted
