SPECIFICATION SpacedSpec
CONSTANTS
  f1 = f1
  File = {f1}
  Linger = 2
  Settings <- Installations
  MaxEvents = 1
INVARIANTS
  NeverPanics
PROPERTIES
  DeployTried
  EventuallyFull
  FilesIndexed
  DerivationHappens
  RepackCatchesUp
CHECK_DEADLOCK FALSE
