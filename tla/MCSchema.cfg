SPECIFICATION Spec
CONSTANTS
  f1 = f1
  File = {f1}
  Releases <- TwoReleases
  Found <- OldDatabases
  Installs <- SomeInstalls
  MaxBoots = 3
  MaxFailures = 1
INVARIANTS
  TypeOK
  SchemaServed
PROPERTIES
  NothingLost
  SignalsOwed
  ComesUp
CHECK_DEADLOCK FALSE
