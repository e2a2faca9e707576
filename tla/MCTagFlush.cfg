SPECIFICATION Spec
CONSTANTS
  v = v
  w = w
  Value = {v, w}
  Edits <- SomeEdits
  Found <- OneTag
  MaxEvents = 3
  MaxLag = 4
INVARIANTS
  TypeOK
  DiskNeverAhead
  DivergenceOwed
PROPERTIES FlagResolved MarkerConsumed
CHECK_DEADLOCK FALSE
