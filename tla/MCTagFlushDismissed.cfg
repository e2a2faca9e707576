SPECIFICATION Spec
CONSTANTS
  v = v
  w = w
  Value = {v, w}
  Edits <- SomeEdits
  Found <- OneTag
  MaxEvents = 2
  MaxLag = 4
INVARIANT SignalKept
CHECK_DEADLOCK FALSE
