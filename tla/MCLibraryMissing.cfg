SPECIFICATION Spec
CONSTANTS
  p = p
  q = q
  r = r
  x = x
  f = f
  g = g
  Corpus <- TwoFiles
  Foreign = {x}
  Path = {p,q}
  Wants <- AnyWants
  MaxEvents = 1
  MaxLag = 1
INVARIANT MissingIsReady
CHECK_DEADLOCK FALSE
