SPECIFICATION Spec
CONSTANTS
  p = p
  q = q
  r = r
  x = x
  f = f
  g = g
  Corpus <- TwoFiles
  Foreign = {x}
  Path = {p,q,r}
  Wants <- AnyWants
  MaxEvents = 1
  MaxLag = 2
INVARIANTS TypeOK RowsMatchDisk LibraryCurrent
PROPERTY Settles
CHECK_DEADLOCK FALSE
