SPECIFICATION Spec
CONSTANTS
  a = a  b = b  c = c
  f1 = f1  f2 = f2  f3 = f3
  Release = {a, b, c}
  Inode = {f1, f2, f3}
  Slot = {1, 2, 3}
  Catalogues <- Libraries
  KnotLimit = 2
  MaxRescores = 1
  MaxChanges = 2
  MaxEvents = 4
INVARIANTS
  TypeOK
  PicksDisjoint
  ClaimsMatch
  NothingJumped
  UnmatchedExact
  ScoresFresh
PROPERTIES
  Ends
CHECK_DEADLOCK FALSE
