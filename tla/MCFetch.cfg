SPECIFICATION Spec
CONSTANTS
  i1 = i1
  r1 = r1
  r2 = r2
  rel = rel
  d1 = d1
  Inode = {i1}
  Entity = {r1, r2, rel}
  Disc = {d1}
  Matches <- OneMatch
  Discovers <- Named
  LinksTo <- Links
  Absent = {}
  Pin = {rel}
  MaxErrors = 1
  Scenarios <- Usual
  MaxLag = 2
  MaxRequests = 2
  MaxTrouble = 2
INVARIANTS
  TypeOK
  StartFindsNoBatch
  NothingForgotten
PROPERTIES
  BatchDrains
  PinAnswered
CHECK_DEADLOCK FALSE
