SPECIFICATION MisSpec
CONSTANTS
  File = {f1, f2, f3}
  Family <- Families
  Size <- SizeOf
  Conflict <- Shares
  Coverage <- FilesOf
  Score <- ScoreOf
  ExhaustiveLimit = 3
INVARIANTS
  BestIsOptimal
CHECK_DEADLOCK FALSE
