SPECIFICATION Spec
CONSTANTS
  m1 = m1
  m2 = m2
  m3 = m3
  s1 = s1
  s2 = s2
  c1 = c1
  c2 = c2
  o1 = o1
  k1 = k1
  Mutation = {m1, m2, m3}
  StageOf <- ThreeStages
  Soft = {s1, s2}
  PhaseOf <- CleanupAndDeploy
  Comp = {c1, c2}
  Other = {o1}
  Key = {k1}
  Spent <- TransactionOrPhases
  MaxConfirms = 1
INVARIANTS
  InFlightExact
  StageOrder
  ConfirmedNotLost
PROPERTIES
  PhaseStartsQuiet
  WorkSettles
