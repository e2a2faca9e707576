SPECIFICATION Spec
CONSTANTS
  Writer = {w1, w2}
  MaxDepth = 3
INVARIANTS
  DepthExact
PROPERTIES
  ImplementsBarrier
