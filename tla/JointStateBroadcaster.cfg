SPECIFICATION Spec
CONSTANTS
  j1 = j1
  j2 = j2
  Joint = {j1, j2}
  MaxRetries = 2
  Depth = 2
INVARIANTS TypeOK ActiveMeansPowered PowerIsReturned
PROPERTY ImplementsNode
