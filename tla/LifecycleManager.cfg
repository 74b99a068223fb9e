SPECIFICATION Spec
CONSTANTS
  n1 = n1
  n2 = n2
  None = None
  Node <- MCNode
  Rank <- MCRank
  Disturbances <- Disturbance
  MaxDisturbances = 2
  MaxEpoch = 2
INVARIANTS TypeOK TakenDownClean HandledMeansUp DownInReverseOrder
PROPERTIES ParkedStaysDown
