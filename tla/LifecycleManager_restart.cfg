SPECIFICATION FairSpec
CONSTANTS
  n1 = n1
  n2 = n2
  None = None
  Node <- MCNode
  Rank <- MCRank
  Disturbances <- NoDisturbance
  MaxDisturbances = 0
  MaxEpoch = 2
PROPERTY DeadHandlesAreDropped
