SPECIFICATION FairSpec
CONSTANTS
  n1 = n1
  n2 = n2
  None = None
  Node <- MCNode
  Rank <- MCRank
  Disturbances <- Disturbance
  MaxDisturbances = 1
  MaxEpoch = 2
PROPERTIES UpFollowsEngine DownFollowsEngine
