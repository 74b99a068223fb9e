SPECIFICATION FairSpec
CONSTANTS
  g1 = g1
  g2 = g2
  None = None
  Crashes = FALSE
  Goal <- MCOneGoal
PROPERTY ExitReleasesLatch
