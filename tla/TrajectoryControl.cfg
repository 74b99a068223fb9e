SPECIFICATION FairSpec
CONSTANTS
  g1 = g1
  g2 = g2
  None = None
  Crashes = TRUE
  Goal <- MCGoal
INVARIANTS TypeOK LatchCoversGoal DeactivationWaits
PROPERTIES DeactivationStopsSpline LatchReleases
