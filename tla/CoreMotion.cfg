SPECIFICATION FairSpec
CONSTANTS
  c1 = c1
  a1 = a1
  None = None
  Controller <- MCController
  Axis <- MCAxis
  Unreliable <- MCUnreliable
  JogTimeout = 1
  MaxQueue = 2
INVARIANTS TypeOK SteadyControllerBlocks JogIsWatched InactiveMeansStill
PROPERTIES JogStops GateAgrees
