SPECIFICATION FairSpec
CONSTANTS
  Twist <- MCTwist
  Timeout = 1
  MaxAhead = 1
  MaxFailures = 0
PROPERTY FaultGateZeroes
