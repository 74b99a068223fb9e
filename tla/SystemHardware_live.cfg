SPECIFICATION FairSpec
CONSTANTS
  wheel = wheel
  joint = joint
  slow = slow
  fast = fast
  Joint = {wheel}
  VelocityJoint = {wheel}
  Speed = {slow, fast}
  MaxRetries = 2
PROPERTY CommandArrives
