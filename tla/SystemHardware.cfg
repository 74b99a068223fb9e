SPECIFICATION Spec
CONSTANTS
  wheel = wheel
  joint = joint
  slow = slow
  fast = fast
  Joint = {wheel, joint}
  VelocityJoint = {wheel}
  Speed = {slow}
  MaxRetries = 2
INVARIANTS TypeOK PowerIsReturned CommandCacheTrue WriteSeesFeedback
PROPERTIES CommandsAreFresh TorqueCutAtRest
