SPECIFICATION Spec
CONSTANTS
  None = None
  Incarnations = {0}
  GenerationLimit = 1
  Events = {e1, e2}
  AttemptLimit = 2
  CrashLimit = 0
PROPERTIES
  EverySettles
CHECK_DEADLOCK FALSE
