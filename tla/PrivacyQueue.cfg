SPECIFICATION Spec
CONSTANTS
  None = None
  Incarnations = {0, 1}
  GenerationLimit = 1
  Events = {e1, e2}
  AttemptLimit = 2
  CrashLimit = 1
INVARIANTS
  TypeOK
  AppliedOnce
  SettledIsObserved
PROPERTIES
  DeliversDurably
CHECK_DEADLOCK FALSE
