SPECIFICATION Spec
CONSTANTS
  None = None
  Events = {e1}
  UUIDs = {e1, u1, u2}
  AttemptLimit = 3
  CrashLimit = 2
  MarkFirst = FALSE
  EpochLimit = 2
INVARIANTS
  TypeOK
  NeverConflicts
  NothingMissed
PROPERTIES
  EverySettles
CHECK_DEADLOCK FALSE
