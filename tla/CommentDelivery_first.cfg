SPECIFICATION Spec
CONSTANTS
  None = None
  Events = {e1, e2}
  UUIDs = {e1, e2}
  AttemptLimit = 1
  CrashLimit = 1
  MarkFirst = TRUE
  EpochLimit = 1
INVARIANTS
  RepeatsOnlyByCrash
PROPERTIES
  DeliversDurably
CHECK_DEADLOCK FALSE
