SPECIFICATION Spec
CONSTANTS
  None = None
  Events = {e1, e2}
  AttemptLimit = 1
  CrashLimit = 2
  IncarnationLimit = 3
INVARIANTS
  TypeOK
  NewAccountSurvives
  ErasedIsNotDropped
PROPERTIES
  DeliversDurably
  CapabilityReachesLedger
CHECK_DEADLOCK FALSE
