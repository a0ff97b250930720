SPECIFICATION Spec
CONSTANTS
  None = None
  Invalid = Invalid
  Methods = {"typed", "legacy"}
  Texts = {t1, t2}
  Types = {o1, o2}
  Digests = {}
  Items = {}
  Postures = {}
  CompanionLimit = 0
INVARIANTS
  AcceptsTheTable
  OneReading
  TypedInventsNothing
CHECK_DEADLOCK FALSE
