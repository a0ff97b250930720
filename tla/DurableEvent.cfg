SPECIFICATION Spec
CONSTANTS
  UUIDs = {u1, u2}
  Payloads = {p1, p2}
  MemoryLimit = 2
  SavedLimit = 2
INVARIANTS
  BytesMatchFields
  RestoreIsExact
  OneNamePerJob
