SPECIFICATION Spec
CONSTANTS
  None = None
  Incarnations = {i1, i2, i3}
  GenerationLimit = 2
  InFlightLimit = 3
INVARIANTS
  TypeOK
  StoredIsGenuine
PROPERTIES
  NoRollback
  Converges
