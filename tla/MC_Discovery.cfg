SPECIFICATION Spec
CONSTANTS
  None = None
  Invalid = Invalid
  Methods = {"manifest", "catalog"}
  Texts = {}
  Types = {}
  s1 = s1
  s2 = s2
  Digests = {s1, s2}
  Items <- MCItems
  Postures <- MCPostures
  CompanionLimit = 2
INVARIANTS
  CatalogIsARoster
  ManifestNamesTheCalls
CHECK_DEADLOCK FALSE
