SPECIFICATION Spec
CONSTANTS
  Slots = {s1, s2}
  Admins = {a1}
  Levels = {2}
  MaxEntries = 1
  NoKind = NoKind
  FieldNames <- FilmFields
  Kinds <- FilmKinds
  Types <- FilmTypes
  StoredMaps <- FilmStored
  StaticMap <- FilmStatic
  Classes <- MCClasses
  ReadActions <- MCReadActions
  WriteActions <- MCWriteActions
  BootstrapActions <- MCBootstrapActions
  AuditActions <- MCAuditActions
  RoleMatrix <- MCRoleMatrix
  Lower <- MCLower
  HardeningFields <- MCHardeningFields
  DefaultClass = "INTERNAL"
SYMMETRY Symmetry
INVARIANTS
  TypeOK
  CacheHoldsPolicy
  DecisionFits
  NoClearWithoutGrant
