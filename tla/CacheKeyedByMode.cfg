SPECIFICATION Spec
CONSTANTS
  Slots = {s1}
  Admins = {a1}
  Levels = {0, 2}
  MaxEntries = 1
  NoKind = NoKind
  FieldNames <- FilmFields
  Kinds <- FilmKinds
  Types <- FilmTypes
  StoredMaps <- FilmStored
  StaticMap <- FilmStatic
  Classes <- MCClasses
  ReadActions <- MCReadActions
  WriteActions <- MCWriteActions
  BootstrapActions <- MCBootstrapActions
  AuditActions <- MCAuditActions
  RoleMatrix <- MCRoleMatrix
  Lower <- MCLower
  HardeningFields <- MCHardeningFields
  DefaultClass = "INTERNAL"
INVARIANT ServedInMode
