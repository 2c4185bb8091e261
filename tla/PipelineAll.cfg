SPECIFICATION Spec
CONSTANTS
  Slots = {s1, s2}
  Admins = {a1}
  Levels = {0, 1}
  MaxEntries = 2
  NoKind = NoKind
  FieldNames <- AllFields
  Kinds <- AllKinds
  Types <- AllTypes
  StoredMaps <- AllStored
  StaticMap <- AllStatic
  Classes <- MCClasses
  ReadActions <- MCReadActions
  WriteActions <- MCWriteActions
  BootstrapActions <- MCBootstrapActions
  AuditActions <- MCAuditActions
  RoleMatrix <- MCRoleMatrix
  Lower <- MCLower
  HardeningFields <- MCHardeningFields
  DefaultClass = "INTERNAL"
SYMMETRY Symmetry
INVARIANTS
  NoClearWithoutGrant
PROPERTIES
  ImplementsEnforcement
