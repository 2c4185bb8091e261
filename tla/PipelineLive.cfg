SPECIFICATION FairSpec
CONSTANTS
  Slots = {s1}
  Admins = {a1}
  Levels = {0, 2}
  MaxEntries = 1
  NoKind = NoKind
  FieldNames <- FilmFields
  Kinds <- WorkKinds
  Types <- WorkTypes
  StoredMaps <- WorkStored
  StaticMap <- WorkStatic
  Classes <- MCClasses
  ReadActions <- MCReadActions
  WriteActions <- MCWriteActions
  BootstrapActions <- MCBootstrapActions
  AuditActions <- MCAuditActions
  RoleMatrix <- MCRoleMatrix
  Lower <- MCLower
  HardeningFields <- MCHardeningFields
  DefaultClass = "INTERNAL"
INVARIANT AllowIsPolicy
PROPERTIES
  EveryRequestAnswered
  EventuallyEnforced
