SPECIFICATION Spec
CONSTANTS
  Calls = {c1, c2}
  s0 = s0
  Shared = s0
  NoRequest = NoRequest
  NoToken = NoToken
  Keep = Keep
  Current = Current
  All = All
  OwnSource = "go"
  Sources = {"go", "unknown"}
  Levels = {0, 1}
  StartLevel = 1
  StartMode = TRUE
  TTL = 2
  MaxTime = 3
  MaxChanges = 1
  Users <- MCUsers
  StartRoles <- MCStartRoles
  Roles <- MCRoles
  SeedTokens <- MCSeedTokens
  SeedPerf <- MCSeedPerf
  Requests <- MCRequests
  FieldNames <- MCFieldNames
  Classes <- MCClasses
  ReadActions <- MCReadActions
  WriteActions <- MCWriteActions
  BootstrapActions <- MCBootstrapActions
  AuditActions <- MCAuditActions
  RoleMatrix <- MCRoleMatrix
  Lower <- MCLower
  HardeningFields <- MCHardeningFields
  DefaultClass = "INTERNAL"
SYMMETRY Symmetry
INVARIANTS
  TypeOK
  LoggedIn
  RoleWasHeld
  BearerBinds
  ListsNewest
  SummaryCounts
PROPERTY
  SettingsByAdmins
CHECK_DEADLOCK FALSE
