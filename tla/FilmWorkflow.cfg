SPECIFICATION Spec
CONSTANTS
  Calls = {c1, c2, c3}
  NoRequest = NoRequest
  NoId = NoId
  Tenants <- MCTenants
  Ids <- MCIds
  Times <- MCTimes
  Seed <- MCSeed
  FilmMaps <- MCFilmMaps
  Requests <- MCRequests
  FieldNames <- MCFieldNames
  Classes <- MCClasses
  ReadActions <- MCReadActions
  WriteActions <- MCWriteActions
  BootstrapActions <- MCBootstrapActions
  AuditActions <- MCAuditActions
  RoleMatrix <- MCRoleMatrix
  Lower <- MCLower
  HardeningFields <- MCHardeningFields
  DefaultClass = "INTERNAL"
SYMMETRY Symmetry
INVARIANTS
  TypeOK
  AuditTruthful
  AnswersJournalled
  FilmsAuthorised
PROPERTY ImplementsLedger
CHECK_DEADLOCK FALSE
