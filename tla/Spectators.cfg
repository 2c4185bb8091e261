SPECIFICATION Spec
CONSTANTS
  Calls = {c1, c2}
  h1 = h1
  h2 = h2
  p0 = p0
  NoRequest = NoRequest
  NoHall = NoHall
  NoId = NoId
  NoIdent = NoIdent
  NoPepper = NoPepper
  NoProcess = NoProcess
  Garbage = Garbage
  LocalPepper = "local-pepper"
  ConfigPath = "secret/dcs"
  MaxStarts = 2
  StartMode = TRUE
  StartLevel = 3
  Levels = {0, 3}
  Tenants <- MCTenants
  Halls <- MCHalls
  Ids <- MCIds
  Idents <- MCIdents
  Norm <- MCNorm
  PepperAt <- MCPepperAt
  SeedHalls <- MCSeedHalls
  MemoryHall <- MCMemoryHall
  SeedPeople <- MCSeedPeople
  SpectatorMap <- MCSpectatorMap
  Requests <- MCRequests
  FieldNames <- MCFieldNames
  Classes <- MCClasses
  ReadActions <- MCReadActions
  WriteActions <- MCWriteActions
  BootstrapActions <- MCBootstrapActions
  AuditActions <- MCAuditActions
  RoleMatrix <- MCRoleMatrix
  Lower <- MCLower
  HardeningFields <- MCHardeningFields
  DefaultClass = "INTERNAL"
SYMMETRY Symmetry
INVARIANTS
  TypeOK
  SearchComplete
  AnswersTrue
  IdentifiersUnique
  HallsExist
  OneModeAnswers
  JournalAgrees
  CountsReal
CHECK_DEADLOCK FALSE
