SPECIFICATION Spec
CONSTANTS
  member = member  own = own  suspended = suspended  loggedIn = loggedIn
  edit = edit  watch = watch  chat = chat  hook = hook  health = health  orphan = orphan
  alice = alice  bearer = bearer  c1 = c1  c2 = c2
  mine = mine  other = other  malformed = malformed
  Req = {member, own, suspended, loggedIn}
  ValidMatch = {member, own, suspended, loggedIn}
  PresetName = {}
  NoPreset = "none"
  Call = {c1, c2}
  Method <- MCMethod
  User = {alice}
  Cred = {bearer}
  PolicyOf <- MCPolicyOf
  NoPolicy = NoPolicy
  KindOf <- MCKindOf
  OwnerOf <- MCOwnerOf
  ClaimsOf <- MCClaimsOf
  Presentation <- MCPresentation
  Foreign = {}
  Forged = {}
  Chain <- MCChain
  MultipleCredentialPolicy = "reject"
  InvalidCredentialPolicy <- MCInvalidCredentialPolicy
  AdminClaims = {member}
  SuspendedClaim = suspended
  None = None
  NoRecord = NoRecord
  Suspended = Suspended
  InitialRecord <- MCRecords
  MaxEvents = 1
  ClientStream = {chat}
  ServerStream = {watch}
  PerMessage = {chat}
  Http = {hook}
  Exempt = {health}
  Audited = {edit, watch, chat}
  Message = {mine, other, malformed}
  Valid = {mine, other}
  Proves <- MCProves
  Flaky = {own}
  NoEvent = NoEvent
  LoggedIn = loggedIn
  Limit = 1
SYMMETRY Symmetry
CHECK_DEADLOCK FALSE
INVARIANTS
  PipelineTypeOK
  DeliveredOnlyIfAllowed
  AuditTellsTheOutcome
  UsageIsConserved
