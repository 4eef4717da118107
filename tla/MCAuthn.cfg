SPECIFICATION AuthnSpec
CONSTANTS
  member = member  admin = admin  suspended = suspended
  public = public  guarded = guarded  alice = alice  c1 = c1  c2 = c2
  bearer = bearer  forged = forged  cookie = cookie  ticket = ticket  key = key  cert = cert
  Req = {member, admin, suspended}
  ValidMatch = {member, admin, suspended}
  PresetName = {}
  NoPreset = "none"
  Call = {c1, c2}
  Method = {public, guarded}
  User = {alice}
  Cred = {bearer, forged, cookie, ticket, key, cert}
  PolicyOf <- MCPolicyOf
  NoPolicy = NoPolicy
  KindOf <- MCKindOf
  OwnerOf <- MCOwnerOf
  ClaimsOf <- MCClaimsOf
  Presentation <- MCPresentation
  Foreign = {key}
  Forged = {forged}
  Chain <- MCChain
  MultipleCredentialPolicy = "firstWins"
  InvalidCredentialPolicy <- MCInvalidCredentialPolicy
  AdminClaims = {admin}
  SuspendedClaim = suspended
  None = None
  NoRecord = NoRecord
  Suspended = Suspended
  InitialRecord <- MCRecords
  MaxEvents = 2
SYMMETRY Symmetry
CHECK_DEADLOCK FALSE
INVARIANTS
  TypeOK
  IdentityIsEarned
  NoSilentDowngrade
  AdminClaimsWereGranted
