SPECIFICATION Spec
CONSTANTS
  Token <- MCToken
  Key <- MCKey
  Sessions <- MCSessions
  Expected <- MCExpected
  Server <- MCServer
  AnyOrigin <- MCAny
  Case <- MCCase
  Vocabulary <- MCVocabulary
  Generated = "generated"
  MaxLogins = 2
  Req <- MCReq
  ValidMatch <- MCReq
  PresetName = {}
  NoPreset = ""
CHECK_DEADLOCK FALSE
INVARIANTS
  PagesReadWhatTheyMay
  ForeignPagesDoNotAct
  AuthorityIsWhatTheCredentialStates
  AddressIsHonest
  InternalsStayInside
  FacesAgree
