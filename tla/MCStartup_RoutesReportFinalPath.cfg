SPECIFICATION Spec
CONSTANTS
  Method <- MCMethod
  Descriptor <- MCDescriptor
  Config <- MCConfig
INVARIANTS
  RoutesReportFinalPath
CHECK_DEADLOCK FALSE
