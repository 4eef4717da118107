SPECIFICATION Spec
CONSTANTS
  Method <- MCMethod
  Descriptor <- MCDescriptor
  Config <- MCConfig
INVARIANTS
  AcceptedServersProtect
  CallersGetThrough
  RoutesAreReachable
CHECK_DEADLOCK FALSE
