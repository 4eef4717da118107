SPECIFICATION BuildSpec
CONSTANTS
  a = a  b = b  x = x
  Req = {a, b, x}
  ValidMatch <- MCValid
  ValidReq <- MCValid
  Evaluable = {a, b, x}
  PresetName <- MCPresetName
  Presets <- MCPresets
  NoPreset = "none"
  Reject = Reject
  MaxPresetDepth = 2
  Undeclared = Undeclared
  LayerPolicy <- MCLayerPolicy
  MethodShape <- MCMethodShape
  DisableStreaming = FALSE
CHECK_DEADLOCK FALSE
INVARIANTS
  AcceptedPolicyIsWellFormed
  EveryLayerEnforced
  ErrorsFailClosed
  InheritanceNarrows
