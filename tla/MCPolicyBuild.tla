--------------------------- MODULE MCPolicyBuild ----------------------------
(* A small vocabulary of layers and presets for PolicyBuild: each shape that *)
(* the builder treats differently occurs once.                               *)
EXTENDS PolicyBuild

CONSTANTS a, b, x   \* two valid requirements, and an invalid one

MCValid == {a, b}

MCPresetName == {"inner", "outer", "deep", "either", "open", "loop", "back", "broken"}

Plain == [preset |-> NoPreset, anonymous |-> FALSE,
          require |-> <<>>, anyOf |-> <<>>, forbid |-> <<>>]

MCPresets ==
  [n \in MCPresetName |->
     CASE n = "inner"  -> [Plain EXCEPT !.require = <<a>>]
       [] n = "outer"  -> [Plain EXCEPT !.preset = "inner", !.forbid = <<b>>]
       [] n = "deep"   -> [Plain EXCEPT !.preset = "outer"]
       [] n = "either" -> [Plain EXCEPT !.anyOf = <<<<a>>>>]
       [] n = "open"   -> [Plain EXCEPT !.anonymous = TRUE]
       [] n = "loop"   -> [Plain EXCEPT !.preset = "back"]
       [] n = "back"   -> [Plain EXCEPT !.preset = "loop"]
       [] n = "broken" -> Reject]

MCLayerPolicy ==
  { [Plain EXCEPT !.anonymous = TRUE],
    [Plain EXCEPT !.anonymous = TRUE, !.forbid = <<a>>],
    [Plain EXCEPT !.require = <<a, b>>],
    [Plain EXCEPT !.anyOf = <<<<a, b>>, <<b>>>>],
    [Plain EXCEPT !.forbid = <<b>>],
    [Plain EXCEPT !.require = <<a>>, !.anyOf = <<<<>>>>],
    [Plain EXCEPT !.require = <<x>>],
    [Plain EXCEPT !.preset = "outer", !.require = <<a>>],
    [Plain EXCEPT !.preset = "deep"],
    [Plain EXCEPT !.preset = "either", !.anyOf = <<<<b>>>>],
    [Plain EXCEPT !.preset = "open", !.forbid = <<a>>],
    [Plain EXCEPT !.preset = "open", !.require = <<a>>],
    [Plain EXCEPT !.preset = "loop"],
    [Plain EXCEPT !.preset = "broken"] }

PublicUnary == [exposure |-> "unspecified", defaultExposure |-> "public",
                clientStream |-> FALSE, serverStream |-> FALSE, streamAuth |-> "unset"]

MCMethodShape == {PublicUnary, [PublicUnary EXCEPT !.clientStream = TRUE]}

=============================================================================
