---------------------------- MODULE PolicyBuild -----------------------------
(***************************************************************************)
(* The life of one operation's policy: declared in the proto options of a  *)
(* file, a service and a method, turned into the effective policy when the *)
(* set is built, and evaluated on every request.  The questions are what   *)
(* survives expansion and inheritance, and whether evaluation can ever     *)
(* answer more than the layers it was built from.                          *)
(***************************************************************************)
EXTENDS Policy

CONSTANTS
  ValidReq,          \* the requirements that validateRequirement accepts
  Evaluable,         \* those whose kind has an Evaluate function
  Presets,           \* what a preset's Build returns (Reject: it failed)
  Reject,            \* an error instead of a policy
  MaxPresetDepth,    \* maxPresetDepth
  Undeclared,        \* no policy at this layer
  LayerPolicy,       \* the policies that a layer may declare
  MethodShape,       \* the exposure and streaming shapes of a method
  DisableStreaming   \* Options.DisableStreaming

VARIABLES
  decl,       \* the declaration being built
  phase,      \* "building", "rejected", or "serving"
  effective,  \* the operation's policy in the set
  asked       \* the last request that was decided, and its answer

buildVars == <<decl, phase, effective, asked>>

Layer == LayerPolicy \cup {Undeclared}

Shapes == [exposure     : {"unspecified", "internal", "public", "deprecated", "hidden"},
           defaultExposure : {"unspecified", "internal", "public", "deprecated", "hidden"},
           clientStream : BOOLEAN,
           serverStream : BOOLEAN,
           streamAuth   : {"unset", "open", "perMessage", "invalid"}]

Declaration == [file : Layer, service : Layer, method : Layer, inherit : BOOLEAN,
                shape : MethodShape]

ASSUME BuildAssumption ==
  /\ ValidReq \subseteq ValidMatch
  /\ Evaluable \subseteq Req
  /\ Reject \notin Policies
  /\ Presets \in [PresetName -> Policies \cup {Reject}]
  /\ MaxPresetDepth \in Nat
  /\ LayerPolicy \subseteq Policies
  /\ Undeclared \notin Policies /\ Undeclared # Reject
  /\ MethodShape \subseteq Shapes
  /\ DisableStreaming \in BOOLEAN

Answers  == {"allow", "denied", "unauthenticated", "internal", "error"}
Requests == [present : BOOLEAN, ev : [Req -> Outcome], answer : Answers \cup {"none"}]

Unasked == [present |-> FALSE, ev |-> [r \in Req |-> "miss"], answer |-> "none"]

-----------------------------------------------------------------------------
(* Expanding, merging and validating *)

\* A preset's expansion (base) and the constraints written next to it (inline).
mergePolicy(base, inline) ==
  IF \/ base.anonymous /\ (inline.anonymous \/ HasPositive(inline))
     \/ inline.anonymous /\ HasPositive(base)
  THEN Reject
  ELSE [preset    |-> inline.preset,
        anonymous |-> base.anonymous \/ inline.anonymous,
        require   |-> base.require \o inline.require,
        anyOf     |-> base.anyOf \o inline.anyOf,
        forbid    |-> base.forbid \o inline.forbid]

\* What a policy expands to, where `expanded' is what the recursive call
\* returns.  The stack holds the presets being expanded, outermost first.
Expansion(expanded, p, stack) ==
  IF p.preset = NoPreset THEN p
  ELSE IF \/ Len(stack) >= MaxPresetDepth
          \/ p.preset \in Range(stack)
          \/ p.preset \notin PresetName
          \/ Presets[p.preset] = Reject
       THEN Reject
       ELSE LET base == expanded[<<Presets[p.preset], Append(stack, p.preset)>>]
            IN  IF base = Reject THEN Reject ELSE mergePolicy(base, p)

Calls == Policies \X Seq(PresetName)

expand[call \in Calls] == Expansion(expand, call[1], call[2])

\* Slips: the method's forbid, or its any_of, replaces that of the default.
andPolicyForbidReplaced(base, extra) ==
  [preset    |-> extra.preset,
   anonymous |-> base.anonymous /\ (extra.anonymous \/ ~HasPositive(extra)),
   require   |-> base.require \o extra.require,
   anyOf     |-> base.anyOf \o extra.anyOf,
   forbid    |-> IF extra.forbid # <<>> THEN extra.forbid ELSE base.forbid]

andPolicyAnyOfReplaced(base, extra) ==
  [preset    |-> extra.preset,
   anonymous |-> base.anonymous /\ (extra.anonymous \/ ~HasPositive(extra)),
   require   |-> base.require \o extra.require,
   anyOf     |-> extra.anyOf,
   forbid    |-> base.forbid \o extra.forbid]

\* inherit_default: the default (base) narrowed by the method (extra).
andPolicy(base, extra) ==
  [preset    |-> extra.preset,
   anonymous |-> base.anonymous /\ (extra.anonymous \/ ~HasPositive(extra)),
   require   |-> base.require \o extra.require,
   anyOf     |-> base.anyOf \o extra.anyOf,
   forbid    |-> base.forbid \o extra.forbid]

\* A slip: empty any_of groups go unnoticed.
validatePolicyEmptyGroups(p) ==
  /\ p.preset = NoPreset
  /\ p.anonymous <=> ~HasPositive(p)
  /\ requirementsOf(p) \subseteq ValidReq

validatePolicy(p) ==
  /\ p.preset = NoPreset
  /\ p.anonymous <=> ~HasPositive(p)
  /\ \A g \in Range(p.anyOf) : g # <<>>
  /\ requirementsOf(p) \subseteq ValidReq

-----------------------------------------------------------------------------
(* buildOperation *)

defaultPolicy(d) == IF d.service # Undeclared THEN d.service ELSE d.file

Expanded(layer) == IF layer = Undeclared THEN Undeclared ELSE expand[<<layer, <<>>>>]

Combined(d) ==
  LET default == Expanded(defaultPolicy(d))
      method  == Expanded(d.method)
  IN  CASE default = Reject \/ method = Reject         -> Reject
        [] default = Undeclared /\ method = Undeclared -> Reject
        [] default # Undeclared /\ method = Undeclared -> default
        [] default = Undeclared /\ method # Undeclared -> method
        [] OTHER -> IF d.inherit THEN andPolicy(default, method) ELSE method

EffectiveExposure(s) ==
  IF s.exposure # "unspecified" THEN s.exposure ELSE s.defaultExposure

ShapeAccepted(s) ==
  /\ EffectiveExposure(s) # "unspecified"
  /\ s.clientStream \/ s.serverStream => ~DisableStreaming
  /\ s.clientStream => EffectiveExposure(s) \notin {"public", "deprecated"}
  /\ s.streamAuth # "invalid"

\* The effective policy keeps no preset name.
Effective(p) == [p EXCEPT !.preset = NoPreset]

buildOperation(d) ==
  LET combined == Combined(d)
  IN  IF /\ combined # Reject
         /\ validatePolicy(Effective(combined))
         /\ ShapeAccepted(d.shape)
      THEN Effective(combined)
      ELSE Reject

-----------------------------------------------------------------------------

BuildInit ==
  /\ decl \in Declaration
  /\ phase = "building" /\ effective = Undeclared /\ asked = Unasked

\* policy.Build, then NewRequirementDecider: both run before the first request.
Build ==
  /\ phase = "building"
  /\ LET policy == buildOperation(decl)
         accepted == policy # Reject /\ requirementsOf(policy) \subseteq Evaluable
     IN  /\ phase' = IF accepted THEN "serving" ELSE "rejected"
         /\ effective' = IF accepted THEN policy ELSE Undeclared
  /\ UNCHANGED <<decl, asked>>

\* A request with or without a principal, for any answers of the predicates.
Decide(present, ev) ==
  /\ phase = "serving"
  /\ asked' = [present |-> present, ev |-> ev,
               answer  |-> decidePolicy(effective, present, ev)]
  /\ UNCHANGED <<decl, phase, effective>>

BuildNext ==
  \/ Build
  \/ \E present \in BOOLEAN, ev \in [Req -> Outcome] : Decide(present, ev)

BuildSpec == BuildInit /\ [][BuildNext]_buildVars

-----------------------------------------------------------------------------

BuildTypeOK ==
  /\ decl \in Declaration
  /\ phase \in {"building", "rejected", "serving"}
  /\ effective \in Policies \cup {Undeclared}
  /\ asked \in Requests

(***************************************************************************)
(* The policies that took part in the effective one: the layers that are   *)
(* not overridden, and every preset reached from them.                     *)
(***************************************************************************)
ReachedWithin(reached, n, p) ==
  IF n = 0 \/ p.preset = NoPreset THEN {p}
  ELSE {p} \cup reached[n - 1][Presets[p.preset]]

Reached[n \in 0 .. MaxPresetDepth] ==
  [p \in Policies |-> ReachedWithin(Reached, n, p)]

DefaultTakesPart(d) ==
  /\ defaultPolicy(d) # Undeclared
  /\ d.method = Undeclared \/ d.inherit

Contributing(d) ==
  UNION {Reached[MaxPresetDepth][p] : p \in
           {q \in {d.method} : q # Undeclared}
             \cup {q \in {defaultPolicy(d)} : DefaultTakesPart(d)}}

\* A set that passed Build never answers Internal because of its own shape: the
\* decider's checks for empty, mixed or unexpanded policies (decider.go) cover
\* nothing that validatePolicy lets through, for no request.
AcceptedPolicyIsWellFormed == asked.answer # "internal"

\* A request that is allowed satisfies every layer the policy was built from:
\* no forbid of any layer or preset answered "match" or failed to evaluate,
\* every require did match, and there is a principal if any layer demands one.
EveryLayerEnforced ==
  asked.answer = "allow" =>
    \A p \in Contributing(decl) :
      /\ \A r \in Range(p.forbid)  : asked.ev[r] = "miss"
      /\ \A r \in Range(p.require) : asked.ev[r] = "match"
      /\ HasPositive(p) => asked.present

\* An evaluation error never opens the door: had each predicate that failed to
\* evaluate answered against the caller, the request would still be allowed.
Against(p, ev) ==
  [r \in Req |-> IF ev[r] # "error" THEN ev[r]
                 ELSE IF r \in Range(p.forbid) THEN "match" ELSE "miss"]

ErrorsFailClosed ==
  asked.answer = "allow"
  => Allowed(effective, asked.present, Against(effective, asked.ev))

\* inherit_default never widens the default when at most one of the two layers
\* declares any_of groups: whoever is allowed is allowed by the default alone
\* (README.md: require and forbid combine with AND across layers).
InheritanceNarrows ==
  LET default == Expanded(defaultPolicy(decl))
      method  == Expanded(decl.method)
  IN  /\ asked.answer = "allow" /\ decl.inherit
      /\ decl.method # Undeclared /\ defaultPolicy(decl) # Undeclared
      /\ default.anyOf = <<>> \/ method.anyOf = <<>>
      /\ validatePolicy(Effective(default))
      => Allowed(Effective(default), asked.present, asked.ev)

=============================================================================
