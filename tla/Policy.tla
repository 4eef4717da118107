------------------------------- MODULE Policy -------------------------------
(***************************************************************************)
(* A policy and its meaning: the data type of package policy and the       *)
(* requirement decider of package authz.                                   *)
(*                                                                         *)
(* A requirement is an opaque value: what the algebra tells apart is what  *)
(* its kind's Evaluate answers for a request ("match", "miss" or "error"). *)
(***************************************************************************)
EXTENDS Naturals, Sequences, Functions

CONSTANTS
  Req,             \* the requirements that can be declared
  ValidMatch,      \* those whose Match is a registered value
  PresetName,      \* names of the registered presets
  NoPreset         \* the empty preset name

ASSUME PolicyAssumption ==
  /\ ValidMatch \subseteq Req
  /\ NoPreset \notin PresetName

Outcome == {"match", "miss", "error"}

Policies == [preset    : PresetName \cup {NoPreset},
             anonymous : BOOLEAN,
             require   : Seq(Req),
             anyOf     : Seq(Seq(Req)),
             forbid    : Seq(Req)]

requirementsOf(p) ==
  Range(p.require) \cup Range(p.forbid) \cup UNION {Range(g) : g \in Range(p.anyOf)}

HasPositive(p) == p.require # <<>> \/ p.anyOf # <<>>

-----------------------------------------------------------------------------
(* Deciding a request.  ev gives what evaluating each requirement answers. *)

\* The first requirement that does not answer `skip' answers v.
FirstIs(reqs, ev, skip, v) ==
  \E i \in DOMAIN reqs : /\ ev[reqs[i]] = v
                         /\ \A j \in 1 .. (i - 1) : ev[reqs[j]] = skip

MatchesAll(reqs, ev) == \A i \in DOMAIN reqs : ev[reqs[i]] = "match"

\* any_of is decided by its first group that is not refused.
AnyOfError(groups, ev) ==
  \E i \in DOMAIN groups :
    /\ FirstIs(groups[i], ev, "match", "error")
    /\ \A j \in 1 .. (i - 1) : FirstIs(groups[j], ev, "match", "miss")

AnyOfMatch(groups, ev) ==
  \E i \in DOMAIN groups :
    /\ MatchesAll(groups[i], ev)
    /\ \A j \in 1 .. (i - 1) : FirstIs(groups[j], ev, "match", "miss")

\* Shapes that the decider refuses to evaluate: a configuration error.
Misconfigured(p) ==
  \/ p.preset # NoPreset
  \/ ~p.anonymous /\ ~HasPositive(p)
  \/ p.anonymous /\ HasPositive(p)
  \/ \E g \in Range(p.anyOf) : g = <<>>
  \/ ~(requirementsOf(p) \subseteq ValidMatch)

\* A slip: a forbid that fails to evaluate is passed over.
decidePolicyFailOpen(p, present, ev) ==
  IF Misconfigured(p)                                 THEN "internal"
  ELSE IF ~p.anonymous /\ ~present                    THEN "unauthenticated"
  ELSE IF \E r \in Range(p.forbid) : ev[r] = "match"  THEN "denied"
  ELSE IF p.anonymous                                 THEN "allow"
  ELSE IF FirstIs(p.require, ev, "match", "error")    THEN "error"
  ELSE IF FirstIs(p.require, ev, "match", "miss")     THEN "denied"
  ELSE IF AnyOfError(p.anyOf, ev)                     THEN "error"
  ELSE IF p.anyOf = <<>> \/ AnyOfMatch(p.anyOf, ev)   THEN "allow"
  ELSE "denied"

\* The answer of one request; present: it carries a principal.  The clauses are
\* tried in the order of the code's early returns.
decidePolicy(p, present, ev) ==
  IF Misconfigured(p)                                 THEN "internal"
  ELSE IF ~p.anonymous /\ ~present                    THEN "unauthenticated"
  ELSE IF FirstIs(p.forbid, ev, "miss", "error")      THEN "error"
  ELSE IF FirstIs(p.forbid, ev, "miss", "match")      THEN "denied"
  ELSE IF p.anonymous                                 THEN "allow"
  ELSE IF FirstIs(p.require, ev, "match", "error")    THEN "error"
  ELSE IF FirstIs(p.require, ev, "match", "miss")     THEN "denied"
  ELSE IF AnyOfError(p.anyOf, ev)                     THEN "error"
  ELSE IF p.anyOf = <<>> \/ AnyOfMatch(p.anyOf, ev)   THEN "allow"
  ELSE "denied"

Allowed(p, present, ev) == decidePolicy(p, present, ev) = "allow"

=============================================================================
