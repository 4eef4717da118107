---------------------------- MODULE PolicyProofs ----------------------------
(***************************************************************************)
(* What holds of the decider and of a built policy, for every set of       *)
(* requirements, presets and declarations.  A scan of the decider that     *)
(* stops nowhere saw only the answers it skips.  The expansion of presets  *)
(* is followed through its stack, whose length the builder bounds: an      *)
(* induction over the natural numbers shows that what is expanded keeps    *)
(* the vocabulary and everything its presets forbid and require.           *)
(***************************************************************************)
EXTENDS PolicyBuild, WellFoundedInduction, TLAPS

(***************************************************************************)
(* Lemmas about the scans of the decider                                   *)
(***************************************************************************)

\* A scan that stops nowhere met only the answer it skips.
LEMMA ScanEnds ==
  ASSUME NEW reqs \in Seq(Req), NEW ev \in [Req -> Outcome], NEW skip \in Outcome,
         \A v \in Outcome : v # skip => ~FirstIs(reqs, ev, skip, v)
  PROVE  \A i \in DOMAIN reqs : ev[reqs[i]] = skip
<1> DEFINE Stops == {i \in DOMAIN reqs : ev[reqs[i]] # skip}
<1> SUFFICES ASSUME Stops # {} PROVE FALSE
  OBVIOUS
<1>1. Stops \subseteq Nat /\ \A i \in Stops : i \in 1 .. Len(reqs)
  OBVIOUS
<1>2. PICK i \in Stops : \A j \in Stops : ~(<<j, i>> \in OpToRel(<, Nat))
  BY <1>1, NatLessThanWellFounded, WFMin
<1>3. \A j \in Stops : ~(j < i)
  BY <1>1, <1>2 DEF OpToRel
<1>4. \A j \in 1 .. (i - 1) : ev[reqs[j]] = skip
  BY <1>1, <1>3
<1>5. reqs[i] \in Req /\ ev[reqs[i]] \in Outcome
  BY <1>1
<1>6. FirstIs(reqs, ev, skip, ev[reqs[i]])
  BY <1>4 DEF FirstIs
<1> QED
  BY <1>5, <1>6

\* A scan that stops in a list stops at the same place in a longer one.
LEMMA ScanOfPrefix ==
  ASSUME NEW s \in Seq(Req), NEW t \in Seq(Req), NEW ev, NEW skip, NEW v,
         FirstIs(s, ev, skip, v)
  PROVE  FirstIs(s \o t, ev, skip, v)
<1>1. PICK i \in DOMAIN s : /\ ev[s[i]] = v
                            /\ \A j \in 1 .. (i - 1) : ev[s[j]] = skip
  BY DEF FirstIs
<1>2. i \in DOMAIN (s \o t) /\ (s \o t)[i] = s[i]
  BY <1>1
<1>3. \A j \in 1 .. (i - 1) : (s \o t)[j] = s[j]
  BY <1>1
<1> QED
  BY <1>1, <1>2, <1>3 DEF FirstIs


(***************************************************************************)
(* What an allowed request satisfies                                       *)
(***************************************************************************)

\* An allowed request: no forbid matched or failed, every require matched, some
\* any_of group matched as a whole, and there is a principal unless the policy
\* is anonymous.  This is the meaning of a policy (decidePolicy, decider.go).
THEOREM AllowedMeans ==
  ASSUME NEW p \in Policies, NEW present \in BOOLEAN, NEW ev \in [Req -> Outcome],
         Allowed(p, present, ev)
  PROVE  /\ \A i \in DOMAIN p.forbid : ev[p.forbid[i]] = "miss"
         /\ \A i \in DOMAIN p.require : ev[p.require[i]] = "match"
         /\ p.anyOf # <<>> => \E g \in Range(p.anyOf) : MatchesAll(g, ev)
         /\ HasPositive(p) => present
<1>1. /\ p.require \in Seq(Req) /\ p.forbid \in Seq(Req) /\ p.anyOf \in Seq(Seq(Req))
      /\ p.anonymous \in BOOLEAN
  BY DEF Policies
<1>2. /\ ~Misconfigured(p)
      /\ ~FirstIs(p.forbid, ev, "miss", "error") /\ ~FirstIs(p.forbid, ev, "miss", "match")
      /\ p.anonymous \/ present
  BY DEF Allowed, decidePolicy
<1>3. \A i \in DOMAIN p.forbid : ev[p.forbid[i]] = "miss"
  <2>1. \A v \in Outcome : v # "miss" => ~FirstIs(p.forbid, ev, "miss", v)
    BY <1>2 DEF Outcome
  <2>2. "miss" \in Outcome
    BY DEF Outcome
  <2> QED
    BY <1>1, <2>1, <2>2, ScanEnds
<1>4. CASE p.anonymous
  BY <1>1, <1>2, <1>3, <1>4 DEF Misconfigured, HasPositive
<1>5. CASE ~p.anonymous
  <2>1. /\ ~FirstIs(p.require, ev, "match", "error") /\ ~FirstIs(p.require, ev, "match", "miss")
        /\ p.anyOf = <<>> \/ AnyOfMatch(p.anyOf, ev)
    BY <1>2, <1>5 DEF Allowed, decidePolicy
  <2>2. \A v \in Outcome : v # "match" => ~FirstIs(p.require, ev, "match", v)
    BY <2>1 DEF Outcome
  <2>3. "match" \in Outcome
    BY DEF Outcome
  <2>4. \A i \in DOMAIN p.require : ev[p.require[i]] = "match"
    BY <1>1, <2>2, <2>3, ScanEnds
  <2>5. p.anyOf # <<>> => \E g \in Range(p.anyOf) : MatchesAll(g, ev)
    BY <1>1, <2>1 DEF AnyOfMatch, Range
  <2> QED
    BY <1>2, <1>3, <1>5, <2>4, <2>5
<1> QED
  BY <1>1, <1>4, <1>5


\* Predicates that fail never open the door: whatever those that failed would
\* have answered, the request that was allowed would still be allowed.
THEOREM FailuresNeverAllow ==
  ASSUME NEW p \in Policies, NEW present \in BOOLEAN,
         NEW ev \in [Req -> Outcome], NEW sound \in [Req -> {"match", "miss"}],
         \A r \in Req : ev[r] # "error" => sound[r] = ev[r],
         Allowed(p, present, ev)
  PROVE  Allowed(p, present, sound)
<1>1. /\ p.require \in Seq(Req) /\ p.forbid \in Seq(Req) /\ p.anyOf \in Seq(Seq(Req))
      /\ ~Misconfigured(p) /\ (p.anonymous \/ present)
  BY DEF Policies, Allowed, decidePolicy
<1>2. sound \in [Req -> Outcome]
  BY DEF Outcome
<1>3. /\ \A i \in DOMAIN p.forbid : sound[p.forbid[i]] = "miss"
      /\ \A i \in DOMAIN p.require : sound[p.require[i]] = "match"
  <2>1. /\ \A i \in DOMAIN p.forbid : ev[p.forbid[i]] = "miss"
        /\ \A i \in DOMAIN p.require : ev[p.require[i]] = "match"
    BY AllowedMeans
  <2>2. /\ \A i \in DOMAIN p.forbid : p.forbid[i] \in Req
        /\ \A i \in DOMAIN p.require : p.require[i] \in Req
    BY <1>1
  <2> QED
    BY <2>1, <2>2
<1>4. /\ ~FirstIs(p.forbid, sound, "miss", "error") /\ ~FirstIs(p.forbid, sound, "miss", "match")
      /\ ~FirstIs(p.require, sound, "match", "error") /\ ~FirstIs(p.require, sound, "match", "miss")
  BY <1>3 DEF FirstIs
<1>5. ~AnyOfError(p.anyOf, sound)
  <2>1. \A g \in Seq(Req) : ~FirstIs(g, sound, "match", "error")
    BY DEF FirstIs
  <2> QED
    BY <1>1, <2>1 DEF AnyOfError
<1>6. p.anonymous \/ p.anyOf = <<>> \/ AnyOfMatch(p.anyOf, sound)
  <2> SUFFICES ASSUME ~p.anonymous, p.anyOf # <<>>
               PROVE  AnyOfMatch(p.anyOf, sound)
    OBVIOUS
  <2>1. AnyOfMatch(p.anyOf, ev)
    BY DEF Allowed, decidePolicy
  <2>2. PICK i \in DOMAIN p.anyOf :
          /\ MatchesAll(p.anyOf[i], ev)
          /\ \A j \in 1 .. (i - 1) : FirstIs(p.anyOf[j], ev, "match", "miss")
    BY <2>1 DEF AnyOfMatch
  <2>3. \A j \in DOMAIN p.anyOf : p.anyOf[j] \in Seq(Req)
    BY <1>1
  <2>4. MatchesAll(p.anyOf[i], sound)
    BY <2>2, <2>3 DEF MatchesAll
  <2>5. ASSUME NEW j \in 1 .. (i - 1)
        PROVE  FirstIs(p.anyOf[j], sound, "match", "miss")
    <3>1. j \in DOMAIN p.anyOf
      BY <1>1
    <3>2. PICK k \in DOMAIN p.anyOf[j] :
            /\ ev[p.anyOf[j][k]] = "miss"
            /\ \A l \in 1 .. (k - 1) : ev[p.anyOf[j][l]] = "match"
      BY <2>2 DEF FirstIs
    <3>3. /\ p.anyOf[j][k] \in Req
          /\ \A l \in 1 .. (k - 1) : p.anyOf[j][l] \in Req
      BY <2>3, <3>1, <3>2
    <3> QED
      BY <3>2, <3>3 DEF FirstIs
  <2> QED
    BY <2>2, <2>4, <2>5 DEF AnyOfMatch
<1> QED
  BY <1>1, <1>4, <1>5, <1>6 DEF Allowed, decidePolicy

(***************************************************************************)
(* A built set never answers Internal                                      *)
(***************************************************************************)

\* What Build accepts is never refused by the decider as misconfigured.
LEMMA ValidIsNotMisconfigured ==
  ASSUME NEW p, validatePolicy(p)
  PROVE  ~Misconfigured(p)
BY BuildAssumption DEF validatePolicy, Misconfigured

\* The strengthening: an answer is only given by a policy that was validated.
ServesValidPolicy ==
  /\ phase = "serving" => validatePolicy(effective)
  /\ AcceptedPolicyIsWellFormed

\* For every vocabulary of presets and every declaration, the decider's checks
\* for empty, mixed or unexpanded policies are unreachable behind policy.Build.
THEOREM BuiltPolicyIsWellFormed == BuildSpec => []AcceptedPolicyIsWellFormed
<1>1. BuildInit => ServesValidPolicy
  BY DEF BuildInit, ServesValidPolicy, AcceptedPolicyIsWellFormed, Unasked
<1>2. ServesValidPolicy /\ [BuildNext]_buildVars => ServesValidPolicy'
  <2> SUFFICES ASSUME ServesValidPolicy, [BuildNext]_buildVars
               PROVE  ServesValidPolicy'
    OBVIOUS
  <2>1. CASE Build
    <3>1. AcceptedPolicyIsWellFormed'
      BY <2>1 DEF Build, ServesValidPolicy, AcceptedPolicyIsWellFormed
    <3>2. ASSUME phase' = "serving" PROVE validatePolicy(effective')
      <4>1. buildOperation(decl) # Reject /\ effective' = buildOperation(decl)
        BY <2>1, <3>2 DEF Build
      <4>2. /\ validatePolicy(Effective(Combined(decl)))
            /\ buildOperation(decl) = Effective(Combined(decl))
        BY <4>1 DEF buildOperation
      <4> QED
        BY <4>1, <4>2
    <3>3. (phase = "serving" => validatePolicy(effective))'
      BY <3>2 DEF validatePolicy
    <3> QED
      BY <3>1, <3>3 DEF ServesValidPolicy
  <2>2. ASSUME NEW present \in BOOLEAN, NEW ev \in [Req -> Outcome], Decide(present, ev)
        PROVE  ServesValidPolicy'
    <3>1. ~Misconfigured(effective)
      BY <2>2, ValidIsNotMisconfigured DEF Decide, ServesValidPolicy
    <3>2. decidePolicy(effective, present, ev) # "internal"
      BY <3>1 DEF decidePolicy
    <3>3. (phase = "serving" => validatePolicy(effective))'
      BY <2>2 DEF Decide, ServesValidPolicy, validatePolicy
    <3> QED
      BY <2>2, <3>2, <3>3 DEF Decide, ServesValidPolicy, AcceptedPolicyIsWellFormed
  <2>3. CASE UNCHANGED buildVars
    BY <2>3 DEF buildVars, ServesValidPolicy, AcceptedPolicyIsWellFormed, validatePolicy
  <2> QED
    BY <2>1, <2>2, <2>3 DEF BuildNext
<1>3. ServesValidPolicy => AcceptedPolicyIsWellFormed
  BY DEF ServesValidPolicy
<1> QED
  BY <1>1, <1>2, <1>3, PTL DEF BuildSpec

(***************************************************************************)
(* Inheritance                                                             *)
(***************************************************************************)

\* inherit_default narrows: with any_of in at most one of the two layers, whoever
\* passes the combined policy passes the default alone (andPolicy, build.go).
THEOREM InheritedDefaultNarrows ==
  ASSUME NEW base \in Policies, NEW extra \in Policies,
         NEW present \in BOOLEAN, NEW ev \in [Req -> Outcome],
         base.anyOf = <<>> \/ extra.anyOf = <<>>,
         validatePolicy(Effective(base)),
         Allowed(Effective(andPolicy(base, extra)), present, ev)
  PROVE  Allowed(Effective(base), present, ev)
<1> DEFINE b == Effective(base)
           c == Effective(andPolicy(base, extra))
<1>1. /\ base.require \in Seq(Req) /\ base.forbid \in Seq(Req) /\ base.anyOf \in Seq(Seq(Req))
      /\ extra.require \in Seq(Req) /\ extra.forbid \in Seq(Req) /\ extra.anyOf \in Seq(Seq(Req))
  BY DEF Policies
<1>2. /\ b.require = base.require /\ b.forbid = base.forbid
      /\ b.anyOf = base.anyOf /\ b.anonymous = base.anonymous
  BY DEF Effective, Policies
<1>3. /\ c.require = base.require \o extra.require
      /\ c.forbid = base.forbid \o extra.forbid
      /\ c.anyOf = base.anyOf \o extra.anyOf
      /\ c.anonymous => base.anonymous
  BY DEF Effective, andPolicy
<1>4. ~Misconfigured(b)
  BY ValidIsNotMisconfigured
<1>5. ~FirstIs(b.forbid, ev, "miss", "error") /\ ~FirstIs(b.forbid, ev, "miss", "match")
  <2>1. ~FirstIs(c.forbid, ev, "miss", "error") /\ ~FirstIs(c.forbid, ev, "miss", "match")
    BY DEF Allowed, decidePolicy
  <2> QED
    BY <1>1, <1>2, <1>3, <2>1, ScanOfPrefix
<1>6. CASE b.anonymous
  BY <1>4, <1>5, <1>6 DEF Allowed, decidePolicy
<1>7. CASE ~b.anonymous
  <2>1. /\ present
        /\ ~FirstIs(c.require, ev, "match", "error") /\ ~FirstIs(c.require, ev, "match", "miss")
        /\ ~AnyOfError(c.anyOf, ev)
        /\ c.anyOf = <<>> \/ AnyOfMatch(c.anyOf, ev)
    BY <1>2, <1>3, <1>7 DEF Allowed, decidePolicy
  <2>2. ~FirstIs(b.require, ev, "match", "error") /\ ~FirstIs(b.require, ev, "match", "miss")
    BY <1>1, <1>2, <1>3, <2>1, ScanOfPrefix
  <2>3. ~AnyOfError(b.anyOf, ev) /\ (b.anyOf = <<>> \/ AnyOfMatch(b.anyOf, ev))
    <3>1. CASE base.anyOf = <<>>
      <4>1. DOMAIN b.anyOf = {}
        BY <1>1, <1>2, <3>1
      <4> QED
        BY <1>2, <3>1, <4>1 DEF AnyOfError
    <3>2. CASE extra.anyOf = <<>>
      <4>1. c.anyOf = b.anyOf
        BY <1>1, <1>2, <1>3, <3>2
      <4> QED
        BY <2>1, <4>1
    <3> QED
      BY <3>1, <3>2
  <2> QED
    BY <1>4, <1>5, <1>7, <2>1, <2>2, <2>3 DEF Allowed, decidePolicy
<1> QED
  BY <1>6, <1>7

(***************************************************************************)
(* Induction over the naturals, for the set where a statement holds        *)
(***************************************************************************)

\* A set that holds 0 and the successor of each of its members holds every
\* natural number: the counterexample would have a least one.
LEMMA EveryNatural ==
  ASSUME NEW S, 0 \in S, \A n \in Nat : n \in S => n + 1 \in S
  PROVE  \A n \in Nat : n \in S
<1> DEFINE Missing == {n \in Nat : n \notin S}
<1> SUFFICES ASSUME Missing # {} PROVE FALSE
  OBVIOUS
<1>1. PICK n \in Missing : \A m \in Missing : ~(<<m, n>> \in OpToRel(<, Nat))
  BY NatLessThanWellFounded, WFMin
<1>2. \A m \in Missing : ~(m < n)
  BY <1>1 DEF OpToRel
<1>3. n # 0 /\ n \in Nat /\ n - 1 \in Nat
  OBVIOUS
<1>4. n - 1 \in S
  BY <1>2, <1>3
<1> QED
  BY <1>3, <1>4

(***************************************************************************)
(* The expansion of a policy                                               *)
(***************************************************************************)

Expands(f) == f = [call \in Calls |-> Expansion(f, call[1], call[2])]

\* A call one level deeper is a call, with a longer stack.
LEMMA DeeperCalls ==
  ASSUME NEW p \in Policies, NEW stack \in Seq(PresetName),
         p.preset # NoPreset, p.preset \in PresetName, Presets[p.preset] # Reject
  PROVE  /\ Presets[p.preset] \in Policies
         /\ Append(stack, p.preset) \in Seq(PresetName)
         /\ Len(Append(stack, p.preset)) = Len(stack) + 1
         /\ <<Presets[p.preset], Append(stack, p.preset)>> \in Calls
<1>1. Presets[p.preset] \in Policies
  BY BuildAssumption
<1>2. /\ Append(stack, p.preset) \in Seq(PresetName)
      /\ Len(Append(stack, p.preset)) = Len(stack) + 1
  OBVIOUS
<1> QED
  BY <1>1, <1>2 DEF Calls

\* The expansion looks at nothing but the call one level deeper.
LEMMA ExpansionLooksDeeper ==
  ASSUME NEW f, NEW g, NEW p \in Policies, NEW stack \in Seq(PresetName),
         \A q \in Policies, s \in Seq(PresetName) :
           /\ Len(stack) < MaxPresetDepth
           /\ Len(s) = Len(stack) + 1
           => f[<<q, s>>] = g[<<q, s>>]
  PROVE  Expansion(f, p, stack) = Expansion(g, p, stack)
<1>1. CASE \/ p.preset = NoPreset
           \/ Len(stack) >= MaxPresetDepth
           \/ p.preset \notin PresetName
           \/ Presets[p.preset] = Reject
  BY <1>1 DEF Expansion
<1>2. CASE ~(\/ p.preset = NoPreset
             \/ Len(stack) >= MaxPresetDepth
             \/ p.preset \notin PresetName
             \/ Presets[p.preset] = Reject)
  <2>1. /\ Presets[p.preset] \in Policies
        /\ Append(stack, p.preset) \in Seq(PresetName)
        /\ Len(Append(stack, p.preset)) = Len(stack) + 1
    BY <1>2, DeeperCalls
  <2>2. Len(stack) < MaxPresetDepth
    BY <1>2, BuildAssumption
  <2>3. f[<<Presets[p.preset], Append(stack, p.preset)>>]
          = g[<<Presets[p.preset], Append(stack, p.preset)>>]
    BY <2>1, <2>2
  <2> QED
    BY <2>3 DEF Expansion
<1> QED
  BY <1>1, <1>2

\* The recursion of expand ends: its equation has a solution, because the depth
\* of the stack is bounded (maxPresetDepth, preset.go).
LEMMA ExpansionExists == Expands(expand)
<1> DEFINE Solves(f, n) == \A p \in Policies, s \in Seq(PresetName) :
             Len(s) + n >= MaxPresetDepth => f[<<p, s>>] = Expansion(f, p, s)
           Solved == {n \in Nat : \E f : Solves(f, n)}
           Unfold(f) == [call \in Calls |-> Expansion(f, call[1], call[2])]
<1>0. \A f : \A p \in Policies, s \in Seq(PresetName) :
        Unfold(f)[<<p, s>>] = Expansion(f, p, s)
  <2> TAKE f
  <2> TAKE p \in Policies, s \in Seq(PresetName)
  <2>1. <<p, s>> \in Calls /\ <<p, s>>[1] = p /\ <<p, s>>[2] = s
    BY DEF Calls
  <2>2. \A call \in Calls : Unfold(f)[call] = Expansion(f, call[1], call[2])
    OBVIOUS
  <2> QED
    BY <2>1, <2>2
<1>1. 0 \in Solved
  <2>1. ASSUME NEW p \in Policies, NEW s \in Seq(PresetName), Len(s) + 0 >= MaxPresetDepth
        PROVE  Expansion(<<>>, p, s) = Expansion(Unfold(<<>>), p, s)
    <3>1. ~(Len(s) < MaxPresetDepth)
      BY <2>1, BuildAssumption
    <3> QED
      BY <3>1, ExpansionLooksDeeper
  <2>2. Solves(Unfold(<<>>), 0)
    BY <1>0, <2>1
  <2> QED
    BY <2>2
<1>2. ASSUME NEW n \in Nat, n \in Solved PROVE n + 1 \in Solved
  <2>1. PICK f : Solves(f, n)
    BY <1>2
  <2>2. ASSUME NEW p \in Policies, NEW s \in Seq(PresetName), Len(s) + (n + 1) >= MaxPresetDepth
        PROVE  Expansion(f, p, s) = Expansion(Unfold(f), p, s)
    <3>1. ASSUME NEW q \in Policies, NEW t \in Seq(PresetName), Len(t) = Len(s) + 1
          PROVE  f[<<q, t>>] = Unfold(f)[<<q, t>>]
      <4>1. Len(t) + n >= MaxPresetDepth
        BY <2>2, <3>1, BuildAssumption
      <4>2. f[<<q, t>>] = Expansion(f, q, t)
        BY <2>1, <4>1
      <4> HIDE DEF Unfold, Solves
      <4> QED
        BY <1>0, <4>2
    <3> HIDE DEF Unfold
    <3> QED
      BY <3>1, ExpansionLooksDeeper
  <2>3. Solves(Unfold(f), n + 1)
    BY <1>0, <2>2
  <2> HIDE DEF Solves, Unfold
  <2>4. n + 1 \in Nat
    OBVIOUS
  <2> QED
    BY <2>3, <2>4
<1>3. PICK f : Solves(f, MaxPresetDepth)
  <2> HIDE DEF Solves
  <2>1. \A n \in Nat : n \in Solved
    <3> HIDE DEF Solved
    <3> QED
      BY <1>1, <1>2, EveryNatural
  <2> QED
    BY <2>1, BuildAssumption
<1>4. \A p \in Policies, s \in Seq(PresetName) : f[<<p, s>>] = Expansion(f, p, s)
  <2>1. \A s \in Seq(PresetName) : Len(s) + MaxPresetDepth >= MaxPresetDepth
    BY BuildAssumption
  <2> QED
    BY <1>3, <2>1
<1>5. \A p \in Policies, s \in Seq(PresetName) :
        Expansion(f, p, s) = Expansion(Unfold(f), p, s)
  <2>1. \A p \in Policies, s \in Seq(PresetName) : f[<<p, s>>] = Unfold(f)[<<p, s>>]
    BY <1>0, <1>4
  <2> HIDE DEF Unfold
  <2> QED
    BY <2>1, ExpansionLooksDeeper
<1>6. Expands(Unfold(f))
  <2>1. ASSUME NEW call \in Calls
        PROVE  Expansion(f, call[1], call[2]) = Expansion(Unfold(f), call[1], call[2])
    <3>1. call[1] \in Policies /\ call[2] \in Seq(PresetName)
      BY DEF Calls
    <3> QED
      BY <1>5, <3>1
  <2> QED
    BY <2>1 DEF Expands
<1>7. expand = CHOOSE f1 : Expands(f1)
  BY DEF expand, Expands
<1> QED
  BY <1>6, <1>7

\* What a call of expand returns.
LEMMA ExpandReturns ==
  ASSUME NEW p \in Policies, NEW stack \in Seq(PresetName)
  PROVE  expand[<<p, stack>>] = Expansion(expand, p, stack)
<1>1. <<p, stack>> \in Calls /\ <<p, stack>>[1] = p /\ <<p, stack>>[2] = stack
  BY DEF Calls
<1>2. expand = [call \in Calls |-> Expansion(expand, call[1], call[2])]
  BY ExpansionExists DEF Expands
<1>3. \A call \in Calls : expand[call] = Expansion(expand, call[1], call[2])
  BY <1>2
<1> QED
  BY <1>1, <1>3

(***************************************************************************)
(* What expanding and inheriting keep of each layer                        *)
(***************************************************************************)

\* Whoever passes e passes the forbid and require of p, and is a principal if p
\* asks for one.
Covers(e, p) ==
  /\ Range(p.forbid) \subseteq Range(e.forbid)
  /\ Range(p.require) \subseteq Range(e.require)
  /\ HasPositive(p) => HasPositive(e)

\* Two lists of requirements in a row hold those of both.
LEMMA JoinHoldsBoth ==
  ASSUME NEW T, NEW s \in Seq(T), NEW t \in Seq(T)
  PROVE  /\ s \o t \in Seq(T)
         /\ Range(s) \subseteq Range(s \o t) /\ Range(t) \subseteq Range(s \o t)
         /\ s \o t = <<>> <=> s = <<>> /\ t = <<>>
<1>1. s \o t \in Seq(T) /\ Len(s \o t) = Len(s) + Len(t)
  OBVIOUS
<1>2. Range(s) \subseteq Range(s \o t)
  <2>1. \A i \in DOMAIN s : i \in DOMAIN (s \o t) /\ (s \o t)[i] = s[i]
    OBVIOUS
  <2> QED
    BY <2>1 DEF Range
<1>3. Range(t) \subseteq Range(s \o t)
  <2>1. \A i \in DOMAIN t : /\ Len(s) + i \in DOMAIN (s \o t)
                            /\ (s \o t)[Len(s) + i] = t[i]
    OBVIOUS
  <2> QED
    BY <2>1 DEF Range
<1>4. s \o t = <<>> <=> s = <<>> /\ t = <<>>
  BY <1>1
<1> QED
  BY <1>1, <1>2, <1>3, <1>4

\* A policy whose lists are those of two policies in a row covers both.
LEMMA JoinCoversBoth ==
  ASSUME NEW base \in Policies, NEW extra \in Policies, NEW e,
         e.require = base.require \o extra.require,
         e.anyOf = base.anyOf \o extra.anyOf,
         e.forbid = base.forbid \o extra.forbid
  PROVE  /\ e.require \in Seq(Req) /\ e.anyOf \in Seq(Seq(Req)) /\ e.forbid \in Seq(Req)
         /\ Covers(e, base) /\ Covers(e, extra)
<1>1. /\ base.require \in Seq(Req) /\ base.anyOf \in Seq(Seq(Req)) /\ base.forbid \in Seq(Req)
      /\ extra.require \in Seq(Req) /\ extra.anyOf \in Seq(Seq(Req)) /\ extra.forbid \in Seq(Req)
  BY DEF Policies
<1>2. /\ e.require \in Seq(Req)
      /\ Range(base.require) \subseteq Range(e.require)
      /\ Range(extra.require) \subseteq Range(e.require)
      /\ e.require = <<>> <=> base.require = <<>> /\ extra.require = <<>>
  BY <1>1, JoinHoldsBoth
<1>3. /\ e.forbid \in Seq(Req)
      /\ Range(base.forbid) \subseteq Range(e.forbid)
      /\ Range(extra.forbid) \subseteq Range(e.forbid)
  BY <1>1, JoinHoldsBoth
<1>4. /\ e.anyOf \in Seq(Seq(Req))
      /\ e.anyOf = <<>> <=> base.anyOf = <<>> /\ extra.anyOf = <<>>
  BY <1>1, JoinHoldsBoth
<1> QED
  BY <1>2, <1>3, <1>4 DEF Covers, HasPositive

LEMMA CoversItself ==
  ASSUME NEW p
  PROVE  Covers(p, p)
BY DEF Covers

LEMMA CoversThrough ==
  ASSUME NEW e, NEW p, NEW q, Covers(e, p), Covers(p, q)
  PROVE  Covers(e, q)
BY DEF Covers

\* mergePolicy keeps the preset's constraints and those written next to it.
LEMMA MergeKeepsBoth ==
  ASSUME NEW base \in Policies, NEW inline \in Policies,
         mergePolicy(base, inline) # Reject
  PROVE  /\ mergePolicy(base, inline) \in Policies
         /\ Covers(mergePolicy(base, inline), base)
         /\ Covers(mergePolicy(base, inline), inline)
<1> DEFINE e == [preset    |-> inline.preset,
                 anonymous |-> base.anonymous \/ inline.anonymous,
                 require   |-> base.require \o inline.require,
                 anyOf     |-> base.anyOf \o inline.anyOf,
                 forbid    |-> base.forbid \o inline.forbid]
<1>1. mergePolicy(base, inline) = e
  BY DEF mergePolicy
<1>2. /\ e.require \in Seq(Req) /\ e.anyOf \in Seq(Seq(Req)) /\ e.forbid \in Seq(Req)
      /\ Covers(e, base) /\ Covers(e, inline)
  BY JoinCoversBoth
<1>3. e.preset \in PresetName \cup {NoPreset} /\ e.anonymous \in BOOLEAN
  BY DEF Policies
<1>4. e \in Policies
  BY <1>2, <1>3 DEF Policies
<1> QED
  BY <1>1, <1>2, <1>4

\* andPolicy keeps the default's constraints and the method's.
LEMMA InheritingKeepsBoth ==
  ASSUME NEW base \in Policies, NEW extra \in Policies
  PROVE  /\ andPolicy(base, extra) \in Policies
         /\ Covers(andPolicy(base, extra), base)
         /\ Covers(andPolicy(base, extra), extra)
<1> DEFINE e == andPolicy(base, extra)
<1>1. /\ e.require = base.require \o extra.require
      /\ e.anyOf = base.anyOf \o extra.anyOf
      /\ e.forbid = base.forbid \o extra.forbid
      /\ e.preset = extra.preset
      /\ e.anonymous = (base.anonymous /\ (extra.anonymous \/ ~HasPositive(extra)))
  BY DEF andPolicy
<1>2. /\ e.require \in Seq(Req) /\ e.anyOf \in Seq(Seq(Req)) /\ e.forbid \in Seq(Req)
      /\ Covers(e, base) /\ Covers(e, extra)
  <2> HIDE DEF e
  <2> QED
    BY <1>1, JoinCoversBoth
<1>3. e.preset \in PresetName \cup {NoPreset} /\ e.anonymous \in BOOLEAN
  BY <1>1 DEF Policies
<1>4. e \in Policies
  BY <1>2, <1>3 DEF Policies, andPolicy
<1> QED
  BY <1>2, <1>4

\* Dropping the name of the preset changes nothing that is enforced.
LEMMA EffectiveKeeps ==
  ASSUME NEW p \in Policies
  PROVE  /\ Effective(p) \in Policies
         /\ Covers(Effective(p), p)
<1>1. /\ Effective(p).require = p.require /\ Effective(p).anyOf = p.anyOf
      /\ Effective(p).forbid = p.forbid
  BY DEF Effective, Policies
<1>2. Effective(p) \in Policies
  BY DEF Effective, Policies
<1> QED
  BY <1>1, <1>2 DEF Covers, HasPositive

(***************************************************************************)
(* The presets that were reached                                           *)
(***************************************************************************)

Reaches(f) == f = [n \in 0 .. MaxPresetDepth |-> [p \in Policies |-> ReachedWithin(f, n, p)]]

\* The recursion of Reached ends: it counts down.
LEMMA ReachedExists == Reaches(Reached)
<1> DEFINE Unfold(f) == [n \in 0 .. MaxPresetDepth |-> [p \in Policies |-> ReachedWithin(f, n, p)]]
           Solves(f, m) == \A n \in 0 .. MaxPresetDepth :
                             n <= m => f[n] = [p \in Policies |-> ReachedWithin(f, n, p)]
           Solved == {m \in Nat : \E f : Solves(f, m)}
<1>0. MaxPresetDepth \in Nat
  BY BuildAssumption
<1>1. \A f, n : n \in 0 .. MaxPresetDepth
                => Unfold(f)[n] = [p \in Policies |-> ReachedWithin(f, n, p)]
  OBVIOUS
<1>2. \A f, g, n, p : (n # 0 => f[n - 1] = g[n - 1])
                      => ReachedWithin(f, n, p) = ReachedWithin(g, n, p)
  BY DEF ReachedWithin
<1> HIDE DEF Unfold
<1>3. 0 \in Solved
  <2>1. [p \in Policies |-> ReachedWithin(<<>>, 0, p)]
          = [p \in Policies |-> ReachedWithin(Unfold(<<>>), 0, p)]
    BY <1>2
  <2>2. Solves(Unfold(<<>>), 0)
    BY <1>0, <1>1, <2>1
  <2> QED
    BY <2>2
<1>4. ASSUME NEW m \in Nat, m \in Solved PROVE m + 1 \in Solved
  <2>1. PICK f : Solves(f, m)
    BY <1>4
  <2>2. ASSUME NEW n \in 0 .. MaxPresetDepth, n <= m + 1
        PROVE  Unfold(f)[n] = [p \in Policies |-> ReachedWithin(Unfold(f), n, p)]
    <3>1. ASSUME n # 0 PROVE f[n - 1] = Unfold(f)[n - 1]
      <4>1. n - 1 \in 0 .. MaxPresetDepth /\ n - 1 <= m
        BY <1>0, <2>2, <3>1
      <4>2. f[n - 1] = [p \in Policies |-> ReachedWithin(f, n - 1, p)]
        BY <2>1, <4>1
      <4> QED
        BY <1>1, <4>1, <4>2
    <3>2. \A p \in Policies : ReachedWithin(f, n, p) = ReachedWithin(Unfold(f), n, p)
      BY <1>2, <3>1
    <3> QED
      BY <1>1, <3>2
  <2>3. Solves(Unfold(f), m + 1)
    BY <2>2
  <2> HIDE DEF Solves
  <2>4. m + 1 \in Nat
    OBVIOUS
  <2> QED
    BY <2>3, <2>4
<1>5. PICK f : Solves(f, MaxPresetDepth)
  <2> HIDE DEF Solves
  <2>1. \A m \in Nat : m \in Solved
    <3> HIDE DEF Solved
    <3> QED
      BY <1>3, <1>4, EveryNatural
  <2> QED
    BY <1>0, <2>1
<1>6. ASSUME NEW n \in 0 .. MaxPresetDepth
      PROVE  [p \in Policies |-> ReachedWithin(f, n, p)]
               = [p \in Policies |-> ReachedWithin(Unfold(f), n, p)]
  <2>1. ASSUME n # 0 PROVE f[n - 1] = Unfold(f)[n - 1]
    <3>1. n - 1 \in 0 .. MaxPresetDepth /\ n - 1 <= MaxPresetDepth
      BY <1>0, <2>1
    <3>2. f[n - 1] = [p \in Policies |-> ReachedWithin(f, n - 1, p)]
      BY <1>5, <3>1
    <3> QED
      BY <1>1, <3>1, <3>2
  <2> QED
    BY <1>2, <2>1
<1>7. Reaches(Unfold(f))
  BY <1>6 DEF Reaches, Unfold
<1>8. Reached = CHOOSE g : Reaches(g)
  BY DEF Reached, Reaches
<1> QED
  BY <1>7, <1>8

LEMMA ReachedReturns ==
  ASSUME NEW n \in 0 .. MaxPresetDepth, NEW p \in Policies
  PROVE  Reached[n][p] = ReachedWithin(Reached, n, p)
<1>1. Reached = [m \in 0 .. MaxPresetDepth |-> [q \in Policies |-> ReachedWithin(Reached, m, q)]]
  BY ReachedExists DEF Reaches
<1>2. \A m \in 0 .. MaxPresetDepth : Reached[m] = [q \in Policies |-> ReachedWithin(Reached, m, q)]
  BY <1>1
<1>3. Reached[n] = [q \in Policies |-> ReachedWithin(Reached, n, q)]
  BY <1>2
<1> QED
  BY <1>3

(***************************************************************************)
(* The result of an expansion                                              *)
(***************************************************************************)

\* What expand returns is a policy, or the error.
LEMMA ExpandIsTyped ==
  ASSUME NEW p0 \in Policies, NEW stack0 \in Seq(PresetName)
  PROVE  expand[<<p0, stack0>>] \in Policies \cup {Reject}
<1> DEFINE Holds(n) == \A p \in Policies, stack \in Seq(PresetName) :
                         Len(stack) + n >= MaxPresetDepth
                         => expand[<<p, stack>>] \in Policies \cup {Reject}
           Held == {n \in Nat : Holds(n)}
<1>0. MaxPresetDepth \in Nat
  BY BuildAssumption
<1>1. ASSUME NEW p \in Policies, NEW stack \in Seq(PresetName),
             \A q \in Policies, s \in Seq(PresetName) :
               Len(stack) < MaxPresetDepth /\ Len(s) = Len(stack) + 1
               => expand[<<q, s>>] \in Policies \cup {Reject}
      PROVE  expand[<<p, stack>>] \in Policies \cup {Reject}
  <2>1. expand[<<p, stack>>] = Expansion(expand, p, stack)
    BY ExpandReturns
  <2>2. CASE Expansion(expand, p, stack) \in {p, Reject}
    BY <2>1, <2>2
  <2>3. CASE Expansion(expand, p, stack) \notin {p, Reject}
    <3> DEFINE base == expand[<<Presets[p.preset], Append(stack, p.preset)>>]
    <3>1. /\ p.preset # NoPreset /\ ~(Len(stack) >= MaxPresetDepth)
          /\ p.preset \in PresetName /\ Presets[p.preset] # Reject
          /\ base # Reject /\ Expansion(expand, p, stack) = mergePolicy(base, p)
      BY <2>3 DEF Expansion
    <3>2. /\ Presets[p.preset] \in Policies
          /\ Append(stack, p.preset) \in Seq(PresetName)
          /\ Len(Append(stack, p.preset)) = Len(stack) + 1
      BY <3>1, DeeperCalls
    <3>3. Len(stack) < MaxPresetDepth
      BY <1>0, <3>1
    <3>4. base \in Policies
      BY <1>1, <3>1, <3>2, <3>3
    <3> QED
      BY <2>1, <2>3, <3>1, <3>4, MergeKeepsBoth
  <2> QED
    BY <2>2, <2>3
<1>2. Holds(0)
  <2> SUFFICES ASSUME NEW p \in Policies, NEW stack \in Seq(PresetName),
                      Len(stack) + 0 >= MaxPresetDepth
               PROVE  expand[<<p, stack>>] \in Policies \cup {Reject}
    OBVIOUS
  <2>1. ~(Len(stack) < MaxPresetDepth)
    BY <1>0
  <2> QED
    BY <1>1, <2>1
<1>3. ASSUME NEW n \in Nat, Holds(n) PROVE Holds(n + 1)
  <2> SUFFICES ASSUME NEW p \in Policies, NEW stack \in Seq(PresetName),
                      Len(stack) + (n + 1) >= MaxPresetDepth
               PROVE  expand[<<p, stack>>] \in Policies \cup {Reject}
    OBVIOUS
  <2>1. \A s \in Seq(PresetName) : Len(s) = Len(stack) + 1 => Len(s) + n >= MaxPresetDepth
    BY <1>0
  <2> QED
    BY <1>1, <1>3, <2>1
<1> HIDE DEF Holds
<1>4. \A n \in Nat : n \in Held
  <2>1. 0 \in Held /\ \A n \in Nat : n \in Held => n + 1 \in Held
    BY <1>2, <1>3
  <2> HIDE DEF Held
  <2> QED
    BY <2>1, EveryNatural
<1>5. Holds(MaxPresetDepth)
  BY <1>0, <1>4
<1>6. Len(stack0) + MaxPresetDepth >= MaxPresetDepth
  BY <1>0
<1> QED
  BY <1>5, <1>6 DEF Holds

\* An expansion that succeeds is a policy, and it covers the policy it started
\* from and every preset reached on the way.
LEMMA ExpandCovers ==
  \A n \in 0 .. MaxPresetDepth : \A p \in Policies, stack \in Seq(PresetName) :
    LET e == expand[<<p, stack>>]
    IN  e # Reject => \A q \in Reached[n][p] : Covers(e, q)
<1> DEFINE Holds(n) == \A p \in Policies, stack \in Seq(PresetName) :
                         expand[<<p, stack>>] # Reject
                         => \A q \in Reached[n][p] : Covers(expand[<<p, stack>>], q)
           Held == {n \in Nat : n <= MaxPresetDepth => Holds(n)}
<1>0. MaxPresetDepth \in Nat
  BY BuildAssumption
<1>1. ASSUME NEW n \in 0 .. MaxPresetDepth, n # 0 => Holds(n - 1) PROVE Holds(n)
  <2> TAKE p \in Policies, stack \in Seq(PresetName)
  <2> HAVE expand[<<p, stack>>] # Reject
  <2> TAKE q \in Reached[n][p]
  <2>1. Reached[n][p] = ReachedWithin(Reached, n, p)
    BY ReachedReturns
  <2>2. expand[<<p, stack>>] = Expansion(expand, p, stack)
    BY ExpandReturns
  <2>3. CASE p.preset = NoPreset
    <3>1. q = p /\ expand[<<p, stack>>] = p
      BY <2>1, <2>2, <2>3 DEF ReachedWithin, Expansion
    <3> QED
      BY <3>1, CoversItself
  <2>4. CASE p.preset # NoPreset
    <3> DEFINE base == expand[<<Presets[p.preset], Append(stack, p.preset)>>]
    <3>1. /\ p.preset \in PresetName /\ Presets[p.preset] # Reject
          /\ base # Reject /\ expand[<<p, stack>>] = mergePolicy(base, p)
      BY <2>2, <2>4 DEF Expansion
    <3>2. /\ Presets[p.preset] \in Policies
          /\ Append(stack, p.preset) \in Seq(PresetName)
      BY <2>4, <3>1, DeeperCalls
    <3>3. base \in Policies
      BY <3>1, <3>2, ExpandIsTyped
    <3>4. Covers(expand[<<p, stack>>], base) /\ Covers(expand[<<p, stack>>], p)
      BY <3>1, <3>3, MergeKeepsBoth
    <3>5. CASE q = p
      BY <3>4, <3>5
    <3>6. CASE q # p
      <4>1. n # 0 /\ q \in Reached[n - 1][Presets[p.preset]]
        BY <2>1, <2>4, <3>6 DEF ReachedWithin
      <4>2. Covers(base, q)
        BY <1>1, <3>1, <3>2, <4>1
      <4> QED
        BY <3>4, <4>2, CoversThrough
    <3> QED
      BY <3>5, <3>6
  <2> QED
    BY <2>3, <2>4
<1> HIDE DEF Holds
<1>2. 0 \in Held
  BY <1>0, <1>1
<1>3. ASSUME NEW n \in Nat, n \in Held PROVE n + 1 \in Held
  BY <1>0, <1>1, <1>3
<1>4. \A n \in Nat : n \in Held
  <2> HIDE DEF Held
  <2> QED
    BY <1>2, <1>3, EveryNatural
<1>5. \A n \in 0 .. MaxPresetDepth : Holds(n)
  BY <1>0, <1>4
<1> QED
  BY <1>5 DEF Holds

\* A layer that is declared and expands to a policy is covered by it, with all
\* the presets reached from it.
LEMMA LayerIsCovered ==
  ASSUME NEW p \in Policies, expand[<<p, <<>>>>] # Reject
  PROVE  /\ expand[<<p, <<>>>>] \in Policies
         /\ \A q \in Reached[MaxPresetDepth][p] : Covers(expand[<<p, <<>>>>], q)
<1>1. <<>> \in Seq(PresetName) /\ MaxPresetDepth \in 0 .. MaxPresetDepth
  BY BuildAssumption
<1> QED
  BY <1>1, ExpandIsTyped, ExpandCovers

(***************************************************************************)
(* What every answer of a built set follows from                           *)
(***************************************************************************)

\* The strengthening: the set serves what was built from the declaration, and
\* the last answer is the decider's, for that policy.
ServesWhatWasBuilt ==
  /\ BuildTypeOK
  /\ phase = "serving" => effective = buildOperation(decl) /\ effective # Reject
  /\ phase # "serving" => asked = Unasked
  /\ \/ asked = Unasked
     \/ asked.answer = decidePolicy(effective, asked.present, asked.ev)

\* The two layers of an operation, when its policy was built.
LEMMA BuiltFromLayers ==
  ASSUME NEW d \in Declaration, buildOperation(d) # Reject
  PROVE  LET default == Expanded(defaultPolicy(d))
             method  == Expanded(d.method)
         IN  /\ default # Reject /\ method # Reject
             /\ Combined(d) \in Policies
             /\ buildOperation(d) = Effective(Combined(d))
             /\ d.method = Undeclared => defaultPolicy(d) # Undeclared /\ Combined(d) = default
             /\ d.method # Undeclared /\ ~DefaultTakesPart(d) => Combined(d) = method
             /\ d.method # Undeclared /\ DefaultTakesPart(d) => Combined(d) = andPolicy(default, method)
<1> DEFINE default == Expanded(defaultPolicy(d))
           method  == Expanded(d.method)
<1>1. /\ d.method \in Policies \cup {Undeclared}
      /\ defaultPolicy(d) \in Policies \cup {Undeclared}
  BY BuildAssumption DEF Declaration, Layer, defaultPolicy
<1>2. /\ Combined(d) # Reject /\ buildOperation(d) = Effective(Combined(d))
  BY DEF buildOperation
<1>3. /\ d.method = Undeclared => method = Undeclared
      /\ d.method # Undeclared => d.method \in Policies /\ method = expand[<<d.method, <<>>>>]
      /\ defaultPolicy(d) = Undeclared => default = Undeclared
      /\ defaultPolicy(d) # Undeclared
         => /\ defaultPolicy(d) \in Policies
            /\ default = expand[<<defaultPolicy(d), <<>>>>]
  BY <1>1 DEF Expanded
<1>4. /\ d.method # Undeclared => method \in Policies \cup {Reject}
      /\ defaultPolicy(d) # Undeclared => default \in Policies \cup {Reject}
  <2>1. <<>> \in Seq(PresetName)
    OBVIOUS
  <2> QED
    BY <1>3, <2>1, ExpandIsTyped
<1>5. Undeclared \notin Policies \cup {Reject}
  BY BuildAssumption
<1>6. /\ method = Undeclared <=> d.method = Undeclared
      /\ default = Undeclared <=> defaultPolicy(d) = Undeclared
  BY <1>3, <1>4, <1>5
<1> HIDE DEF default, method
<1>7. Combined(d) =
        CASE default = Reject \/ method = Reject         -> Reject
          [] default = Undeclared /\ method = Undeclared -> Reject
          [] default # Undeclared /\ method = Undeclared -> default
          [] default = Undeclared /\ method # Undeclared -> method
          [] OTHER -> IF d.inherit THEN andPolicy(default, method) ELSE method
  BY DEF Combined, default, method
<1>8. default # Reject /\ method # Reject
  BY <1>2, <1>5, <1>7
<1>9. /\ ~(default = Undeclared /\ method = Undeclared)
      /\ default # Undeclared /\ method = Undeclared => Combined(d) = default
      /\ default = Undeclared /\ method # Undeclared => Combined(d) = method
      /\ default # Undeclared /\ method # Undeclared
         => Combined(d) = IF d.inherit THEN andPolicy(default, method) ELSE method
  BY <1>2, <1>7, <1>8
<1>10. /\ d.method = Undeclared => defaultPolicy(d) # Undeclared /\ Combined(d) = default
       /\ d.method # Undeclared /\ ~DefaultTakesPart(d) => Combined(d) = method
       /\ d.method # Undeclared /\ DefaultTakesPart(d) => Combined(d) = andPolicy(default, method)
  BY <1>6, <1>9 DEF DefaultTakesPart
<1>11. Combined(d) \in Policies
  BY <1>4, <1>8, <1>10, InheritingKeepsBoth DEF DefaultTakesPart
<1> QED
  BY <1>2, <1>8, <1>10, <1>11 DEF default, method

LEMMA AnswersAreTyped ==
  ASSUME NEW p, NEW present, NEW ev
  PROVE  decidePolicy(p, present, ev) \in Answers
BY DEF decidePolicy, Answers

LEMMA ServingStarts == BuildInit => ServesWhatWasBuilt
<1> SUFFICES ASSUME BuildInit PROVE ServesWhatWasBuilt
  OBVIOUS
<1>1. asked \in Requests
  <2>1. [r \in Req |-> "miss"] \in [Req -> Outcome]
    BY DEF Outcome
  <2> QED
    BY <2>1 DEF BuildInit, Requests, Unasked
<1> QED
  BY <1>1 DEF BuildInit, ServesWhatWasBuilt, BuildTypeOK

LEMMA ServingStepKeeps ==
  ASSUME ServesWhatWasBuilt, [BuildNext]_buildVars
  PROVE  ServesWhatWasBuilt'
<1>1. CASE Build
  <2>1. decl' = decl /\ asked' = asked /\ asked = Unasked /\ decl \in Declaration
    BY <1>1 DEF Build, ServesWhatWasBuilt, BuildTypeOK
  <2>2. /\ phase' \in {"serving", "rejected"}
        /\ phase' = "serving" => effective' = buildOperation(decl) /\ effective' # Reject
        /\ phase' # "serving" => effective' = Undeclared
    BY <1>1 DEF Build
  <2>3. effective' \in Policies \cup {Undeclared}
    <3>1. CASE phase' = "serving"
      <4>1. buildOperation(decl) # Reject
        BY <2>2, <3>1
      <4>2. /\ Combined(decl) \in Policies
            /\ buildOperation(decl) = Effective(Combined(decl))
        BY <2>1, <4>1, BuiltFromLayers
      <4> QED
        BY <2>2, <3>1, <4>2, EffectiveKeeps
    <3> QED
      BY <2>2, <3>1
  <2>4. BuildTypeOK'
    BY <2>1, <2>2, <2>3 DEF ServesWhatWasBuilt, BuildTypeOK
  <2>5. (phase = "serving" => effective = buildOperation(decl) /\ effective # Reject)'
    <3>1. \A d : d = decl => buildOperation(d) = buildOperation(decl)
      OBVIOUS
    <3> QED
      BY <2>1, <2>2
  <2> QED
    BY <2>1, <2>4, <2>5 DEF ServesWhatWasBuilt
<1>2. ASSUME NEW present \in BOOLEAN, NEW ev \in [Req -> Outcome], Decide(present, ev)
      PROVE  ServesWhatWasBuilt'
  <2> DEFINE answer == decidePolicy(effective, present, ev)
  <2>1. /\ phase = "serving" /\ phase' = phase /\ decl' = decl /\ effective' = effective
        /\ asked' = [present |-> present, ev |-> ev, answer |-> answer]
    BY <1>2 DEF Decide
  <2>2. answer \in Answers
    BY AnswersAreTyped
  <2> HIDE DEF answer
  <2>3. asked' \in Requests
    BY <2>1, <2>2 DEF Requests
  <2>4. BuildTypeOK'
    BY <2>1, <2>3 DEF ServesWhatWasBuilt, BuildTypeOK
  <2>5. asked'.answer = answer /\ asked'.present = present /\ asked'.ev = ev
    BY <2>1
  <2>6. asked'.answer = decidePolicy(effective', asked'.present, asked'.ev)
    BY <2>1, <2>5 DEF answer
  <2>7. (phase = "serving" => effective = buildOperation(decl) /\ effective # Reject)'
    BY <2>1 DEF ServesWhatWasBuilt
  <2> QED
    BY <2>1, <2>4, <2>6, <2>7 DEF ServesWhatWasBuilt
<1>3. CASE UNCHANGED buildVars
  BY <1>3 DEF buildVars, ServesWhatWasBuilt, BuildTypeOK
<1> QED
  BY <1>1, <1>2, <1>3 DEF BuildNext

\* What is known when a request was allowed.
LEMMA AllowedByWhatWasBuilt ==
  ASSUME ServesWhatWasBuilt, asked.answer = "allow"
  PROVE  /\ decl \in Declaration /\ effective \in Policies
         /\ asked.present \in BOOLEAN /\ asked.ev \in [Req -> Outcome]
         /\ effective = buildOperation(decl) /\ buildOperation(decl) # Reject
         /\ Allowed(effective, asked.present, asked.ev)
<1>1. asked # Unasked
  BY DEF Unasked
<1>2. /\ phase = "serving" /\ effective = buildOperation(decl) /\ effective # Reject
      /\ asked.answer = decidePolicy(effective, asked.present, asked.ev)
  BY <1>1 DEF ServesWhatWasBuilt
<1>3. /\ asked.present \in BOOLEAN /\ asked.ev \in [Req -> Outcome]
      /\ decl \in Declaration
  BY DEF ServesWhatWasBuilt, BuildTypeOK, Requests
<1>4. effective \in Policies
  BY <1>2, <1>3, BuiltFromLayers, EffectiveKeeps
<1> QED
  BY <1>2, <1>3, <1>4 DEF Allowed

\* For every vocabulary of presets and every declaration, the operation's policy
\* is well typed, and the answers are those of the decider.
THEOREM BuiltPolicyIsTyped == BuildSpec => []BuildTypeOK
<1>1. BuildInit => ServesWhatWasBuilt
  BY ServingStarts
<1>2. ServesWhatWasBuilt /\ [BuildNext]_buildVars => ServesWhatWasBuilt'
  BY ServingStepKeeps
<1>3. ServesWhatWasBuilt => BuildTypeOK
  BY DEF ServesWhatWasBuilt
<1> QED
  BY <1>1, <1>2, <1>3, PTL DEF BuildSpec

\* A predicate that fails to evaluate never opens the door of a built policy.
THEOREM FailedPredicatesRefuse == BuildSpec => []ErrorsFailClosed
<1>1. BuildInit => ServesWhatWasBuilt
  BY ServingStarts
<1>2. ServesWhatWasBuilt /\ [BuildNext]_buildVars => ServesWhatWasBuilt'
  BY ServingStepKeeps
<1>3. ServesWhatWasBuilt => ErrorsFailClosed
  <2> SUFFICES ASSUME ServesWhatWasBuilt, asked.answer = "allow"
               PROVE  Allowed(effective, asked.present, Against(effective, asked.ev))
    BY DEF ErrorsFailClosed
  <2> DEFINE against == Against(effective, asked.ev)
  <2>1. /\ effective \in Policies /\ asked.present \in BOOLEAN
        /\ asked.ev \in [Req -> Outcome] /\ Allowed(effective, asked.present, asked.ev)
    BY AllowedByWhatWasBuilt
  <2>2. /\ against \in [Req -> {"match", "miss"}]
        /\ \A r \in Req : asked.ev[r] # "error" => against[r] = asked.ev[r]
    BY <2>1 DEF Against, Outcome
  <2> QED
    BY <2>1, <2>2, FailuresNeverAllow
<1> QED
  BY <1>1, <1>2, <1>3, PTL DEF BuildSpec

\* Whoever is allowed by a policy that inherits passes the default it inherits.
THEOREM InheritedLayersNarrow == BuildSpec => []InheritanceNarrows
<1>1. BuildInit => ServesWhatWasBuilt
  BY ServingStarts
<1>2. ServesWhatWasBuilt /\ [BuildNext]_buildVars => ServesWhatWasBuilt'
  BY ServingStepKeeps
<1>3. ServesWhatWasBuilt => InheritanceNarrows
  <2> DEFINE default == Expanded(defaultPolicy(decl))
             method  == Expanded(decl.method)
  <2> SUFFICES ASSUME ServesWhatWasBuilt,
                      asked.answer = "allow", decl.inherit,
                      decl.method # Undeclared, defaultPolicy(decl) # Undeclared,
                      default.anyOf = <<>> \/ method.anyOf = <<>>,
                      validatePolicy(Effective(default))
               PROVE  Allowed(Effective(default), asked.present, asked.ev)
    BY DEF InheritanceNarrows
  <2>1. /\ decl \in Declaration /\ asked.present \in BOOLEAN /\ asked.ev \in [Req -> Outcome]
        /\ effective = buildOperation(decl) /\ buildOperation(decl) # Reject
        /\ Allowed(effective, asked.present, asked.ev)
    BY AllowedByWhatWasBuilt
  <2>2. /\ default # Reject /\ method # Reject
        /\ effective = Effective(andPolicy(default, method))
    BY <2>1, BuiltFromLayers DEF DefaultTakesPart
  <2>3. default \in Policies /\ method \in Policies
    <3>1. /\ decl.method \in Policies /\ defaultPolicy(decl) \in Policies
          /\ <<>> \in Seq(PresetName)
      BY <2>1, BuildAssumption DEF Declaration, Layer, defaultPolicy
    <3>2. /\ default = expand[<<defaultPolicy(decl), <<>>>>]
          /\ method = expand[<<decl.method, <<>>>>]
      BY DEF Expanded
    <3> HIDE DEF default, method
    <3> QED
      BY <2>2, <3>1, <3>2, ExpandIsTyped
  <2> QED
    BY <2>1, <2>2, <2>3, InheritedDefaultNarrows
<1> QED
  BY <1>1, <1>2, <1>3, PTL DEF BuildSpec

\* For every depth and vocabulary of presets: a request that is allowed passes
\* every layer and every preset that its policy was built from.
THEOREM AllLayersAreEnforced == BuildSpec => []EveryLayerEnforced
<1>1. BuildInit => ServesWhatWasBuilt
  BY ServingStarts
<1>2. ServesWhatWasBuilt /\ [BuildNext]_buildVars => ServesWhatWasBuilt'
  BY ServingStepKeeps
<1>3. ServesWhatWasBuilt => EveryLayerEnforced
  <2> DEFINE default == Expanded(defaultPolicy(decl))
             method  == Expanded(decl.method)
  <2> SUFFICES ASSUME ServesWhatWasBuilt, asked.answer = "allow", NEW q \in Contributing(decl)
               PROVE  /\ \A r \in Range(q.forbid)  : asked.ev[r] = "miss"
                      /\ \A r \in Range(q.require) : asked.ev[r] = "match"
                      /\ HasPositive(q) => asked.present
    BY DEF EveryLayerEnforced
  <2>1. /\ decl \in Declaration /\ asked.present \in BOOLEAN /\ asked.ev \in [Req -> Outcome]
        /\ effective = buildOperation(decl) /\ buildOperation(decl) # Reject
        /\ effective \in Policies /\ Allowed(effective, asked.present, asked.ev)
    BY AllowedByWhatWasBuilt
  <2>2. /\ default # Reject /\ method # Reject
        /\ Combined(decl) \in Policies /\ effective = Effective(Combined(decl))
        /\ decl.method = Undeclared => Combined(decl) = default
        /\ decl.method # Undeclared /\ ~DefaultTakesPart(decl) => Combined(decl) = method
        /\ decl.method # Undeclared /\ DefaultTakesPart(decl)
           => Combined(decl) = andPolicy(default, method)
    BY <2>1, BuiltFromLayers
  <2>3. PICK p : /\ q \in Reached[MaxPresetDepth][p]
                 /\ \/ p = decl.method /\ p # Undeclared
                    \/ p = defaultPolicy(decl) /\ DefaultTakesPart(decl)
    BY DEF Contributing
  <2>4. p \in Policies /\ p # Undeclared
    BY <2>1, <2>3, BuildAssumption DEF Declaration, Layer, defaultPolicy, DefaultTakesPart
  <2>5. Covers(Combined(decl), expand[<<p, <<>>>>]) /\ expand[<<p, <<>>>>] # Reject
    <3>1. /\ decl.method # Undeclared => method = expand[<<decl.method, <<>>>>]
          /\ defaultPolicy(decl) # Undeclared => default = expand[<<defaultPolicy(decl), <<>>>>]
      BY DEF Expanded
    <3>2. /\ decl.method \in Policies \cup {Undeclared}
          /\ defaultPolicy(decl) \in Policies \cup {Undeclared}
      BY <2>1, BuildAssumption DEF Declaration, Layer, defaultPolicy
    <3> HIDE DEF default, method
    <3>3. /\ decl.method # Undeclared => method \in Policies
          /\ defaultPolicy(decl) # Undeclared => default \in Policies
      BY <2>2, <3>1, <3>2, LayerIsCovered
    <3>4. CASE p = decl.method
      <4>1. expand[<<p, <<>>>>] = method
        BY <2>4, <3>1, <3>4
      <4>2. CASE DefaultTakesPart(decl)
        BY <2>2, <2>4, <3>3, <3>4, <4>1, <4>2, InheritingKeepsBoth DEF DefaultTakesPart
      <4>3. CASE ~DefaultTakesPart(decl)
        BY <2>2, <2>4, <3>4, <4>1, <4>3, CoversItself
      <4> QED
        BY <4>2, <4>3
    <3>5. CASE p = defaultPolicy(decl) /\ DefaultTakesPart(decl)
      <4>1. expand[<<p, <<>>>>] = default
        BY <2>4, <3>1, <3>5
      <4>2. CASE decl.method = Undeclared
        BY <2>2, <4>1, <4>2, CoversItself
      <4>3. CASE decl.method # Undeclared
        BY <2>2, <2>4, <3>3, <3>5, <4>1, <4>3, InheritingKeepsBoth
      <4> QED
        BY <4>2, <4>3
    <3> QED
      BY <2>3, <3>4, <3>5
  <2>6. Covers(expand[<<p, <<>>>>], q)
    BY <2>3, <2>4, <2>5, LayerIsCovered
  <2>7. Covers(effective, q)
    BY <2>2, <2>5, <2>6, EffectiveKeeps, CoversThrough
  <2>8. /\ \A i \in DOMAIN effective.forbid : asked.ev[effective.forbid[i]] = "miss"
        /\ \A i \in DOMAIN effective.require : asked.ev[effective.require[i]] = "match"
        /\ HasPositive(effective) => asked.present
    BY <2>1, AllowedMeans
  <2>9. /\ \A r \in Range(effective.forbid) : asked.ev[r] = "miss"
        /\ \A r \in Range(effective.require) : asked.ev[r] = "match"
    BY <2>8 DEF Range
  <2> QED
    BY <2>7, <2>8, <2>9 DEF Covers
<1> QED
  BY <1>1, <1>2, <1>3, PTL DEF BuildSpec

=============================================================================
