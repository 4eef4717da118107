--------------------------- MODULE StartupProofs ----------------------------
(***************************************************************************)
(* What calls meet on a server that New accepted, for every configuration. *)
(* The argument: a call is only served by a server all of whose checks     *)
(* passed; on its way a call without a principal cannot have passed authz  *)
(* of a protected operation, and one with a valid credential has its       *)
(* principal once it has passed authn.  The checks of the chain say that   *)
(* these stages are there, and in this order.                              *)
(***************************************************************************)
EXTENDS Startup, TLAPS

\* Every check of New accepted the configuration.
Accepted == \A i \in DOMAIN Checks : Passes(Checks[i])

\* The calls that a server takes are for what it has.
Takes ==
  /\ cfg \in Config
  /\ at \in Int
  /\ phase = "serving" => Accepted
  /\ call # NoCall => phase = "serving"
  /\ call = NoCall => result = "none"
  /\ call.entry \in {"grpc", "gateway"} =>
       call.op \in SurfaceMethods \/ result = "404"
  /\ call # NoCall => call.entry \in {"grpc", "gateway", "extra"}

\* Where the call stands: what the interceptors that it met left behind.
Met(i) == i \in DOMAIN Stages /\ i < at /\ Serves(Stages[i], Streaming)

Shielded ==
  /\ \A i \in DOMAIN Stages :
       Met(i) /\ Stages[i].name = Authz /\ ~Anonymous(call.op) /\ result \in {"none", "handled"}
       => principal
  /\ \A i \in DOMAIN Stages :
       Met(i) /\ Stages[i].name = Authn /\ call.credential /\ cfg.Authenticators # {} => principal
  /\ result = "handled" => Ahead = {}

\* A caller with a credential is turned away by authz, before any authn.
TurnedAway ==
  result = "unauthenticated" /\ call.credential /\ cfg.Authenticators # {} =>
    /\ ~Anonymous(call.op)
    /\ \E i \in DOMAIN Stages :
         /\ Met(i) /\ Stages[i].name = Authz
         /\ \A j \in DOMAIN Stages : Met(j) /\ j < i => Stages[j].name # Authn

StartupInv == Takes /\ Shielded /\ TurnedAway

(***************************************************************************)
(* The checks                                                              *)
(***************************************************************************)

\* What an accepted configuration passed.
LEMMA AcceptedMeans ==
  ASSUME Accepted
  PROVE  /\ WithOperationsAccepts /\ BuildFromServices /\ validateRegistrations
         /\ validateExtraConflicts /\ validateAuthChain
         /\ cfg.DisableHTTP \/ buildGroups
<1>1. /\ Passes("extra") /\ Passes("surface") /\ Passes("registrations")
      /\ Passes("conflicts") /\ Passes("chain") /\ Passes("groups")
  BY DEF Accepted, Checks
<1> QED
  BY <1>1 DEF Passes

\* Whatever a path leads to: an extra route, a method of the surface, or nothing.
LEMMA DispatchFinds ==
  ASSUME NEW verb, NEW path
  PROVE  Dispatch(verb, path) \in ExtraIDs \cup SurfaceMethods \cup {NotFound}
<1>1. \A group, rest : Transcode(group, verb, rest) \in SurfaceMethods \cup {NotFound}
  <2> TAKE group, rest
  <2> DEFINE found == {m \in Method : /\ <<verb, rest>> \in Descriptor[m].http
                                      /\ \E r \in SetOf(allRegistrations) :
                                           /\ r.HTTP /\ GroupOf(r) = group
                                           /\ r.Service = Descriptor[m].service}
  <2>1. Transcode(group, verb, rest) = IF found = {} THEN NotFound ELSE CHOOSE m \in found : TRUE
    BY DEF Transcode
  <2>2. \A m \in found : m \in SurfaceMethods
    BY DEF SurfaceMethods, MethodsOf, Registered
  <2> HIDE DEF found
  <2> QED
    BY <2>1, <2>2
<1>2. \A extra : extra \subseteq SetOf(Extra) /\ extra # {}
                 => ExtraID(CHOOSE r \in extra : TRUE) \in ExtraIDs
  BY DEF ExtraIDs
<1>3. {r \in SetOf(Extra) : r.Verb = verb /\ r.Path = path} \subseteq SetOf(Extra)
  OBVIOUS
<1> QED
  BY <1>1, <1>2, <1>3 DEF Dispatch

\* An operation of the surface has a policy, and its own anonymity.
LEMMA SurfaceHasPolicies ==
  ASSUME Accepted, NEW m \in SurfaceMethods
  PROVE  m \in DOMAIN Set /\ (Anonymous(m) <=> Set[m].Anonymous)
<1>1. m \in DOMAIN Set
  BY AcceptedMeans DEF BuildFromServices
<1> QED
  BY <1>1 DEF Anonymous

(***************************************************************************)
(* The chain                                                               *)
(***************************************************************************)

\* The stages of a server's chain are numbered, with distinct names.
LEMMA ChainIsAssembled ==
  ASSUME cfg \in Config
  PROVE  /\ \A i \in DOMAIN chain : i \in Int /\ i >= 1
         /\ \A i, j \in DOMAIN chain : chain[i].name = chain[j].name => i = j
<1>1. CASE cfg.Chain = <<>>
  <2>1. chain = DefaultChain
    BY <1>1 DEF chain
  <2>2. /\ DOMAIN DefaultChain = 1 .. 6
        /\ DefaultChain[1].name = "recovery" /\ DefaultChain[2].name = "requestid"
        /\ DefaultChain[3].name = "clientinfo" /\ DefaultChain[4].name = "authn"
        /\ DefaultChain[5].name = "authz" /\ DefaultChain[6].name = "validate"
    BY DEF DefaultChain, Stage, Authn, Authz
  <2> QED
    BY <2>1, <2>2
<1>2. CASE cfg.Chain # <<>>
  <2>1. chain = cfg.Chain
    BY <1>2 DEF chain
  <2>2. /\ Len(cfg.Chain) \in Nat /\ DOMAIN cfg.Chain = 1 .. Len(cfg.Chain)
        /\ AssembleWith(NoOptions, cfg.Chain)
    BY <1>2, ConfigAssumption
  <2>3. \A i, j \in DOMAIN cfg.Chain : cfg.Chain[i].name = cfg.Chain[j].name => i = j
    BY <2>2 DEF AssembleWith
  <2> QED
    BY <2>1, <2>2, <2>3
<1> QED
  BY <1>1, <1>2

LEMMA StagesAreNumbered ==
  ASSUME cfg \in Config
  PROVE  \A i \in DOMAIN Stages : i \in Int /\ i >= 1
<1>1. CASE call.entry = "extra"
  BY <1>1 DEF Stages
<1>2. CASE call.entry # "extra"
  BY <1>2, ChainIsAssembled DEF Stages
<1> QED
  BY <1>1, <1>2

\* A call for a protected operation is one the checks of the chain are about.
LEMMA ProtectedCalls ==
  ASSUME Takes, StreamsDeclared, call # NoCall, result # "404",
         call.entry # "extra", ~Anonymous(call.op)
  PROVE  HasProtected /\ (Streaming => HasProtectedStream)
<1>1. Accepted /\ call.op \in SurfaceMethods
  BY DEF Takes
<1>2. call.op \in Protected
  BY <1>1, SurfaceHasPolicies DEF Protected
<1>3. Streaming => Set[call.op].Streaming
  BY <1>2 DEF Streaming, StreamsDeclared, Protected
<1> QED
  BY <1>2, <1>3 DEF HasProtected, HasProtectedStream

\* Around the handler of a protected operation there is an authz stage.
LEMMA AuthzIsThere ==
  ASSUME Takes, StreamsDeclared, call # NoCall, result # "404",
         ~Anonymous(call.op), ~cfg.AllowNoAuthz
  PROVE  \E i \in DOMAIN Stages : Serves(Stages[i], Streaming) /\ Stages[i].name = Authz
<1>1. CASE call.entry = "extra"
  <2>1. /\ Stages = <<Stage(Authn, 0), Stage(Authz, 0)>> /\ ~Streaming
    BY <1>1 DEF Stages, Streaming
  <2>2. 2 \in DOMAIN Stages /\ Serves(Stages[2], Streaming) /\ Stages[2].name = Authz
    BY <2>1 DEF Stage, Serves
  <2> QED
    BY <2>2
<1>2. CASE call.entry # "extra"
  <2>1. Stages = chain
    BY <1>2 DEF Stages
  <2>2. HasProtected /\ (Streaming => HasProtectedStream)
    BY <1>2, ProtectedCalls
  <2>3. validateAuthChain
    BY AcceptedMeans DEF Takes
  <2>4. Has(chain, Authz) /\ (Streaming => HasStream(chain, Authz))
    BY <2>2, <2>3 DEF validateAuthChain
  <2>5. CASE Streaming
    BY <2>1, <2>4, <2>5 DEF HasStream, Serves
  <2>6. CASE ~Streaming
    BY <2>1, <2>4, <2>6 DEF Has, Serves
  <2> QED
    BY <2>5, <2>6
<1> QED
  BY <1>1, <1>2

\* Before an authz stage that a call meets there is an authn stage that it meets.
LEMMA AuthnIsBefore ==
  ASSUME Takes, StreamsDeclared, call # NoCall, result # "404", ~Anonymous(call.op),
         ~cfg.AllowNoAuthz, ~cfg.AllowNoAuthenticator, Has(chain, Authn),
         NEW i \in DOMAIN Stages, Serves(Stages[i], Streaming), Stages[i].name = Authz
  PROVE  \E j \in DOMAIN Stages : /\ j < i
                                  /\ Serves(Stages[j], Streaming) /\ Stages[j].name = Authn
<1>1. CASE call.entry = "extra"
  <2>1. Stages = <<Stage(Authn, 0), Stage(Authz, 0)>> /\ ~Streaming
    BY <1>1 DEF Stages, Streaming
  <2>2. /\ DOMAIN Stages = {1, 2} /\ Serves(Stages[1], Streaming)
        /\ Stages[1].name = Authn /\ Authn # Authz
    BY <2>1 DEF Stage, Serves, Authn, Authz
  <2>3. i = 2
    BY <2>2
  <2> QED
    BY <2>2, <2>3
<1>2. CASE call.entry # "extra"
  <2>1. Stages = chain
    BY <1>2 DEF Stages
  <2>2. HasProtected /\ (Streaming => HasProtectedStream)
    BY <1>2, ProtectedCalls
  <2>3. validateAuthChain
    BY AcceptedMeans DEF Takes
  <2>4. /\ Has(chain, Authz) /\ AuthzAfterAuthn
        /\ Streaming => HasStream(chain, Authn)
    BY <2>2, <2>3 DEF validateAuthChain
  <2>5. \A k, l \in DOMAIN chain : chain[k].name = chain[l].name => k = l
    BY ChainIsAssembled DEF Takes
  <2>6. PICK j \in DOMAIN chain : chain[j].name = Authn /\ chain[j].unary
    BY DEF Has
  <2>7. chain[i].unary
    BY <2>1, <2>4, <2>5 DEF Has
  <2>8. j < i
    BY <2>1, <2>4, <2>6, <2>7 DEF AuthzAfterAuthn
  <2>9. Serves(chain[j], Streaming)
    <3>1. CASE Streaming
      BY <2>4, <2>5, <2>6, <3>1 DEF HasStream, Serves
    <3>2. CASE ~Streaming
      BY <2>6, <3>2 DEF Serves
    <3> QED
      BY <3>1, <3>2
  <2> QED
    BY <2>1, <2>6, <2>8, <2>9
<1> QED
  BY <1>1, <1>2

(***************************************************************************)
(* A server's configuration stands                                         *)
(***************************************************************************)

\* The configuration does not change, and neither does what is read from it.
LEMMA ConfigurationStands ==
  ASSUME cfg' = cfg
  PROVE  /\ SurfaceMethods' = SurfaceMethods /\ chain' = chain
         /\ \A op : Anonymous(op)' <=> Anonymous(op)
         /\ Accepted' <=> Accepted
<1>1. allRegistrations' = allRegistrations
  BY DEF allRegistrations
<1>2. Registered' = Registered
  BY <1>1 DEF Registered
<1>3. SurfaceMethods' = SurfaceMethods
  BY <1>2 DEF SurfaceMethods
<1>4. Set' = Set
  BY <1>2 DEF Set
<1>5. chain' = chain
  BY DEF chain
<1>6. Extra' = Extra
  BY DEF Extra, builtinRoutes
<1>7. ExtraIDs' = ExtraIDs
  BY <1>6 DEF ExtraIDs
<1>8. \A op : Anonymous(op)' <=> Anonymous(op)
  BY <1>4, <1>6 DEF Anonymous
<1>9. (\A s : DerivedAPI(s)' = DerivedAPI(s)) /\ (\A n : Prefix(n)' = Prefix(n))
  BY <1>4 DEF DerivedAPI, Prefix
<1>10. (\A r : GroupOf(r)' = GroupOf(r)) /\ Groups' = Groups
  <2>1. \A r : GroupOf(r)' = GroupOf(r)
    BY <1>9 DEF GroupOf
  <2> QED
    BY <1>1, <2>1 DEF Groups
<1>11. (HasProtected' <=> HasProtected) /\ (HasProtectedStream' <=> HasProtectedStream)
  <2>1. Protected' = Protected
    BY <1>4 DEF Protected
  <2> QED
    BY <1>4, <1>6, <2>1 DEF HasProtected, HasProtectedStream
<1>12. prefixedRoutes' = prefixedRoutes
  <2>1. \A m : Prefix(Set[m].API)' = Prefix(Set[m].API)
    BY <1>4 DEF Prefix
  <2>2. \A row : row \in prefixedRoutes <=> \E m \in SurfaceMethods \cap DOMAIN Set :
          row \in {[id |-> m, verb |-> r[1], path |-> Prefix(Set[m].API) \o r[2]] : r \in Descriptor[m].http}
    BY Zenon DEF prefixedRoutes
  <2>3. \A row : row \in prefixedRoutes' <=> \E m \in SurfaceMethods' \cap DOMAIN Set' :
          row \in {[id |-> m, verb |-> r[1], path |-> Prefix(Set[m].API)' \o r[2]] : r \in Descriptor[m].http}
    BY Zenon DEF prefixedRoutes
  <2>4. \A m, row :
          row \in {[id |-> m, verb |-> r[1], path |-> Prefix(Set[m].API)' \o r[2]] : r \in Descriptor[m].http}
          <=> row \in {[id |-> m, verb |-> r[1], path |-> Prefix(Set[m].API) \o r[2]] : r \in Descriptor[m].http}
    BY <2>1
  <2>5. ASSUME NEW row \in prefixedRoutes PROVE row \in prefixedRoutes'
    <3>1. PICK m \in SurfaceMethods \cap DOMAIN Set :
            row \in {[id |-> m, verb |-> r[1], path |-> Prefix(Set[m].API) \o r[2]] : r \in Descriptor[m].http}
      BY Zenon, <2>2
    <3>2. m \in SurfaceMethods' \cap DOMAIN Set'
      BY <1>3, <1>4
    <3> QED
      BY Zenon, <2>3, <2>4, <3>1, <3>2
  <2>6. ASSUME NEW row \in prefixedRoutes' PROVE row \in prefixedRoutes
    <3>1. PICK m \in SurfaceMethods' \cap DOMAIN Set' :
            row \in {[id |-> m, verb |-> r[1], path |-> Prefix(Set[m].API)' \o r[2]] : r \in Descriptor[m].http}
      BY Zenon, <2>3
    <3>2. m \in SurfaceMethods \cap DOMAIN Set
      BY <1>3, <1>4
    <3> QED
      BY Zenon, <2>2, <2>4, <3>1, <3>2
  <2> QED
    BY <2>5, <2>6
<1>13. /\ buildPolicyAccepts' <=> buildPolicyAccepts
       /\ WithOperationsAccepts' <=> WithOperationsAccepts
       /\ BuildFromServices' <=> BuildFromServices
       /\ validateRegisteredPolicies' <=> validateRegisteredPolicies
  BY <1>2, <1>3, <1>4, <1>6, <1>7
     DEF buildPolicyAccepts, WithOperationsAccepts, BuildFromServices, validateExposure,
         validateRegisteredPolicies
<1>14. /\ validateRegistrations' <=> validateRegistrations
       /\ validateExtraConflicts' <=> validateExtraConflicts
       /\ buildGroups' <=> buildGroups
  BY <1>1, <1>6, <1>9, <1>10, <1>12 DEF validateRegistrations, validateExtraConflicts, buildGroups
<1>15. /\ validateCSRF' <=> validateCSRF
       /\ validateAuthChain' <=> validateAuthChain
  BY <1>5, <1>11 DEF validateCSRF, validateAuthChain, AuthzAfterAuthn
<1>16. \A check : Passes(check)' <=> Passes(check)
  BY <1>6, <1>13, <1>14, <1>15 DEF Passes
<1>17. Accepted' <=> Accepted
  BY <1>16 DEF Accepted, Checks
<1> QED
  BY <1>3, <1>5, <1>8, <1>17

\* A call that stands keeps the stages it meets.
LEMMA StagesStand ==
  ASSUME cfg' = cfg, call' = call
  PROVE  /\ Stages' = Stages /\ (Streaming' <=> Streaming)
         /\ Anonymous(call.op)' <=> Anonymous(call.op)
<1>1. Stages' = Stages /\ (Streaming' <=> Streaming)
  BY ConfigurationStands DEF Stages, Streaming
<1>2. Anonymous(call.op)' <=> Anonymous(call.op)
  <2>1. \A op : op = call.op => (Anonymous(op)' <=> Anonymous(op))
    BY ConfigurationStands
  <2> QED
    BY <2>1 DEF Anonymous
<1> QED
  BY <1>1, <1>2

(***************************************************************************)
(* The steps                                                               *)
(***************************************************************************)

LEMMA StartupStarts == Init => StartupInv
<1> SUFFICES ASSUME Init PROVE StartupInv
  OBVIOUS
<1>1. Takes
  BY DEF Init, Takes, NoCall
<1>2. \A i \in DOMAIN Stages : ~Met(i)
  BY StagesAreNumbered DEF Init, Met
<1> QED
  BY <1>1, <1>2 DEF Init, StartupInv, Shielded, TurnedAway

LEMMA NewKeeps ==
  ASSUME StartupInv, New
  PROVE  StartupInv'
<1>1. /\ cfg' = cfg /\ call' = call /\ at' = at /\ principal' = principal /\ result' = result
      /\ call = NoCall
  BY DEF New, StartupInv, Takes
<1>2. phase' = "serving" => Accepted
  BY DEF New, Accepted, Checks
<1>3. SurfaceMethods' = SurfaceMethods /\ (Accepted' <=> Accepted)
  BY <1>1, ConfigurationStands
<1>4. Takes'
  BY <1>1, <1>2, <1>3 DEF StartupInv, Takes
<1>5. Shielded' /\ TurnedAway'
  <2>1. /\ Stages' = Stages /\ (Streaming' <=> Streaming)
        /\ Anonymous(call.op)' <=> Anonymous(call.op)
    BY <1>1, StagesStand
  <2>2. \A k : Met(k)' <=> Met(k)
    BY <1>1, <2>1 DEF Met, Serves
  <2>3. result = "none" /\ result' = "none"
    BY <1>1 DEF StartupInv, Takes
  <2> QED
    BY <1>1, <2>1, <2>2, <2>3 DEF StartupInv, Shielded, TurnedAway
<1> QED
  BY <1>4, <1>5 DEF StartupInv

LEMMA BeginKeeps ==
  ASSUME StartupInv, NEW op, NEW entry, NEW credential, Begin(op, entry, credential),
         entry \in {"grpc", "gateway", "extra"},
         result' \notin {"handled", "unauthenticated"},
         entry \in {"grpc", "gateway"} => op \in SurfaceMethods \/ result' = "404"
  PROVE  StartupInv'
<1>1. /\ cfg' = cfg /\ phase' = phase /\ phase = "serving" /\ at' = 1
      /\ call' = [op |-> op, entry |-> entry, credential |-> credential]
      /\ cfg \in Config
  BY DEF Begin, StartupInv, Takes
<1>2. call'.entry = entry /\ call'.op = op /\ call' # NoCall
  BY <1>1 DEF NoCall
<1>3. (Accepted' <=> Accepted) /\ SurfaceMethods' = SurfaceMethods /\ chain' = chain
  BY <1>1, ConfigurationStands
<1>4. Takes'
  BY <1>1, <1>2, <1>3 DEF StartupInv, Takes
<1>5. \A i \in DOMAIN Stages' : ~Met(i)'
  <2>1. \A i \in DOMAIN Stages' : i \in Int /\ i >= 1
    <3>1. CASE entry = "extra"
      BY <1>2, <3>1 DEF Stages
    <3>2. CASE entry # "extra"
      <4>1. Stages' = chain
        BY <1>2, <1>3, <3>2 DEF Stages
      <4> QED
        BY <1>1, <4>1, ChainIsAssembled
    <3> QED
      BY <3>1, <3>2
  <2> QED
    BY <1>1, <2>1 DEF Met
<1>6. Shielded' /\ TurnedAway'
  BY <1>5 DEF Shielded, TurnedAway
<1> QED
  BY <1>4, <1>6 DEF StartupInv

LEMMA InterceptKeeps ==
  ASSUME StartupInv, Intercept
  PROVE  StartupInv'
<1>1. PICK i \in Ahead :
        /\ \A j \in Ahead : i <= j
        /\ principal' = (principal \/ (Stages[i].name = Authn /\ call.credential /\ cfg.Authenticators # {}))
        /\ result' = IF \/ Stages[i].name = Authn /\ call.credential /\ cfg.Authenticators = {}
                        \/ Stages[i].name = Authz /\ ~principal /\ ~Anonymous(call.op)
                     THEN "unauthenticated" ELSE "none"
        /\ at' = i + 1
  BY DEF Intercept
<1>2. /\ cfg' = cfg /\ phase' = phase /\ call' = call
      /\ call # NoCall /\ result = "none" /\ cfg \in Config /\ at \in Int
  BY DEF Intercept, StartupInv, Takes
<1>3. /\ Stages' = Stages /\ (Streaming' <=> Streaming)
      /\ Anonymous(call.op)' <=> Anonymous(call.op)
      /\ SurfaceMethods' = SurfaceMethods /\ (Accepted' <=> Accepted)
  BY <1>2, ConfigurationStands, StagesStand
<1>4. \A k \in DOMAIN Stages : k \in Int
  BY <1>2, StagesAreNumbered
<1>5. i \in DOMAIN Stages /\ at <= i /\ Serves(Stages[i], Streaming)
  BY DEF Ahead
<1>6. \A k \in DOMAIN Stages : Met(k)' <=> Met(k) \/ k = i
  <2> TAKE k \in DOMAIN Stages
  <2>1. Serves(Stages[k], Streaming) /\ at <= k => i <= k
    BY <1>1 DEF Ahead
  <2>2. Met(k)' <=> k < i + 1 /\ Serves(Stages[k], Streaming)
    BY <1>1, <1>3 DEF Met, Serves
  <2>3. Met(k) <=> k < at /\ Serves(Stages[k], Streaming)
    BY DEF Met
  <2> QED
    BY <1>2, <1>4, <1>5, <2>1, <2>2, <2>3
<1>7. Takes'
  <2>1. at' \in Int
    BY <1>1, <1>4, <1>5
  <2> QED
    BY <1>2, <1>3, <2>1 DEF StartupInv, Takes
<1>8. principal => principal'
  BY <1>1
<1>9. Shielded'
  <2>1. ASSUME NEW k \in DOMAIN Stages, Met(k)', Stages[k].name = Authz,
               ~Anonymous(call.op), result' \in {"none", "handled"}
        PROVE  principal'
    <3>1. CASE Met(k)
      BY <1>2, <1>8, <2>1, <3>1 DEF StartupInv, Shielded
    <3>2. CASE k = i
      BY <1>1, <1>8, <2>1, <3>2
    <3> QED
      BY <1>6, <2>1, <3>1, <3>2
  <2>2. ASSUME NEW k \in DOMAIN Stages, Met(k)', Stages[k].name = Authn,
               call.credential, cfg.Authenticators # {}
        PROVE  principal'
    <3>1. CASE Met(k)
      BY <1>8, <2>2, <3>1 DEF StartupInv, Shielded
    <3>2. CASE k = i
      BY <1>1, <2>2, <3>2
    <3> QED
      BY <1>6, <2>2, <3>1, <3>2
  <2>3. result' # "handled"
    BY <1>1
  <2> QED
    BY <1>2, <1>3, <2>1, <2>2, <2>3 DEF Shielded
<1>10. TurnedAway'
  <2> SUFFICES ASSUME result' = "unauthenticated", call.credential, cfg.Authenticators # {}
               PROVE  /\ ~Anonymous(call.op)
                      /\ \E k \in DOMAIN Stages :
                           /\ Met(k)' /\ Stages[k].name = Authz
                           /\ \A j \in DOMAIN Stages : Met(j)' /\ j < k => Stages[j].name # Authn
    BY <1>2, <1>3 DEF TurnedAway
  <2>1. Stages[i].name = Authz /\ ~principal /\ ~Anonymous(call.op)
    BY <1>1
  <2>2. ASSUME NEW j \in DOMAIN Stages, Met(j)', j < i
        PROVE  Stages[j].name # Authn
    <3>1. Met(j)
      BY <1>4, <1>5, <1>6, <2>2
    <3> QED
      BY <2>1, <3>1 DEF StartupInv, Shielded
  <2> QED
    BY <1>5, <1>6, <2>1, <2>2
<1> QED
  BY <1>7, <1>9, <1>10 DEF StartupInv

LEMMA HandleKeeps ==
  ASSUME StartupInv, Handle
  PROVE  StartupInv'
<1>1. /\ cfg' = cfg /\ phase' = phase /\ call' = call /\ at' = at /\ principal' = principal
      /\ call # NoCall /\ result = "none" /\ result' = "handled" /\ Ahead = {}
  BY DEF Handle
<1>2. /\ Stages' = Stages /\ (Streaming' <=> Streaming)
      /\ Anonymous(call.op)' <=> Anonymous(call.op)
      /\ SurfaceMethods' = SurfaceMethods /\ (Accepted' <=> Accepted)
  BY <1>1, ConfigurationStands, StagesStand
<1>3. \A k : Met(k)' <=> Met(k)
  BY <1>1, <1>2 DEF Met, Serves
<1>4. Takes'
  BY <1>1, <1>2 DEF StartupInv, Takes
<1>5. Shielded'
  BY <1>1, <1>2, <1>3 DEF StartupInv, Shielded, Ahead, Serves
<1>6. TurnedAway'
  BY <1>1 DEF TurnedAway
<1> QED
  BY <1>4, <1>5, <1>6 DEF StartupInv

LEMMA StartupStepKeeps ==
  ASSUME StartupInv, [Next]_vars
  PROVE  StartupInv'
<1>1. CASE New
  BY <1>1, NewKeeps
<1>2. CASE Intercept
  BY <1>2, InterceptKeeps
<1>3. CASE Handle
  BY <1>3, HandleKeeps
<1>4. ASSUME NEW credential \in BOOLEAN, NEW m \in Method, CallGRPC(m, credential)
      PROVE  StartupInv'
  <2>1. Begin(m, "grpc", credential) /\ m \in SurfaceMethods /\ result' = result /\ call = NoCall
    BY <1>4 DEF CallGRPC, Begin
  <2>2. result' = "none"
    BY <2>1 DEF StartupInv, Takes
  <2> QED
    BY <2>1, <2>2, BeginKeeps
<1>5. ASSUME NEW credential \in BOOLEAN, NEW p \in Paths, CallHTTP(p[1], p[2], credential)
      PROVE  StartupInv'
  <2> DEFINE op    == Dispatch(p[1], p[2])
             entry == IF op \in ExtraIDs THEN "extra" ELSE "gateway"
  <2>1. /\ Begin(op, entry, credential)
        /\ result' = IF op = NotFound THEN "404"
                     ELSE IF entry = "gateway" /\ cfg.NetworkDial /\ cfg.DisableGRPC THEN "unavailable"
                     ELSE "none"
    BY <1>5 DEF CallHTTP
  <2>2. op \in ExtraIDs \cup SurfaceMethods \cup {NotFound}
    BY DispatchFinds
  <2> HIDE DEF op
  <2> QED
    BY <2>1, <2>2, BeginKeeps
<1>6. CASE UNCHANGED vars
  <2>1. /\ cfg' = cfg /\ phase' = phase /\ call' = call /\ at' = at /\ principal' = principal
        /\ result' = result
    BY <1>6 DEF vars
  <2>2. /\ Stages' = Stages /\ (Streaming' <=> Streaming)
        /\ Anonymous(call.op)' <=> Anonymous(call.op)
        /\ SurfaceMethods' = SurfaceMethods /\ (Accepted' <=> Accepted)
    BY <2>1, ConfigurationStands, StagesStand
  <2>3. \A k : Met(k)' <=> Met(k)
    BY <2>1, <2>2 DEF Met, Serves
  <2>4. Takes'
    BY <2>1, <2>2 DEF StartupInv, Takes
  <2>5. Shielded'
    BY <2>1, <2>2, <2>3 DEF StartupInv, Shielded, Ahead, Serves
  <2>6. TurnedAway'
    BY <2>1, <2>2, <2>3 DEF StartupInv, TurnedAway
  <2> QED
    BY <2>4, <2>5, <2>6 DEF StartupInv
<1> QED
  BY <1>1, <1>2, <1>3, <1>4, <1>5, <1>6 DEF Next

(***************************************************************************)
(* What callers meet                                                       *)
(***************************************************************************)

\* For every configuration that New accepts: a protected operation is handled
\* for callers with a principal only, whatever the transport.
THEOREM ProtectedOperationsAreProtected == Spec => []AcceptedServersProtect
<1>1. Init => StartupInv
  BY StartupStarts
<1>2. StartupInv /\ [Next]_vars => StartupInv'
  BY StartupStepKeeps
<1>3. StartupInv => AcceptedServersProtect
  <2> SUFFICES ASSUME StartupInv, result = "handled", ~Anonymous(call.op), ~cfg.AllowNoAuthz,
                      StreamsDeclared
               PROVE  principal
    BY DEF AcceptedServersProtect
  <2>1. Takes /\ Shielded /\ call # NoCall /\ Ahead = {}
    BY DEF StartupInv, Takes, Shielded
  <2>2. PICK i \in DOMAIN Stages : Serves(Stages[i], Streaming) /\ Stages[i].name = Authz
    BY <2>1, AuthzIsThere
  <2>3. Met(i)
    <3>1. i \in Int /\ at \in Int
      BY <2>1, StagesAreNumbered DEF Takes
    <3>2. ~(at <= i)
      BY <2>1, <2>2 DEF Ahead
    <3> QED
      BY <2>2, <3>1, <3>2 DEF Met
  <2> QED
    BY <2>1, <2>2, <2>3 DEF Shielded
<1> QED
  BY <1>1, <1>2, <1>3, PTL DEF Spec

\* On a server with authenticators and an authn stage, authz turns nobody away
\* who has a valid credential: authn comes first on every transport.
THEOREM CredentialsAreReadFirst == Spec => []CallersGetThrough
<1>1. Init => StartupInv
  BY StartupStarts
<1>2. StartupInv /\ [Next]_vars => StartupInv'
  BY StartupStepKeeps
<1>3. StartupInv => CallersGetThrough
  <2> SUFFICES ASSUME StartupInv, result = "unauthenticated", StreamsDeclared,
                      cfg.Authenticators # {}, ~cfg.AllowNoAuthz, ~cfg.AllowNoAuthenticator,
                      Has(chain, Authn), call.credential
               PROVE  FALSE
    BY DEF CallersGetThrough
  <2>1. Takes /\ call # NoCall /\ ~Anonymous(call.op)
    BY DEF StartupInv, Takes, TurnedAway
  <2>2. PICK i \in DOMAIN Stages :
          /\ Met(i) /\ Stages[i].name = Authz
          /\ \A j \in DOMAIN Stages : Met(j) /\ j < i => Stages[j].name # Authn
    BY DEF StartupInv, TurnedAway
  <2>3. Serves(Stages[i], Streaming) /\ i < at
    BY <2>2 DEF Met
  <2>4. PICK j \in DOMAIN Stages : /\ j < i
                                   /\ Serves(Stages[j], Streaming) /\ Stages[j].name = Authn
    BY <2>1, <2>2, <2>3, AuthnIsBefore
  <2>5. i \in Int /\ j \in Int /\ at \in Int
    BY <2>1, StagesAreNumbered DEF Takes
  <2>6. Met(j)
    BY <2>3, <2>4, <2>5 DEF Met
  <2> QED
    BY <2>2, <2>4, <2>6
<1> QED
  BY <1>1, <1>2, <1>3, PTL DEF Spec

(***************************************************************************)
(* Paths under a prefix                                                    *)
(***************************************************************************)

\* What a prefix of a path says of each of its segments.
LEMMA PrefixMeans ==
  ASSUME NEW S, NEW p \in Seq(S), NEW q \in Seq(S)
  PROVE  IsPrefix(p, q) <=> Len(p) <= Len(q) /\ \A i \in 1 .. Len(p) : p[i] = q[i]
BY DEF IsPrefix

\* A prefix and the path of a route make the path that it is served at.
LEMMA PathsUnderPrefix ==
  ASSUME NEW S, NEW p \in Seq(S), NEW rest \in Seq(S)
  PROVE  /\ p \o rest \in Seq(S)
         /\ rest # <<>> => IsStrictPrefix(p, p \o rest)
         /\ SubSeq(p \o rest, Len(p) + 1, Len(p \o rest)) = rest
         /\ p = <<>> => p \o rest = rest
<1> DEFINE path == p \o rest
<1>1. /\ path \in Seq(S) /\ Len(path) = Len(p) + Len(rest)
      /\ \A i \in 1 .. Len(p) : path[i] = p[i]
      /\ \A i \in 1 .. Len(rest) : path[Len(p) + i] = rest[i]
  OBVIOUS
<1>2. SubSeq(path, Len(p) + 1, Len(path)) = rest
  BY <1>1
<1>3. p = <<>> => path = rest
  OBVIOUS
<1> HIDE DEF path
<1>4. ASSUME rest # <<>> PROVE IsStrictPrefix(p, path)
  <2>1. Len(rest) \in Nat /\ Len(p) \in Nat /\ Len(rest) # 0
    BY <1>4
  <2>2. p # path /\ Len(p) <= Len(path)
    BY <1>1, <2>1
  <2>3. IsPrefix(p, path)
    BY <1>1, <2>2, PrefixMeans
  <2> QED
    BY <2>2, <2>3 DEF IsStrictPrefix
<1> QED
  BY <1>1, <1>2, <1>3, <1>4 DEF path

\* Two prefixes of a path lie under each other, or are one.
LEMMA PrefixesAreNested ==
  ASSUME NEW S, NEW p \in Seq(S), NEW q \in Seq(S), NEW rest \in Seq(S),
         IsStrictPrefix(q, p \o rest), Len(p) <= Len(q)
  PROVE  p = q \/ IsStrictPrefix(p, q)
<1> DEFINE path == p \o rest
<1>1. path \in Seq(S) /\ \A i \in 1 .. Len(p) : path[i] = p[i]
  OBVIOUS
<1>2. IsPrefix(q, path)
  BY DEF IsStrictPrefix
<1> HIDE DEF path
<1>3. \A i \in 1 .. Len(q) : q[i] = path[i]
  BY <1>1, <1>2, PrefixMeans
<1>4. \A i \in 1 .. Len(p) : p[i] = q[i]
  BY <1>1, <1>3
<1>5. IsPrefix(p, q)
  BY <1>4, PrefixMeans
<1> QED
  BY <1>5 DEF IsStrictPrefix

(***************************************************************************)
(* Where requests are taken                                                *)
(***************************************************************************)

\* The prefix of every group is a path.
LEMMA PrefixesArePaths ==
  ASSUME cfg \in Config, NEW g
  PROVE  Prefix(g) \in Seq(STRING)
<1>1. CASE \E a \in SetOf(cfg.APIs) : a.Name = g
  <2> DEFINE api == CHOOSE a \in SetOf(cfg.APIs) : a.Name = g
  <2>1. api \in SetOf(cfg.APIs)
    BY <1>1
  <2>2. PICK i \in DOMAIN cfg.APIs : api = cfg.APIs[i]
    BY <2>1 DEF SetOf
  <2>3. Prefix(g) = api.Prefix
    BY <1>1 DEF Prefix
  <2> HIDE DEF api
  <2> QED
    BY <2>2, <2>3, ConfigAssumption
<1>2. CASE ~\E a \in SetOf(cfg.APIs) : a.Name = g
  BY <1>2 DEF Prefix, NoPath
<1> QED
  BY <1>1, <1>2

\* A gateway mux knows a path of its own for one method only.
LEMMA TranscodeFinds ==
  ASSUME Accepted, NEW r \in SetOf(allRegistrations), r.HTTP,
         NEW m \in MethodsOf({r.Service}), NEW verb, NEW rest,
         <<verb, rest>> \in Descriptor[m].http
  PROVE  Transcode(GroupOf(r), verb, rest) = m
<1> DEFINE found == {n \in Method : /\ <<verb, rest>> \in Descriptor[n].http
                                    /\ \E s \in SetOf(allRegistrations) :
                                         /\ s.HTTP /\ GroupOf(s) = GroupOf(r)
                                         /\ s.Service = Descriptor[n].service}
<1>1. m \in found
  BY DEF MethodsOf
<1>2. \A n \in found : n \in SurfaceMethods /\ <<verb, rest>> \in Descriptor[n].http
  BY DEF SurfaceMethods, MethodsOf, Registered
<1>3. Transcode(GroupOf(r), verb, rest) = IF found = {} THEN NotFound ELSE CHOOSE n \in found : TRUE
  BY DEF Transcode
<1> HIDE DEF found
<1>4. \A n \in found : n = m
  BY <1>1, <1>2, AcceptedMeans DEF BuildFromServices
<1> QED
  BY <1>1, <1>3, <1>4

\* The request for a route of a registration reaches the method of the route.
LEMMA RoutesLead ==
  ASSUME cfg \in Config, Accepted, ~cfg.DisableHTTP, FacesAsDeclared,
         NEW r \in SetOf(allRegistrations), r.HTTP,
         NEW m \in MethodsOf({r.Service}), NEW route \in Descriptor[m].http,
         ~Overlapped(r, route)
  PROVE  Dispatch(route[1], Prefix(GroupOf(r)) \o route[2]) = m
<1> DEFINE own    == GroupOf(r)
           prefix == Prefix(own)
           path   == prefix \o route[2]
           extra  == {e \in SetOf(Extra) : e.Verb = route[1] /\ e.Path = path}
           under  == {g \in Groups : Prefix(g) = NoPath \/ IsStrictPrefix(Prefix(g), path)}
           group  == CHOOSE g \in under : \A h \in under : Len(Prefix(h)) <= Len(Prefix(g))
<1>1. /\ m \in Method /\ Descriptor[m].service = r.Service
      /\ m \in SurfaceMethods /\ m \in DOMAIN Set
  BY SurfaceHasPolicies DEF SurfaceMethods, MethodsOf, Registered
<1>2. /\ route[2] \in Seq(STRING) /\ route[2] # <<>>
      /\ <<route[1], route[2]>> \in Descriptor[m].http
  <2>1. Descriptor[m].http \subseteq STRING \X (Seq(STRING) \ {<<>>})
    BY <1>1, StartupAssumption
  <2> QED
    BY <2>1
<1>3. prefix \in Seq(STRING)
  BY PrefixesArePaths
<1>4. /\ path \in Seq(STRING) /\ IsStrictPrefix(prefix, path)
      /\ SubSeq(path, Len(prefix) + 1, Len(path)) = route[2]
      /\ prefix = <<>> => path = route[2]
  BY <1>2, <1>3, PathsUnderPrefix
<1>5. own \in Groups
  BY DEF Groups
<1>6. Set[m].API = own
  BY <1>1 DEF FacesAsDeclared
<1>7. extra = {}
  <2> DEFINE row == [id |-> m, verb |-> route[1], path |-> path]
  <2>1. row \in {[id |-> m, verb |-> s[1], path |-> Prefix(Set[m].API) \o s[2]] :
                   s \in Descriptor[m].http}
    BY <1>6
  <2>2. row \in prefixedRoutes
    BY <1>1, <2>1 DEF prefixedRoutes
  <2>3. \A e \in SetOf(Extra) : <<e.Verb, e.Path>> # <<row.verb, row.path>>
    BY <2>2, AcceptedMeans DEF validateExtraConflicts
  <2> QED
    BY <2>3
<1>8. own \in under
  BY <1>4, <1>5
<1>9. ASSUME NEW h \in under, h # own
      PROVE  Len(Prefix(h)) < Len(prefix)
  <2>1. h \in Groups /\ (Prefix(h) = NoPath \/ IsStrictPrefix(Prefix(h), path))
    OBVIOUS
  <2>2. Prefix(h) \in Seq(STRING)
    BY PrefixesArePaths
  <2>3. Prefix(h) # prefix
    BY <1>5, <1>9, <2>1, AcceptedMeans DEF buildGroups
  <2>4. prefix # NoPath => ~IsStrictPrefix(prefix, Prefix(h))
    BY <1>5, <2>1, AcceptedMeans DEF buildGroups
  <2>5. prefix = NoPath /\ Prefix(h) # NoPath => ~IsStrictPrefix(Prefix(h), route[2])
    BY <2>1 DEF Overlapped
  <2> SUFFICES ASSUME ~(Len(Prefix(h)) < Len(prefix)) PROVE FALSE
    OBVIOUS
  <2>6. Len(Prefix(h)) \in Nat /\ Len(prefix) \in Nat /\ Len(prefix) <= Len(Prefix(h))
    BY <1>3, <2>2
  <2>7. Prefix(h) # NoPath
    <3>1. Prefix(h) = <<>> => prefix = <<>>
      BY <1>3, <2>6
    <3> QED
      BY <2>3, <3>1 DEF NoPath
  <2>8. prefix # NoPath
    BY <1>4, <2>1, <2>5, <2>7 DEF NoPath
  <2>9. IsStrictPrefix(Prefix(h), path)
    BY <2>1, <2>7
  <2>10. prefix = Prefix(h) \/ IsStrictPrefix(prefix, Prefix(h))
    BY <1>2, <1>3, <2>2, <2>6, <2>9, PrefixesAreNested
  <2> QED
    BY <2>3, <2>4, <2>8, <2>10
<1>10. Dispatch(route[1], path) = Transcode(group, route[1], SubSeq(path, Len(Prefix(group)) + 1, Len(path)))
  BY <1>7, <1>8 DEF Dispatch
<1>11. group = own
  <2>1. \A h \in under : Len(Prefix(h)) \in Nat
    BY PrefixesArePaths
  <2> HIDE DEF under
  <2>2. \A h \in under : Len(Prefix(h)) <= Len(Prefix(own))
    BY <1>8, <1>9, <2>1
  <2>3. group \in under /\ Len(Prefix(own)) <= Len(Prefix(group))
    BY <1>8, <2>2
  <2> QED
    BY <1>8, <1>9, <2>1, <2>3
<1>12. Transcode(own, route[1], route[2]) = m
  BY <1>2, TranscodeFinds
<1> QED
  BY <1>4, <1>10, <1>11, <1>12

\* For every configuration that New accepts: every route of a registered
\* service is served at its path, as long as services are registered where their
\* policies say, and unless it is a route without a prefix that lies under the
\* prefix of another API.
THEOREM MountedRoutesAreReachable == Spec => []RoutesAreReachable
<1>1. Init => StartupInv
  BY StartupStarts
<1>2. StartupInv /\ [Next]_vars => StartupInv'
  BY StartupStepKeeps
<1>3. StartupInv => RoutesAreReachable
  <2> SUFFICES ASSUME StartupInv, phase = "serving", ~cfg.DisableHTTP, FacesAsDeclared,
                      NEW r \in SetOf(allRegistrations), r.HTTP,
                      NEW m \in MethodsOf({r.Service}), NEW route \in Descriptor[m].http,
                      ~Overlapped(r, route)
               PROVE  Dispatch(route[1], Prefix(GroupOf(r)) \o route[2]) = m
    BY DEF RoutesAreReachable
  <2>1. Accepted /\ cfg \in Config
    BY DEF StartupInv, Takes
  <2> QED
    BY <2>1, RoutesLead
<1> QED
  BY <1>1, <1>2, <1>3, PTL DEF Spec

=============================================================================
