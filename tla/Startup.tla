------------------------------ MODULE Startup ------------------------------
(***************************************************************************)
(* server.New: the checks that a configuration must pass, the policy set,  *)
(* the API groups, the route table and the chain that result, and then one *)
(* call of the server that was accepted, over gRPC or over HTTP.  The      *)
(* point of the checks is what such calls may meet: New is one action and  *)
(* a call takes a step per interceptor.                                    *)
(*                                                                         *)
(* A path is the sequence of its segments, and the identifier of an        *)
(* operation a sequence too: a method's name, or verb and path of a route. *)
(***************************************************************************)
EXTENDS Chain, SequencesExt

CONSTANTS
  Method,        \* the methods of all services
  Descriptor,    \* what protobuf says of a method
  Config         \* the configurations considered

\* A path template has a segment.
ASSUME StartupAssumption ==
  \A m \in Method : Descriptor[m] \in
    [service : STRING, http : SUBSET (STRING \X (Seq(STRING) \ {<<>>})),
     clientStream : BOOLEAN, serverStream : BOOLEAN]

\* A chain is assembled, or left to New; a prefix is a path.
ASSUME ConfigAssumption ==
  \A c \in Config :
    /\ Len(c.Chain) \in Nat /\ DOMAIN c.Chain = 1 .. Len(c.Chain)
    /\ c.Chain = <<>> \/ AssembleWith(NoOptions, c.Chain)
    /\ \A i \in DOMAIN c.APIs : c.APIs[i].Prefix \in Seq(STRING)

Get == "GET"
NoPath == <<>>
NotFound == <<"404">>

VARIABLES
  cfg,        \* server.Config
  phase,      \* "new", "serving", or the check that New failed
  call,       \* the call being served, or NoCall
  at,         \* the next interceptor of its transport
  principal,  \* it has been authenticated
  result      \* "none" while it runs

vars == <<cfg, phase, call, at, principal, result>>

NoCall == [op |-> NotFound, entry |-> "none", credential |-> FALSE]

-----------------------------------------------------------------------------
(* What the configuration holds. *)

SetOf(seq) == {seq[i] : i \in DOMAIN seq}

IsStream(m) == Descriptor[m].clientStream \/ Descriptor[m].serverStream

\* allRegistrations: a registration under an API belongs to it by default.
allRegistrations ==
  cfg.Services \o FlattenSeq([i \in DOMAIN cfg.APIs |->
    [j \in DOMAIN cfg.APIs[i].Services |->
       [cfg.APIs[i].Services[j] EXCEPT !.API = IF @ = NoName THEN cfg.APIs[i].Name ELSE @]]])

Registered == {r.Service : r \in SetOf(allRegistrations)}

MethodsOf(services) == {m \in Method : Descriptor[m].service \in services}

\* buildPolicy: the set is given, or built from the source for the registered
\* services; only then is Streaming what the descriptor says.
Set == IF cfg.PolicySource
       THEN [m \in MethodsOf(Registered) \cap DOMAIN cfg.Policy |->
               [cfg.Policy[m] EXCEPT !.Streaming = IsStream(m)]]
       ELSE cfg.Policy

buildPolicyAccepts ==
  /\ ~(cfg.PolicySource /\ cfg.PolicySet)
  /\ cfg.PolicySource => MethodsOf(Registered) \subseteq DOMAIN cfg.Policy
  /\ ~cfg.PolicySource /\ ~cfg.PolicySet => Registered = {} /\ DOMAIN cfg.Policy = {}

\* builtinRoutes: what a server adds to its extra routes.
builtinRoutes ==
  IF cfg.DisableHTTP \/ cfg.DisableHealth THEN <<>>
  ELSE [i \in 1..2 |-> [ID |-> NoPath, Verb |-> Get, Path |-> << <<"healthz">>, <<"readyz">> >>[i],
                        Handler |-> TRUE, IsPublic |-> TRUE, Policy |-> "none"]]

Extra == cfg.ExtraRoutes \o builtinRoutes

\* ExtraRoute.operation: its identifier, and when it is well formed.
ExtraID(r) == IF r.ID = NoPath THEN <<r.Verb>> \o r.Path ELSE r.ID

ExtraAccepted(r) == r.Handler /\ (r.IsPublic <=> r.Policy = "none")

ExtraIDs == {ExtraID(r) : r \in SetOf(Extra)}

Anonymous(op) == IF op \in DOMAIN Set THEN Set[op].Anonymous
                 ELSE \E r \in SetOf(Extra) : ExtraID(r) = op /\ r.IsPublic

\* policy.Set.WithOperations.
WithOperationsAccepts ==
  /\ \A r \in SetOf(Extra) : r.Policy # "invalid"
  /\ ExtraIDs \cap DOMAIN Set = {}
  /\ \A i, j \in DOMAIN Extra : ExtraID(Extra[i]) = ExtraID(Extra[j]) => i = j

-----------------------------------------------------------------------------
(* The surface: the methods of the registered services with their routes.  *)

SurfaceMethods == MethodsOf(Registered)

validateExposure(m) ==
  LET exposure == Set[m].Exposure
  IN  /\ exposure \in {"public", "deprecated"} => Descriptor[m].http # {}
      /\ exposure = "internal" => Descriptor[m].http = {}
      /\ exposure # "unspecified"
      /\ Descriptor[m].http # {} => ~Descriptor[m].clientStream

\* surface.BuildFromServices.
BuildFromServices ==
  /\ SurfaceMethods \subseteq DOMAIN Set
  /\ \A m \in SurfaceMethods : validateExposure(m)
  /\ \A m, n \in SurfaceMethods : m # n => Descriptor[m].http \cap Descriptor[n].http = {}

validateRegistrations ==
  \A r \in SetOf(allRegistrations) :
    /\ r.GRPC
    /\ ~cfg.DisableHTTP /\ ~r.HTTP => \A m \in MethodsOf({r.Service}) : Descriptor[m].http = {}

validateRegisteredPolicies ==
  cfg.AllowUnregisteredPolicies \/ DOMAIN Set \subseteq SurfaceMethods

-----------------------------------------------------------------------------
(* The API groups: every API has a prefix and a gateway mux of its own.    *)

\* The API that the policies of a service declare.  They share it, being of one
\* file, unless the set was made by hand: then New goes by one of them.
DerivedAPI(service) ==
  LET declared == MethodsOf({service}) \cap DOMAIN Set
  IN  IF declared = {} THEN NoName ELSE Set[CHOOSE m \in declared : TRUE].API

GroupOf(r) == IF r.API = NoName THEN DerivedAPI(r.Service) ELSE r.API

Groups == {a.Name : a \in SetOf(cfg.APIs)} \cup {GroupOf(r) : r \in SetOf(allRegistrations)}

Prefix(name) == IF \E a \in SetOf(cfg.APIs) : a.Name = name
                THEN (CHOOSE a \in SetOf(cfg.APIs) : a.Name = name).Prefix
                ELSE NoPath

\* A slip: prefixes may lie under each other.
buildGroupsShadowing ==
  /\ \A i, j \in DOMAIN cfg.APIs : /\ cfg.APIs[i].Name # NoName
                                   /\ cfg.APIs[i].Name = cfg.APIs[j].Name => i = j
  /\ \A r \in SetOf(allRegistrations) :
       r.AllowAPIMismatch \/ DerivedAPI(r.Service) \in {NoName, GroupOf(r)}
  /\ \A g, h \in Groups : Prefix(g) = Prefix(h) => g = h

buildGroups ==
  /\ \A i, j \in DOMAIN cfg.APIs : /\ cfg.APIs[i].Name # NoName
                                   /\ cfg.APIs[i].Name = cfg.APIs[j].Name => i = j
  /\ \A r \in SetOf(allRegistrations) :
       r.AllowAPIMismatch \/ DerivedAPI(r.Service) \in {NoName, GroupOf(r)}
  /\ \A g, h \in Groups : Prefix(g) = Prefix(h) => g = h
  /\ \A g, h \in Groups :
       Prefix(h) # NoPath => ~IsStrictPrefix(Prefix(h), Prefix(g))

\* prefixedRoutes, the table of Server.Routes(): it goes by the API of the
\* policy, not by the group of the registration.
prefixedRoutes ==
  UNION {{[id |-> m, verb |-> r[1], path |-> Prefix(Set[m].API) \o r[2]] :
            r \in Descriptor[m].http} : m \in SurfaceMethods \cap DOMAIN Set}

\* Two routes of the table are one, or an extra route is in it.
validateExtraConflicts ==
  LET keys(r) == <<r.Verb, r.Path>>
  IN  /\ \A r \in SetOf(Extra), p \in prefixedRoutes : keys(r) # <<p.verb, p.path>>
      /\ \A i, j \in DOMAIN Extra : keys(Extra[i]) = keys(Extra[j]) => i = j

\* What a gateway mux does with the rest of a path.
Transcode(group, verb, rest) ==
  LET found == {m \in Method : /\ <<verb, rest>> \in Descriptor[m].http
                               /\ \E r \in SetOf(allRegistrations) :
                                    /\ r.HTTP /\ GroupOf(r) = group
                                    /\ r.Service = Descriptor[m].service}
  IN  IF found = {} THEN NotFound ELSE CHOOSE m \in found : TRUE

\* The root ServeMux: an extra route, the group whose prefix the path is
\* under, or the group without a prefix.
Dispatch(verb, path) ==
  LET extra == {r \in SetOf(Extra) : r.Verb = verb /\ r.Path = path}
      under == {g \in Groups : Prefix(g) = NoPath \/ IsStrictPrefix(Prefix(g), path)}
      group == CHOOSE g \in under : \A h \in under : Len(Prefix(h)) <= Len(Prefix(g))
  IN  IF extra # {} THEN ExtraID(CHOOSE r \in extra : TRUE)
      ELSE IF under = {} THEN NotFound
      ELSE Transcode(group, verb, SubSeq(path, Len(Prefix(group)) + 1, Len(path)))

-----------------------------------------------------------------------------
(* The chain. *)

chain == IF cfg.Chain = <<>> THEN DefaultChain ELSE cfg.Chain

validateCSRF == "session" \in cfg.Authenticators => cfg.CSRF \/ cfg.AllowNoCSRF

Protected == {m \in DOMAIN Set : ~Set[m].Anonymous}

HasProtected == Protected # {} \/ \E r \in SetOf(Extra) : ~r.IsPublic

HasProtectedStream == \E m \in Protected : Set[m].Streaming

AuthzAfterAuthn ==
  \A i, j \in DOMAIN chain :
    chain[i].name = Authz /\ chain[i].unary /\ chain[j].name = Authn /\ chain[j].unary => j < i

\* Slips: the check of streams, or that of the order, is missing.
validateAuthChainUnary ==
  HasProtected =>
    /\ cfg.AllowNoAuthenticator \/ cfg.Authenticators # {}
    /\ cfg.AllowNoAuthz \/ (Has(chain, Authz) /\ AuthzAfterAuthn)

validateAuthChainUnordered ==
  HasProtected =>
    /\ cfg.AllowNoAuthenticator \/ cfg.Authenticators # {}
    /\ cfg.AllowNoAuthz \/ Has(chain, Authz)
    /\ HasProtectedStream =>
         /\ cfg.AllowNoAuthz \/ HasStream(chain, Authz)
         /\ cfg.AllowNoAuthenticator \/ (Has(chain, Authn) => HasStream(chain, Authn))

validateAuthChain ==
  HasProtected =>
    /\ cfg.AllowNoAuthenticator \/ cfg.Authenticators # {}
    /\ cfg.AllowNoAuthz \/ (Has(chain, Authz) /\ AuthzAfterAuthn)
    /\ HasProtectedStream =>
         /\ cfg.AllowNoAuthz \/ HasStream(chain, Authz)
         /\ cfg.AllowNoAuthenticator \/ (Has(chain, Authn) => HasStream(chain, Authn))

\* The checks of New, in its order, and what each of them accepts.
Checks == <<"listeners", "disablehttp", "policy", "operation", "extra", "surface",
            "registrations", "unregistered", "conflicts", "csrf", "chain", "groups">>

Passes(check) ==
  CASE check = "listeners"     -> ~(cfg.DisableGRPC /\ cfg.DisableHTTP)
    [] check = "disablehttp"   -> cfg.DisableHTTP => cfg.ExtraRoutes = <<>> /\ cfg.APIs = <<>> /\ ~cfg.CSRF
    [] check = "policy"        -> buildPolicyAccepts
    [] check = "operation"     -> \A r \in SetOf(Extra) : ExtraAccepted(r)
    [] check = "extra"         -> WithOperationsAccepts
    [] check = "surface"       -> BuildFromServices
    [] check = "registrations" -> validateRegistrations
    [] check = "unregistered"  -> validateRegisteredPolicies
    [] check = "conflicts"     -> validateExtraConflicts
    [] check = "csrf"          -> validateCSRF
    [] check = "chain"         -> validateAuthChain
    [] check = "groups"        -> cfg.DisableHTTP \/ buildGroups

Init ==
  /\ cfg \in Config
  /\ phase = "new" /\ call = NoCall /\ at = 0 /\ principal = FALSE /\ result = "none"

\* New returns the error of the first check that fails.
New ==
  /\ phase = "new"
  /\ \/ (\A i \in DOMAIN Checks : Passes(Checks[i])) /\ phase' = "serving"
     \/ \E i \in DOMAIN Checks : /\ ~Passes(Checks[i])
                                 /\ \A j \in 1 .. (i - 1) : Passes(Checks[j])
                                 /\ phase' = Checks[i]
  /\ UNCHANGED <<cfg, call, at, principal, result>>

\* A call arrives, with a valid credential or none.
Begin(op, entry, credential) ==
  /\ phase = "serving" /\ call = NoCall
  /\ call' = [op |-> op, entry |-> entry, credential |-> credential]
  /\ at' = 1
  /\ UNCHANGED <<cfg, phase, principal>>

CallGRPC(m, credential) ==
  /\ ~cfg.DisableGRPC /\ m \in SurfaceMethods
  /\ Begin(m, "grpc", credential) /\ UNCHANGED result

\* The gateway's connection needs a server behind it: the one of this
\* process, or, with NetworkDial, the listener of GRPCAddr.
CallHTTP(verb, path, credential) ==
  /\ ~cfg.DisableHTTP
  /\ LET op    == Dispatch(verb, path)
         entry == IF op \in ExtraIDs THEN "extra" ELSE "gateway"
     IN  /\ Begin(op, entry, credential)
         /\ result' = IF op = NotFound THEN "404"
                      ELSE IF entry = "gateway" /\ cfg.NetworkDial /\ cfg.DisableGRPC THEN "unavailable"
                      ELSE "none"

\* The stages around the handler: the chain, or the middleware that buildHTTP
\* puts around every extra route.
Stages == IF call.entry = "extra" THEN <<Stage(Authn, 0), Stage(Authz, 0)>> ELSE chain

Streaming == call.entry # "extra" /\ IsStream(call.op)

\* The interceptors of its transport that the call has before it.
Ahead == {i \in DOMAIN Stages : at <= i /\ Serves(Stages[i], Streaming)}

\* authn leaves a caller without credentials to authz.
Intercept ==
  /\ call # NoCall /\ result = "none"
  /\ \E i \in Ahead :
       /\ \A j \in Ahead : i <= j
       /\ LET name == Stages[i].name
          IN  /\ principal' = (principal \/ (name = Authn /\ call.credential /\ cfg.Authenticators # {}))
              /\ result' = IF \/ name = Authn /\ call.credential /\ cfg.Authenticators = {}
                              \/ name = Authz /\ ~principal /\ ~Anonymous(call.op)
                           THEN "unauthenticated" ELSE "none"
       /\ at' = i + 1
  /\ UNCHANGED <<cfg, phase, call>>

Handle ==
  /\ call # NoCall /\ result = "none" /\ Ahead = {}
  /\ result' = "handled"
  /\ UNCHANGED <<cfg, phase, call, at, principal>>

Paths == UNION {{<<r[1], Prefix(g) \o r[2]>> : r \in Descriptor[m].http, g \in Groups} : m \in Method}
           \cup {<<r.Verb, r.Path>> : r \in SetOf(Extra)}

Next ==
  \/ New \/ Intercept \/ Handle
  \/ \E credential \in BOOLEAN :
       \/ \E m \in Method : CallGRPC(m, credential)
       \/ \E p \in Paths : CallHTTP(p[1], p[2], credential)

Spec == Init /\ [][Next]_vars

-----------------------------------------------------------------------------

\* The shape of the state; cfg does not change.
TypeOK ==
  /\ phase \in {"new", "serving", "listeners", "disablehttp", "policy", "operation", "extra",
                "surface", "registrations", "unregistered", "conflicts", "csrf", "chain", "groups"}
  /\ call.op \in Method \cup ExtraIDs \cup {NotFound}
  /\ call.entry \in {"none", "grpc", "gateway", "extra"}
  /\ at \in Nat /\ principal \in BOOLEAN
  /\ result \in {"none", "404", "unavailable", "unauthenticated", "handled"}
  /\ call # NoCall => (call.op = NotFound <=> result = "404")

\* The policy set tells streams from unary calls as the descriptors do: of a
\* set that policy.Build made this is so, one made by hand may leave it out.
StreamsDeclared == \A m \in DOMAIN Set : Set[m].Streaming = IsStream(m)

(***************************************************************************)
(* On a server that New accepted, without AllowNoAuthz, no caller without  *)
(* a valid credential reaches the handler of a protected operation, by     *)
(* gRPC, through the gateway or on an extra route (server.go:831-882).     *)
(***************************************************************************)
AcceptedServersProtect ==
  (result = "handled" /\ ~Anonymous(call.op) /\ ~cfg.AllowNoAuthz /\ StreamsDeclared)
    => principal

(***************************************************************************)
(* On such a server that has authenticators and an authn stage, a caller   *)
(* with a valid credential is never turned away for want of a principal:   *)
(* the order check of server.go:855-880 does what it is there for, for     *)
(* streams too, although it looks only at unary interceptors.              *)
(***************************************************************************)
CallersGetThrough ==
  (/\ result = "unauthenticated" /\ StreamsDeclared /\ cfg.Authenticators # {}
   /\ ~cfg.AllowNoAuthz /\ ~cfg.AllowNoAuthenticator /\ Has(chain, Authn)) => ~call.credential

\* The group of each registration is the API that its policies declare.
FacesAsDeclared ==
  \A r \in SetOf(allRegistrations) :
    \A m \in MethodsOf({r.Service}) \cap DOMAIN Set : Set[m].API = GroupOf(r)

\* A route of the API without a prefix lies under the prefix of another API.
\* buildGroups skips the empty prefix, so New accepts this.
Overlapped(r, route) ==
  /\ Prefix(GroupOf(r)) = NoPath
  /\ \E g \in Groups : Prefix(g) # NoPath /\ IsStrictPrefix(Prefix(g), route[2])

(***************************************************************************)
(* Every route that an accepted server mounts is reached under its path:   *)
(* no prefix, no other group and no extra route takes its requests         *)
(* (server.go:661-690, 786-817), as long as services are registered where  *)
(* their policies say.  Excepted is a route of the API without a prefix    *)
(* under another API's prefix: New accepts it, although doc.go:20-21 says  *)
(* that no prefix shadows another, the server lists it, and the other      *)
(* API's gateway gets its requests.                                        *)
(***************************************************************************)
RoutesAreReachable ==
  (phase = "serving" /\ call = NoCall /\ ~cfg.DisableHTTP /\ FacesAsDeclared) =>
    \A r \in SetOf(allRegistrations) : r.HTTP =>
      \A m \in MethodsOf({r.Service}) : \A route \in Descriptor[m].http :
        Overlapped(r, route) \/ Dispatch(route[1], Prefix(GroupOf(r)) \o route[2]) = m

(***************************************************************************)
(* GENERALIZATION.md:2888: the table of Server.Routes() holds the path at  *)
(* which each operation is served.                                         *)
(***************************************************************************)
RoutesReportFinalPath ==
  (phase = "serving" /\ call = NoCall /\ ~cfg.DisableHTTP) =>
    \A row \in prefixedRoutes : Dispatch(row.verb, row.path) = row.id

=============================================================================
