----------------------------- MODULE MCStartup -----------------------------
(***************************************************************************)
(* Two families of configurations over five methods: those that vary the   *)
(* chain, the policies, the flags and the listeners, and those that vary   *)
(* APIs, prefixes, registrations and extra routes.                         *)
(***************************************************************************)
EXTENDS Startup

MCMethod == {<<"/A/get">>, <<"/A/watch">>, <<"/B/put">>, <<"/C/get">>, <<"/D/push">>}

Desc(service, http, clientStream, serverStream) ==
  [service |-> service, http |-> http, clientStream |-> clientStream, serverStream |-> serverStream]

\* B is one more face beside A; C lies where a prefix of A's may be; D is
\* wrongly exposed.
MCDescriptor ==
  [m \in MCMethod |->
     CASE m = <<"/A/get">>   -> Desc("A", {<<Get, <<"x">>>>}, FALSE, FALSE)
       [] m = <<"/A/watch">> -> Desc("A", {<<Get, <<"x", "w">>>>}, FALSE, TRUE)
       [] m = <<"/B/put">>   -> Desc("B", {<<"PUT", <<"x">>>>}, FALSE, FALSE)
       [] m = <<"/C/get">>   -> Desc("C", {<<Get, <<"v1", "x">>>>}, FALSE, FALSE)
       [] m = <<"/D/push">>  -> Desc("D", {<<Get, <<"p">>>>}, TRUE, FALSE)]

MCMethodsOf(services) == {m \in MCMethod : MCDescriptor[m].service \in services}

Op(api, anonymous, streaming, exposure) ==
  [API |-> api, Anonymous |-> anonymous, Streaming |-> streaming, Exposure |-> exposure]

Reg(service, api, mismatch) ==
  [Service |-> service, API |-> api, GRPC |-> TRUE, HTTP |-> TRUE, AllowAPIMismatch |-> mismatch]

Route(path, policy) == [ID |-> NoPath, Verb |-> Get, Path |-> path, Handler |-> TRUE,
                        IsPublic |-> policy = "none", Policy |-> policy]

Base == [DisableGRPC |-> FALSE, DisableHTTP |-> FALSE, NetworkDial |-> FALSE, DisableHealth |-> TRUE,
         PolicySource |-> FALSE, PolicySet |-> TRUE, AllowUnregisteredPolicies |-> FALSE,
         AllowNoAuthenticator |-> FALSE, AllowNoAuthz |-> FALSE, AllowNoCSRF |-> FALSE, CSRF |-> FALSE,
         Authenticators |-> {"jwt"}, Chain |-> <<>>, ExtraRoutes |-> <<>>, APIs |-> <<>>,
         Services |-> <<Reg("A", NoName, FALSE)>>,
         Policy |-> [m \in {<<"/A/get">>, <<"/A/watch">>} |->
                       Op(NoName, FALSE, m = <<"/A/watch">>, "public")]]

-----------------------------------------------------------------------------

\* Chains of an authn and an authz stage, either of which may be missing or
\* serve one transport only, in both orders; and one that goes backwards.
Kinds == {k \in BOOLEAN \X BOOLEAN : k[1] \/ k[2]}
Of(name, order, kind) == [name |-> name, order |-> order, unary |-> kind[1], stream |-> kind[2]]

Chains ==
  {c \in {<<>>} \cup {<<Of(n, 30, k)>> : n \in {Authn, Authz}, k \in Kinds}
        \cup {<<Of(Authn, 30, k), Of(Authz, 70, l)>> : k, l \in Kinds}
        \cup {<<Of(Authz, 20, k), Of(Authn, 30, l)>> : k, l \in Kinds} :
     c = <<>> \/ AssembleWith(NoOptions, c)}

ChainConfigs ==
  {[Base EXCEPT !.Chain = c, !.Authenticators = a, !.AllowNoAuthz = f[1], !.AllowNoAuthenticator = f[2],
                !.ExtraRoutes = e,
                !.Policy = [m \in {<<"/A/get">>, <<"/A/watch">>} |->
                              IF m = <<"/A/get">> THEN Op(NoName, p[1], FALSE, "public")
                              ELSE Op(NoName, p[2], p[3], "public")]] :
     c \in Chains, a \in {{}, {"jwt"}}, f \in BOOLEAN \X BOOLEAN, p \in BOOLEAN \X BOOLEAN \X BOOLEAN,
     e \in {<<>>, <<Route(<<"hook">>, "protected")>>}}

\* Listeners, CSRF, the origin of the policies, and what is not exposed.
SwitchConfigs ==
  {[Base EXCEPT !.DisableGRPC = f[1], !.DisableHTTP = f[2], !.NetworkDial = f[3], !.CSRF = f[4],
                !.AllowNoCSRF = f[5], !.Authenticators = a, !.PolicySource = s[1], !.PolicySet = s[2],
                !.Services = <<reg>>, !.AllowUnregisteredPolicies = u,
                !.Policy = [m \in {<<"/A/get">>, <<"/A/watch">>, <<"/D/push">>} |->
                              Op(NoName, FALSE, FALSE, exposure)]] :
     f \in BOOLEAN \X BOOLEAN \X BOOLEAN \X BOOLEAN \X BOOLEAN, a \in {{"jwt"}, {"session"}},
     s \in BOOLEAN \X BOOLEAN, u \in BOOLEAN,
     reg \in {Reg("A", NoName, FALSE), Reg("D", NoName, FALSE),
              [Reg("A", NoName, FALSE) EXCEPT !.GRPC = FALSE], [Reg("A", NoName, FALSE) EXCEPT !.HTTP = FALSE]},
     exposure \in {"public", "internal", "unspecified"}}

-----------------------------------------------------------------------------

MCPrefix == {NoPath, <<"v1">>, <<"v1", "x">>, <<"admin">>}

API(name, prefix, services) == [Name |-> name, Prefix |-> prefix, Services |-> services]

\* Services A and B or C, each registered on its own or with an API.
FaceConfigs ==
  {[Base EXCEPT !.DisableHealth = FALSE, !.ExtraRoutes = e,
                !.Services = <<Reg(second, home, mismatch)>>,
                !.APIs = <<API("app", p, <<Reg("A", NoName, FALSE)>>), API("admin", q, <<>>)>>,
                !.Policy = [m \in MCMethodsOf({"A", second}) |->
                   Op(IF m \in MCMethodsOf({"A"}) THEN apiA ELSE apiSecond,
                      FALSE, m = <<"/A/watch">>, "hidden")]] :
     p, q \in MCPrefix, second \in {"B", "C"}, home \in {NoName, "admin"}, mismatch \in BOOLEAN,
     apiA \in {NoName, "app"}, apiSecond \in {NoName, "app", "admin"},
     e \in {<<>>, <<Route(<<"x">>, "none")>>, <<Route(<<"v1", "x">>, "protected")>>,
            <<Route(<<"x">>, "none"), Route(<<"x">>, "none")>>, <<Route(<<"healthz">>, "none")>>,
            <<Route(<<"y">>, "invalid")>>, <<[Route(<<"y">>, "protected") EXCEPT !.IsPublic = TRUE]>>}}

MCConfig == ChainConfigs \cup SwitchConfigs \cup FaceConfigs

=============================================================================
