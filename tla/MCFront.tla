------------------------------ MODULE MCFront -------------------------------
(* The servers and clients for Front, in families that each vary what one of *)
(* its properties is about: pages and their origins, credentials and         *)
(* requirements, the ways a credential is said, the path of a request, and   *)
(* what the handler answers.                                                 *)
EXTENDS Front, TLC

MCServer == [scheme |-> "https", host |-> "app"]
MCAny    == [scheme |-> "*", host |-> "*"]
Plain80  == [scheme |-> "http", host |-> "app"]
Friend   == [scheme |-> "https", host |-> "friend"]
Stranger == [scheme |-> "https", host |-> "stranger"]

MCExpected == [issuer |-> "issuer", audience |-> "audience"]

Db == <<"db">>
Scoped(o) == Db \o <<":", o>>

List(s) == [type |-> "list", value |-> s]
GoodToken == [signed |-> TRUE, exp |-> "future", iss |-> "issuer", aud |-> "audience",
              sub |-> "subject", uid |-> "", keys |-> "up", scopes |-> List({Db})]

MCToken ==
  [none    |-> [GoodToken EXCEPT !.scopes = [type |-> "number", value |-> 0]],
   whole   |-> [GoodToken EXCEPT !.scopes = [type |-> "string", value |-> Db]],
   read    |-> [GoodToken EXCEPT !.scopes = List({Scoped("read"), <<"file">>})],
   dotted  |-> [GoodToken EXCEPT !.scopes = List({<<"db", ".", "read">>})],
   blog    |-> [GoodToken EXCEPT !.scopes = List({Scoped("blog")})],
   every   |-> [GoodToken EXCEPT !.scopes = List({Scoped("*")})],
   reader  |-> [GoodToken EXCEPT !.scopes = List({Scoped("blog") \o <<".", "read">>})],
   all     |-> [GoodToken EXCEPT !.scopes = List({<<"*">>})],
   odd     |-> [GoodToken EXCEPT !.scopes = List({<<"db", ":">>, <<"db", ":", "a", ":", "b">>, <<"number">>})],
   uid     |-> [GoodToken EXCEPT !.sub = "", !.uid = "user"],
   nobody  |-> [GoodToken EXCEPT !.sub = ""],
   altered |-> [GoodToken EXCEPT !.signed = FALSE],
   old     |-> [GoodToken EXCEPT !.exp = "past"],
   endless |-> [GoodToken EXCEPT !.exp = "missing"],
   issued  |-> [GoodToken EXCEPT !.iss = "other"],
   meant   |-> [GoodToken EXCEPT !.aud = "other"],
   unknown |-> [GoodToken EXCEPT !.keys = "down"]]

GoodKey == [prefixed |-> TRUE, store |-> "up", revoked |-> FALSE, expires |-> "never",
            scopes |-> {Scoped("write")}, claim |-> {Db}]

MCKey ==
  [write   |-> GoodKey,
   claims  |-> [GoodKey EXCEPT !.scopes = {}, !.expires = "future"],
   either  |-> [GoodKey EXCEPT !.scopes = {<<"db", ".", "read">>, Scoped("blog")}],
   alien   |-> [GoodKey EXCEPT !.prefixed = FALSE],
   revoked |-> [GoodKey EXCEPT !.revoked = TRUE],
   old     |-> [GoodKey EXCEPT !.expires = "past"],
   deleted |-> [GoodKey EXCEPT !.store = "missing"],
   broken  |-> [GoodKey EXCEPT !.store = "down"]]

MCSessions == {"live"}

MCVocabulary == "scope" :> {Db, <<"file">>} @@ "resource" :> {Db}

-----------------------------------------------------------------------------

Requirement(kind, match, values) ==
  [kind |-> kind, match |-> match, values |-> values, vocabulary |-> ""]

Authenticated == Requirement("authenticated", "any", <<>>)
Reading  == Requirement("scope", "any", <<Scoped("read")>>)
Either   == Requirement("scope", "any", <<Scoped("write"), Scoped("read")>>)
Both     == Requirement("scope", "all", <<Db, Scoped("read")>>)
AnyOp    == Requirement("scope", "any", <<Db>>)
Wild     == Requirement("scope", "any", <<<<"*">>>>)
Instance == Requirement("resource", "any", <<Db>>)
Directed == Requirement("resource", "any", <<Scoped("read")>>)
Refusable == {Requirement("scope", "all", <<>>), Requirement("scope", "any", <<Scoped("blog")>>),
              Requirement("resource", "any", <<<<"file">>>>),
              [Reading EXCEPT !.vocabulary = "unregistered"]}

MCReq == {Authenticated, Reading, Either, Both, AnyOp, Wild, Instance, Directed} \cup Refusable

NoPolicy == [preset |-> "", anonymous |-> FALSE, require |-> <<>>, anyOf |-> <<>>, forbid |-> <<>>]
Requiring(rs) == [NoPolicy EXCEPT !.require = rs]
Public == [NoPolicy EXCEPT !.anonymous = TRUE]

DefaultHeaders == [deny |-> <<>>, allow |-> <<>>, direct |-> <<>>]

Server0 == [cors |-> <<>>, csrf |-> <<>>, networks |-> {}, dial |-> "bufconn",
            headers |-> DefaultHeaders, lenient |-> FALSE, policy |-> Requiring(<<Authenticated>>),
            gate |-> [disallowWildcard |-> FALSE, requireVocabulary |-> TRUE]]

NoPage == [origin |-> NoOrigin, shows |-> "nothing", credentials |-> FALSE, method |-> "POST", custom |-> {}]

Ok == [code |-> "ok", message |-> "", retry |-> 0]

Client0 == [kind |-> "program", page |-> NoPage, headers |-> << >>, late |-> {}, cert |-> FALSE, path |-> <<"client">>,
            proxy |-> "xff", forwarded |-> <<>>, id |-> <<"blog">>, field |-> "string", outcome |-> Ok]

Bearer(t) == [scheme |-> "Bearer", token |-> t]
WithBearer(t) == "authorization" :> <<Bearer(t)>>
WithKey(k) == "x-api-key" :> <<k>>
WithCookie(v) == "cookie" :> <<[session |-> v, csrf |-> ""]>>

-----------------------------------------------------------------------------
(* Pages. *)

Cors(origins, methods, headers, credentials) ==
  [origins |-> origins, methods |-> methods, headers |-> headers, credentials |-> credentials]
Listed(o, style) == [origin |-> o, style |-> style]

CorsChoice ==
  {<<>>} \cup { <<c>> : c \in {
     Cors({Listed(Friend, "plain")}, {}, <<>>, TRUE),
     Cors({Listed(Friend, "slash")}, {"GET", "POST"}, <<{}>>, FALSE),
     Cors({Listed(MCAny, "plain")}, {}, <<{"x-csrf-token"}>>, FALSE),
     Cors({Listed(MCAny, "plain"), Listed(Friend, "plain")}, {}, <<>>, TRUE),
     Cors({Listed(Plain80, "capitals")}, {"PUT"}, <<>>, TRUE)}}

CsrfChoice ==
  {<<>>} \cup { <<c>> : c \in {
     [origins |-> {}, exempt |-> FALSE], [origins |-> {}, exempt |-> TRUE],
     [origins |-> {Listed(MCServer, "slash")}, exempt |-> FALSE],
     [origins |-> {Listed(Friend, "plain"), Listed(Plain80, "plain")}, exempt |-> FALSE]}}

\* A browser states the origin of a request it asks for first.
Pages ==
  {p \in [origin : {MCServer, Plain80, Friend, Stranger, Opaque},
          shows : {"origin", "referer", "nothing"}, credentials : BOOLEAN,
          method : {"GET", "POST", "PUT"}, custom : {{}, {"x-api-key"}}] :
     /\ AsksFirst(p, p.custom) => p.shows = "origin"
     /\ p.origin = Opaque => p.shows # "referer"}

PageCase ==
  { [conf   |-> [Server0 EXCEPT !.cors = co, !.csrf = cs, !.policy = po],
     client |-> [Client0 EXCEPT !.kind = "page", !.page = p]] :
    co \in CorsChoice, cs \in CsrfChoice, p \in Pages, po \in {Requiring(<<Authenticated>>)} }

-----------------------------------------------------------------------------
(* Credentials and requirements. *)

Presented ==
  {WithBearer(t) : t \in DOMAIN MCToken} \cup {WithKey(k) : k \in DOMAIN MCKey}
    \cup {WithCookie("live"), WithCookie("dead"), << >>,
          "authorization" :> <<Bearer("whole"), Bearer("whole")>>,
          "authorization" :> <<[scheme |-> "Basic", token |-> "whole"], Bearer("whole")>>,
          WithBearer("whole") @@ WithCookie("live"), WithKey("write") @@ WithBearer("read"),
          "x-api-key" :> <<"write", "write">>,
          "cookie" :> <<[session |-> "", csrf |-> ""], [session |-> "live", csrf |-> ""]>>}

PolicyChoice ==
  {Requiring(<<r>>) : r \in MCReq} \cup {Requiring(<<Reading, Directed>>), Requiring(<<Instance, Either>>)}
    \cup {[Requiring(<<AnyOp>>) EXCEPT !.forbid = <<Wild, Directed>>],
          [NoPolicy EXCEPT !.anyOf = <<<<Instance, Reading>>, <<Both>>>>]}

Ids == {<<"blog">>, <<"read">>, <<"blog", ".", "read">>, <<"a", ":", "b">>, <<>>}

AuthorityCase ==
  { [conf   |-> [Server0 EXCEPT !.policy = p, !.gate.disallowWildcard = w],
     client |-> [Client0 EXCEPT !.headers = h, !.id = i]] :
    p \in PolicyChoice, w \in BOOLEAN, h \in Presented, i \in Ids }

-----------------------------------------------------------------------------
(* Ways to say a credential, each met first or late by the gateway. *)

Direct == [DefaultHeaders EXCEPT !.allow = <<{"cookie", "x-api-key", "authorization"}>>]

Loose == [DefaultHeaders EXCEPT !.deny = <<{}>>,
                                !.allow = <<{"cookie", "x-api-key", "grpc-metadata-authorization"}>>]

Strict == [DefaultHeaders EXCEPT !.allow = <<{}>>]

Ways ==
  {<< >>, WithBearer("whole"), WithKey("write"), WithCookie("live"),
   "x-ticket" :> <<"ticket">>, "grpc-metadata-x-ticket" :> <<"ticket">>,
   "grpc-metadata-authorization" :> <<Bearer("whole")>>,
   "grpc-metadata-x-api-key" :> <<"write">>,
   WithBearer("whole") @@ ("grpc-metadata-x-api-key" :> <<"write">>),
   WithBearer("whole") @@ ("grpc-metadata-authorization" :> <<Bearer("read")>>),
   "grpc-metadata-cookie" :> <<[session |-> "live", csrf |-> ""]>>,
   WithCookie("live") @@ ("grpc-metadata-cookie" :> <<[session |-> "dead", csrf |-> ""]>>)}

SayingCase ==
  { [conf   |-> [Server0 EXCEPT !.headers = hp],
     client |-> [Client0 EXCEPT !.headers = h, !.late = l, !.cert = c]] :
    hp \in {DefaultHeaders, Direct, Loose, Strict}, h \in Ways, l \in {{}, MetadataRead},
    c \in BOOLEAN }

\* What is invalid, on a public operation.
PublicCase ==
  { [conf   |-> [Server0 EXCEPT !.policy = Public, !.lenient = e],
     client |-> [Client0 EXCEPT !.headers = h, !.cert = c]] :
    e \in BOOLEAN, c \in BOOLEAN,
    h \in {<< >>, WithBearer("whole"), WithBearer("old"), WithBearer("unknown"), WithKey("alien"),
           WithKey("revoked"), WithCookie("dead")} }

-----------------------------------------------------------------------------
(* Addresses. *)

Network(s) == [valid |-> TRUE, covers |-> s]

ClientIPs == [k \in {ClientIPKey, MetadataHeader(ClientIPKey)} |-> <<"elsewhere">>]

AddressCase ==
  { [conf   |-> [Server0 EXCEPT !.networks = n, !.dial = d, !.headers = h.policy],
     client |-> [Client0 EXCEPT !.headers = WithBearer("whole") @@ h.says, !.path = p, !.proxy = x, !.forwarded = w]] :
    h \in [policy : {DefaultHeaders},
           says : {<< >>, RealIPKey :> <<"elsewhere">>, ClientIPs,
                   "grpcgateway-x-forwarded-for" :> <<<<"elsewhere">>>>,
                   MetadataHeader(ForwardedForKey) :> <<<<"elsewhere">>>>}]
          \cup {[policy |-> [DefaultHeaders EXCEPT !.deny = <<{"authorization"}>>], says |-> ClientIPs]},
    n \in {{}, {Network({"p", "q"})}, {Network({"p"}), Network({Loopback})},
           {Network({"q"}), [valid |-> FALSE, covers |-> {}]}},
    d \in {"bufconn", "network"},
    p \in {<<"client">>, <<"client", "p">>, <<"client", "q", "p">>, <<"client", "p", "q">>,
           <<"p">>, <<"client", "relay", "p">>, <<"client", Loopback>>},
    x \in {"xff", "lines", "real ip"},
    w \in {<<>>, <<"elsewhere">>, <<"p">>, <<"elsewhere", "q">>, <<"">>} }

-----------------------------------------------------------------------------
(* Outcomes and header policies. *)

Failure(c, ms) == [code |-> c, message |-> "text", retry |-> ms]

OutcomeCase ==
  { [conf   |-> [Server0 EXCEPT !.headers = hp, !.csrf = cs],
     client |-> [Client0 EXCEPT !.headers = h, !.outcome = o, !.field = f]] :
    hp \in {DefaultHeaders, Direct, Loose}, cs \in {<<>>, <<[origins |-> {}, exempt |-> TRUE]>>},
    h \in {WithBearer("whole"), WithKey("write"), WithCookie("live"),
           WithBearer("whole") @@ ("x-request-id" :> <<"given">>),
           WithBearer("whole") @@ ("grpc-metadata-authorization" :> <<Bearer("all")>>)},
    o \in {Ok, Failure("plain", 0), Failure("internal", 0), Failure("unknown", 0),
           Failure("resource exhausted", 1001), Failure("unavailable", 500), Failure("not found", 0),
           Failure("data loss", 0), Failure("context.DeadlineExceeded", 0), Failure("context.Canceled", 0)},
    f \in {"string", "signed", "unsigned"} }

MCCase ==
  AuthorityCase \cup (AddressCase \cup (PageCase \cup (OutcomeCase \cup (SayingCase \cup PublicCase))))

=============================================================================
