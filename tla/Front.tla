------------------------------- MODULE Front --------------------------------
(***************************************************************************)
(* What stands between a client and a handler on the way of one request:   *)
(* the browser's rules, CORS and CSRF, the gateway with its headers and    *)
(* errors, credentials and scopes, and the client's address.               *)
(*                                                                         *)
(* The client makes the same request on each face of the server it can     *)
(* use, one after the other: the gateway's route, an extra route with the  *)
(* same policy, and, for a program, the gRPC method itself.                *)
(***************************************************************************)
EXTENDS Policy, Scope, Gateway, Browser

CONSTANTS
  Case,        \* the pairs of a server's configuration and a client
  Vocabulary,  \* the registered names of resources
  Generated,   \* the request ID that is generated
  MaxLogins    \* bound on the tokens the server issues

\* A resource is named by one word.
Word(name) == Len(name) = 1 /\ name[1] \notin {":", "."}

\* A page has an origin, and the headers it sets are those of page.custom; a
\* program states its hops in client.forwarded, and nodes have addresses.  The
\* names in client.late are those whose headers the gateway meets late.
ASSUME FrontAssumption ==
  /\ AnyOrigin # NoOrigin
  /\ \A x \in Case :
       /\ x.client.kind \in {"page", "program"}
       /\ x.client.kind = "page" =>
            /\ DOMAIN x.client.headers = {}
            /\ x.client.page \in
                 [origin : [scheme : STRING, host : STRING] \ {NoOrigin, AnyOrigin},
                  shows : {"origin", "referer", "nothing"}, credentials : BOOLEAN,
                  method : STRING, custom : SUBSET STRING]
       /\ x.client.kind = "program" =>
            /\ \A name \in DOMAIN x.client.headers :
                 LET values == x.client.headers[name] IN values \in Seq(Range(values))
            /\ ForwardedForKey \notin DOMAIN x.client.headers
            /\ x.client.path \in Seq(STRING \ {"", "bufconn"}) \ {<<>>}
            /\ x.client.forwarded \in Seq(STRING)
            /\ x.client.proxy \in {"xff", "lines", "real ip"}
       /\ x.client.cert \in BOOLEAN
       /\ x.client.id \in Seq(STRING)
       /\ x.client.outcome \in [code : STRING, message : STRING, retry : Nat]
       /\ x.conf.dial \in {"bufconn", "network"}

\* The headers that say a credential to one of the faces.
Saying(name) == {name, MetadataHeader(name)}

\* A program's credentials are from the tokens and keys there are; policies are
\* built (module PolicyBuild) of requirements on resources.
ASSUME CaseAssumption ==
  \A x \in Case :
    /\ x.client.kind = "program" =>
         /\ \A name \in Saying("authorization") :
              \A v \in Range(Get(x.client.headers, name)) : v.token \in DOMAIN Token \cup {""}
         /\ \A name \in Saying("x-api-key") : Range(Get(x.client.headers, name)) \subseteq DOMAIN Key
    /\ x.conf.policy \in Policies /\ ~Misconfigured(x.conf.policy)
    /\ \A r \in requirementsOf(x.conf.policy) :
         /\ r.kind = "scope" => /\ r.values \in Seq(Seq(STRING))
                                /\ \A v \in Range(r.values) :
                                     v \in Everything \/ Word(splitToken(v).before)
         /\ r.kind = "resource" => /\ r.values \in Seq(Seq(STRING))
                                   /\ Len(r.values) = 1 => Word(cutLast(r.values[1], ":").before)

VARIABLES
  pc,        \* where the request stands
  conf,      \* the server's configuration
  client,    \* who asks, and what for
  jar,       \* the browser's cookies for the server
  token,     \* the CSRF token that the page has read
  face,      \* the faces still to be asked, the one being asked first
  req,       \* the request as the server gets it
  md,        \* the metadata of the gRPC call
  who,       \* its principal
  answer,    \* the answer on its way back
  results    \* what came of each face

vars == <<pc, conf, client, jar, token, face, req, md, who, answer, results>>

Faces == {"gateway", "extra", "grpc"}

Page == client.page

NoRequest == [method |-> "", host |-> "", remote |-> "", acrm |-> "", acrh |-> {}, headers |-> << >>,
              late |-> {}]
NoAnswer == [handled |-> FALSE, by |-> "none", status |-> 0, message |-> "", retry |-> 0,
             id |-> "", ip |-> "", marks |-> Unmarked]

To(where) == pc' = where

Trust == TrustedNetworks(conf.networks, conf.dial)

-----------------------------------------------------------------------------
(* Start-up, and the pages' side. *)

KindAccepts(c, r) ==
  CASE r.kind = "scope"    -> ScopeValid(c.gate, Vocabulary, r)
    [] r.kind = "resource" -> ResourceValid(c.gate, Vocabulary, r)
    [] OTHER               -> r.values = <<>>

\* A server with this configuration comes to be.
Accepts(c) ==
  /\ c.cors # <<>> => CORSAccepts(c.cors[1])
  /\ \A r \in requirementsOf(c.policy) : KindAccepts(c, r)
  /\ ParseTrustedProxies(TrustedNetworks(c.networks, c.dial)).valid

Init ==
  /\ \E x \in Case : Accepts(x.conf) /\ conf = x.conf /\ client = x.client
  /\ jar = [session |-> IF client.kind = "page" THEN "live" ELSE "", csrf |-> ""]
  /\ token = "" /\ pc = "idle"
  /\ face = IF client.kind = "page" THEN <<"gateway", "extra">> ELSE <<"gateway", "extra", "grpc">>
  /\ req = NoRequest /\ md = << >> /\ who = Nobody /\ answer = NoAnswer
  /\ results = [f \in Faces |-> NoAnswer]

Tokens == <<"token 1", "token 2">>

\* Before the first request.
Browsing == pc = "idle" /\ client.kind = "page" /\ Len(face) = 2

\* The user logs in on a page of the server, whose handler calls Issue: the
\* cookie gets a token that was never used before.
Issue ==
  /\ Browsing
  /\ jar' = [jar EXCEPT !.csrf = IF @ = "" THEN Tokens[1] ELSE Tokens[2]]
  /\ jar.csrf # Tokens[MaxLogins]
  /\ UNCHANGED <<pc, conf, client, token, face, req, md, who, answer, results>>

\* The scripts of the pages of the server's host can read the cookie, those
\* without TLS as well if it is configured insecure.
ReadToken ==
  /\ Browsing /\ Page.origin.host = Server.host
  /\ token # jar.csrf /\ token' = jar.csrf
  /\ UNCHANGED <<pc, conf, client, jar, face, req, md, who, answer, results>>

Custom == Page.custom \cup IF token = "" THEN {} ELSE {"x-csrf-token"}

Given(value, absent) == IF value = absent THEN <<>> ELSE <<value>>

NoCookies == [session |-> "", csrf |-> ""]

\* What a browser says in a header of a page's request.
PageHeader(name) ==
  CASE name = "origin"       -> Given(IF Page.shows = "origin" THEN Page.origin ELSE NoOrigin, NoOrigin)
    [] name = "referer"      -> Given(IF Page.shows = "referer" THEN Page.origin ELSE NoOrigin, NoOrigin)
    [] name = "x-csrf-token" -> Given(token, "")
    [] name = "cookie"       -> Given(IF Page.credentials \/ Page.origin = Server THEN jar ELSE NoCookies,
                                      NoCookies)
    [] OTHER                 -> <<>>

\* Each proxy on the path adds the address it was called from, to what the
\* client wrote or on a line of the proxies, or, of the third style, says only
\* that one.
PathHeader(name) ==
  LET path == client.path
      from == SubSeq(path, 1, Len(path) - 1)
      real == client.proxy = "real ip" /\ from # <<>>
      apart == client.proxy = "lines" /\ client.forwarded # <<>> /\ from # <<>>
  IN  IF name = RealIPKey /\ real THEN <<from[Len(from)]>>
      ELSE IF name = ForwardedForKey /\ apart THEN <<client.forwarded, from>>
      ELSE IF name = ForwardedForKey /\ ~real THEN Given(client.forwarded \o from, <<>>)
      ELSE <<>>

\* What path and browser say, and else what the client wrote.
Added(name) == PathHeader(name) \o (IF client.kind = "page" THEN PageHeader(name) ELSE <<>>)

AddedNames ==
  {name \in {RealIPKey, ForwardedForKey, "origin", "referer", "x-csrf-token", "cookie"} :
     Added(name) # <<>>}

Request ==
  [method |-> Page.method, host |-> Server.host, remote |-> client.path[Len(client.path)],
   acrm |-> "", acrh |-> {}, late |-> client.late,
   headers |-> [name \in AddedNames \cup DOMAIN client.headers |->
                  IF name \in AddedNames THEN Added(name) ELSE client.headers[name]]]

Depart ==
  /\ pc = "idle" /\ face # <<>>
  /\ req' = Request
  /\ To(IF client.kind = "page" /\ AsksFirst(Page, Custom) THEN "asking"
        ELSE IF face[1] = "grpc" THEN "called" ELSE "sent")
  /\ md' = IF face[1] = "grpc" THEN Request.headers ELSE << >>
  /\ UNCHANGED <<conf, client, jar, token, face, who, answer, results>>

\* The preflight; a server without CORS knows nothing of it.
Ask ==
  /\ pc = "asking"
  /\ LET pre == [req EXCEPT !.method = "OPTIONS", !.acrm = Page.method, !.acrh = Custom]
         got == IF conf.cors = <<>> THEN [status |-> 405, marks |-> Unmarked]
                ELSE handlePreflight(conf.cors[1], pre)
     IN  IF Cleared([Page EXCEPT !.custom = Custom], got)
         THEN To("sent") /\ UNCHANGED answer
         ELSE To("answered") /\ answer' = [NoAnswer EXCEPT !.by = "browser"]
  /\ UNCHANGED <<conf, client, jar, token, face, req, md, who, results>>

-----------------------------------------------------------------------------
(* The server's side. *)

Marks ==
  IF conf.cors = <<>> \/ face[1] = "grpc" THEN Unmarked ELSE CORSMarks(conf.cors[1], req)

\* How the face answers an outcome: the gateway and the extra route encode an
\* error alike, a gRPC client gets the status as it is.
Encoded(err) ==
  LET st == IF face[1] = "extra" THEN err ELSE StatusOf(err)
  IN  IF st.code = "ok" THEN [status |-> 200, message |-> "", retry |-> 0]
      ELSE IF face[1] # "grpc" THEN encodeError(st)
      ELSE [status |-> DefaultCodeToHTTP(st.code), message |-> st.message,
            retry |-> retryAfterSeconds(st.retry)]

Answer(by, err) ==
  /\ To("answered")
  /\ answer' = LET got == Encoded(err)
               IN  [answer EXCEPT !.by = by, !.handled = (by = "handler"), !.status = got.status,
                                  !.message = got.message, !.retry = got.retry, !.marks = Marks]

Refuse(by, code) == Answer(by, [code |-> code, message |-> "reason", retry |-> 0])

\* CORS lets every request pass that is not a preflight; CSRF is inside it.
Admit ==
  /\ pc = "sent"
  /\ IF conf.csrf = <<>> \/ CSRFPasses(conf.csrf[1], req)
     THEN To("routed") /\ UNCHANGED answer
     ELSE /\ To("answered")
          /\ answer' = [answer EXCEPT !.by = "csrf", !.status = 403, !.message = "csrf",
                                      !.marks = Marks]
  /\ UNCHANGED <<conf, client, jar, token, face, req, md, who, results>>

\* The gateway makes a gRPC call of the request; an extra route has it itself.
Route ==
  /\ pc = "routed"
  /\ To("called")
  /\ md' = IF face[1] = "gateway"
           THEN annotateContext(conf.headers, req, clientIPAnnotator(ParseTrustedProxies(Trust), req))
           ELSE << >>
  /\ UNCHANGED <<conf, client, jar, token, face, req, who, answer, results>>

PeerIP == IF face[1] = "grpc" THEN req.remote
          ELSE IF conf.dial = "network" THEN Loopback ELSE "bufconn"

\* The first stages of the chain; an extra route has no such stages.
Identify ==
  /\ pc = "called"
  /\ To("identified")
  /\ answer' = IF face[1] = "extra" THEN answer
               ELSE [answer EXCEPT !.ip = extractClientInfo(Trust, PeerIP, md),
                                   !.id = First(Get(md, "x-request-id"), Generated)]
  /\ UNCHANGED <<conf, client, jar, token, face, req, md, who, results>>

\* The certificate that the server asked the client for; the gateway's own calls
\* come without.
Certs(f) == IF client.cert /\ f # "gateway" THEN <<"certificate">> ELSE <<>>

Authenticate ==
  /\ pc = "identified"
  /\ LET p == authenticate(IF face[1] = "extra" THEN ExtractHTTP(req.headers, Certs("extra"))
                           ELSE Extract(md, Certs(face[1])),
                           conf.lenient /\ conf.policy.anonymous)
     IN  IF p.code = "ok" THEN who' = p /\ To("known") /\ UNCHANGED answer
         ELSE Refuse("authn", p.code) /\ UNCHANGED who
  /\ UNCHANGED <<conf, client, jar, token, face, req, md, results>>

Target == IF face[1] = "extra" THEN ParamID(client.id) ELSE FieldID(client.field, client.id)

Evaluate(r) ==
  CASE r.kind = "scope"    -> IF who = Nobody THEN "miss" ELSE ScopeEvaluate(conf.gate, who.scopes, r)
    [] r.kind = "resource" -> IF who = Nobody THEN "miss" ELSE ResourceEvaluate(conf.gate, who.scopes, r, Target)
    [] OTHER               -> IF who = Nobody THEN "miss" ELSE "match"

\* The status that a refusal of the decider has.
CodeOf(decision) ==
  CASE decision = "denied" -> "permission denied"
    [] decision = "error"  -> "internal"
    [] OTHER               -> decision

Authorize ==
  /\ pc = "known"
  /\ LET decision == decidePolicy(conf.policy, who # Nobody,
                                  [r \in requirementsOf(conf.policy) |-> Evaluate(r)])
     IN  IF decision = "allow" THEN To("allowed") /\ UNCHANGED answer
         ELSE Refuse("authz", CodeOf(decision))
  /\ UNCHANGED <<conf, client, jar, token, face, req, md, who, results>>

\* The application's handler succeeds, or fails and has its error written.
Handle ==
  /\ pc = "allowed"
  /\ Answer("handler", client.outcome)
  /\ UNCHANGED <<conf, client, jar, token, face, req, md, who, results>>

\* The answer is back, and the next face is asked.
Finish ==
  /\ pc = "answered"
  /\ results' = [results EXCEPT ![face[1]] = answer]
  /\ face' = Tail(face)
  /\ To(IF Len(face) = 1 THEN "done" ELSE "idle")
  /\ req' = NoRequest /\ md' = << >> /\ who' = Nobody /\ answer' = NoAnswer
  /\ UNCHANGED <<conf, client, jar, token>>

Next ==
  \/ Issue \/ ReadToken \/ Depart \/ Ask \/ Admit \/ Route \/ Identify
  \/ Authenticate \/ Authorize \/ Handle \/ Finish

Spec == Init /\ [][Next]_vars

-----------------------------------------------------------------------------
(* Properties. *)

Done(f) == results[f].by # "none"

(***************************************************************************)
(* A page reads an answer exactly if it is the server's own, or CORS       *)
(* lists its origin, allows its cookies if it sends them, and, where the   *)
(* browser asks first, its method and its headers (cors.Handler, its       *)
(* preflight and the headers it sets, as a browser understands them).      *)
(***************************************************************************)
MayRead ==
  \/ Page.origin = Server
  \/ /\ conf.cors # <<>> /\ Page.shows = "origin"
     /\ \E o \in conf.cors[1].origins : o.origin \in {AnyOrigin, Page.origin}
     /\ Page.credentials => conf.cors[1].credentials
     /\ AsksFirst(Page, Custom) =>
          /\ Page.method \in normalize(conf.cors[1]).methods
          /\ Custom \subseteq normalize(conf.cors[1]).headers

PagesReadWhatTheyMay ==
  client.kind = "page" =>
    \A f \in Faces :
      Done(f) => ((results[f].by # "browser" /\ Shown(Page, results[f].marks)) <=> MayRead)

(***************************************************************************)
(* With CSRF in front, a page of another host makes no handler run with an *)
(* unsafe method, and neither does a page of the server that has not read  *)
(* the latest token, or whose origin is not listed where a list is given;  *)
(* a page that has both and sends its cookies is let through               *)
(* (csrf.Issue and csrf.Handler, with the rules by which pages read and    *)
(* send cookies).                                                          *)
(***************************************************************************)
Guarded ==
  /\ client.kind = "page" /\ conf.csrf # <<>> /\ Page.method \notin SafeMethods
  /\ ~conf.csrf[1].exempt

Current == Page.origin.host = Server.host /\ token # "" /\ token = jar.csrf

Accepted ==
  conf.csrf[1].origins = {}
    \/ (Page.shows # "nothing" /\ \E o \in conf.csrf[1].origins : o.origin = Page.origin)

ForeignPagesDoNotAct ==
  Guarded =>
    \A f \in Faces :
      /\ results[f].handled => Current /\ Accepted
      /\ results[f].by = "csrf" =>
           ~(Current /\ Accepted /\ (Page.credentials \/ Page.origin = Server))

(***************************************************************************)
(* Where the faces are meant to be alike (the doc of gateway.HeaderPolicy): *)
(* the gateway passes keys and cookies, and no credential in a second way; *)
(* no program is made to prove that it is no foreign page.  What only one  *)
(* face knows of is left out: tickets, which the HTTP faces do not take    *)
(* from a header; a certificate, which ends at the gateway; and the bare   *)
(* error of a handler's context, which has a status in gRPC only.          *)
(***************************************************************************)
Open == conf.csrf = <<>> \/ conf.csrf[1].exempt

\* The header gets through to the metadata it names.
Renamed(name) ==
  LET lists == normalizeHeaders(conf.headers)
  IN  /\ MetadataHeader(name) \in DOMAIN client.headers
      /\ MetadataHeader(name) \notin lists.allow \cup lists.deny

Uniform ==
  LET lists == normalizeHeaders(conf.headers)
  IN  /\ {"cookie", "x-api-key"} \subseteq lists.allow \ lists.deny
      /\ "authorization" \in DOMAIN client.headers \cap lists.allow => "authorization" \in lists.deny
      /\ \A name \in {"authorization", "x-api-key", "cookie", "x-ticket"} : ~Renamed(name)
      /\ "x-ticket" \notin DOMAIN client.headers /\ ~client.cert
      /\ client.kind = "program" => Open
      /\ client.outcome.code \notin {"context.DeadlineExceeded", "context.Canceled"}

(***************************************************************************)
(* A program's request is handled exactly if it states one credential to   *)
(* the face it asks, the credential is good, and what it states grants     *)
(* what the policy asks for by the table in the comments of package scope, *)
(* and nothing that the policy forbids - the same for a token, an API key  *)
(* and a cookie (authn.Interceptor, the three authenticators, scope.Kind   *)
(* and scope.ResourceKind).  What it states to the gateway is what its     *)
(* header policy lets through (gateway.HeaderPolicy): Authorization always *)
(* and once more where it is allowed; and under the name of the metadata   *)
(* too, if neither list has that name.                                     *)
(***************************************************************************)
Stated(f, name) ==
  LET lists   == normalizeHeaders(conf.headers)
      value   == Get(client.headers, name)
      always  == IF name = "authorization" THEN value ELSE <<>>
      allowed == IF name \in lists.allow \ lists.deny THEN value ELSE <<>>
      renamed == IF Renamed(name) THEN client.headers[MetadataHeader(name)] ELSE <<>>
  IN  IF f # "gateway" THEN value
      ELSE IF name \in client.late THEN renamed \o (always \o allowed)
      ELSE (always \o allowed) \o renamed

\* Of several cookie headers the first that has the session counts.  Nothing
\* here takes a ticket or a certificate, but each is a credential.
Claimed(f) ==
  LET bearers == bearerTokens(Stated(f, "authorization"))
      keys    == Stated(f, "x-api-key")
      cookies == Stated(f, "cookie")
      session == Cookie([cookies |-> cookies], "session")
  IN  {[kind |-> "bearer", value |-> bearers[i], at |-> i] : i \in DOMAIN bearers}
        \cup {[kind |-> "key", value |-> keys[i], at |-> i] : i \in DOMAIN keys}
        \cup (IF cookies = <<>> THEN {} ELSE {[kind |-> "cookie", value |-> session, at |-> 1]})
        \cup (IF f = "extra" \/ Stated(f, "x-ticket") = <<>> THEN {}
              ELSE {[kind |-> "ticket", value |-> "", at |-> 1]})
        \cup (IF Certs(f) = <<>> THEN {} ELSE {[kind |-> "certificate", value |-> "", at |-> 1]})

Good(c) ==
  CASE c.kind = "bearer" -> LET t == Token[c.value]
                            IN  /\ t.signed /\ t.exp = "future" /\ t.keys = "up"
                                /\ Expected.issuer # "" => t.iss = Expected.issuer
                                /\ Expected.audience # "" => t.aud = Expected.audience
                                /\ <<t.sub, t.uid>> # <<"", "">>
    [] c.kind = "key"    -> LET k == Key[c.value]
                            IN  k.prefixed /\ k.store = "up" /\ ~k.revoked /\ k.expires # "past"
    [] OTHER             -> c.kind = "cookie" /\ c.value \in Sessions

States(c) ==
  CASE c.kind = "bearer" -> LET s == Token[c.value].scopes
                            IN  IF s.type = "string" THEN {s.value}
                                ELSE IF s.type = "list" THEN s.value \ {<<"number">>} ELSE {}
    [] c.kind = "key"    -> IF Key[c.value].scopes # {} THEN Key[c.value].scopes ELSE Key[c.value].claim
    [] OTHER             -> {}

Operations == {"read", "write", "admin"}

\* resource, resource:op and resource.op; asked for no operation, any of them
\* and of its instances.
GrantsOperation(t, want) ==
  \/ t = <<want[1]>>
  \/ Len(want) = 3 /\ \E sep \in {":", "."} : t = <<want[1], sep, want[3]>>
  \/ Len(want) = 1 /\ \E op \in Operations : t = <<want[1], ".", op>>
  \/ /\ Len(want) = 1 /\ Len(t) > 1 /\ t[1] = want[1] /\ t[2] = ":"
     /\ \A i \in 3 .. Len(t) : t[i] # ":"

\* resource, resource:*, resource:id, and resource:id.op where op is asked; no
\* token names an instance whose id has a colon.
GrantsInstance(t, want, id) ==
  LET op == IF Len(want) = 3 THEN <<want[3]>> ELSE <<>>
      directed == op # <<>> /\ Len(id) > 1 /\ id[Len(id) - 1] = "." /\ id[Len(id)] \in Operations
  IN  \/ t \in {<<want[1]>>, <<want[1], ":", "*">>}
      \/ /\ ~Holds(id, ":")
         /\ \/ t = <<want[1], ":">> \o id /\ ~(Len(id) = 1 /\ id[1] \in Operations) /\ ~directed
            \/ op # <<>> /\ t = <<want[1], ":">> \o id \o <<".">> \o op

\* A requirement of everything is met by the tokens for everything only.
Granted(scopes, r) ==
  LET wild == ~conf.gate.disallowWildcard /\ scopes \cap Everything # {}
      granted(want) == \/ wild
                       \/ /\ want \notin Everything
                          /\ \E t \in scopes \ Everything : GrantsOperation(t, want)
  IN  CASE r.kind = "scope" /\ r.match = "all" -> \A want \in Range(r.values) : granted(want)
        [] r.kind = "scope" /\ r.match # "all" -> \E want \in Range(r.values) : granted(want)
        [] r.kind = "resource" ->
             /\ client.id # <<>>
             /\ wild \/ \E t \in scopes \ Everything : GrantsInstance(t, r.values[1], client.id)
        [] OTHER -> TRUE

\* What has to be, what must not be, and of the alternatives one.
Meets(scopes, p) ==
  /\ \A r \in Range(p.require) : Granted(scopes, r)
  /\ \A r \in Range(p.forbid) : ~Granted(scopes, r)
  /\ p.anyOf # <<>> => \E g \in Range(p.anyOf) : \A r \in Range(g) : Granted(scopes, r)

Entitled(f) ==
  \E c \in Claimed(f) : Claimed(f) = {c} /\ Good(c) /\ Meets(States(c), conf.policy)

\* A request that names no instance fails a requirement on one, and where it is
\* forbidden or one of several that is no miss.
AuthorityIsWhatTheCredentialStates ==
  /\ client.kind = "program" /\ client.field = "string" /\ ~conf.policy.anonymous /\ Open
  /\ client.id = <<>> => conf.policy.forbid = <<>> /\ conf.policy.anyOf = <<>>
  => \A f \in Faces : Done(f) => (results[f].handled <=> Entitled(f))

(***************************************************************************)
(* Whatever hops the client wrote, the address that handlers, rate limits  *)
(* and audit records get is that of the last node on the request's real    *)
(* path that is not a trusted proxy (the annotator and the interceptor of  *)
(* the client information).  Where the connection between gateway and      *)
(* server is a network's, the loopback has to be trusted, and there is     *)
(* neither X-Real-IP nor a header that is renamed to X-Forwarded-For: the  *)
(* server reads the first value of that and not the last, the annotator's, *)
(* which server.go:424-429 says it finds again.  X-Real-IP tells of one    *)
(* proxy only, and of the client's hops only if the client wrote none; and *)
(* of several lines of X-Forwarded-For only the first is read, so proxies  *)
(* have to add to it.                                                      *)
(***************************************************************************)
Traceable(f) ==
  /\ client.proxy = "real ip" =>
       /\ Len(client.path) = 2 /\ ~(f = "gateway" /\ conf.dial = "network")
       /\ client.forwarded = <<>> /\ "grpcgateway-x-forwarded-for" \notin DOMAIN client.headers
  /\ client.proxy = "lines" => client.forwarded = <<>>
  /\ conf.dial = "network" =>
       /\ Trusted(ParseTrustedProxies(Trust), Loopback)
       /\ f = "gateway" => ~Renamed(ForwardedForKey)

AddressIsHonest ==
  client.kind = "program" =>
    \A f \in {"gateway", "grpc"} :
      LET path   == client.path
          far(i) == ~Trusted(ParseTrustedProxies(Trust), path[i])
      IN  Done(f) /\ results[f].by # "csrf" /\ Traceable(f) =>
            \A i \in DOMAIN path :
              far(i) /\ (\A j \in DOMAIN path : j > i => ~far(j)) => results[f].ip = path[i]

(***************************************************************************)
(* The faces of one method agree where they are meant to: it is handled on *)
(* all or on none, with the same status, and the HTTP faces answer alike   *)
(* to the message (gateway.NewErrorHandler and NewErrorEncoder).           *)
(***************************************************************************)
FacesAgree ==
  Uniform /\ client.field = "string" =>
    \A f, g \in Faces :
      Done(f) /\ Done(g) =>
        /\ results[f].handled = results[g].handled /\ results[f].status = results[g].status
        /\ "grpc" \notin {f, g} =>
             results[f].message = results[g].message /\ results[f].retry = results[g].retry

(***************************************************************************)
(* An HTTP client is told nothing of what went wrong inside: a 500 says so *)
(* and no more, whichever stage it comes from, unless the handler stated a *)
(* code of its own choice other than Internal and Unknown (errors.go:74:   *)
(* a handler's DataLoss is a 500 that tells its message).                  *)
(***************************************************************************)
InternalsStayInside ==
  \A f \in Faces \ {"grpc"} :
    /\ results[f].status = 500
    /\ results[f].by = "handler" => client.outcome.code \in {"internal", "unknown"} \cup Statusless
    => results[f].message = "generic"

=============================================================================
