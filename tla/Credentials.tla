---------------------------- MODULE Credentials ------------------------------
(***************************************************************************)
(* What a request states about its caller: the extraction of credentials   *)
(* from gRPC metadata and from HTTP headers, JSON web tokens, API keys and *)
(* session cookies.  Module Authn has the stores and what happens to them  *)
(* while they are asked; here they stand still, and what matters is the    *)
(* principal that the content of a credential makes.                       *)
(*                                                                         *)
(* Headers and metadata are functions from lower-case names to sequences   *)
(* of values.                                                              *)
(***************************************************************************)
EXTENDS Integers, Sequences, FiniteSets

CONSTANTS
  Token,      \* what each bearer token says: its signature and its claims
  Key,        \* the records of the API keys
  Sessions,   \* the cookies of live sessions
  Expected    \* the issuer and audience that tokens must name, "" for any

\* A claim that is neither a string nor a list says nothing of scopes.
ScopeClaims ==
  [type : {"string"}, value : Seq(STRING)] \cup [type : {"list"}, value : SUBSET Seq(STRING)]
    \cup [type : {"number"}, value : Int]

\* No credential is empty, and what a store says of one is of these kinds.
ASSUME CredentialAssumption ==
  /\ "" \notin DOMAIN Token \cup DOMAIN Key \cup Sessions
  /\ \A t \in DOMAIN Token : Token[t].keys \in {"up", "down"} /\ Token[t].scopes \in ScopeClaims
  /\ \A k \in DOMAIN Key : /\ Key[k].store \in {"up", "down", "missing"}
                           /\ Key[k].expires \in {"never", "future", "past"}
                           /\ Key[k].scopes \cup Key[k].claim \subseteq Seq(STRING)

Get(md, name) == IF name \in DOMAIN md THEN md[name] ELSE <<>>

First(values, none) == IF values = <<>> THEN none ELSE values[1]

\* The first of the values that is not none.
FirstBut(none, values) ==
  LET others == {i \in DOMAIN values : values[i] # none}
  IN  IF others = {} THEN none ELSE values[CHOOSE i \in others : \A j \in others : i <= j]

Nobody == [code |-> "ok", kind |-> "none", scopes |-> {}]
Refused(code) == [code |-> code, kind |-> "none", scopes |-> {}]
Unknown == Refused("unknown credential")
Principal(kind, scopes) == [code |-> "ok", kind |-> kind, scopes |-> scopes]

-----------------------------------------------------------------------------
(* Extraction. *)

\* The tokens of the Authorization values with the scheme Bearer, in any case.
bearerTokens(values) ==
  LET bearer == {i \in DOMAIN values : /\ values[i].scheme \in {"Bearer", "bearer"}
                                       /\ values[i].token # ""}
      nth(n) == CHOOSE i \in bearer : Cardinality({j \in bearer : j < i}) = n - 1
  IN  [n \in 1 .. Cardinality(bearer) |-> values[nth(n)].token]

\* certs are those of the connection's other end.
Extract(md, certs) ==
  [bearer  |-> bearerTokens(Get(md, "authorization")),
   apiKeys |-> Get(md, "x-api-key"),
   cookies |-> Get(md, "cookie"),
   tickets |-> Get(md, "x-ticket"),
   certs   |-> certs]

ExtractHTTP(headers, certs) ==
  [bearer  |-> bearerTokens(Get(headers, "authorization")),
   apiKeys |-> Get(headers, "x-api-key"),
   cookies |-> Get(headers, "cookie"),
   tickets |-> <<>>,
   certs   |-> certs]

AuthKinds(creds) == Cardinality({k \in DOMAIN creds : creds[k] # <<>>})

\* The value of a cookie, from the first Cookie header that has it.
Cookie(creds, name) ==
  FirstBut("", [i \in DOMAIN creds.cookies |-> creds.cookies[i][name]])

-----------------------------------------------------------------------------
(* JSON web tokens. *)

\* A claim is a string, a list, or something else; of a list the strings count.
Strings(claim) ==
  IF claim.type = "string" THEN {claim.value}
  ELSE IF claim.type = "list" THEN {v \in claim.value : v # <<"number">>}
  ELSE {}

Subject(t) == FirstBut("", <<t.sub, t.uid>>)

Verify(t) ==
  /\ t.signed /\ t.exp = "future"
  /\ Expected.issuer \in {"", t.iss} /\ Expected.audience \in {"", t.aud}

\* The kind is configured: what a token says of it is not asked.
AuthenticateJWT(creds) ==
  LET t == Token[creds.bearer[1]]
  IN  IF creds.bearer = <<>> THEN Unknown
      ELSE IF t.keys = "down" THEN Refused("unavailable")
      ELSE IF ~Verify(t) \/ Subject(t) = "" THEN Refused("unauthenticated")
      ELSE Principal("user", Strings(t.scopes))

-----------------------------------------------------------------------------
(* API keys and sessions. *)

Active(k) == ~k.revoked /\ k.expires \in {"never", "future"}

\* The key's scopes replace what its claims call scopes.
KeyScopes(k) == IF k.scopes # {} THEN k.scopes ELSE k.claim

AuthenticateKey(creds) ==
  LET raw == First(creds.apiKeys, "")
  IN  IF raw = "" \/ ~Key[raw].prefixed THEN Unknown
      ELSE IF Key[raw].store = "down" THEN Refused("unavailable")
      ELSE IF Key[raw].store = "missing" \/ ~Active(Key[raw]) THEN Refused("unauthenticated")
      ELSE Principal("api_key", KeyScopes(Key[raw]))

AuthenticateSession(creds) ==
  LET value == Cookie(creds, "session")
  IN  IF value = "" THEN Unknown
      ELSE IF value \in Sessions THEN Principal("user", {}) ELSE Refused("unauthenticated")

-----------------------------------------------------------------------------

\* The authenticators in turn: the first that knows its credential decides.
\* None of them knows tickets or certificates.
ChainAuthenticate(creds) ==
  FirstBut(Unknown, <<AuthenticateJWT(creds), AuthenticateKey(creds), AuthenticateSession(creds)>>)

Repeated(creds) == \E k \in {"bearer", "apiKeys", "tickets"} : Len(creds[k]) > 1

\* A public operation may be configured to ignore what is invalid.
authenticate(creds, ignoreInvalid) ==
  IF AuthKinds(creds) = 0 THEN Nobody
  ELSE IF Repeated(creds) \/ AuthKinds(creds) > 1 THEN Refused("unauthenticated")
  ELSE IF ChainAuthenticate(creds) = Unknown THEN Refused("unauthenticated")
  ELSE IF ignoreInvalid /\ ChainAuthenticate(creds) = Refused("unauthenticated") THEN Nobody
  ELSE ChainAuthenticate(creds)

=============================================================================
