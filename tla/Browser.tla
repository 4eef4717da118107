------------------------------- MODULE Browser ------------------------------
(***************************************************************************)
(* The middlewares for browsers, packages cors and csrf, as operators on a *)
(* request, and the rules by which a browser sends a page's requests and   *)
(* shows it the answers.                                                   *)
(*                                                                         *)
(* An origin is [scheme, host].  A configured one is [origin, style]: with *)
(* a slash at its end or in capitals it means the same; any is the origin  *)
(* that stands for all.                                                    *)
(***************************************************************************)
EXTENDS Credentials

CONSTANTS
  Server,     \* the origin of the server's own pages
  AnyOrigin   \* the configured origin "*"

Opaque == [scheme |-> "null", host |-> ""]
NoOrigin == [scheme |-> "", host |-> ""]

SafeMethods   == {"GET", "HEAD", "OPTIONS", "TRACE"}
SimpleMethods == {"GET", "HEAD", "POST"}

OriginOf(r) == First(Get(r.headers, "origin"), NoOrigin)

-----------------------------------------------------------------------------
(* CORS. *)

\* Lists that are not given have defaults.
normalize(c) ==
  [origins |-> {o.origin : o \in c.origins},
   methods |-> IF c.methods = {} THEN {"GET", "HEAD", "POST", "PUT", "PATCH", "DELETE"} ELSE c.methods,
   headers |-> First(c.headers, {"authorization", "content-type", "cookie", "x-api-key",
                               "x-request-id", "idempotency-key", "x-csrf-token"}),
   credentials |-> c.credentials]

\* New refuses to combine "*" with credentials.
CORSAccepts(c) == ~(AnyOrigin \in normalize(c).origins /\ c.credentials)

corsOriginAllowed(c, origin) == normalize(c).origins \cap {AnyOrigin, origin} # {}

isPreflight(r) == r.method = "OPTIONS" /\ r.acrm # ""

Unmarked == [origin |-> NoOrigin, credentials |-> FALSE, methods |-> {}, headers |-> {}]

\* A slip: the origin of the request is repeated, and credentials with it.
setCommonHeadersReflected(c, origin) ==
  [Unmarked EXCEPT !.origin = origin, !.credentials = TRUE]

\* What the answer tells the browser.
setCommonHeaders(c, origin) ==
  [Unmarked EXCEPT
     !.origin = IF AnyOrigin \in normalize(c).origins /\ ~c.credentials THEN AnyOrigin ELSE origin,
     !.credentials = c.credentials]

\* The answer of a preflight.
handlePreflight(c, r) ==
  IF ~corsOriginAllowed(c, OriginOf(r)) \/ r.acrm \notin normalize(c).methods
     \/ ~(r.acrh \subseteq normalize(c).headers)
  THEN [status |-> 403, marks |-> Unmarked]
  ELSE [status |-> 204,
        marks  |-> [setCommonHeaders(c, OriginOf(r)) EXCEPT
                      !.methods = normalize(c).methods, !.headers = normalize(c).headers]]

\* What CORS adds to the answer of any other request.
CORSMarks(c, r) ==
  IF OriginOf(r) = NoOrigin \/ ~corsOriginAllowed(c, OriginOf(r)) THEN Unmarked
  ELSE setCommonHeaders(c, OriginOf(r))

-----------------------------------------------------------------------------
(* CSRF. *)

\* The Origin, or else the Referer, is listed; without a list its host is ours.
csrfOriginAllowed(c, r) ==
  LET origin == IF OriginOf(r) # NoOrigin THEN OriginOf(r)
                ELSE First(Get(r.headers, "referer"), NoOrigin)
  IN  IF c.origins = {} THEN origin = NoOrigin \/ origin.host = r.host
      ELSE origin # NoOrigin /\ origin \in {o.origin : o \in c.origins}

\* A slip: no token in the header is equal to no token in the cookie.
tokenMatchesEmpty(r) ==
  First(Get(r.headers, "x-csrf-token"), "") = Cookie([cookies |-> Get(r.headers, "cookie")], "csrf")

\* The token of the cookie is sent back in the header.
tokenMatches(r) ==
  LET cookie == Cookie([cookies |-> Get(r.headers, "cookie")], "csrf")
  IN  cookie # "" /\ First(Get(r.headers, "x-csrf-token"), "") = cookie

CSRFPasses(c, r) ==
  \/ r.method \in SafeMethods
  \/ c.exempt
  \/ csrfOriginAllowed(c, r) /\ tokenMatches(r)

-----------------------------------------------------------------------------
(* The browser. *)

\* Whether a page may be shown an answer with these marks.
Shown(page, marks) ==
  \/ page.origin = Server
  \/ /\ marks.origin = page.origin \/ (marks.origin = AnyOrigin /\ ~page.credentials)
     /\ page.credentials => marks.credentials

\* Whether an answered preflight lets the page's request go.
Cleared(page, answer) ==
  /\ answer.status \in 200 .. 299
  /\ Shown(page, answer.marks)
  /\ page.method \in SimpleMethods \cup answer.marks.methods
  /\ page.custom \subseteq answer.marks.headers

\* A page of another origin asks before it sends what a form could not.
AsksFirst(page, custom) ==
  page.origin # Server /\ ~(page.method \in SimpleMethods /\ custom = {})

=============================================================================
