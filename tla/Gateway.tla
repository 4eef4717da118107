------------------------------ MODULE Gateway -------------------------------
(***************************************************************************)
(* package gateway: how an HTTP request becomes the metadata of a gRPC     *)
(* call, and an error the answer of an HTTP request; with the part of      *)
(* grpc-gateway that does the rest.                                        *)
(***************************************************************************)
EXTENDS Address

-----------------------------------------------------------------------------
(* Headers.  A policy has the lists deny, allow and direct, each <<>> for   *)
(* the default or <<list>>.                                                 *)

defaultDeniedHeaders ==
  {"authorization", "grpcgateway-authorization", "grpc-metadata-authorization",
   "x-grpcapi-client-ip", "grpcgateway-x-grpcapi-client-ip", "grpc-metadata-x-grpcapi-client-ip"}

normalizeHeaders(p) ==
  [deny   |-> First(p.deny, defaultDeniedHeaders),
   allow  |-> First(p.allow, {"cookie", "x-api-key", "x-request-id", "idempotency-key"}),
   direct |-> First(p.direct, {"set-cookie"})]

\* The header that grpc-gateway passes on as metadata k, its prefix taken off;
\* "" for metadata that nothing in this module or its users reads.
MetadataHeader(k) ==
  CASE k = "authorization"               -> "grpc-metadata-authorization"
    [] k = "x-api-key"                   -> "grpc-metadata-x-api-key"
    [] k = "cookie"                      -> "grpc-metadata-cookie"
    [] k = "x-ticket"                    -> "grpc-metadata-x-ticket"
    [] k = "x-request-id"                -> "grpc-metadata-x-request-id"
    [] k = "x-forwarded-for"             -> "grpc-metadata-x-forwarded-for"
    [] k = "grpcgateway-x-forwarded-for" -> "grpc-metadata-grpcgateway-x-forwarded-for"
    [] k = "x-real-ip"                   -> "grpc-metadata-x-real-ip"
    [] k = "x-grpcapi-client-ip"         -> "grpc-metadata-x-grpcapi-client-ip"
    [] OTHER                             -> ""

MetadataRead ==
  {"authorization", "x-api-key", "cookie", "x-ticket", "x-request-id", "x-forwarded-for",
   "grpcgateway-x-forwarded-for", "x-real-ip", "x-grpcapi-client-ip"}

\* grpc-gateway's own rules: permanent headers are prefixed, and the prefix of
\* metadata headers is taken off; "" for a header that is dropped.
DefaultHeaderMatcher(h) ==
  CASE h = "authorization" -> "grpcgateway-authorization"
    [] h = "cookie"        -> "grpcgateway-cookie"
    [] h = "origin"        -> "grpcgateway-origin"
    [] h = "referer"       -> "grpcgateway-referer"
    [] \E k \in MetadataRead : h = MetadataHeader(k) ->
         CHOOSE k \in MetadataRead : h = MetadataHeader(k)
    [] OTHER               -> ""

\* A slip: what is allowed is not denied.
IncomingPolicyAllowFirst(p, h) ==
  IF h \in normalizeHeaders(p).allow THEN h
  ELSE IF h \in normalizeHeaders(p).deny THEN "" ELSE DefaultHeaderMatcher(h)

\* The metadata key of a header, "" if it is refused.
IncomingPolicy(p, h) ==
  IF h \in normalizeHeaders(p).deny THEN ""
  ELSE IF h \in normalizeHeaders(p).allow THEN h ELSE DefaultHeaderMatcher(h)

\* The header of a metadata key of the answer.
OutgoingPolicy(p, k) ==
  IF k \in normalizeHeaders(p).direct THEN k ELSE "grpc-metadata-" \o k

\* The hops of the one or two lines that a request has of them.
Joined(lines) == IF Len(lines) = 2 THEN lines[1] \o lines[2] ELSE First(lines, <<>>)

\* grpc-gateway passes Authorization on whatever the matcher says, and once more
\* if that says so too; the forwarded hops it asks no matcher, but adds the peer
\* to them once all headers are through.  What the annotators add is the last.
\* At most one header besides k itself gets the key k; which of the two is met
\* first is up to Go's maps: r.late has the names that come after the other.
annotateContext(p, r, added) ==
  LET hops == Joined(Get(r.headers, ForwardedForKey)) \o <<r.remote>>
      renamed(k) == {h \in DOMAIN r.headers \ {k} : IncomingPolicy(p, h) = k}
      other(k) == IF renamed(k) = {} THEN <<>> ELSE r.headers[CHOOSE h \in renamed(k) : TRUE]
      own(k) == (IF k = "authorization" THEN Get(r.headers, k) ELSE <<>>)
                  \o (IF k # ForwardedForKey /\ IncomingPolicy(p, k) = k THEN Get(r.headers, k) ELSE <<>>)
      keys == {"authorization", ForwardedForKey} \cup DOMAIN added
                \cup ({IncomingPolicy(p, h) : h \in DOMAIN r.headers} \ {""})
  IN  [k \in keys |-> (IF k \in r.late THEN other(k) \o own(k) ELSE own(k) \o other(k))
                       \o (IF k = ForwardedForKey THEN <<hops>> ELSE <<>>) \o Get(added, k)]

-----------------------------------------------------------------------------
(* Errors.  An error is [code, message, retry]: its status code, the name   *)
(* of a context's bare error or "plain" if it has none, whose text its      *)
(* message is, and the milliseconds of its RetryInfo, 0 if it has none.     *)

Statusless == {"plain", "context.DeadlineExceeded", "context.Canceled"}

DefaultCodeToHTTP(code) ==
  CASE code = "ok"                                            -> 200
    [] code = "canceled"                                      -> 499
    [] code \in {"invalid argument", "failed precondition", "out of range"} -> 400
    [] code = "deadline exceeded"                             -> 504
    [] code = "not found"                                     -> 404
    [] code \in {"already exists", "aborted"}                 -> 409
    [] code = "permission denied"                             -> 403
    [] code = "unauthenticated"                               -> 401
    [] code = "resource exhausted"                            -> 429
    [] code = "unimplemented"                                 -> 501
    [] code = "unavailable"                                   -> 503
    [] OTHER                                                  -> 500

\* A slip: an error that has no status on its way is not sanitized.
sanitizeInternal(code) == code = "internal"

sanitize(code) == code \in {"internal", "unknown"}

\* Whole seconds, rounded up.
retryAfterSeconds(ms) == (ms + 999) \div 1000

\* The answer of an error, whoever writes it.
encodeError(err) ==
  LET st     == IF err.code \in Statusless THEN [code |-> "internal", message |-> "generic", retry |-> 0] ELSE err
      status == DefaultCodeToHTTP(st.code)
  IN  [status  |-> status,
       message |-> IF sanitize(st.code) THEN "generic" ELSE st.message,
       retry   |-> IF status = 429 THEN retryAfterSeconds(st.retry) ELSE 0]

\* A gRPC server makes a handler's error without a status one of its own, with
\* a code for the errors of a context (status.FromContextError).
StatusOf(err) ==
  CASE err.code = "plain"                    -> [err EXCEPT !.code = "unknown"]
    [] err.code = "context.DeadlineExceeded" -> [err EXCEPT !.code = "deadline exceeded"]
    [] err.code = "context.Canceled"         -> [err EXCEPT !.code = "canceled"]
    [] OTHER                                 -> err

=============================================================================
