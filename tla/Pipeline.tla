------------------------------ MODULE Pipeline ------------------------------
(***************************************************************************)
(* A call on its way through the server: the interceptor chain             *)
(*   recovery, authn, ratelimit, audit, usage, authz, validate             *)
(* around a unary or streaming handler, and the shorter chain authn, authz *)
(* around an extra HTTP route.  Calls run concurrently with each other,    *)
(* with the stores (module Authn) and with the scraping of the meter.      *)
(***************************************************************************)
EXTENDS Authn

CONSTANTS
  ClientStream, ServerStream,   \* the streaming methods; the others are unary
  PerMessage,                   \* streams with StreamAuthPerMessage
  Http,                         \* extra routes
  Exempt,                       \* framework methods (health, reflection)
  Audited,                      \* the methods that audit's Include selects
  Message, Valid,               \* request messages; those that pass validation
  Proves,                       \* the requirements a message satisfies by itself
  Flaky,                        \* requirements whose evaluation may fail
  NoEvent,                      \* no audit event
  LoggedIn,                     \* the requirement of kind "authenticated"
  Limit

VARIABLES
  given,      \* the messages handed to each handler
  granted,    \* the limiter's budgets
  rows,       \* usage.Meter.rows
  scraped,    \* what SnapshotAndReset has returned so far
  audit,      \* the audit event of each call
  admitted,   \* history: the calls that passed the limiter
  panicked    \* history: the calls whose handler panicked

pipeVars == <<given, granted, rows, scraped, audit, admitted, panicked>>
vars == <<authnVars, pipeVars>>

Anonymous == "anonymous"
Streams   == ClientStream \cup ServerStream

AuditEvents == [principal : User \cup {Anonymous}, code : Codes \cup {"unknown"}]

ASSUME PipelineAssumption ==
  /\ ClientStream \subseteq Method /\ ServerStream \subseteq Method
  /\ PerMessage \subseteq Streams
  /\ Http \subseteq Method \ Streams /\ Exempt \subseteq Method /\ Audited \subseteq Method
  /\ \A m \in Http : PolicyOf[m] # NoPolicy
  /\ Valid \subseteq Message /\ Proves \in [Message -> SUBSET Req]
  /\ Flaky \subseteq Req /\ LoggedIn \in Req
  /\ Limit \in Nat \ {0} /\ Anonymous \notin User /\ NoEvent \notin AuditEvents

principal(c) == IF via[c] = None THEN Anonymous ELSE OwnerOf[via[c]]

Budget == INSTANCE Limiter WITH Caller <- Call, Key <- User \cup {Anonymous},
                                keyOf <- [c \in Call |-> principal(c)],
                                refused <- {c \in Call : code[c] = "exhausted"}

-----------------------------------------------------------------------------

\* What evaluating each requirement answers for a call and its request; proved
\* is what the request itself satisfies.
Evaluate(c, proved, failing) ==
  [r \in Req |->
     IF r \in failing THEN "error"
     ELSE IF r \in claims[c] \cup proved \/ (r = LoggedIn /\ via[c] # None) THEN "match"
     ELSE "miss"]

\* A slip: what cannot be evaluated does not stand in the way.
authorizeFailOpen(c, proved, failing, resolved) ==
  IF ~resolved THEN "internal"
  ELSE LET d == decidePolicy(PolicyOf[method[c]], via[c] # None, Evaluate(c, proved, failing))
       IN  IF d = "error" THEN "allow" ELSE d

\* authorize and deny: the decision as the code of the answer.
authorize(c, proved, failing, resolved) ==
  IF ~resolved THEN "internal"
  ELSE LET d == decidePolicy(PolicyOf[method[c]], via[c] # None, Evaluate(c, proved, failing))
       IN  IF d = "error" THEN "internal" ELSE d

\* A handler's error may be the bare error of its context, which has no status:
\* the interceptors read Unknown in it, and the client gets from grpc-go, once
\* they are done, DeadlineExceeded (or, which goes the same way, Canceled).
StatusCode(err) == IF err = "context error" THEN "unknown" ELSE err

FromContextError(err) == IF err = "context error" THEN "deadline exceeded" ELSE err

\* A slip: the chain has audit and usage inside authorization.
AnswerOutside(c, why) ==
  /\ code' = [code EXCEPT ![c] = why]
  /\ Step(c, IF method[c] \in Http \/ pc[c] = "authz" THEN "done" ELSE "count")

\* The interceptors inside usage and audit answer through them.
Answer(c, why) ==
  /\ code' = [code EXCEPT ![c] = why]
  /\ Step(c, IF method[c] \in Http THEN "done" ELSE "count")

PipelineInit ==
  /\ AuthnInit /\ Budget!LimiterInit
  /\ given = [c \in Call |-> {}]
  /\ rows = [m \in Method |-> [requests |-> 0, errors |-> 0]] /\ scraped = rows
  /\ audit = [c \in Call |-> NoEvent]
  /\ admitted = {} /\ panicked = {}

RateLimit(c) ==
  /\ pc[c] = "passed" /\ method[c] \notin Http
  /\ \E expired \in {{}, {principal(c)}} :
       \/ /\ Step(c, "authz")
          /\ UNCHANGED code
          /\ Budget!Grant(c, expired)
          /\ admitted' = admitted \cup {c}
       \/ /\ Refuse(c, "exhausted")
          /\ Budget!Deny(c, expired)
          /\ UNCHANGED admitted
  /\ UNCHANGED <<callVars, at, via, claims, storeVars, seen,
                 given, rows, scraped, audit, panicked>>

\* Authorization of a call with its request (unary), of an opening stream
\* without one, or of an HTTP request; a per-message stream is let through.
\* The validation of a unary request reads nothing shared and is part of it.
Authorize(c, m, failing, resolved) ==
  LET policy == PolicyOf[method[c]]
      proved == IF method[c] \in Streams THEN {} ELSE Proves[m]
      answer == IF policy = NoPolicy
                THEN IF method[c] \in Exempt THEN "allow" ELSE "internal"
                ELSE IF method[c] \in PerMessage THEN "allow"
                ELSE authorize(c, proved, failing, resolved)
  IN  /\ pc[c] = IF method[c] \in Http THEN "passed" ELSE "authz"
      /\ IF answer # "allow" THEN Answer(c, answer) /\ UNCHANGED given
         ELSE IF method[c] \in Streams THEN Step(c, "handle") /\ UNCHANGED <<code, given>>
         ELSE IF method[c] \in Http \cup Exempt \/ m \in Valid
         THEN /\ Step(c, "handle")
              /\ given' = [given EXCEPT ![c] = {m}]
              /\ UNCHANGED code
         ELSE Answer(c, "invalid") /\ UNCHANGED given
      /\ UNCHANGED <<callVars, at, via, claims, storeVars, seen,
                     granted, rows, scraped, audit, admitted, panicked>>

\* RecvMsg of the wrapped stream: authorization of the message, then its
\* validation.  The generated code of a server stream receives once and
\* returns the error; another handler may also go on after it.
Recv(c, m, failing, resolved) ==
  LET answer == IF method[c] \in PerMessage /\ PolicyOf[method[c]] # NoPolicy
                THEN authorize(c, Proves[m], failing, resolved) ELSE "allow"
      accepted == answer = "allow" /\ (m \in Valid \/ method[c] \in Exempt)
  IN  /\ pc[c] = "handle" /\ method[c] \in Streams
      /\ method[c] \in ServerStream => given[c] = {}
      /\ \/ accepted /\ given' = [given EXCEPT ![c] = @ \cup {m}] /\ UNCHANGED <<pc, code>>
         \/ /\ ~accepted
            /\ Answer(c, IF answer = "allow" THEN "invalid" ELSE answer)
            /\ UNCHANGED given
         \/ ~accepted /\ method[c] \notin ServerStream /\ UNCHANGED <<pc, code, given>>
      /\ UNCHANGED <<callVars, at, via, claims, storeVars, seen,
                     granted, rows, scraped, audit, admitted, panicked>>

Handled(c) == pc[c] = "handle" /\ (method[c] \notin ClientStream => given[c] # {})

\* The handler of an extra route returns no error, it writes its answer.
Return(c, why) ==
  /\ Handled(c)
  /\ why = "context error" => method[c] \notin Http
  /\ Answer(c, why)
  /\ UNCHANGED <<callVars, at, via, claims, storeVars, seen, pipeVars>>

\* The recovery interceptor answers Internal; usage and audit are unwound.  An
\* extra route has no recovery: net/http drops the connection.
Panic(c) ==
  /\ Handled(c)
  /\ Refuse(c, IF method[c] \in Http THEN "aborted" ELSE "internal")
  /\ panicked' = panicked \cup {c}
  /\ UNCHANGED <<callVars, at, via, claims, storeVars, seen,
                 given, granted, rows, scraped, audit, admitted>>

Count(c) ==
  /\ pc[c] = "count"
  /\ rows' = [rows EXCEPT ![method[c]] =
                [requests |-> @.requests + 1,
                 errors   |-> IF code[c] # "ok" THEN @.errors + 1 ELSE @.errors]]
  /\ Step(c, "audit")
  /\ UNCHANGED <<callVars, at, via, claims, code, storeVars, seen,
                 given, granted, scraped, audit, admitted, panicked>>

RecordEvent(c) ==
  /\ pc[c] = "audit"
  /\ audit' = [audit EXCEPT ![c] =
                 IF method[c] \in Audited
                 THEN [principal |-> principal(c), code |-> StatusCode(code[c])] ELSE @]
  /\ Step(c, "done")
  /\ code' = [code EXCEPT ![c] = FromContextError(@)]
  /\ UNCHANGED <<callVars, at, via, claims, storeVars, seen,
                 given, granted, rows, scraped, admitted, panicked>>

\* A slip: the errors are left for the next scrape.
SnapshotAndResetRequests ==
  /\ scraped' = [m \in Method |-> [requests |-> scraped[m].requests + rows[m].requests,
                                   errors   |-> scraped[m].errors + rows[m].errors]]
  /\ rows' = [m \in Method |-> [rows[m] EXCEPT !.requests = 0]]
  /\ UNCHANGED <<authnVars, given, granted, audit, admitted, panicked>>

SnapshotAndReset ==
  /\ scraped' = [m \in Method |-> [requests |-> scraped[m].requests + rows[m].requests,
                                   errors   |-> scraped[m].errors + rows[m].errors]]
  /\ rows' = [m \in Method |-> [requests |-> 0, errors |-> 0]]
  /\ UNCHANGED <<authnVars, given, granted, audit, admitted, panicked>>

CallStep(c) ==
  \/ RateLimit(c)
  \/ \E m \in Message, failing \in SUBSET Flaky, resolved \in BOOLEAN :
       Authorize(c, m, failing, resolved) \/ Recv(c, m, failing, resolved)
  \/ \E why \in {"ok", "failed", "context error"} : Return(c, why)
  \/ Panic(c)
  \/ Count(c)
  \/ RecordEvent(c)

Next ==
  \/ AuthnNext /\ UNCHANGED pipeVars
  \/ \E c \in Call : CallStep(c)
  \/ SnapshotAndReset

Spec == PipelineInit /\ [][Next]_vars

-----------------------------------------------------------------------------

Row == [requests : Nat, errors : Nat]

PipelineTypeOK ==
  /\ TypeOK
  /\ given \in [Call -> SUBSET Message]
  /\ granted \in [User \cup {Anonymous} -> 0 .. Limit]
  /\ rows \in [Method -> Row] /\ scraped \in [Method -> Row]
  /\ audit \in [Call -> AuditEvents \cup {NoEvent}]
  /\ admitted \subseteq Call /\ panicked \subseteq Call

\* The method's policy allows the message to the call's caller: with the message
\* itself in per-message streams, unary calls and HTTP requests, without it in
\* streams that are authorized when they open.
Permits(c, m) ==
  LET proved == IF method[c] \in Streams \ PerMessage THEN {} ELSE Proves[m]
  IN  IF PolicyOf[method[c]] = NoPolicy THEN method[c] \in Exempt
      ELSE /\ Allowed(PolicyOf[method[c]], via[c] # None, Evaluate(c, proved, {}))
           /\ method[c] \notin Http \cup Exempt => m \in Valid

\* A handler is given only messages that the method's policy allows to the
\* caller, the second and later messages of a stream and those received after a
\* refused one included.  A method without a policy gets nothing, unless it
\* belongs to the framework.
DeliveredOnlyIfAllowed == \A c \in Call : \A m \in given[c] : Permits(c, m)

\* The audit event names the principal that made the call and carries the code
\* the client got - of a bare context error, for which the client gets
\* DeadlineExceeded, Unknown - and each audited call that passed the limiter and
\* whose handler did not panic has one, whichever stage answered it.
AuditTellsTheOutcome ==
  \A c \in Call :
    /\ audit[c] # NoEvent =>
         /\ pc[c] = "done" /\ audit[c].principal = principal(c)
         /\ audit[c].code # code[c] => audit[c].code = "unknown" /\ code[c] = "deadline exceeded"
    /\ pc[c] = "done" /\ c \in admitted \ panicked /\ method[c] \in Audited => audit[c] # NoEvent

\* No request is lost or counted twice between the handlers that finish and the
\* scraper that resets the meter.
Counted(m) == {c \in admitted \ panicked : method[c] = m /\ pc[c] \in {"audit", "done"}}

UsageIsConserved ==
  \A m \in Method :
    /\ rows[m].requests + scraped[m].requests = Cardinality(Counted(m))
    /\ rows[m].errors + scraped[m].errors = Cardinality({c \in Counted(m) : code[c] # "ok"})

\* audit.go says of Include that failed requests are audited as well.
FailedRequestsAreAudited ==
  \A c \in Call :
    pc[c] = "done" /\ c \in admitted /\ method[c] \in Audited /\ code[c] # "ok" => audit[c] # NoEvent

=============================================================================
