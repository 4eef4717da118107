# A verification of grpcapi in TLA+

`grpcapi` is a Go library that puts one policy-driven authorization model in
front of gRPC services, their HTTP gateway, and hand-written HTTP routes.
Policies are declared in proto options, built once at start-up, and enforced by
interceptors on every call. This directory holds TLA+ modules translated from
that source, the TLC configurations that check them on small instances, and
proofs that TLAPS checks for every value of the constants.

`PROJECT.json` is the machine-readable index: the components, the runs and
their properties, a plausible bug (an operator introduced as "a slip" in the
modules) that each property catches, the source lines of every definition, the
hazards, the findings and the theorems.

    tlc -workers 4 -config MCPipeline.cfg MCPipeline.tla
    tlapm PipelineProofs.tla

## 1. Inventory

### 1.1 Components

| component | state it keeps | operations | what makes it correct |
|---|---|---|---|
| `policy` (`build.go`, `preset.go`, `spec.go`, `set.go`, `registry.go`) | the set of operations, immutable once built | `Build`, `expand`, `mergePolicy`, `andPolicy`, `validatePolicy`, lookups | no layer is lost, inheriting never widens, the decider can evaluate whatever was accepted |
| `policy/scope` | none | `Kind` and `ResourceKind`: validation at start-up, matching of tokens against operations and instances | a token grants what the table in its comments says, the same from every credential |
| `authz` (`decider.go`, `interceptor.go`, `http.go`) | none | `Decide`, unary and stream interceptors, `RecvMsg`, HTTP middleware | a handler sees only what the policy allows, errors fail closed |
| `authn` (`authn.go`, `interceptor.go`) | none of its own; the stores' is the project's | extraction, chain, enrichers, error policy | identity comes from a live credential, an outage is not an anonymous caller |
| `authn/jwt` (`jwt.go`, `jwks.go`) | the cached keys, two mutexes | `KeyFunc`, `keysCached`, `fetch`, verification and claims | one fetch at a time, the cache moves forward, failures are bridged, nobody waits for ever |
| `authn/session` | behind the project's `Store` | `Issue`, `Authenticate` (`Get`, the check, `Touch`), `Destroy` | a session that was destroyed or ran out before a request began is not accepted |
| `authn/apikey`, `ticket`, `admin` | behind the project's `Store` interfaces | `Authenticate`, `Redeem`, `Enrich` | a ticket serves one call, revoked roles do not survive |
| `ratelimit` | `windows`, `lastSweep`, one mutex | `Allow`, `sweepLocked`, interceptors | refusals are justified, waiting as told helps, windows do not pile up |
| `usage` | `Meter.rows`, one mutex | counting interceptors, `Snapshot`, `SnapshotAndReset` | no call is lost or counted twice |
| `audit` | none (a project's `Sink`) | recording interceptors | the event tells who called and what came of it |
| `interceptor` | none | stage order and assembly, recovery, validation, framework methods, client information, trusted proxies, request IDs | the stages wrap each other in the intended order; the address is the client's and not what it claims |
| `server` | listeners, two gRPC servers, the HTTP server, health, the gateway's connection | `New` with its checks and groups, `Run`, `Shutdown`, extra routes | what it accepts protects what it serves and serves what it lists; shutdown drains HTTP before gRPC, cuts nothing early, and ends |
| `surface` | the table of routes and operations, immutable | computing it, validating exposures, conflicts | every listed route answers |
| `gateway` | none | header policies, metadata, error encoder and handler | the two HTTP faces and gRPC answer a request alike where they are meant to, internal errors say nothing |
| `csrf`, `cors` | the cookie and what the browser remembers | `Issue`, the two middlewares | foreign pages neither act nor read |
| `bridge` (`sse.go`, `upload.go`, `ws.go`) | per connection: writer mutex, ticker, partial upload, the socket's principal | SSE, upload and WebSocket handlers | one goroutine has the response, a failure is told, a stream ends when its client leaves, nothing read is lost, a principal is live when it is used |
| `contextx`, `principal` | values of one request's context | | |
| `policy/protopolicy`, `openapi`, `guard`, `testkit`, `cmd`, `example`, `genproto` | none | reading options, documents, tests, tools, generated code | |

### 1.2 How they interact

At start-up `server.New` builds the policy set (`policy.Build`), gives it to the
decider, and assembles the interceptor chain; a failure of any of these prevents
the server from existing. `Run` opens the listeners and starts a goroutine per
listener. Every gRPC call, whether it arrives directly or through the gateway's
in-process connection, runs in a goroutine through

    recovery, request id, client info, authn, ratelimit, audit, usage, authz, validate, handler

in the order of the constants in `interceptor/chain.go`. The chain that `New`
assembles when the project configures none has no rate limiter, audit or usage
(`server.go:242`); the model has them all, in the order that `Assemble` enforces.
Extra HTTP routes go through authn and authz only, and the bridge's three
endpoints are such routes. Before the mux of the HTTP server stand CORS, CSRF
and, for the gateway, its header policy, which decides what of a request becomes
metadata; behind it, the annotator states the client's address. Calls
meet in the key cache, the limiter's windows, the meter, and the project's
stores; the scraper of the meter, the issuer of keys, and whoever revokes
credentials or edits admin records act at any time. `Shutdown` runs in `Run`'s
goroutine, in the application's, or in both.

### 1.3 What is hard

* **Concurrency.** The stores are asked one after the other while credentials
  die and admin records change (`authn`); the clock is read before the limiter's
  mutex is taken (`ratelimit.go:84`); the key cache is read, left, and read
  again under a second mutex (`jwks.go:67`); the scraper resets the meter; two
  `Shutdown`s meet.
* **Failure.** Predicates, resolvers, stores and fetches fail, one at a time,
  and each failure must close the door rather than open it; handlers panic
  through the interceptors that would have recorded the call.
* **Ordering.** Which interceptor wraps which decides what is recorded and what
  a stream's handler is given; which server stops first decides which calls
  lose their backend.
* **Time.** Windows, refresh intervals and shutdown deadlines end while a
  caller is on its way to the lock.
* **Composition.** Presets of presets, service and file defaults and
  `inherit_default` combine four sources of constraints in one policy. API
  groups with prefixes, services with several faces, and extra routes share one
  name space of paths; a dozen checks of `server.New` together must leave no
  configuration that serves a protected method to anybody.
* **Translation.** The same request reaches a method by gRPC, through the
  gateway, or on an extra route. Headers become metadata under other names,
  errors become statuses and bodies, and the hops of a forwarding header are
  read on both sides of the gateway.
* **Long-lived connections.** The keep-alive ticker and the callback of a
  stream share a response that may block and that the server takes back; a
  socket outlives the session that opened it; a body may stop anywhere.

`PROJECT.json` lists these hazards at the lines where they bite, with the
properties that would catch each of them, or the reason why none does yet.

## 2. The modules

| module | models | extended or used by |
|---|---|---|
| `Policy` | the policy data type and `decidePolicy` | everything about authorization |
| `PolicyBuild` | the declaration, building and asking of one operation's policy | `MCPolicyBuild`, `PolicyProofs` |
| `Authn` | the authentication of concurrent calls, the stores and what happens to them | `Pipeline`, `MCAuthn`, `PipelineProofs` |
| `Limiter` | abstract specification: budgets of grants that time renews | `Pipeline` (as its limiter), `RateLimit` (as what it implements) |
| `RateLimit` | the windows, the sweep, the lock and the clock | `MCRateLimit`, `RateLimitProofs` |
| `Pipeline` | composition: `Authn`, the limiter's budget, audit, usage, authz, validation and the handlers | `MCPipeline`, `PipelineProofs` |
| `JWKS` | the key cache | `MCJWKS`, `JWKSProofs` |
| `Lifecycle` | `Run`, the goroutines it starts, `Shutdown`, and the calls in flight | `MCLifecycle`, `LifecycleProofs` |
| `EventStream`, `Upload` | one request to an SSE endpoint, one upload | `Bridge` |
| `Session`, `Socket` | the session store with its callers; the WebSocket that is one of them | `Socket`, `Bridge` |
| `Bridge` | composition: the three endpoints, the socket beside other requests | `MCBridge`, `BridgeProofs` |
| `Chain`, `Startup` | `AssembleWith` and the order checks; `server.New` and the calls of what it accepts | `MCStartup`, `StartupProofs` |
| `Scope`, `Credentials`, `Address`, `Gateway`, `Browser` | pure operators: scopes, what credentials state, client addresses, headers and errors, CORS and CSRF | `Front` |
| `Front` | composition: one request from a page or a program to a handler, on each face of the server | `MCFront`, `FrontProofs` |
| `*Proofs` | the lemmas and theorems, one module per composition | |

### 2.1 `Policy` and `PolicyBuild`

A requirement is an opaque value. What the code tells apart about it is whether
its `Match` is a registered value (`ValidMatch`), whether it is valid as a whole
(`ValidReq`), whether its kind has an evaluator (`Evaluable`), and what
evaluating it answers for a request: match, miss or error. `decidePolicy`
follows the early returns of `decider.go`: the scans of `forbid`, `require` and
`any_of` stop at the first answer that settles them, so an error after a match
in `forbid` does not surface; `FirstIs` says where a scan stops.

`PolicyBuild` is a small state machine: `BuildInit` picks a declaration (a policy at
the file, service and method, `inherit_default`, and the method's shape),
`Build` is `buildOperation` with `NewRequirementDecider`'s check, and `Decide`
asks the result with any outcome of any requirement. `expand` is a recursive
function that carries the stack of presets, as the code does, with its depth
limit, cycle check and unknown names.

### 2.2 `Authn`

`Arrive` is the extractor, `Present` the rules about repeated and multiple
credentials, `Authenticate` one authenticator of the chain, `Enrich` the admin
enricher. Each consults at most one store, in one step; `Revoke`, `Outage` and
`ChangeRecord` happen between steps. What an authenticator says is one of
unknown, accepted, invalid or outage; parsing and signatures are abstracted to
the sets `Foreign` and `Forged`. Three histories (`born`: what was alive when the
call arrived; `failed` and `seen`: the stores that did not answer, and the admin
records, while it was authenticated) make "was earned", "was down" and "was
granted" expressible. A ticket's redemption and its recognition are one step
because `ticket.Store` promises single use. The same contract has the store
answer a failure of its own as it answers a ticket that is used up
(`ticket.go:23`), with an unauthenticated status: `Verdict` follows it, the
interceptor cannot tell the two apart, and `NoSilentDowngrade` excepts the
tickets whose store failed during the call. `IdentityIsEarned` includes the order
of the chain (`PassedOver`): no authenticator takes over from an earlier one that
knew its credential and refused it.

### 2.3 `Limiter` and `RateLimit`

`Limiter` says what the pipeline may rely on: a key gets at most `Limit` grants
before its budget is renewed and is refused only when they are spent.
`RateLimit` is the implementation: `ReadClock` and `Allow` are separate steps,
so callers enter the critical section in another order than that of their
times, by at most `MaxDelay`. The refinement mapping is `budgets` (the count of
a key's window, 0 if it has none) and `turnedAway` (the callers whose last
request was refused); `ImplementsBudget` is the refinement. A second refusal in
a row of the same caller is a stutter of the abstract specification;
`RefusalIsEarned` covers each of them.

### 2.4 `Pipeline`

It extends `Authn` with the later stages. A call's `pc` says which interceptor
has it; `Answer` is the way out through usage and audit, and `Panic` the one
past them. `Authorize` covers unary calls (with the request, and the validation
inside), the opening of a stream (without one), per-message streams (let
through), extra routes, framework methods and methods without a policy.
`Recv` is the wrapped stream's `RecvMsg`; after a refused message a handler may
return or go on receiving, except for server streams, whose generated code
returns. `Evaluate` gives each requirement an answer from the principal's
claims, from the message, or an error for the requirements in `Flaky`.

A handler may return the bare error of its context. It has no status while the
interceptors look at it, and audit records Unknown (`StatusCode`, `audit.go:90`);
grpc-go makes DeadlineExceeded of it, or Canceled, when they are done
(`FromContextError`), and that is what the client gets. The two codes go the same
way, so the model has one of them. `AuditTellsTheOutcome` says that the recorded
code is the client's but for this case.

### 2.5 `JWKS`

One action per critical section of `mu`, and the steps of `keysCached` under
`refreshMu`. A key set is the number of the rotation that published it, so
"older" is `<`. `fresh` says whether the refresh interval is running. Histories:
`owed` (no refresh since the caller found the cache old), `failed` (its own
fetch failed), `had`.

### 2.6 `Lifecycle`

`cfg` is any configuration that starts servers. `ListenGRPC`, `ListenHTTP`,
`Announce`, `Select` and `Return` are `Run`; `ServeBegins` and `ServeEnds` the
goroutines; `Begin`, `HTTPDrained`, `GracefulStop`, `Stopped`, `GiveUp` are
`Shutdown`, which `"run"` and `"app"` may both be in. `Order` is what a
configuration has to stop, in the order of the code; when the gateway's backend
is the external server itself it appears once. A call is direct (gRPC), from the
gateway (HTTP, then gRPC), or to an extra route (HTTP).

From the libraries: `http.Server.Shutdown` and `GracefulStop` wait for the
requests and handlers in flight, `Stop` cuts the calls and does not wait for
their handlers, a stopped server refuses to serve.

### 2.7 `EventStream`, `Upload`, `Session`, `Socket`, `Bridge`

`EventStream` has two goroutines, `"handler"` and `"ticker"`, whose places are
`ssePc`: `Lock`, `Write` and `Flush` are the steps of `SSEWriter.write` under
`mu`, for the retry hint, an event of the callback (`StreamEvent`), the error or
a keep-alive comment. When the callback returns (`StreamReturn`) the handler may
`ReportError`, then closes `stop` (`StopTicker`) and waits for the ticker
(`HandlerReturn`). The client stalls, so that a write
blocks, resumes, or leaves; a write to a client that left may fail or not.

`Upload`'s `body` is any body: how long it is, how much of it arrives, the limit
of `MaxBytesReader`, the chunk size, and how it ends. `ReadFull` is
`io.ReadFull`, which gives a chunk, a short one with `ErrUnexpectedEOF`, or
none, and `Judge` is what the loop makes of its error after the `Send`; `Open`,
`Send` and `Finalize` may fail with or without a status. `sent` holds the span
of the body that each chunk carries, so that a gap, a repetition or a chunk out
of place would show. The client may leave at any step of an upload
(`UploaderLeaves`), after a short last chunk as well, for HTTP/2 ends the context
at once; only of a body that is cut off on HTTP/1 does the context learn nothing.

`Session` separates the three calls of `Authenticate` (`Get`, `Check`, `Touch`),
between which the clock, `Destroy` and other callers go on. `store[s]` is the
end of session `s`, or `Absent`; `Touch` follows the store's contract (it does
not create rows) and its error is dropped. `witnessed` is a history: the session
was live at some moment of this very call. `Socket` is `WSSession.Serve`: the
upgrade asks the authenticator and, with `Reauth`, so does every message.
`Bridge` puts the socket beside other requests on the same store; the endpoints
share nothing, so a behaviour is one of the three.

### 2.8 `Chain` and `Startup`

`New` is one action: it runs the checks of `server.New` in the order of the code
and either serves or stops in the phase named for the check that failed.
`AssembleWith`, `validateAuthChain`, `buildGroups`, the computation of the
surface, its conflicts and `prefixedRoutes` are operators. `CallGRPC` and
`CallHTTP` begin a call on any method or path with or without a credential;
`Intercept` takes it through one interceptor of its transport at a time, and
`Handle` runs the handler. `Dispatch` is how the muxes choose: prefixes first,
extra routes, then the groups. A path is the sequence of its segments, because
what the checks compare is prefixes of paths. `RoutesAreReachable` has a premise
and an exception. `FacesAsDeclared`:
services are registered under the API that their policies name
(the run `RoutesReportFinalPath` is what happens otherwise). `Overlapped`: a route
of the API without a prefix that lies under another API's prefix is lost to it,
and `New` accepts this (section 4). `TypeOK` of `Startup` is stated
for the reader and not checked: nothing in it could fail but the model.

### 2.9 `Scope`, `Credentials`, `Address`, `Gateway`, `Browser`, `Front`

The first five are operators with the names of the functions they stand for. A
scope token is the sequence of its words and separators, since cutting it at the
last colon, or at a dot before a known operation, is what the code does. A
credential is what it says (`Token[t].exp = "past"`) and not how it is encoded.
Headers are functions from lower-case names to lists of values, because
duplicates, prefixes and names are what the gateway's policies tell apart.
grpc-gateway's own matcher takes the prefix `Grpc-Metadata-` off any header and
passes the rest on (`headers.go:23`, asserted in `headers_test.go:29`):
`DefaultHeaderMatcher` does so for all metadata that anything in the modules
reads (`MetadataRead`), which are the credentials, the request ID and the three
statements of an address. Where such a header and the one it names both become
the same metadata, their order is up to Go's maps: `client.late` has the names
whose own header is met last. Several lines of `X-Forwarded-For` are several
values, of which the annotator reads the first and grpc-gateway joins all
(`Joined`). A client certificate is a credential on the faces that see the
connection (`Certs`), and a ticket on those that read metadata; nothing in
`Front`'s chain knows either, so alone they are refused and beside another
credential they are one too many.
`Browser` also holds the rules of browsers that the two middlewares rely on:
which requests are asked for first, what of an answer a page is shown, which
pages read a cookie. It relies on no SameSite attribute, and the server's host
has a page without TLS, as `InsecureCookie` allows.

`Front` takes one request through them. A page may first visit the server, which
issues a token (`Issue`, up to `MaxLogins` times), and read it (`ReadToken`);
`Depart` sends the request, after `Ask`, the preflight, where a browser asks
first. `Admit` is CORS and CSRF, `Route` the gateway's way into metadata or the
extra route, and `Identify`, `Authenticate`, `Authorize` and `Handle` the chain;
each of them may end the request with an `Answer`, which passes the error
encoders of its face. The client does the same on each face in turn, and
`results` says what came of each (`Finish`).

## 3. The runs

Each passing run ends within a few minutes with two workers.

| run | checks | instance | shows |
|---|---|---|---|
| `MCPolicyBuild` | `AcceptedPolicyIsWellFormed`, `EveryLayerEnforced`, `ErrorsFailClosed`, `InheritanceNarrows` | every file, service and method layer out of 14 layer policies (or none) and 8 presets, 2 requirements and an invalid one, 2 shapes, every outcome of every requirement | what `Build` accepts is never answered Internal for its shape; no `forbid` or `require` of any layer or preset is lost; errors do not allow; inheriting narrows when at most one layer has `any_of` |
| `MCAuthn` | `TypeOK`, `IdentityIsEarned`, `NoSilentDowngrade`, `AdminClaimsWereGranted` | 2 calls, a public and a guarded method, 6 credentials in 7 combinations, 2 initial admin records and 4 in all, 2 events | identity, downgrade and admin claims under every interleaving with the stores (3.3 million states) |
| `MCPipeline` | `PipelineTypeOK`, `DeliveredOnlyIfAllowed`, `AuditTellsTheOutcome`, `UsageIsConserved` | 2 calls, one method of each of 6 shapes, 3 messages, 1 event, limit 1 | what handlers get, what audit says and what the meter counts agree with policies and outcomes (2 million states) |
| `MCRateLimit` | `SweptWindowsAreGone`, `ImplementsBudget`, `RefusalIsEarned`, `RetryAfterSuffices` | 3 callers, 2 keys, limit 2, window 2, delay 1, clock 0..3 | the windows implement the budget; refusals and retry delays are justified (2 million states) |
| `MCJWKS` | `TypeOK`, `OneFetchAtATime`, `StaleOnlyAfterFailure`, `AvailableOnceCached`, `CacheNeverRegresses`, `EveryCallerIsServed` | 3 callers, 1 rotation | safety of the cache and, under fairness, an answer for everybody |
| `MCLifecycle` | `CutOnlyAfterDeadline`, `CleanShutdownIsFinal`, `CancelledRunReturns` | the 12 configurations, 3 calls of different kinds, 2 shutdowns | no call is cut early, a clean shutdown is final, a cancelled `Run` returns (0.7 million states) |
| `MCBridge` | `TypeOK`, `ResponseHasOneUser`, `FailureIsTold`, `UploadSendsEverything`, `UsedWhileLive`, `LeavingEndsTheStream` | 2 events and 2 ticks; bodies, chunks and limits of up to 4; 1 session that lasts 2 of 4 ticks, a socket of 2 messages and 1 request | the response has one user, failures are told, uploads lose nothing they read and answer as they ended, principals were live, and a departed client ends its stream (0.4 million states) |
| `MCStartup` | `AcceptedServersProtect`, `CallersGetThrough`, `RoutesAreReachable` | 5 methods of 4 services; chains of every shape, switches of `New`, and API groups with every prefix, second service, origin of policies and extra route | no accepted server runs a protected handler for nobody, none turns an authenticated caller away for want of a principal, every route answers at its path unless another API's prefix lies over it (0.17 million states) |
| `MCFront` | `PagesReadWhatTheyMay`, `ForeignPagesDoNotAct`, `AuthorityIsWhatTheCredentialStates`, `AddressIsHonest`, `FacesAgree`, `InternalsStayInside` | six families: pages with CORS and CSRF; credentials with requirements and instances; ways to say a credential (renamed headers, tickets, certificates) with header policies; invalid ones on a public method; paths of proxies with trusted networks and several ways to state them; outcomes with header policies | who reads, who acts, what a credential grants, whose address is seen and what is answered, alike where the faces are meant to be alike, and that errors say nothing of the inside (0.33 million states) |
| `FailedRequestsAreAudited`, `UploadIsWhole`, `RoutesReportFinalPath` | one property each, violated | those of the module's passing run | see section 4 |

### 3.1 The bounds and why they are enough

* **Two calls** meet in everything that is shared (a ticket, a budget, a row of
  the meter, a policy); no action involves more than two calls at once. The
  proofs remove the bound for everything that `MCAuthn` and `MCPipeline` check.
* **Three callers of the key cache**: one holds `refreshMu`, one waits, and one
  overtakes. **Three callers of the limiter**: two share a key, and the third's
  requests trigger sweeps of windows that are not its own.
* **Limit 2, window 2, clock 0..3, delay 1**: a window fills, is refused, and
  runs out; a caller is overtaken by a sweep and by a new window. `MaxTime` and
  `MaxDelay` bound the clock in the guard of `Tick`.
* **`MaxEvents`**: 2 events in `MCAuthn` allow a record to change and change
  back, a credential to die while a store is down, or a store to fail and
  recover within one call; 1 in `MCPipeline`, whose question is the later stages.
  `MaxRotations` = 1 gives an old and a new key set.
* **Layers and presets**: each shape that builder or decider treat differently
  occurs once (anonymous with and without `forbid`, `require`, `any_of`, only
  `forbid`, an empty group, an invalid requirement; presets that nest, loop,
  fail, are anonymous, or have `any_of`).
* **Streams of two events and two ticks**: a frame of the handler is overtaken
  by a tick, blocks behind one, and is followed by the error frame. **Bodies of
  four units** hold whole chunks, a short last one, and a limit inside, at and
  after each of them. **A session of two ticks in a clock of four** runs out, is
  renewed and runs out again between any two calls of two callers.
* **Five methods** give a unary and a stream beside each other, a second face of
  the same paths, a service where another's prefix lies, and one whose exposure
  is wrong. The families of `MCStartup` vary what its checks look at together
  (chains with policies; switches with listeners; groups with routes); checks of
  different families do not read each other's fields.
* **The families of `MCFront`** vary one question each and hold the rest at a
  default that lets the request through, so that what decides is what varies:
  origins of every relation to the server (same, other scheme, listed, not
  listed, opaque), tokens and keys with one defect each, paths of up to three
  nodes with trusted and untrusted ones in each place, each way to say a
  credential alone and beside one other, and outcomes of each class, the bare
  errors of a context among them. `MaxLogins` = 2 gives a page a token of an earlier login.
* `AddressIsHonest` speaks of requests whose path the headers can tell
  (`Traceable`). `X-Real-IP` tells of one proxy, is lost on a `NetworkDial`, and
  is outweighed by any `X-Forwarded-For` that the client wrote. Proxies add to the
  line that the client wrote: of several lines only the first is read. With
  `NetworkDial` the loopback must be trusted, as it is by default, and a request
  through the gateway has no header that is renamed to `X-Forwarded-For`, which
  the server would read before what the gateway resolved (section 4).
  All other headers are free, renamed ones included.
* `MCAuthn`, `MCPipeline` and `MCRateLimit` use symmetry among calls, or among
  callers of one key; they check safety only.
* `CHECK_DEADLOCK FALSE` stands where the modelled work ends: calls that are
  done and events that are used up, a rejected declaration, a server that
  returned, a stream, upload, socket or request that was answered. Elsewhere TLC
  also checks that nobody blocks everybody.

### 3.2 Fairness

* `JWKS!FairSpec`: weak fairness of each caller's own steps (goroutines are
  scheduled, and an HTTP exchange ends because `fetch` gives it a five-second
  timeout) and strong fairness of `Lock`: `sync.Mutex` hands the lock to a waiter
  after a millisecond of starvation, so it does not pass over one for ever.
  Nothing is assumed of the issuer: every fetch may fail.
* `Lifecycle!FairSpec`: weak fairness of `Run`'s steps after the gRPC listener,
  of its `Shutdown`, and of its deadline's timer. No fairness of handlers,
  clients, listeners, or the application: `CancelledRunReturns` must hold
  with streams that never end. It excepts the case in which `Run`
  is already stopping because a listener failed: that `Shutdown` has no deadline.

* `EventStream!SSEFairness` (in `Bridge!Spec`): weak fairness of the handler's
  and the ticker's own steps, strong fairness of each one's `Lock` of `mu`, and
  a write that ends when the client has left. A callback that sees the dead
  context returns, as `StreamReturn` states; the client owes nothing, and may
  stall for ever if it stays. `LeavingEndsTheStream` is about a client that left.

The other modules state safety only.

## 4. Findings

Each is a run in which TLC finds a behaviour of the code that contradicts a
sentence of the repository.

* `FailedRequestsAreAudited`: `audit.go:43` says that failed requests are
  audited; a handler that panics is answered Internal by the recovery
  interceptor outside, and audit (and usage) are unwound.
* `UploadIsWhole`: `upload.go:34` says that a client that disconnects ends the
  upload silently. A connection that closes in the middle of the body gives
  `io.ErrUnexpectedEOF`, which `upload.go:61` takes for the short last chunk of
  a complete body: the part that came is sent and finalized.
* `RoutesReportFinalPath`: `GENERALIZATION.md:2888` says that `Routes()` reports
  the path that is finally deployed. `buildGroups` mounts a method under the
  prefix of its registration's API, `prefixedRoutes` (`server.go:706`) and the
  conflicts with extra routes (`server.go:802`) go by the API of its policy.
  Where the two differ the path reported is not served. This needs no
  `AllowAPIMismatch`: the check of a mismatch passes over policies that name no
  API, and a service that has such policies may be registered under any.

In three more places the code does what a sentence of the repository denies.
There a property of a passing run has an exception, named in the model, and
without it TLC finds the behaviour.

* `NoSilentDowngrade` excepts tickets whose store failed. `GENERALIZATION.md:1070`
  says that the failure of an authentication backend must be Unavailable or
  Internal and not disguised as 401. The contract of `ticket.Store`
  (`ticket.go:23`) has it answered with an unauthenticated status, like a ticket
  that is used up. Where invalid tickets are ignored on public methods
  (`authn/interceptor.go:198`), the holder of a good ticket goes on as anonymous
  while the store is down.
* `RoutesAreReachable` excepts `Overlapped` routes. `server/doc.go:20` says that
  routes do not conflict in verb and path and that prefixes of APIs do not shadow
  each other (as does `GENERALIZATION.md:1658`). `buildGroups` leaves the empty
  prefix out of the comparison (`server.go:677`), and the surface compares routes
  before their prefixes are put in front (`surface.go:114`): the API without a
  prefix may have a route `/v1/x` beside the route `/x` of an API with the prefix
  `/v1`. `Routes()` lists both, and the first is never reached.
* `AddressIsHonest` excepts what is not `Traceable`. `server.go:427` says that over
  the network the client information restores the address that the annotator adds
  to `x-forwarded-for`. The annotator's value is the last, and `extractClientInfo`
  reads the first (`clientinfo.go:70`): that of a header
  `Grpc-Metadata-X-Forwarded-For`, which the default policy lets through, or
  grpc-gateway's own, which has the proxy where the proxy states the client in
  `X-Real-IP`. The handler then gets another address than the gateway resolved.

Noted while reading, without a run.

* Documentation and code: `GENERALIZATION.md:1678` says that an empty HTTP
  address means gRPC only, while `Run` listens on 127.0.0.1:8080
  (`server.go:1064`). `GENERALIZATION.md:2898` ties the gRPC health service to
  readiness, which the code sets at start and at shutdown only.
  `policy.proto:64` combines a preset with the constraints beside it by AND,
  while `mergePolicy` appends `any_of` groups, which are alternatives
  (`preset.go:74`). `GENERALIZATION.md:912` counts `inherit_default` with
  `anonymous` among the failures of `Build`; it is accepted (`build.go:271`; what
  it means is safe, see `InheritanceNarrows`). `authn/interceptor.go:24` says that
  only the first family of credentials is used; the chain goes on when an
  authenticator does not know its credential (`authn.go:149`). `jwks.go:32` says
  that waiters reuse the result of a refresh; after a failed one each fetches
  again (`jwks.go:77`). `ratelimit.go:29` allows `Limit` requests in a window; the
  clock is read before the mutex is taken (`ratelimit.go:84`), so after a sweep a
  late caller opens a window that overlaps the one swept.
* Streams and sockets: with `AccessLog` the writer that SSE gets does not flush
  (`server.go:938`), so that every stream is answered 500 (`sse.go:30`).
* Credentials: an API key in a header other than `x-api-key` never reaches its
  authenticator (`apikey.go:50`, `authn/interceptor.go:158`). A page whose only
  cookie is another one has credentials that nobody knows, which by default is
  401 on public methods. A ticket is spent when the admin store fails behind it
  (`ticket.go:55`). A key identifier that the cache does not have does not renew
  it (`jwks.go:57`).
* Addresses: with `NetworkDial` and `TrustedProxies` of its own that omit the
  loopback every request of the gateway has the loopback's address. Of several
  `X-Forwarded-For` lines the annotator reads the first (`server.go:422`). Extra
  routes have no client information.
* Faces: a credential with the prefix `Grpc-Metadata-` is one to the gateway only.
  A client certificate, where the server asks for one, is one credential more on
  gRPC and extra routes and not on the gateway (`authn.go:130`). A handler that
  returns the bare error of its context is answered 504 or 499 by the gateway and
  500 by an extra route (`errors.go:112`), and audit records Unknown for it.
* Server: `NetworkDial` with `DisableGRPC` leaves the gateway no backend
  (`server.go:397`). The connection of the gateway is not closed when the gRPC
  listener cannot be opened (`server.go:1049`). A body over the limit is answered
  400 by the gateway, where a comment expects 413. Refusals through the gateway
  carry no request ID header (`requestid.go:25`).
* Errors: a handler's DataLoss is a 500 like Internal and Unknown, but is not
  sanitized (`errors.go:74`), so its message reaches HTTP clients;
  `InternalsStayInside` excepts codes that the handler chose.
* Scope: `FieldID` panics on unsigned integers (`resource.go:206`), which the
  recovery interceptor turns into Internal; `MCFront` has the case.

## 5. The proofs

All are checked by TLAPS for any values of the constants that satisfy the
modules' assumptions; TLC evaluates these in each run. Most give the constants'
types (`PolicyAssumption`, `BuildAssumption`, `AuthnAssumption`,
`PipelineAssumption`, `RateLimitAssumption`, `JWKSAssumption`,
`EventStreamAssumption`, `UploadAssumption`, `SessionAssumption`,
`SocketAssumption`, `StartupAssumption`). Those that say more:

* `LifecycleAssumption`: a server has a listener; `New` refuses one without.
* `ConfigAssumption` (of `Startup`): a chain is left to `New` or was accepted by
  `AssembleWith`, the only maker of one in `chain.go`; without options, for
  these would only demand more.
* `FrontAssumption`: what distinguishes the clients. A page has an origin that
  is neither absent nor the wildcard, and its other headers are those of its
  requests' `custom` set; a program's path has nodes with addresses; the hops it
  writes in `X-Forwarded-For` are in `forwarded` and not in `headers`. What a
  program writes in any other header, `X-Real-IP` and those that grpc-gateway
  renames included, is not restricted, nor is which of two headers for one
  metadata key is met first (`late`).
* `CredentialAssumption`: no token, key or session is the empty string, which
  the extractors take for absence, and what a store says of one is of the kinds
  that the authenticators tell apart. Nothing is assumed of which there are.
* `CaseAssumption`: what a program presents is a token or key of `Token` and
  `Key`, where those that nobody issued are among them (unsigned, missing), or
  no bearer token at all. Policies are well-formed, which is what
  `BuiltPolicyIsWellFormed` proves of the policies that `Build` accepts. The
  resource of a requirement is one word: neither colon nor dot in it splits it
  a second time. Nothing of the kind is assumed of the scopes that credentials
  state or of the instances that requests name.

| theorem | statement | argument |
|---|---|---|
| `PolicyProofs!AllowedMeans`, `FailuresNeverAllow` | what an allowed request satisfies; that turning failed predicates into any answer keeps it allowed | `ScanEnds`: a scan that stops nowhere saw only the answer it skips |
| `PolicyProofs!BuiltPolicyIsWellFormed` | `BuildSpec => []AcceptedPolicyIsWellFormed` | invariant: while serving, the policy satisfies `validatePolicy` |
| `PolicyProofs!BuiltPolicyIsTyped` | `BuildSpec => []BuildTypeOK` | `expand` is a recursive function of the policy and the stack of presets. That the recursion has a solution is proved by the distance of the stack from `MaxPresetDepth` (`ExpansionExists`), and with it that what it returns is a policy or a failure |
| `PolicyProofs!InheritedDefaultNarrows`, `InheritedLayersNarrow` | what the combination of two policies allows the default allows; `BuildSpec => []InheritanceNarrows` | `ScanOfPrefix`: a scan that stops in a list stops there in a longer one; while serving, `effective` is what `ServesWhatWasBuilt` says it was built from |
| `PolicyProofs!AllLayersAreEnforced` | `BuildSpec => []EveryLayerEnforced` | `Covers`: each combination of policies forbids and requires all that its parts do. Along the recursion of `Reached` the expansion covers every preset below a layer; `AllowedMeans` turns that into answers |
| `PolicyProofs!FailedPredicatesRefuse` | `BuildSpec => []ErrorsFailClosed` | `FailuresNeverAllow` for the policy that is served |
| `PipelineProofs!AuthenticationIsSound`, `OutagesDoNotDowngrade`, `AdminClaimsAreEarned`, `AuthnIsTyped` | `AuthnSpec => []` of `IdentityIsEarned`, `NoSilentDowngrade`, `AdminClaimsWereGranted`, `TypeOK` | `AuthnInv`: `Progress` says what is known at each stage; a redeemed ticket stays out of `live`, so nobody redeems it again; `live` only shrinks, so it lies within `born`; who goes on without a principal saw a verdict of "invalid", which is a dead credential's or that of a ticket whose store is in `failed` |
| `PipelineProofs!HandlersSeeOnlyAllowedMessages` | `Spec => []DeliveredOnlyIfAllowed` | `PipelineInv`: a call has messages only after authentication, from where its identity is fixed, and an open stream was admitted with it; `FailuresNeverAllow` removes the failing requirements |
| `PipelineProofs!PipelineIsTyped`, `AuthenticationSurvivesThePipeline` | `[]PipelineTypeOK`; `[]IdentityIsEarned` and the rest of section 2.2 in the composition | the same invariant; `StageKeeps` states once what a later stage must leave alone |
| `PipelineProofs!AuditIsTruthful` | `Spec => []AuditTellsTheOutcome` | `Entries`: a call has an event only when it is done, and then `EntryOf` its state; code and principal are fixed from there. `Tells`: the recorded code and the client's differ only as `FromContextError` makes them |
| `PipelineProofs!NoRequestIsLostToAScrape` | `Spec => []UsageIsConserved` | `Ledger`: rows and what was scraped add up to the calls `InLedger`; a step adds one call to the finite set or none, and a scrape moves a row without changing the sum |
| `RateLimitProofs!LimiterIsImplemented` | `Spec => ImplementsBudget` | every `Allow` opens, fills or refuses a window (`AllowCases`), and maps to a grant or denial of the budget; other steps stutter |
| `RateLimitProofs!RefusalsAreEarned` | `Spec => RefusalIsEarned` | `Backed`: a window's count is backed by that many grants decided since it began |
| `RateLimitProofs!WaitingSuffices` | `Spec => RetryAfterSuffices` | `Renewing`: a window that outlives the promised time was filled after the promise |
| `RateLimitProofs!OldWindowsAreSwept` | `Spec => []SweptWindowsAreGone` if `MaxDelay < Window` | without that, a caller from before the previous sweep reopens an old window |
| `RateLimitProofs!WindowsAreTyped` | `Spec => []TypeOK` | part of the same invariant; no run checks it, for `ImplementsBudget` says more |
| `JWKSProofs!FetchesAreExclusive`, `RotationsStick`, `FailuresAreBridged`, `KeysStayAvailable`, `CacheIsTyped` | every safety property that `MCJWKS` checks | `HolderIsLocked`: whoever is past the second check holds `refreshMu`; `Ages`: what it fetched is between the cache and the issuer |
| `LifecycleProofs!NobodyIsCutEarly`, `CleanShutdownsAreFinal`, `LifecycleIsTyped` | `Spec => []CutOnlyAfterDeadline`, `[]CleanShutdownIsFinal`, `[]TypeOK` | `Drained`: what a `Shutdown` has behind it in `Order` is stopped and, unless it is late, empty; `Closed`: who is past a stage has closed it, so nothing arrives or is forwarded there again. `AdvanceKeeps` states once what any step to the next stage needs; two `Shutdown`s may overtake each other, so each has its own `Past` |
| `BridgeProofs!ResponsesHaveOneUser`, `FailuresAreTold` | `Spec => []ResponseHasOneUser`, `[]FailureIsTold` | `StreamInv`: who writes holds `mu` (`Frames`); the error event is owed or on the wire from the callback's return to the handler's (`Telling`), and nothing of the handler's comes after it (`InOrder`) |
| `BridgeProofs!SessionsAreUsedWhileLive` | `Spec => []UsedWhileLive` | `SessionInv`: at each of its three calls a caller may claim that its session was live, or will be refused (`Claims`); a socket handles only what was granted |
| `BridgeProofs!UploadsAreSentWhole` | `Spec => []UploadSendsEverything` | `UploadInv`: each chunk begins where the one before it ends and all but the last are full (`Whole`); what the last read returned says what of the body is left (`ErrorsTell`); no answer without its reason (`Answers`) |
| `BridgeProofs!EndpointsAreTyped` | `Spec => []TypeOK` | the three endpoints share nothing, so a step of one keeps the types of the others |
| `StartupProofs!ProtectedOperationsAreProtected` | `Spec => []AcceptedServersProtect` | `StartupInv`: a server that serves passed every check (`Accepted`); a call without a principal cannot be past an authz stage of a protected operation (`Shielded`), and the checks put one into every chain |
| `StartupProofs!CredentialsAreReadFirst` | `Spec => []CallersGetThrough` | the same invariant: who has a valid credential has a principal once past authn, and the order check puts authn before whatever asks for one (`TurnedAway`) |
| `StartupProofs!MountedRoutesAreReachable` | `Spec => []RoutesAreReachable` | two routes that answer one request have the same path or one's prefix is in the other; `buildGroups`, the conflicts of the surface and those of the extra routes exclude each case but `Overlapped`, which the property names |
| `FrontProofs!AnswersAreShownToWhomTheyMay` | `Spec => []PagesReadWhatTheyMay` | `PageInv`: each request of a page is the same one, so an answer tells by whom it was given (`Fits`) which checks that request passed; what CORS makes of it is worked out for the headers that browsers set |
| `FrontProofs!ForgeriesAreStopped` | `Spec => []ForeignPagesDoNotAct` | the same invariant; only pages of the server's host ever hold the token, and an answer that is not CSRF's own passed its comparison |
| `FrontProofs!AddressesAreHonest` | `Spec => []AddressIsHonest` | `ProgramInv`: what was found of the client's address is `AddressAt` its face. `RemoteIsResolved`: what proxies add comes after what the client wrote, and the resolver reads from the end, so it stops at the last node that is not trusted before it comes to the client's hops. On the gateway the injected value is the last, whatever header is renamed to its key (`Annotated`), and is what a bufconn peer has read; of a network peer the first `X-Forwarded-For` is read, which without a renamed one is the hops that grpc-gateway joins (`HopsAreRead`) |
| `FrontProofs!ErrorsAreSilent` | `Spec => []InternalsStayInside` | `SilentInv`: each stage refuses with codes of its own (`RefusalsOfAuthn`, `RefusalsOfAuthz`), of which only Internal is a 500, and `encodeError` replaces the message of that one, of Unknown and of an error without a status |
| `FrontProofs!FacesAreAlike` | `Spec => []FacesAgree` | `JudgedInv`: the answer of each face is the `Fate` of the request, a function of client and configuration. `MetadataOfHeaders`, `CredentialsAreAlike`: under `Uniform` (`UniformMeans`), what the header policy and grpc-gateway's own rules leave in the metadata are the credentials that the extra route reads; the rest of the chain depends on these, the policy and the message only. `OutcomesAreEncodedAlike`: the encoders go by the error, the HTTP ones alike |
| `FrontProofs!AuthorityIsStated` | `Spec => []AuthorityIsWhatTheCredentialStates` | by `JudgedInv` a program is handled exactly if `Caller`, what `authenticate` makes of the extracted credentials, is allowed. `StatedCredentials` and `ClaimsAre`: the credentials extracted on a face are those that `Stated` lists for it, renamed headers in either order included. `ClaimSettles`: the caller is nobody, a refusal, or whom the one claim makes it; a ticket or a certificate is a claim that is never good. `OperationGranted` and `InstanceGranted`: a token is cut by its last colon, by a dot before an operation, or not (`TokenIsOneOf`), and in each case the gate accepts it exactly if the table lists it. `DecisionIsMet`: the least requirement that does not answer as it should decides (`LeastExists`), so a scan allows exactly what meets all of them |

Except for type invariants, no invariant that is checked is inductive as it
stands: each theorem's strengthening is named in its module, with its parts
commented. Recursion is written as recursive functions; where a theorem depends
on what such a function computes, a solution is shown to exist by taking the
least argument without one, for induction with an operator as its hypothesis is
not available to the provers.

What the theorems of `Front` compare is written twice on purpose: `Entitled`
is the table of the comments over what a client states to a face, and knows neither
cutting nor extraction nor the order of the chain, so that `AuthorityIsStated`
is about all of these. It is stated for each face by itself, with nothing
excluded of how a credential may be said. `Uniform` is the doc of
`gateway.HeaderPolicy` as a condition, and leaves out what only one face knows of.
The faces do differ where the policy passes a credential that another face does
not take (the mutant of `FacesAgree` is such a policy), for credentials in renamed
headers, tickets and certificates, and for the bare error of a handler's context,
which is 504 or 499 by the gateway and in gRPC, and 500 on an extra route.

**Only model-checked.** Every safety property, invariant or action property,
that a passing run checks is proved. Liveness (`EveryCallerIsServed`,
`CancelledRunReturns`, `LeavingEndsTheStream`) needs `ENABLED` under fairness,
which is out of the prover's reach. Neither checked nor proved is what the
assumptions exclude, such as the resources of more than one word that
`CaseAssumption` names.

## 6. Not modelled, and why

* **Data formats**: signatures, encodings of cookies and tokens, hashes of API
  keys, proto options, JSON, URLs. The models start from what the code makes of
  them.
* **Manifests, schema versions, wildcards and lints** of `policy.Build`:
  start-up checks that reject more and do not change what is built.
* **Project code**: stores, sinks, resolvers, deciders, handlers, error
  encoders. Stores are modelled by their documented contract and may fail;
  resolvers may fail; handlers may do what the generated code allows.
* **Limits of `Lifecycle`**: `NetworkDial` (the gateway dials the external
  listener), `HTTPHandler` in a host's server, `DisableHealth`; the gateway's
  connection, which `Shutdown` closes at its end; hijacked connections.
* **Limits of `Front`**: of grpc-gateway's permanent headers the model has
  those that something reads, and of renamed ones those that become metadata that
  something reads; one request at a time, with credentials that stand
  still (`Authn` and `Session` have what happens to them meanwhile); clock skew,
  the choice of a key by its identifier, marshalling, exposed headers and the age
  of a preflight.
* **Limits of `Startup`**: a method has one HTTP binding at most; TLS,
  timeouts, documents and loggers decide nothing about who is served.
* **`protopolicy`**: reads options into the declarations that `PolicyBuild`
  starts from. **`openapi`**: writes a document. **`guard`, `testkit`, `cmd`,
  `example`, `genproto`**: no part of a running server.

## 7. Plan

1. `Policy`, `PolicyBuild`: the meaning of policies. *Done; every property
   checked is proved.*
2. `Authn`, `Pipeline`, `Limiter`: the way of a call. *Done; every property
   checked is proved.*
3. `RateLimit`, `JWKS`: the two concurrent data structures. *Done; all safety
   proved.*
4. `Lifecycle`: *done; all safety proved.*
5. `EventStream`, `Upload`, `Session`, `Socket`, `Bridge`: *done; all safety
   proved.*
6. `Chain`, `Startup`: *done; every property checked is proved.*
7. `Scope`, `Credentials`, `Address`, `Gateway`, `Browser`, `Front`: *done;
   every property checked is proved.*
8. Left to prove: nothing that a run checks but liveness.
9. Left to model: wildcards of declarations and manifests; `HTTPHandler` in a
   host's server, `NetworkDial` in `Lifecycle`.
