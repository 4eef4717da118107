------------------------------ MODULE Lifecycle ------------------------------
(***************************************************************************)
(* server.Server from Run to its return: the listeners and the goroutines  *)
(* that serve them, the calls in flight, and Shutdown, which Run calls     *)
(* when its context ends or a listener fails, and the application calls    *)
(* when it likes.  The gRPC servers and the HTTP server behave as their    *)
(* libraries say.                                                          *)
(***************************************************************************)
EXTENDS Naturals, Sequences

CONSTANTS
  Direct, Gateway, Route,   \* calls: gRPC, HTTP for gRPC, and HTTP for an extra route
  Config                    \* the configurations considered

ASSUME LifecycleAssumption ==
  /\ Direct \cap Gateway = {} /\ Direct \cap Route = {} /\ Gateway \cap Route = {}
  /\ Config \subseteq [DisableGRPC     : BOOLEAN,
                       DisableHTTP     : BOOLEAN,
                       Separate        : BOOLEAN,   \* TLS or GRPCOptions are set
                       ShutdownTimeout : BOOLEAN]   \* it is positive
  /\ \A c \in Config : ~(c.DisableGRPC /\ c.DisableHTTP)

VARIABLES
  cfg,        \* Server.cfg
  run,        \* where Run stands
  cancelled,  \* its context is done
  errCh,      \* the error of a listener waits in errCh
  health,     \* whether the health service says SERVING
  serve,      \* the goroutine that serves each listener
  grpc,       \* each gRPC server: "open", "draining" or "stopped"
  http,       \* httpServer: "open", or "closed" to new requests
  stage,      \* where each Shutdown stands
  deadline,   \* that of its context: "none", "armed" or "passed"
  late,       \* it has met its deadline and will return an error
  call        \* where each call stands

runVars      == <<cfg, run, cancelled, errCh>>
shutdownVars == <<stage, deadline, late>>
vars == <<runVars, health, serve, grpc, http, shutdownVars, call>>

Call     == Direct \cup Gateway \cup Route
Listener == {"grpc", "bufconn", "http"}
Server   == {"external", "internal"}
Caller   == {"run", "app"}   \* who calls Shutdown

-----------------------------------------------------------------------------

\* The server that the gateway reaches through bufconn.
Backend == IF cfg.Separate \/ cfg.DisableGRPC THEN "internal" ELSE "external"

\* A slip: the gRPC servers are stopped first.
OrderReversed ==
  (IF cfg.DisableGRPC THEN <<>> ELSE <<"external">>)
    \o (IF ~cfg.DisableHTTP /\ Backend = "internal" THEN <<"internal">> ELSE <<>>)
    \o (IF cfg.DisableHTTP THEN <<>> ELSE <<"http">>) \o <<"done">>

\* What Shutdown waits for, in its order.
Order ==
  (IF cfg.DisableHTTP THEN <<>> ELSE <<"http">>)
    \o (IF cfg.DisableGRPC THEN <<>> ELSE <<"external">>)
    \o (IF ~cfg.DisableHTTP /\ Backend = "internal" THEN <<"internal">> ELSE <<>>)
    \o <<"done">>

After(s) == Order[1 + CHOOSE i \in DOMAIN Order : Order[i] = s]

ServerOf(c) == IF c \in Direct THEN "external" ELSE Backend

\* The HTTP server waits for a forwarded call as long as its client does.
InHTTP(c) == c \in Gateway \cup Route /\ call[c] \in {"http", "rpc"}

\* A gRPC server also waits for the handlers of calls that were cut.
InRPC(c, s) == c \in Direct \cup Gateway /\ ServerOf(c) = s /\ call[c] \in {"rpc", "cut"}

Open(l) ==
  CASE l = "grpc"    -> grpc["external"] = "open"
    [] l = "bufconn" -> grpc[Backend] = "open"
    [] l = "http"    -> http = "open"

-----------------------------------------------------------------------------
(* Run *)

Init ==
  /\ cfg \in Config
  /\ run = "new" /\ cancelled = FALSE /\ errCh = FALSE /\ health = TRUE
  /\ serve = [l \in Listener |-> "none"]
  /\ grpc = [s \in Server |-> "open"] /\ http = "open"
  /\ stage = [x \in Caller |-> "none"] /\ deadline = stage
  /\ late = [x \in Caller |-> FALSE]
  /\ call = [c \in Call |-> "none"]

Cancel ==
  /\ ~cancelled /\ cancelled' = TRUE
  /\ UNCHANGED <<cfg, run, errCh, health, serve, grpc, http, shutdownVars, call>>

\* A gRPC listener that cannot be opened ends Run there and then.
ListenGRPC ==
  /\ run = "new"
  /\ \/ cfg.DisableGRPC /\ run' = "listening" /\ UNCHANGED serve
     \/ ~cfg.DisableGRPC /\ run' = "listening" /\ serve' = [serve EXCEPT !["grpc"] = "started"]
     \/ ~cfg.DisableGRPC /\ run' = "returned" /\ UNCHANGED serve
  /\ UNCHANGED <<cfg, cancelled, errCh, health, grpc, http, shutdownVars, call>>

\* startInternal, then the HTTP listener; if that cannot be opened, Run calls
\* Shutdown with a context that never ends.
ListenHTTP ==
  /\ run = "listening"
  /\ \/ cfg.DisableHTTP /\ run' = "listened" /\ UNCHANGED <<health, serve, stage>>
     \/ /\ ~cfg.DisableHTTP
        /\ health' = TRUE
        /\ \/ /\ run' = "listened"
              /\ serve' = [serve EXCEPT !["bufconn"] = "started", !["http"] = "started"]
              /\ UNCHANGED stage
           \/ /\ run' = "stopping"
              /\ serve' = [serve EXCEPT !["bufconn"] = "started"]
              /\ stage' = [stage EXCEPT !["run"] = "begin"]
  /\ UNCHANGED <<cfg, cancelled, errCh, grpc, http, deadline, late, call>>

Announce ==
  /\ run = "listened"
  /\ run' = "waiting" /\ health' = TRUE
  /\ UNCHANGED <<cfg, cancelled, errCh, serve, grpc, http, shutdownVars, call>>

\* Run's select; when both channels are ready either may be taken.
Select ==
  /\ run = "waiting"
  /\ run' = "stopping" /\ stage' = [stage EXCEPT !["run"] = "begin"]
  /\ \/ /\ cancelled
        /\ deadline' = [deadline EXCEPT !["run"] = IF cfg.ShutdownTimeout THEN "armed" ELSE "none"]
        /\ UNCHANGED errCh
     \/ errCh /\ errCh' = FALSE /\ UNCHANGED deadline
  /\ UNCHANGED <<cfg, cancelled, health, serve, grpc, http, late, call>>

Return ==
  /\ run = "stopping" /\ stage["run"] = "done"
  /\ run' = "returned"
  /\ UNCHANGED <<cfg, cancelled, errCh, health, serve, grpc, http, shutdownVars, call>>

-----------------------------------------------------------------------------
(* The goroutines that serve the listeners *)

\* A gRPC server that was stopped already refuses to serve: an error of the
\* external one; the internal one logs it, and http.ErrServerClosed is none.
ServeBegins(l) ==
  /\ serve[l] = "started"
  /\ serve' = [serve EXCEPT ![l] = IF Open(l) THEN "serving" ELSE "ended"]
  /\ errCh' = (errCh \/ (l = "grpc" /\ ~Open(l)))
  /\ UNCHANGED <<cfg, run, cancelled, health, grpc, http, shutdownVars, call>>

\* Serving ends without an error when the server is stopped, with one when
\* accepting fails for good (bufconn never fails).
ServeEnds(l) ==
  /\ serve[l] = "serving"
  /\ \/ ~Open(l) /\ UNCHANGED errCh
     \/ Open(l) /\ l # "bufconn" /\ errCh' = TRUE
  /\ serve' = [serve EXCEPT ![l] = "ended"]
  /\ UNCHANGED <<cfg, run, cancelled, health, grpc, http, shutdownVars, call>>

-----------------------------------------------------------------------------
(* Shutdown *)

\* The application calls Shutdown with a context of its own.
CallShutdown ==
  /\ stage["app"] = "none"
  /\ stage' = [stage EXCEPT !["app"] = "begin"]
  /\ deadline' = [deadline EXCEPT !["app"] = "armed"]
  /\ UNCHANGED <<runVars, health, serve, grpc, http, late, call>>

Begin(x) ==
  /\ stage[x] = "begin"
  /\ health' = FALSE /\ http' = "closed"
  /\ stage' = [stage EXCEPT ![x] = Order[1]]
  /\ UNCHANGED <<runVars, serve, grpc, deadline, late, call>>

Advance(x) == stage' = [stage EXCEPT ![x] = After(@)]

\* httpServer.Shutdown returns when no request is in flight.
HTTPDrained(x) ==
  /\ stage[x] = "http"
  /\ \A c \in Call : ~InHTTP(c)
  /\ Advance(x)
  /\ UNCHANGED <<runVars, health, serve, grpc, http, deadline, late, call>>

GracefulStop(x) ==
  /\ stage[x] \in Server /\ grpc[stage[x]] = "open"
  /\ grpc' = [grpc EXCEPT ![stage[x]] = "draining"]
  /\ UNCHANGED <<runVars, health, serve, http, shutdownVars, call>>

\* A slip: GracefulStop is started and not waited for.
StoppedUnawaited(x) ==
  /\ stage[x] \in Server /\ grpc[stage[x]] # "open"
  /\ Advance(x)
  /\ UNCHANGED <<runVars, health, serve, grpc, http, deadline, late, call>>

Stopped(x) ==
  /\ stage[x] \in Server /\ grpc[stage[x]] # "open"
  /\ \A c \in Call : ~InRPC(c, stage[x])
  /\ grpc' = [grpc EXCEPT ![stage[x]] = "stopped"]
  /\ Advance(x)
  /\ UNCHANGED <<runVars, health, serve, http, deadline, late, call>>

DeadlinePasses(x) ==
  /\ deadline[x] = "armed"
  /\ deadline' = [deadline EXCEPT ![x] = "passed"]
  /\ UNCHANGED <<runVars, health, serve, grpc, http, stage, late, call>>

\* A slip: the deadline does not end httpServer.Shutdown.
GiveUpServers(x) ==
  /\ deadline[x] = "passed" /\ stage[x] \in Server
  /\ late' = [late EXCEPT ![x] = TRUE]
  /\ Advance(x)
  /\ grpc' = [grpc EXCEPT ![stage[x]] = "stopped"]
  /\ call' = [c \in Call |-> IF InRPC(c, stage[x]) THEN "cut" ELSE call[c]]
  /\ UNCHANGED <<runVars, health, serve, http, deadline>>

\* The deadline ends httpServer.Shutdown, which leaves the requests alone, or
\* GracefulStop, by Stop, which cuts the calls without waiting for their handlers.
GiveUp(x) ==
  /\ deadline[x] = "passed" /\ stage[x] \in {"http"} \cup Server
  /\ late' = [late EXCEPT ![x] = TRUE]
  /\ Advance(x)
  /\ IF stage[x] = "http" THEN UNCHANGED <<grpc, call>>
     ELSE /\ grpc' = [grpc EXCEPT ![stage[x]] = "stopped"]
          /\ call' = [c \in Call |-> IF InRPC(c, stage[x]) THEN "cut" ELSE call[c]]
  /\ UNCHANGED <<runVars, health, serve, http, deadline>>

-----------------------------------------------------------------------------
(* Calls.  A connection goes on carrying calls after its listener has failed. *)

Arrive(c) ==
  /\ call[c] = "none"
  /\ \/ /\ c \in Direct /\ serve["grpc"] \in {"serving", "ended"} /\ Open("grpc")
        /\ call' = [call EXCEPT ![c] = "rpc"]
     \/ /\ c \notin Direct /\ serve["http"] \in {"serving", "ended"} /\ Open("http")
        /\ call' = [call EXCEPT ![c] = "http"]
  /\ UNCHANGED <<runVars, health, serve, grpc, http, shutdownVars>>

\* The gateway calls its backend; one that stops or has stopped is Unavailable.
Forward(c) ==
  /\ c \in Gateway /\ call[c] = "http"
  /\ \/ ~Open("bufconn") /\ call' = [call EXCEPT ![c] = "failed"]
     \/ Open("bufconn") /\ serve["bufconn"] = "serving" /\ call' = [call EXCEPT ![c] = "rpc"]
  /\ UNCHANGED <<runVars, health, serve, grpc, http, shutdownVars>>

Finish(c) ==
  /\ call[c] \in {"http", "rpc", "cut"}
  /\ call' = [call EXCEPT ![c] = IF @ = "cut" THEN "failed" ELSE "done"]
  /\ UNCHANGED <<runVars, health, serve, grpc, http, shutdownVars>>

RunStep == ListenHTTP \/ Announce \/ Select \/ Return

ShutdownStep(x) ==
  Begin(x) \/ HTTPDrained(x) \/ GracefulStop(x) \/ Stopped(x) \/ GiveUp(x)

Next ==
  \/ Cancel \/ ListenGRPC \/ RunStep \/ CallShutdown
  \/ \E l \in Listener : ServeBegins(l) \/ ServeEnds(l)
  \/ \E x \in Caller : ShutdownStep(x) \/ DeadlinePasses(x)
  \/ \E c \in Call : Arrive(c) \/ Forward(c) \/ Finish(c)

Spec == Init /\ [][Next]_vars

\* Goroutines are scheduled and timers fire.  Nothing makes a handler return,
\* and the application's context need not end.
FairSpec ==
  Spec /\ WF_vars(RunStep) /\ WF_vars(ShutdownStep("run")) /\ WF_vars(DeadlinePasses("run"))

-----------------------------------------------------------------------------

TypeOK ==
  /\ cfg \in Config
  /\ run \in {"new", "listening", "listened", "waiting", "stopping", "returned"}
  /\ cancelled \in BOOLEAN /\ errCh \in BOOLEAN /\ health \in BOOLEAN
  /\ serve \in [Listener -> {"none", "started", "serving", "ended"}]
  /\ grpc \in [Server -> {"open", "draining", "stopped"}] /\ http \in {"open", "closed"}
  /\ stage \in [Caller -> {"none", "begin", "http", "done"} \cup Server]
  /\ deadline \in [Caller -> {"none", "armed", "passed"}]
  /\ late \in [Caller -> BOOLEAN] /\ \A x \in Caller : late[x] => deadline[x] = "passed"
  /\ call \in [Call -> {"none", "http", "rpc", "cut", "done", "failed"}]

\* No call is cut, and no request of the gateway loses its backend, unless some
\* Shutdown ran out of time (GENERALIZATION.md, on the order of Shutdown).
CutOnlyAfterDeadline ==
  \A c \in Call : call[c] \in {"cut", "failed"} => \E x \in Caller : deadline[x] = "passed"

\* After a Shutdown that returns no error nothing runs any more, and nothing
\* that starts later changes that; after Run's own, health does not say SERVING.
CleanShutdownIsFinal ==
  /\ \A x \in Caller : stage[x] = "done" /\ ~late[x] =>
       \A c \in Call : call[c] \notin {"http", "rpc", "cut"}
  /\ stage["run"] = "done" => ~health

\* ShutdownTimeout bounds the end of a cancelled Run, however long the calls
\* take, unless the error of a listener ends it without a deadline.
CancelledRunReturns ==
  cancelled /\ cfg.ShutdownTimeout /\ run # "new"
    ~> run = "returned" \/ (run = "stopping" /\ deadline["run"] = "none")

=============================================================================
